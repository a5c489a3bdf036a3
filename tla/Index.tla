-------------------------------- MODULE Index --------------------------------
(***************************************************************************)
(* Index: the list of table indexes, newest first, and the order in which   *)
(* Index::load meets the index files.  A table index is a record of its     *)
(* file id and its map from keys to hints.                                  *)
(***************************************************************************)
EXTENDS SSTable, Sequences

FileHint == [fileId : Nat, offset : Nat, size : Nat]

\* The tables of the list that know key k.
TablesWith(list, k) == {i \in DOMAIN list : k \in DOMAIN list[i].map}

\* Index::get walks the list from the front and stops at the first hit.
IndexGet(list, k) ==
  LET i == CHOOSE i \in TablesWith(list, k) : \A j \in TablesWith(list, k) : i <= j
  IN  [fileId |-> list[i].fileId, offset |-> list[i].map[k].offset, size |-> list[i].map[k].size]

\* The test of Index::update for a file id that m_map already holds.
Indexed(list, fileId) == \E i \in DOMAIN list : list[i].fileId = fileId

\* Mutant of IndexUpdate: push_back.
IndexUpdateBack(list, table) == Append(list, table)

\* Index::update, m_tableIndexes.push_front.
IndexUpdate(list, table) == <<table>> \o list

\* Mutant of IndexInsert: the hint goes to the table at the front.
IndexInsertFront(list, fileId, k, hint) ==
  IF list = <<>> THEN <<[fileId |-> fileId, map |-> [j \in {k} |-> hint]]>>
  ELSE [list EXCEPT ![1].map = [j \in DOMAIN @ \cup {k} |-> IF j = k THEN hint ELSE @[j]]]

\* Index::insert: one hint for the table with its file id, or for a new table at the
\* front of the list.
IndexInsert(list, fileId, k, hint) ==
  IF ~Indexed(list, fileId)
  THEN IndexUpdate(list, [fileId |-> fileId, map |-> [j \in {k} |-> hint]])
  ELSE [i \in DOMAIN list |->
          IF list[i].fileId # fileId THEN list[i]
          ELSE [list[i] EXCEPT !.map = [j \in DOMAIN @ \cup {k} |-> IF j = k THEN hint ELSE @[j]]]]

\* std::to_string of a file id.
Digits[n \in Nat] == IF n < 10 THEN <<n>> ELSE Append(Digits[n \div 10], n % 10)

\* The order of std::set<fs::path> on "index_<a>.bin" and "index_<b>.bin":
\* character by character, where '.' comes before every digit.
PathLess(a, b) ==
  LET x == Digits[a]
      y == Digits[b]
  IN  \E i \in 1 .. Len(y) :
        /\ \A j \in 1 .. i - 1 : j <= Len(x) /\ x[j] = y[j]
        /\ i <= Len(x) => x[i] < y[i]

\* The hint SSTableIndex::load starts from, and those a turn of its loop may have left.
DefaultHint == [offset |-> 0, size |-> 0]

PreviousHints(map, ks) == IF ks = {} THEN {DefaultHint} ELSE {map[k] : k \in ks}

\* Mutant of LoadTableIndex: the file id is not read back.
LoadTableIndexUnnumbered(s, file) ==
  [fileId |-> 0, map |-> file.map]

\* What SSTableIndex::load makes of the index file of segment s.  An empty file
\* leaves the file id at its default 0.  A file with an id and no entries enters
\* the loop once, since nothing has looked at the end of the stream yet, and
\* inserts the default key with the default hint.
LoadTableIndex(s, file) ==
  IF ~file.written THEN [fileId |-> 0, map |-> [k \in {} |-> 0]]
  ELSE [fileId |-> s,
        map |-> IF DOMAIN file.map = {} THEN [k \in {0} |-> DefaultHint]
                ELSE file.map]

\* The map that load makes of a file that ends inside a dump.  Entries are written in the
\* order of an unordered_map and in four pieces.  When the last piece is a key, or the
\* size of its hint, load inserts the key with the hint of its previous turn.
CutTableIndexes(map) ==
  {[k \in ks |-> map[k]] : ks \in SUBSET DOMAIN map} \cup
  UNION {{[j \in ks \cup {k} |-> IF j = k THEN hint ELSE map[j]]
            : k \in DOMAIN map \ ks, hint \in PreviousHints(map, ks)}
          : ks \in SUBSET DOMAIN map}
=============================================================================
