------------------------------- MODULE MemTable -------------------------------
(***************************************************************************)
(* MemTable: the ordered map from (key, insertion number) to rows with the  *)
(* log behind it, what find and the loops over the map make of it, and the  *)
(* operations on the tables it is saved as: SSTable::merge and              *)
(* Index::insert.  StorageEngine has NewestRows in its place, which this    *)
(* module implements.                                                      *)
(*                                                                         *)
(* All calls are made under the engine's exclusive lock, get excepted,      *)
(* which changes nothing.                                                  *)
(***************************************************************************)
EXTENDS Index

CONSTANTS
  InputRows,   \* the rows that callers put
  MaxPuts,     \* bound: puts and removes in all
  MaxTables,   \* bound: memtables, one after the other
  NoStream     \* no restoreFromLog is running

ASSUME InputAssumption == InputRows \subseteq Row /\ NoStream \notin Seq(Row)

VARIABLES
  map,        \* m_map
  counter,    \* m_counter
  size,       \* m_memorySize
  logOpen,    \* is there a log (m_wal)?
  walBuf,     \* rows in the stream buffer of the log
  walFile,    \* rows in the file of the log
  stream,     \* local of restoreFromLog: the rows not read yet
  \* history
  restored,   \* rows that this memtable got from the log of the one before
  early,      \* rows that were put before the log was opened
  saved,      \* the table made last before a clear
  puts,       \* number of puts and removes
  tables      \* number of memtables

vars == <<map, counter, size, logOpen, walBuf, walFile, stream, restored, early, saved, puts, tables>>

-----------------------------------------------------------------------------
(* The order of the map                                                    *)

InsertKey(id, k) == [id |-> id, key |-> k]

\* Mutant of Before: the rows of a key in the order of their insertion.
BeforeOldestFirst(a, b) == a.key < b.key \/ (a.key = b.key /\ a.id < b.id)

\* InsertKey::Comparator: by key, the newest row of a key first.
Before(a, b) == a.key < b.key \/ (a.key = b.key /\ a.id > b.id)

\* The first of a nonempty set of insertion keys, and the last.
FirstOf(S) == CHOOSE a \in S : \A b \in S : a = b \/ Before(a, b)
LastOf(S)  == CHOOSE a \in S : \A b \in S : a = b \/ Before(b, a)

\* m_map.find(SearchKey(k)): the first element that does not come before k, if
\* its key is k.  The standard allows any element with the key; the libraries
\* return this one.
NotBefore(m, k) == {a \in DOMAIN m : a.key >= k}
Found(m, k) == NotBefore(m, k) # {} /\ FirstOf(NotBefore(m, k)).key = k
Find(m, k) == m[FirstOf(NotBefore(m, k))]

\* What find makes of the map.
Newest(m) == [k \in {j \in KeyIds : Found(m, j)} |-> Find(m, k)]

-----------------------------------------------------------------------------
(* The loops over the map                                                  *)

\* Mutant of Kept: an element is kept when the next one has another key.
KeptLast(m) ==
  {a \in DOMAIN m :
     LET after == {b \in DOMAIN m : Before(a, b)} IN
     after = {} \/ FirstOf(after).key # a.key}

\* The elements that dump, createSortedStringsTable and ...Index do not skip:
\* those with another key than the element before them, npos before the first.
Kept(m) ==
  {a \in DOMAIN m :
     LET prior == {b \in DOMAIN m : Before(b, a)} IN
     IF prior = {} THEN a.key # NPos ELSE LastOf(prior).key # a.key}

\* createSortedStringsTable, and the file that dump writes.
TableOf(m) ==
  [k \in {a.key : a \in Kept(m)} |-> m[CHOOSE a \in Kept(m) : a.key = k]]

\* createSortedStringsTableIndex: the offset adds up the rows kept so far; a
\* hint takes the low 32 bits of it.
TableIndexOf(m) ==
  [k \in {a.key : a \in Kept(m)} |->
     [offset |-> Cardinality(Bytes(m, {a \in Kept(m) : a.key < k})) % OffsetRange,
      size   |-> RowSize(m[CHOOSE a \in Kept(m) : a.key = k])]]

-----------------------------------------------------------------------------
(* SSTable: the rows of a table as a vector                                *)

NthKey(ks, n) == CHOOSE k \in ks : Cardinality({j \in ks : j < k}) = n - 1

RowList(t) == [n \in 1 .. Cardinality(DOMAIN t) |-> t[NthKey(DOMAIN t, n)]]

\* dump, and load of the file into an empty table.  The loop of load looks for the
\* end of the stream after a row, so an empty file gives a row too.
LoadRows(rows) == IF rows = <<>> THEN {<<row>> : row \in RowsFromNothing} ELSE {rows}

\* Mutant of Unique: of a run of equal keys the last row is kept.
UniqueLast(rows) ==
  LET kept == {n \in DOMAIN rows : n = Len(rows) \/ rows[n + 1].key # rows[n].key}
  IN  [n \in 1 .. Cardinality(kept) |-> rows[NthKey(kept, n)]]

\* std::unique by key: of a run of equal keys the first row is kept.
Unique(rows) ==
  LET kept == {n \in DOMAIN rows : n = 1 \/ rows[n - 1].key # rows[n].key}
  IN  [n \in 1 .. Cardinality(kept) |-> rows[NthKey(kept, n)]]

\* lhs.merge(rhs).  The elements that std::merge compares are shared pointers: it
\* takes the row of rhs when its address is the lower one.  left[i] and right[j]
\* are the addresses of the rows, and taken[n] is how many of the first n rows of
\* the result are of lhs.
MergeRows(lhs, rhs, left, right) ==
  LET fromLeft(i, j) == i <= Len(lhs) /\ (j <= Len(rhs) => ~(right[j] < left[i]))
      taken[n \in 0 .. Len(lhs) + Len(rhs)] ==
        IF n = 0 THEN 0
        ELSE LET i == taken[n - 1] IN IF fromLeft(i + 1, n - i) THEN i + 1 ELSE i
  IN  Unique([n \in 1 .. Len(lhs) + Len(rhs) |->
                LET i == taken[n] IN IF i = taken[n - 1] THEN rhs[n - i] ELSE lhs[i]])

\* The orders in which the hints of the keys ks may come.
Orders(ks) == {order \in [1 .. Cardinality(ks) -> ks] : \A k \in ks : \E n \in DOMAIN order : order[n] = k}

\* A table index built by Index::insert, hint by hint.
IndexByInsertion(list, fileId, hints, order) ==
  LET built[n \in 0 .. Len(order)] ==
        IF n = 0 THEN list
        ELSE IndexInsert(built[n - 1], fileId, order[n], hints[order[n]])
  IN  built[Len(order)]

-----------------------------------------------------------------------------
(* Operations                                                              *)

EmptyMap == [a \in {} |-> RemoveRow(0)]

\* Mutant of Inserted: the insertion number is incremented before it is taken.
InsertedNextId(row) ==
  [a \in DOMAIN map \cup {InsertKey(counter + 1, row.key)} |-> IF a \in DOMAIN map THEN map[a] ELSE row]

\* m_map.insert of a row under the next insertion number.
Inserted(row) ==
  [a \in DOMAIN map \cup {InsertKey(counter, row.key)} |-> IF a \in DOMAIN map THEN map[a] ELSE row]

\* Mutant of Log: tombstones are not worth a row of the log.
LogPutsOnly(row) ==
  walBuf' = IF logOpen /\ row.type = "Put" THEN Append(walBuf, row) ELSE walBuf

\* log: nothing without a log.
Log(row) ==
  walBuf' = IF logOpen THEN Append(walBuf, row) ELSE walBuf

\* Mutant of Count: the bytes of the value are counted, not those of the row.
CountData(row) ==
  size' = size + RowSize(row) - HeaderSize

\* m_memorySize += getRowSize.
Count(row) ==
  size' = size + RowSize(row)

\* put in all its forms, and remove.
InsertRow(row) ==
  /\ stream = NoStream
  /\ puts < MaxPuts
  /\ Count(row)
  /\ Log(row)
  /\ map' = Inserted(row)
  /\ counter' = counter + 1
  /\ early' = IF logOpen THEN early ELSE Append(early, row)
  /\ puts' = puts + 1
  /\ UNCHANGED <<logOpen, walFile, stream, restored, saved, tables>>

\* restoreFromLog begins: a fresh memtable, the file of the one before.
BeginRestore ==
  /\ stream = NoStream
  /\ ~logOpen
  /\ counter = 0
  /\ stream' = walFile
  /\ UNCHANGED <<map, counter, size, logOpen, walBuf, walFile, restored, early, saved, puts, tables>>

\* One turn of its loop, which looks for the end of the stream after the row.  A
\* row from the log is not counted and not logged again.
RestoreRow ==
  /\ stream # NoStream
  /\ \E row \in IF stream = <<>> THEN RowsFromNothing ELSE {Head(stream)} :
       /\ map' = Inserted(row)
       /\ restored' = Append(restored, row)
  /\ counter' = counter + 1
  /\ stream' = IF Len(stream) <= 1 THEN NoStream ELSE Tail(stream)
  /\ UNCHANGED <<size, logOpen, walBuf, walFile, early, saved, puts, tables>>

\* setWriteAheadLog, which truncates the file.
SetWriteAheadLog ==
  /\ stream = NoStream
  /\ ~logOpen
  /\ logOpen' = TRUE
  /\ walFile' = <<>>
  /\ UNCHANGED <<map, counter, size, walBuf, stream, restored, early, saved, puts, tables>>

\* clear, which flushes the log and leaves its rows in the file.  Its caller has
\* made a table of the memtable before.
Clear ==
  /\ stream = NoStream
  /\ logOpen
  /\ saved' = TableOf(map)
  /\ map' = EmptyMap
  /\ counter' = 0
  /\ size' = 0
  /\ walFile' = walFile \o walBuf
  /\ walBuf' = <<>>
  /\ UNCHANGED <<restored, early, logOpen, stream, puts, tables>>

\* The memtable is destroyed or its process dies, and another one is made: of the
\* rows that were not flushed a prefix is in the file.
Renew ==
  /\ tables < MaxTables
  /\ \E n \in 0 .. Len(walBuf) : walFile' = walFile \o SubSeq(walBuf, 1, n)
  /\ map' = EmptyMap
  /\ counter' = 0
  /\ size' = 0
  /\ logOpen' = FALSE
  /\ walBuf' = <<>>
  /\ stream' = NoStream
  /\ restored' = <<>>
  /\ early' = <<>>
  /\ saved' = EmptyTable
  /\ tables' = tables + 1
  /\ UNCHANGED puts

Init ==
  /\ map = EmptyMap
  /\ counter = 0
  /\ size = 0
  /\ logOpen = FALSE
  /\ walBuf = <<>>
  /\ walFile = <<>>
  /\ stream = NoStream
  /\ restored = <<>>
  /\ early = <<>>
  /\ saved = EmptyTable
  /\ puts = 0
  /\ tables = 1

Next ==
  \/ \E row \in InputRows : InsertRow(row)
  \/ BeginRestore
  \/ RestoreRow
  \/ SetWriteAheadLog
  \/ Clear
  \/ Renew

Spec == Init /\ [][Next]_vars

-----------------------------------------------------------------------------
(* Properties                                                              *)

\* Every variable has its type.
TypeOK ==
  /\ DOMAIN map \subseteq [id : 0 .. counter - 1, key : KeyIds]
  /\ \A a \in DOMAIN map : map[a] \in Row /\ map[a].key = a.key
  /\ counter \in Nat
  /\ size \in Nat
  /\ logOpen \in BOOLEAN
  /\ walBuf \in Seq(Row) /\ walFile \in Seq(Row)
  /\ stream = NoStream \/ stream \in Seq(Row)
  /\ restored \in Seq(Row) /\ early \in Seq(Row)
  /\ IsTable(saved)
  /\ puts \in Nat /\ tables \in Nat

Abstract == INSTANCE NewestRows WITH rows <- Newest(map), bytes <- size

\* What StorageEngine has for a memtable, a function from keys to their newest
\* rows, is what the ordered map with its insertion numbers does when it is
\* searched: find never meets an older row of the key.
ImplementsNewestRows == Abstract!Spec

\* The loop that dump, createSortedStringsTable and ...Index share saves the rows
\* that find finds, one per key, and loses the key npos only where StorageEngine
\* says so.
SavedAsFound == TableOf(map) = CreateSortedStringsTable(Newest(map))

\* What a restart that had the whole log, and the rows restored before it, would
\* find for a key is what the memtable holds: put logs before it inserts, and a
\* clear takes no row out of the log that is still needed.
LogCoversMap ==
  LET replayed == Replay(restored \o early \o (IF logOpen THEN walFile \o walBuf ELSE <<>>)) IN
  \A k \in DOMAIN Newest(map) : k \in DOMAIN replayed /\ replayed[k] = Newest(map)[k]

\* A segment is no larger than what getApproximateSize said and the rows restored
\* from a log, which it does not count: the limit that starts a snapshot bounds
\* the segments of a process without those.  (The rows restored, one after the other,
\* are a file too: their keys there are their numbers.)
SizeCoversSegment == FileSize(TableOf(map)) <= size + FileSize(restored)

\* createSortedStringsTableIndex and Index::insert give an index through which the
\* files written by dump are read as the memtable was, in whatever order the hints
\* come: the rows of the newer table, and for its other keys those of the table saved
\* before, as long as 32 bits hold the offsets.
InsertedHintsRead ==
  LET older == IF saved = EmptyTable THEN <<>> ELSE IndexUpdate(<<>>, [fileId |-> 0, map |-> SSTableIndex(saved)])
      newer == TableOf(map)
  IN  Addressable(newer) /\ Addressable(saved) =>
        \A order \in Orders(DOMAIN newer), k \in DOMAIN newer \cup DOMAIN saved :
          LET hint == IndexGet(IndexByInsertion(older, 1, TableIndexOf(map), order), k) IN
          IF k \in DOMAIN newer
          THEN hint.fileId = 1 /\ ReadRows(newer, hint) = {newer[k]}
          ELSE hint.fileId = 0 /\ ReadRows(saved, hint) = {saved[k]}

\* Merging the newer table with the older one read back from its file loses no key,
\* wherever the allocator has put the rows.  When addresses rise with the keys, and
\* for a key from the newer to the older table, the result is the newest row of
\* each key in key order; in general it may hold two rows of a key.
MergeKeepsNewest ==
  LET lhs == RowList(TableOf(map))
      n   == Len(lhs)
      keys(rows) == {rows[i].key : i \in DOMAIN rows}
  IN  \A rhs \in LoadRows(RowList(saved)) :
        LET both == lhs \o rhs IN
        \A addr \in {f \in [DOMAIN both -> DOMAIN both] : \A i, j \in DOMAIN both : i # j => f[i] # f[j]} :
          LET merged  == MergeRows(lhs, rhs, addr, [j \in DOMAIN rhs |-> addr[n + j]])
              ordered == \A i, j \in DOMAIN both :
                           \/ both[i].key < both[j].key
                           \/ both[i].key = both[j].key /\ i < j
                           => addr[i] < addr[j]
          IN  /\ keys(merged) = keys(both)
              /\ ordered => merged = RowList([k \in keys(both) |->
                                IF k \in keys(lhs) THEN TableOf(map)[k]
                                ELSE rhs[CHOOSE j \in DOMAIN rhs : rhs[j].key = k]])
=============================================================================
