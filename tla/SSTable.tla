------------------------------- MODULE SSTable -------------------------------
(***************************************************************************)
(* Sorted string tables and their files.  A table is a function from key    *)
(* ids to rows; its rows stand in the file in the order of their keys.  The *)
(* offset of a row is the number of bytes that stand before it.             *)
(***************************************************************************)
EXTENDS SSTableRow, FiniteSets

CONSTANT OffsetRange   \* 2^32: the offset of a row in a segment file is a uint32_t

ASSUME OffsetAssumption == OffsetRange \in Nat \ {0}

\* Tables as functions from their keys to rows.
IsTable(t) == DOMAIN t \subseteq KeyIds /\ t \in [DOMAIN t -> Row]

EmptyTable == [k \in {} |-> RemoveRow(0)]

\* Mutant of Replay: std::map::insert keeps the first row of a key.
ReplayKeepingFirst(rows) ==
  [k \in {rows[i].key : i \in DOMAIN rows} |->
     rows[CHOOSE i \in DOMAIN rows :
            rows[i].key = k /\ \A j \in DOMAIN rows : rows[j].key = k => j >= i]]

\* The map that inserting the rows one after the other gives: the memtable
\* orders the rows of a key by falling insertion number and finds the first.
Replay(rows) ==
  [k \in {rows[i].key : i \in DOMAIN rows} |->
     rows[CHOOSE i \in DOMAIN rows :
            rows[i].key = k /\ \A j \in DOMAIN rows : rows[j].key = k => j <= i]]

\* MemTable::put, the insertion into m_map.
Insert(map, row) ==
  [k \in DOMAIN map \cup {row.key} |-> IF k = row.key THEN row ELSE map[k]]

\* Mutant of CreateSortedStringsTable: tombstones are not worth a row on disk.
TableWithoutTombstones(map) == [k \in {j \in DOMAIN map : map[j].type = "Put"} |-> map[k]]

\* MemTable::createSortedStringsTable and MemTable::dump: the newest row of each
\* key in key order.  Both loops start with prevKeyId = npos, so a table whose
\* first key is npos loses it; npos being the largest, it is then the only one.
CreateSortedStringsTable(map) == IF DOMAIN map = {NPos} THEN EmptyTable ELSE map

\* The bytes that the rows of the keys ks occupy in the file of table t.
Bytes(t, ks) ==
  {b \in ks \X (1 .. HeaderSize + ValueSize) : b[2] <= RowSize(t[b[1]])}

Offset(t, k) == Cardinality(Bytes(t, {j \in DOMAIN t : j < k}))

FileSize(t) == Cardinality(Bytes(t, DOMAIN t))

Hints == [offset : Nat, size : Nat]

IsTableIndex(m) == DOMAIN m \subseteq KeyIds /\ m \in [DOMAIN m -> Hints]

\* Mutant of SSTableIndex: the offset advances by one byte too few per row.
SSTableIndexShort(t) ==
  [k \in DOMAIN t |-> [offset |-> (Offset(t, k) - Cardinality({j \in DOMAIN t : j < k})) % OffsetRange,
                       size   |-> RowSize(t[k])]]

\* SSTableIndex(fileId, table): where each row of the table starts, and its size.
\* The offset is summed up in 32 bits, whatever the size of the table.
SSTableIndex(t) ==
  [k \in DOMAIN t |-> [offset |-> Offset(t, k) % OffsetRange, size |-> RowSize(t[k])]]

\* A table every row of which an offset can name.
Addressable(t) == \A k \in DOMAIN t : Offset(t, k) < OffsetRange

\* The rows that the first size bytes of a row can give; the key is among them.
RowsFromPrefix(row, size) ==
  IF RowSize(row) <= size THEN {row}
  ELSE {[row EXCEPT !.data = d, !.checksum = ZeroSum] : d \in {GarbageData, row.data}}

\* StorageEngine::findOnDisk, lines 166-176: the rows that reading hint.size
\* bytes at hint.offset of a segment file and deserialising them can give.
\* Bytes beyond the end of the file read as zeros.
ReadRows(t, hint) ==
  LET start == {k \in DOMAIN t : Offset(t, k) = hint.offset} IN
  IF hint.size = 0 THEN RowsFromNothing
  ELSE IF hint.offset >= FileSize(t) THEN {row \in RowsFromNothing : row.type = "Put"}
  ELSE IF start = {} THEN RowsFromGarbage
  ELSE UNION {RowsFromPrefix(t[k], hint.size) : k \in start}
=============================================================================
