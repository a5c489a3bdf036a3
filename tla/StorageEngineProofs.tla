------------------------- MODULE StorageEngineProofs -------------------------
(***************************************************************************)
(* Type correctness of the engine through any number of sessions, shutdowns *)
(* and crashes.                                                             *)
(***************************************************************************)
EXTENDS StorageEngine, SSTableProofs

-----------------------------------------------------------------------------
(* Helpers of the engine                                                   *)

\* A restored memtable is a table.
LEMMA RestoreType ==
  ASSUME NEW file, file = NoFile \/ file \in Seq(Row), NEW t \in RestoreFromLog(file)
  PROVE  IsTable(t)
<1>1. CASE file = NoFile
  BY <1>1, EmptyTableType DEF RestoreFromLog
<1>2. CASE file # NoFile /\ file = <<>>
  BY <1>2, FromNothingType, EmptyTableType, InsertType DEF RestoreFromLog
<1>3. CASE file # NoFile /\ file # <<>>
  <2>1. file \in Seq(Row) /\ t = Replay(file)
    BY <1>3 DEF RestoreFromLog
  <2> QED
    BY <2>1, ReplayType
<1> QED
  BY <1>1, <1>2, <1>3

LEMMA ClientRowsAreRows == ClientRows \subseteq Row
<1>1. \A k \in Keys : k \in KeyIds
  BY KeysAssumption DEF KeyIds
<1> QED
  BY <1>1, PutRowType, RemoveRowType DEF ClientRows

\* The history after the rows of a log that clients wrote.
LEMMA ApplyRowsType ==
  ASSUME NEW f \in [Keys -> Values \cup {NotFound}], NEW rows \in Seq(ClientRows)
  PROVE  ApplyRows(f, rows) \in [Keys -> Values \cup {NotFound}]
<1> DEFINE m == Replay(rows)
<1>1. rows \in Seq(Row)
  BY ClientRowsAreRows, SeqMonotonic
<1>2. ASSUME NEW k \in DOMAIN m
      PROVE  m[k].type = "Remove" \/ m[k].data[2] \in Values
  <2>1. PICK i \in DOMAIN rows : m[k] = rows[i]
    BY <1>1, ReplayLast
  <2>2. rows[i] \in ClientRows
    BY <2>1, LenProperties
  <2>3. CASE \E j \in Keys, v \in Values : rows[i] = PutRow(j, v)
    <3>1. PICK j \in Keys, v \in Values : rows[i] = PutRow(j, v)
      BY <2>3
    <3>2. rows[i].data = <<CompressionType, v>>
      BY <3>1, PutRowType
    <3> QED
      BY <2>1, <3>2
  <2>4. CASE \E j \in Keys : rows[i] = RemoveRow(j)
    <3>1. \A j \in Keys : j \in KeyIds
      BY KeysAssumption DEF KeyIds
    <3> QED
      BY <2>1, <2>4, <3>1, RemoveRowType
  <2> QED
    BY <2>2, <2>3, <2>4 DEF ClientRows
<1> HIDE DEF m
<1>3. \A k \in Keys : (IF k \notin DOMAIN m THEN f[k]
                       ELSE IF m[k].type = "Remove" THEN NotFound ELSE m[k].data[2]) \in Values \cup {NotFound}
  BY <1>2
<1> QED
  BY <1>3 DEF ApplyRows, m

LEMMA RowsFromCutType ==
  ASSUME NEW row \in Row, NEW cut \in RowsFromCut(row)
  PROVE  cut \in Row
<1>1. EmptyData \in Data /\ GarbageData \in Data /\ row.data \in Data
  BY DEF EmptyData, Data, Row
<1>2. CutIds(row.key) \subseteq KeyIds
  BY DEF CutIds
<1>3. ASSUME NEW k \in CutIds(row.key), NEW d \in Data,
             cut = [row EXCEPT !.key = k, !.data = d, !.checksum = ZeroSum]
      PROVE  cut \in Row
  BY <1>2, <1>3 DEF Row, Checksums
<1>4. ASSUME NEW d \in Data, cut = [row EXCEPT !.data = d, !.checksum = ZeroSum]
      PROVE  cut \in Row
  BY <1>4 DEF Row, Checksums
<1>5. \/ \E id \in CutIds(row.key) :
           cut = [row EXCEPT !.key = id, !.data = EmptyData, !.checksum = ZeroSum]
      \/ \E d \in {EmptyData, GarbageData, row.data} : cut = [row EXCEPT !.data = d, !.checksum = ZeroSum]
  BY Zenon DEF RowsFromCut
<1> QED
  BY <1>1, <1>3, <1>4, <1>5, Zenon

-----------------------------------------------------------------------------
(* Files cut by a crash                                                    *)

\* A row that was cut has lost its checksum.
LEMMA CutUnsummed ==
  ASSUME NEW row \in Row, NEW cut \in RowsFromCut(row)
  PROVE  cut.checksum = ZeroSum
<1>1. ASSUME NEW id, NEW d, cut = [row EXCEPT !.key = id, !.data = d, !.checksum = ZeroSum]
      PROVE  cut.checksum = ZeroSum
  BY <1>1 DEF Row
<1>2. ASSUME NEW d, cut = [row EXCEPT !.data = d, !.checksum = ZeroSum]
      PROVE  cut.checksum = ZeroSum
  BY <1>2 DEF Row
<1>3. \/ \E id \in CutIds(row.key) :
           cut = [row EXCEPT !.key = id, !.data = EmptyData, !.checksum = ZeroSum]
      \/ \E d \in {EmptyData, GarbageData, row.data} : cut = [row EXCEPT !.data = d, !.checksum = ZeroSum]
  BY Zenon DEF RowsFromCut
<1> QED
  BY <1>1, <1>2, <1>3, Zenon

\* A segment file that was cut has rows of the table, and what is left of one more.
LEMMA TableCut ==
  ASSUME IsTable(snapshot.table), NEW t \in TablesAtCrash
  PROVE  /\ IsTable(t)
         /\ \A k \in DOMAIN t :
              /\ k \in DOMAIN snapshot.table
              /\ t[k] = snapshot.table[k] \/ t[k] \in RowsFromCut(snapshot.table[k])
<1> DEFINE full == snapshot.table
<1>1. ASSUME NEW n
      PROVE  /\ DOMAIN RowsBefore(n) \subseteq DOMAIN full
             /\ \A k \in DOMAIN RowsBefore(n) : RowsBefore(n)[k] = full[k]
             /\ RowsBefore(n) = [k \in DOMAIN RowsBefore(n) |-> full[k]]
  BY DEF RowsBefore
<1>2. CASE \E n : t = RowsBefore(n)
  <2>1. PICK n : t = RowsBefore(n)
    BY <1>2
  <2> QED
    BY <1>1, <2>1 DEF IsTable
<1>3. ASSUME NEW k \in DOMAIN full, NEW row \in RowsFromCut(full[k]), t = Write(RowsBefore(k), k, row)
      PROVE  /\ IsTable(t)
             /\ \A j \in DOMAIN t :
                  j \in DOMAIN full /\ (t[j] = full[j] \/ t[j] \in RowsFromCut(full[j]))
  <2>1. /\ DOMAIN t = DOMAIN RowsBefore(k) \cup {k}
        /\ \A j \in DOMAIN t : t[j] = IF j = k THEN row ELSE RowsBefore(k)[j]
        /\ t = [j \in DOMAIN t |-> t[j]]
    BY <1>3 DEF Write
  <2>2. full[k] \in Row /\ DOMAIN full \subseteq KeyIds /\ \A j \in DOMAIN full : full[j] \in Row
    BY DEF IsTable
  <2>3. row \in Row
    BY <2>2, RowsFromCutType
  <2>4. DOMAIN t \subseteq DOMAIN full
    BY <1>1, <2>1
  <2>5. ASSUME NEW j \in DOMAIN t PROVE t[j] \in Row
    BY <1>1, <2>1, <2>2, <2>3, <2>4
  <2>6. IsTable(t)
    BY <2>1, <2>2, <2>4, <2>5 DEF IsTable
  <2>7. ASSUME NEW j \in DOMAIN t PROVE t[j] = full[j] \/ t[j] \in RowsFromCut(full[j])
    BY <1>1, <2>1
  <2> QED
    BY <2>4, <2>6, <2>7
<1>4. \/ \E n : t = RowsBefore(n)
      \/ \E k \in DOMAIN full : \E row \in RowsFromCut(full[k]) : t = Write(RowsBefore(k), k, row)
  BY Zenon DEF TablesAtCrash
<1> QED
  BY <1>2, <1>3, <1>4, Zenon

\* An index file that was cut knows the hints of the table, and at most one key with
\* another hint: the default, or that of another key.
LEMMA CutTableIndex ==
  ASSUME NEW map, DOMAIN map \subseteq KeyIds, NEW m \in CutTableIndexes(map)
  PROVE  /\ DOMAIN m \subseteq DOMAIN map
         /\ m = [k \in DOMAIN m |-> m[k]]
         /\ \A k \in DOMAIN m : m[k] = DefaultHint \/ \E j \in DOMAIN map : m[k] = map[j]
         /\ \E d \in KeyIds : \A k \in DOMAIN m : k # d => m[k] = map[k]
<1>1. ASSUME NEW ks \in SUBSET DOMAIN map, m = [k \in ks |-> map[k]]
      PROVE  /\ DOMAIN m \subseteq DOMAIN map
             /\ m = [k \in DOMAIN m |-> m[k]]
             /\ \A k \in DOMAIN m : m[k] = DefaultHint \/ \E j \in DOMAIN map : m[k] = map[j]
             /\ \E d \in KeyIds : \A k \in DOMAIN m : k # d => m[k] = map[k]
  <2>1. 0 \in KeyIds
    BY KeysAssumption DEF KeyIds
  <2>2. DOMAIN m = ks /\ \A k \in ks : m[k] = map[k]
    BY <1>1
  <2> QED
    BY <1>1, <2>1, <2>2
<1>2. ASSUME NEW ks \in SUBSET DOMAIN map, NEW d \in DOMAIN map \ ks, NEW hint \in PreviousHints(map, ks),
             m = [j \in ks \cup {d} |-> IF j = d THEN hint ELSE map[j]]
      PROVE  /\ DOMAIN m \subseteq DOMAIN map
             /\ m = [k \in DOMAIN m |-> m[k]]
             /\ \A k \in DOMAIN m : m[k] = DefaultHint \/ \E j \in DOMAIN map : m[k] = map[j]
             /\ \E e \in KeyIds : \A k \in DOMAIN m : k # e => m[k] = map[k]
  <2>1. DOMAIN m = ks \cup {d} /\ m[d] = hint /\ \A k \in ks : m[k] = map[k]
    BY <1>2
  <2>2. hint = DefaultHint \/ \E j \in DOMAIN map : hint = map[j]
    BY DEF PreviousHints
  <2>3. m = [k \in DOMAIN m |-> m[k]]
    BY <1>2
  <2>4. \A k \in DOMAIN m : m[k] = DefaultHint \/ \E j \in DOMAIN map : m[k] = map[j]
    BY <2>1, <2>2
  <2>5. d \in KeyIds /\ \A k \in DOMAIN m : k # d => m[k] = map[k]
    BY <2>1
  <2> QED
    BY <2>1, <2>3, <2>4, <2>5
<1>3. \/ \E ks \in SUBSET DOMAIN map : m = [k \in ks |-> map[k]]
      \/ \E ks \in SUBSET DOMAIN map : \E d \in DOMAIN map \ ks, hint \in PreviousHints(map, ks) :
           m = [j \in ks \cup {d} |-> IF j = d THEN hint ELSE map[j]]
  <2> DEFINE Cut(ks) == {[j \in ks \cup {d} |-> IF j = d THEN hint ELSE map[j]]
                          : d \in DOMAIN map \ ks, hint \in PreviousHints(map, ks)}
  <2>1. \A ks : m \in Cut(ks) => \E d \in DOMAIN map \ ks, hint \in PreviousHints(map, ks) :
                                   m = [j \in ks \cup {d} |-> IF j = d THEN hint ELSE map[j]]
    OBVIOUS
  <2>2. CutTableIndexes(map) = {[k \in ks |-> map[k]] : ks \in SUBSET DOMAIN map}
                                 \cup UNION {Cut(ks) : ks \in SUBSET DOMAIN map}
    BY DEF CutTableIndexes
  <2> HIDE DEF Cut
  <2>3. \/ \E ks \in SUBSET DOMAIN map : m = [k \in ks |-> map[k]]
        \/ \E ks \in SUBSET DOMAIN map : m \in Cut(ks)
    BY <2>2, Zenon
  <2>4. ASSUME NEW ks \in SUBSET DOMAIN map, m \in Cut(ks)
        PROVE  \E d \in DOMAIN map \ ks, hint \in PreviousHints(map, ks) :
                 m = [j \in ks \cup {d} |-> IF j = d THEN hint ELSE map[j]]
    BY <2>1, <2>4
  <2> QED
    BY <2>3, <2>4
<1>4. CASE \E ks \in SUBSET DOMAIN map : m = [k \in ks |-> map[k]]
  <2>1. PICK ks \in SUBSET DOMAIN map : m = [k \in ks |-> map[k]]
    BY <1>4
  <2> QED
    BY ONLY <1>1, <2>1, Zenon
<1>5. CASE \E ks \in SUBSET DOMAIN map : \E d \in DOMAIN map \ ks, hint \in PreviousHints(map, ks) :
             m = [j \in ks \cup {d} |-> IF j = d THEN hint ELSE map[j]]
  <2>1. PICK ks \in SUBSET DOMAIN map : \E d \in DOMAIN map \ ks, hint \in PreviousHints(map, ks) :
             m = [j \in ks \cup {d} |-> IF j = d THEN hint ELSE map[j]]
    BY <1>5
  <2>2. PICK d \in DOMAIN map \ ks, hint \in PreviousHints(map, ks) :
             m = [j \in ks \cup {d} |-> IF j = d THEN hint ELSE map[j]]
    BY <2>1
  <2> QED
    BY ONLY <1>2, <2>2, Zenon
<1> QED
  BY ONLY <1>3, <1>4, <1>5, Zenon

LEMMA CutTableIndexType ==
  ASSUME NEW map, IsTableIndex(map), NEW m \in CutTableIndexes(map)
  PROVE  IsTableIndex(m)
<1>1. DOMAIN map \subseteq KeyIds /\ \A j \in DOMAIN map : map[j] \in Hints
  BY DEF IsTableIndex
<1>2. DefaultHint \in Hints
  BY DEF DefaultHint, Hints
<1>3. /\ DOMAIN m \subseteq DOMAIN map
      /\ m = [k \in DOMAIN m |-> m[k]]
      /\ \A k \in DOMAIN m : m[k] = DefaultHint \/ \E j \in DOMAIN map : m[k] = map[j]
  BY <1>1, CutTableIndex
<1>4. \A k \in DOMAIN m : m[k] \in Hints
  BY <1>1, <1>2, <1>3
<1> QED
  BY <1>1, <1>3, <1>4 DEF IsTableIndex

LEMMA IndexFileCut ==
  ASSUME indexFile' \in IndexAtCrash
  PROVE  \/ indexFile' = indexFile
         \/ /\ pc = "indexDump"
            /\ \E m \in CutTableIndexes(SSTableIndex(snapshot.table)) :
                 indexFile' = Write(indexFile, snapshot.segment, [written |-> TRUE, map |-> m])
BY Zenon DEF IndexAtCrash

-----------------------------------------------------------------------------
(* The type invariant                                                      *)

\* The log is open for writing whenever rows can be logged: a row waits in the
\* buffer of a file that exists.
LogIsOpen == IF pc \in {"closed", "openLog"} THEN walBuf = <<>> ELSE walFile # NoFile

TypeInv == TypeOK /\ LogIsOpen

LEMMA TypeInit == Init => TypeInv
<1> SUFFICES ASSUME Init PROVE TypeInv
  OBVIOUS
<1>1. IsTable(EmptyTable)
  BY EmptyTableType
<1>2. IdleReader \in ReaderState
  BY KeysAssumption DEF IdleReader, ReaderState, ReaderPhases, KeyIds, NoHint, FileHint, Results
<1>3. readers \in [Readers -> ReaderState]
  BY <1>2 DEF Init
<1>4. DOMAIN NoFiles = {}
  BY DEF NoFiles
<1>5. index \in Seq({index[i] : i \in DOMAIN index}) /\ DOMAIN index = {}
  BY DEF Init
<1>6. walBuf \in Seq(ClientRows)
  BY DEF Init
<1> QED
  BY <1>1, <1>3, <1>4, <1>5, <1>6 DEF Init, TypeInv, TypeOK, LogIsOpen, Phases, NoSnapshot

\* A fresh process.
LEMMA MemoryLostType ==
  ASSUME TypeOK, MemoryLost
  PROVE  /\ pc' = "closed"
         /\ IsTable(memTable')
         /\ memorySize' \in Nat
         /\ segmentId' \in Nat
         /\ index' \in Seq({index'[i] : i \in DOMAIN index'})
         /\ \A i \in DOMAIN index' : index'[i].fileId \in Nat /\ IsTableIndex(index'[i].map)
         /\ bloomFilter' \subseteq Nat
         /\ walBuf' = <<>> /\ walBuf' \in Seq(ClientRows)
         /\ snapshot'.segment \in Nat /\ IsTable(snapshot'.table)
         /\ toLoad' = {}
         /\ readers' \in [Readers -> ReaderState]
<1>1. IsTable(EmptyTable)
  BY EmptyTableType
<1>2. IdleReader \in ReaderState
  BY KeysAssumption DEF IdleReader, ReaderState, ReaderPhases, KeyIds, NoHint, FileHint, Results
<1>3. readers' \in [Readers -> ReaderState]
  BY <1>2 DEF MemoryLost
<1>4. index' = <<>> /\ DOMAIN index' = {}
  BY DEF MemoryLost
<1>5. index' \in Seq({index'[i] : i \in DOMAIN index'})
  BY <1>4
<1>6. walBuf' = <<>> /\ walBuf' \in Seq(ClientRows)
  BY DEF MemoryLost
<1>7. snapshot'.segment = 0 /\ snapshot'.table = EmptyTable
  BY DEF MemoryLost, NoSnapshot
<1> QED
  BY <1>1, <1>3, <1>4, <1>5, <1>6, <1>7 DEF MemoryLost

\* Index::update puts a table index in front of the list.
LEMMA IndexPushed ==
  ASSUME TypeOK, NEW table, index' = IndexUpdate(index, table)
  PROVE  /\ DOMAIN index = 1 .. Len(index) /\ Len(index) \in Nat
         /\ DOMAIN index' = 1 .. 1 + Len(index)
         /\ index'[1] = table
         /\ \A i \in DOMAIN index : index'[i + 1] = index[i]
         /\ \A i \in DOMAIN index' : i = 1 \/ (i - 1 \in DOMAIN index /\ index'[i] = index[i - 1])
         /\ index' \in Seq({index'[i] : i \in DOMAIN index'})
<1> DEFINE R == {index[i] : i \in DOMAIN index} \cup {table}
<1>1. index \in Seq(R) /\ <<table>> \in Seq(R)
  BY SeqMonotonic DEF TypeOK
<1>2. index' = <<table>> \o index
  BY DEF IndexUpdate
<1>3. /\ index' \in Seq(R)
      /\ Len(index') = 1 + Len(index)
      /\ \A i \in 1 .. 1 + Len(index) : index'[i] = IF i <= 1 THEN table ELSE index[i - 1]
  BY <1>1, <1>2, ConcatProperties
<1>4. DOMAIN index = 1 .. Len(index) /\ Len(index) \in Nat /\ DOMAIN index' = 1 .. 1 + Len(index)
  BY <1>1, <1>3, LenProperties
<1>5. index' \in Seq({index'[i] : i \in DOMAIN index'})
  <2>1. index' = [i \in 1 .. Len(index') |-> index'[i]] /\ Len(index') \in Nat
    BY <1>3, LenProperties
  <2> QED
    BY <1>3, <1>4, <2>1
<1>6. index'[1] = table /\ \A i \in DOMAIN index : index'[i + 1] = index[i]
  BY <1>3, <1>4
<1>7. \A i \in DOMAIN index' : i = 1 \/ (i - 1 \in DOMAIN index /\ index'[i] = index[i - 1])
  BY <1>3, <1>4
<1> QED
  BY <1>4, <1>5, <1>6, <1>7

\* A typed entry in front of a typed list.
LEMMA IndexUpdateType ==
  ASSUME TypeOK, NEW table, table.fileId \in Nat, IsTableIndex(table.map),
         index' = IndexUpdate(index, table)
  PROVE  /\ index' \in Seq({index'[i] : i \in DOMAIN index'})
         /\ \A i \in DOMAIN index' : index'[i].fileId \in Nat /\ IsTableIndex(index'[i].map)
<1>1. /\ index' \in Seq({index'[i] : i \in DOMAIN index'})
      /\ index'[1] = table
      /\ \A i \in DOMAIN index' : i = 1 \/ (i - 1 \in DOMAIN index /\ index'[i] = index[i - 1])
  BY IndexPushed, Zenon
<1> QED
  BY <1>1 DEF TypeOK

\* Opening.
LEMMA TypeOpen ==
  ASSUME TypeInv, Open
  PROVE  TypeInv'
<1> USE DEF memoryVars, diskVars, logVars, localVars, boundVars
<1>0. TypeOK /\ LogIsOpen
  BY DEF TypeInv
<1>1. CASE OpenRestore
  <2>1. IsTable(memTable')
    BY <1>0, <1>1, RestoreType DEF OpenRestore, TypeOK
  <2> QED
    BY <1>0, <1>1, <2>1 DEF OpenRestore, TypeInv, TypeOK, LogIsOpen, Phases, OpenPhases
<1>2. CASE OpenLog
  <2>1. walFile' \in Seq(Row) /\ walFile' # NoFile
    <3>1. walFile' = <<>>
      BY <1>2 DEF OpenLog
    <3>2. <<>> \in Seq(Row)
      BY EmptySeq
    <3>3. NoFile \notin Seq(Row)
      BY NoFileAssumption
    <3> QED
      BY <3>1, <3>2, <3>3, Zenon
  <2> QED
    BY <1>0, <1>2, <2>1 DEF OpenLog, TypeInv, TypeOK, LogIsOpen, Phases, OpenPhases
<1>3. CASE OpenLoadIndex
  <2> DEFINE table(y) == LoadTableIndex(y, indexFile[y])
  <2>1. PICK x \in toLoad :
          IF Indexed(index, table(x).fileId)
          THEN pc' = "failed" /\ toLoad' = {} /\ UNCHANGED index
          ELSE /\ index' = IndexUpdate(index, table(x))
               /\ toLoad' = toLoad \ {x}
               /\ UNCHANGED pc
    BY <1>3, Zenon DEF OpenLoadIndex
  <2>2. table(x).fileId \in Nat /\ IsTableIndex(table(x).map)
    <3>1. x \in Nat /\ indexFile[x].written \in BOOLEAN /\ IsTableIndex(indexFile[x].map)
      BY <1>0 DEF TypeOK
    <3>2. IsTableIndex([k \in {} |-> 0])
      BY DEF IsTableIndex
    <3>3. IsTableIndex([k \in {0} |-> [offset |-> 0, size |-> 0]])
      BY KeysAssumption DEF IsTableIndex, KeyIds, Hints
    <3> QED
      BY <3>1, <3>2, <3>3 DEF LoadTableIndex
  <2>3. /\ index' \in Seq({index'[i] : i \in DOMAIN index'})
        /\ \A i \in DOMAIN index' : index'[i].fileId \in Nat /\ IsTableIndex(index'[i].map)
    <3>1. CASE UNCHANGED index
      BY <1>0, <3>1 DEF TypeOK
    <3>2. CASE index' = IndexUpdate(index, table(x))
      <4> HIDE DEF table
      <4> QED
        BY <1>0, <2>2, <3>2, IndexUpdateType
    <3> QED
      BY <2>1, <3>1, <3>2
  <2>4. toLoad' \subseteq toLoad /\ pc' \in {"failed", pc} /\ pc = "openIndex"
    BY <1>3, <2>1, Zenon DEF OpenLoadIndex
  <2> HIDE DEF table
  <2>5. UNCHANGED <<memTable, memorySize, segmentId, bloomFilter, diskVars, logVars, snapshot, readers, boundVars>>
    BY <1>3, Zenon DEF OpenLoadIndex
  <2> QED
    BY <1>0, <2>3, <2>4, <2>5 DEF TypeInv, TypeOK, LogIsOpen, Phases, OpenPhases
<1>4. CASE OpenBloom
  BY <1>0, <1>4 DEF OpenBloom, TypeInv, TypeOK, LogIsOpen, Phases
<1> QED
  BY <1>1, <1>2, <1>3, <1>4 DEF Open

\* put and remove.
LEMMA TypeInsertRow ==
  ASSUME TypeInv, NEW row \in ClientRows, NEW x \in Values \cup {NotFound},
         InsertRow(row, x), row.key \in Keys, pc' \in {"snapshot", "ready"}
  PROVE  TypeInv'
<1> USE DEF diskVars, localVars
<1>0. TypeOK /\ LogIsOpen
  BY DEF TypeInv
<1>1. row \in Row
  BY ClientRowsAreRows
<1>2. IsTable(memTable')
  BY <1>0, <1>1, InsertType DEF InsertRow, TypeOK
<1>3. memorySize' \in Nat
  BY <1>0, RowSizeType, SizesAssumption DEF InsertRow, TypeOK
<1>4. walBuf' \in Seq(ClientRows)
  BY <1>0 DEF InsertRow, TypeOK
<1>5. kv' \in [Keys -> Values \cup {NotFound}]
  BY <1>0 DEF InsertRow, TypeOK
<1>6. readers' \in [Readers -> ReaderState]
  <2>1. ASSUME NEW r \in Readers
        PROVE  [readers[r] EXCEPT !.seen = @ \cup {x}] \in ReaderState
    <3>1. readers[r] \in ReaderState /\ x \in Results
      BY <1>0 DEF TypeOK, Results
    <3> QED
      BY <3>1 DEF ReaderState
  <2>2. readers' = Seen(row.key, x)
    BY DEF InsertRow
  <2> QED
    BY <1>0, <2>1, <2>2 DEF Seen, TypeOK
<1>7. ops' \in Nat
  BY <1>0 DEF InsertRow, TypeOK
<1> QED
  BY <1>0, <1>2, <1>3, <1>4, <1>5, <1>6, <1>7 DEF InsertRow, TypeInv, TypeOK, LogIsOpen, Phases, SnapshotPhases

LEMMA TypeClientWrite ==
  ASSUME TypeInv, ClientWrite
  PROVE  TypeInv'
<1>0. pc = "ready"
  BY DEF ClientWrite, Put, Remove, InsertRow
<1>1. ASSUME NEW k \in Keys, NEW v \in Values, Put(k, v)
      PROVE  TypeInv'
  <2>1. PutRow(k, v) \in ClientRows /\ PutRow(k, v).key = k
    BY PutRowType DEF ClientRows
  <2> QED
    BY <1>1, <2>1, TypeInsertRow DEF Put
<1>2. ASSUME NEW k \in RemoveKeys, Remove(k)
      PROVE  TypeInv'
  <2>1. k \in Keys /\ k \in KeyIds
    BY EngineAssumption, KeysAssumption DEF KeyIds
  <2>2. RemoveRow(k) \in ClientRows /\ RemoveRow(k).key = k
    BY <2>1, RemoveRowType DEF ClientRows
  <2> QED
    BY <1>0, <1>2, <2>1, <2>2, TypeInsertRow DEF Remove
<1> QED
  BY <1>1, <1>2 DEF ClientWrite

LEMMA WriteChunkType ==
  ASSUME TypeOK, NEW x \in Nat, NEW t, IsTable(t)
  PROVE  /\ DOMAIN Write(chunkFile, x, t) \subseteq Nat
         /\ \A y \in DOMAIN Write(chunkFile, x, t) : IsTable(Write(chunkFile, x, t)[y])
<1> DEFINE new == Write(chunkFile, x, t)
<1>1. /\ DOMAIN new = DOMAIN chunkFile \cup {x}
      /\ new[x] = t
      /\ \A y \in DOMAIN chunkFile \ {x} : new[y] = chunkFile[y]
  BY DEF Write
<1> HIDE DEF new
<1>2. DOMAIN new \subseteq Nat /\ \A y \in DOMAIN new : IsTable(new[y])
  BY <1>1 DEF TypeOK
<1> QED
  BY <1>2 DEF new

LEMMA WriteIndexType ==
  ASSUME TypeOK, NEW x \in Nat, NEW m, IsTableIndex(m), NEW b \in BOOLEAN,
         indexFile' = Write(indexFile, x, [written |-> b, map |-> m])
  PROVE  /\ DOMAIN indexFile' \subseteq Nat /\ DOMAIN indexFile \subseteq DOMAIN indexFile'
         /\ \A y \in DOMAIN indexFile' :
              indexFile'[y].written \in BOOLEAN /\ IsTableIndex(indexFile'[y].map)
<1>1. /\ DOMAIN indexFile' = DOMAIN indexFile \cup {x}
      /\ indexFile'[x] = [written |-> b, map |-> m]
      /\ \A y \in DOMAIN indexFile \ {x} : indexFile'[y] = indexFile[y]
  BY DEF Write
<1>2. indexFile'[x].written = b /\ indexFile'[x].map = m
  BY <1>1
<1> QED
  BY <1>1, <1>2 DEF TypeOK

\* makeSnapshot.
LEMMA TypeSnapshot ==
  ASSUME TypeInv, Snapshot
  PROVE  TypeInv'
<1> USE DEF memoryVars, diskVars, logVars, localVars, boundVars
<1>0. TypeOK /\ LogIsOpen
  BY DEF TypeInv
<1>a. IsTable(CreateSortedStringsTable(memTable)) /\ IsTable(EmptyTable)
  BY <1>0, CreateType, EmptyTableType DEF TypeOK
<1>b. snapshot.segment \in Nat /\ IsTable(snapshot.table) /\ segmentId \in Nat
  BY <1>0 DEF TypeOK
<1>1. CASE BeginSnapshot
  <2>1. DOMAIN chunkFile' \subseteq Nat /\ \A x \in DOMAIN chunkFile' : IsTable(chunkFile'[x])
    BY <1>0, <1>1, <1>a, <1>b, WriteChunkType DEF BeginSnapshot
  <2>2. snapshot'.segment = segmentId /\ snapshot'.table = CreateSortedStringsTable(memTable)
    BY <1>1 DEF BeginSnapshot
  <2> QED
    BY <1>0, <1>1, <1>a, <1>b, <2>1, <2>2
    DEF BeginSnapshot, TypeInv, TypeOK, LogIsOpen, Phases, SnapshotPhases
<1>2. CASE DumpMemTable
  <2>1. DOMAIN chunkFile' \subseteq Nat /\ \A x \in DOMAIN chunkFile' : IsTable(chunkFile'[x])
    BY <1>0, <1>2, <1>a, <1>b, WriteChunkType DEF DumpMemTable
  <2> QED
    BY <1>0, <1>2, <2>1 DEF DumpMemTable, TypeInv, TypeOK, LogIsOpen, Phases, SnapshotPhases
<1>3. CASE ClearMemTable
  <2>1. walFile \in Seq(Row) /\ walBuf \in Seq(Row)
    BY <1>0, <1>3, ClientRowsAreRows, SeqMonotonic DEF ClearMemTable, TypeOK, LogIsOpen
  <2>2. walFile' \in Seq(Row)
    BY <1>3, <2>1, ConcatProperties DEF ClearMemTable
  <2>3. walFile' # NoFile
    BY <2>2, NoFileAssumption, Zenon
  <2>4. walBuf' \in Seq(ClientRows)
    BY <1>3 DEF ClearMemTable
  <2> QED
    BY <1>0, <1>3, <1>a, <2>2, <2>3, <2>4
    DEF ClearMemTable, TypeInv, TypeOK, LogIsOpen, Phases, SnapshotPhases
<1>4. CASE AddToBloom
  <2>1. DOMAIN snapshot.table \subseteq KeyIds
    BY <1>b DEF IsTable
  <2>2. bloomFilter' \subseteq Nat
    BY <1>0, <1>4, <2>1, BloomAddType, BloomHashAssumption DEF AddToBloom, TypeOK
  <2> QED
    BY <1>0, <1>4, <2>2 DEF AddToBloom, TypeInv, TypeOK, LogIsOpen, Phases, SnapshotPhases
<1>5. CASE DumpBloom
  BY <1>0, <1>5 DEF DumpBloom, TypeInv, TypeOK, LogIsOpen, Phases, SnapshotPhases
<1>6. CASE OpenIndexFile
  <2>1. IsTableIndex([k \in {} |-> 0])
    BY DEF IsTableIndex
  <2>2. /\ DOMAIN indexFile' \subseteq Nat /\ DOMAIN indexFile \subseteq DOMAIN indexFile'
        /\ \A y \in DOMAIN indexFile' :
             indexFile'[y].written \in BOOLEAN /\ IsTableIndex(indexFile'[y].map)
    BY <1>0, <1>6, <1>b, <2>1, WriteIndexType DEF OpenIndexFile
  <2> QED
    BY <1>0, <1>6, <2>2 DEF OpenIndexFile, TypeInv, TypeOK, LogIsOpen, Phases, SnapshotPhases
<1>7. CASE DumpIndex
  <2> DEFINE map == SSTableIndex(snapshot.table)
  <2>1. IsTableIndex(map)
    BY <1>b, SSTableIndexType
  <2>2. /\ indexFile' = Write(indexFile, snapshot.segment, [written |-> TRUE, map |-> map])
        /\ index' = index \/ index' = IndexUpdate(index, [fileId |-> snapshot.segment, map |-> map])
        /\ snapshot' = NoSnapshot
        /\ pc' = "ready"
        /\ pc = "indexDump"
        /\ UNCHANGED <<memTable, memorySize, segmentId, bloomFilter, chunkFile, bloomFile, logVars, toLoad, readers, boundVars>>
    BY <1>7, Zenon DEF DumpIndex
  <2> HIDE DEF map
  <2>3. /\ DOMAIN indexFile' \subseteq Nat /\ DOMAIN indexFile \subseteq DOMAIN indexFile'
        /\ \A y \in DOMAIN indexFile' :
             indexFile'[y].written \in BOOLEAN /\ IsTableIndex(indexFile'[y].map)
    BY <1>0, <1>b, <2>1, <2>2, WriteIndexType
  <2>4. /\ index' \in Seq({index'[i] : i \in DOMAIN index'})
        /\ \A i \in DOMAIN index' : index'[i].fileId \in Nat /\ IsTableIndex(index'[i].map)
    <3>1. CASE index' = index
      BY <1>0, <3>1 DEF TypeOK
    <3>2. CASE index' = IndexUpdate(index, [fileId |-> snapshot.segment, map |-> map])
      BY <1>0, <1>b, <2>1, <3>2, IndexUpdateType
    <3> QED
      BY <2>2, <3>1, <3>2
  <2>5. snapshot'.segment \in Nat /\ IsTable(snapshot'.table)
    BY <1>a, <2>2 DEF NoSnapshot
  <2> QED
    BY <1>0, <2>2, <2>3, <2>4, <2>5 DEF TypeInv, TypeOK, LogIsOpen, Phases
<1> QED
  BY <1>1, <1>2, <1>3, <1>4, <1>5, <1>6, <1>7 DEF Snapshot

\* get.
LEMMA TypeReaderStep ==
  ASSUME TypeInv, NEW r \in Readers, NEW state \in ReaderState, ReaderStep(r, state)
  PROVE  TypeInv'
<1>1. readers' \in [Readers -> ReaderState]
  BY DEF ReaderStep, TypeInv, TypeOK
<1> QED
  BY <1>1 DEF ReaderStep, TypeInv, TypeOK, LogIsOpen, memoryVars, diskVars, logVars, localVars, boundVars

LEMMA TypeGet ==
  ASSUME TypeInv, NEW r \in Readers, Get(r)
  PROVE  TypeInv'
<1>0. TypeOK
  BY DEF TypeInv
<1>a. readers[r] \in ReaderState
  BY <1>0 DEF TypeOK
<1>b. ASSUME NEW x \in Results, Finish(r, x)
      PROVE  TypeInv'
  <2>1. [readers[r] EXCEPT !.pc = "done", !.res = x] \in ReaderState
    BY <1>a, <1>b DEF ReaderState, ReaderPhases
  <2> QED
    BY <1>b, <2>1, TypeReaderStep DEF Finish
<1>c. NotFound \in Results /\ IdleReader \in ReaderState
  BY KeysAssumption DEF IdleReader, ReaderState, ReaderPhases, KeyIds, NoHint, FileHint, Results
<1>d. ASSUME NEW row \in Row
      PROVE  RowResult(row) \in Results
  BY <1>c, RowResultType DEF RowResult
<1>1. ASSUME NEW k \in Keys, FindInMemory(r, k)
      PROVE  TypeInv'
  <2> DEFINE found == k \in DOMAIN memTable
  <2> DEFINE begun == [IdleReader EXCEPT !.key = k, !.seen = {kv[k]}]
  <2>1. begun \in ReaderState
    <3>1. k \in KeyIds /\ {kv[k]} \in SUBSET Results
      BY <1>0, KeysAssumption DEF TypeOK, KeyIds, Results
    <3> QED
      BY <1>c, <3>1 DEF ReaderState
  <2> HIDE DEF begun
  <2>2. ASSUME found, NEW x \in Results
        PROVE  [begun EXCEPT !.pc = "done", !.res = x] \in ReaderState
    BY <2>1 DEF ReaderState, ReaderPhases
  <2>3. found => Decode(memTable[k]) \in Results
    <3>1. found => memTable[k] \in Row
      BY <1>0 DEF TypeOK, IsTable
    <3> QED
      BY <3>1, RowResultType
  <2>4. [begun EXCEPT !.pc = "bloom", !.tomb = found] \in ReaderState
    <3>1. ASSUME NEW b \in BOOLEAN
          PROVE  [begun EXCEPT !.pc = "bloom", !.tomb = b] \in ReaderState
      BY <2>1 DEF ReaderState, ReaderPhases
    <3>2. found \in BOOLEAN
      OBVIOUS
    <3> HIDE DEF found
    <3> QED
      BY <3>1, <3>2, Zenon
  <2>5. \/ found /\ ReaderStep(r, [begun EXCEPT !.pc = "done", !.res = Decode(memTable[k])])
        \/ ReaderStep(r, [begun EXCEPT !.pc = "bloom", !.tomb = found])
    BY <1>1, Zenon DEF FindInMemory, begun
  <2> HIDE DEF found
  <2>6. CASE found /\ ReaderStep(r, [begun EXCEPT !.pc = "done", !.res = Decode(memTable[k])])
    <3> DEFINE state == [begun EXCEPT !.pc = "done", !.res = Decode(memTable[k])]
    <3>1. state \in ReaderState
      BY <2>2, <2>3, <2>6, Zenon
    <3> HIDE DEF state
    <3>2. ReaderStep(r, state)
      BY <2>6 DEF state
    <3> QED
      BY <3>1, <3>2, TypeReaderStep
  <2>7. CASE ReaderStep(r, [begun EXCEPT !.pc = "bloom", !.tomb = found])
    BY <2>4, <2>7, TypeReaderStep
  <2> QED
    BY <2>5, <2>6, <2>7
<1>2. CASE CheckBloom(r)
  <2>1. [readers[r] EXCEPT !.pc = "index"] \in ReaderState
    BY <1>a DEF ReaderState, ReaderPhases
  <2>2. ReaderStep(r, [readers[r] EXCEPT !.pc = "index"]) \/ Finish(r, NotFound)
    BY <1>2, Zenon DEF CheckBloom
  <2> QED
    BY <1>b, <1>c, <2>1, <2>2, TypeReaderStep
<1>3. CASE LookupIndex(r)
  <2>1. \/ Finish(r, NotFound)
        \/ /\ TablesWith(index, readers[r].key) # {}
           /\ ReaderStep(r, [readers[r] EXCEPT !.pc = "chunk", !.hint = IndexGet(index, readers[r].key)])
    BY <1>3, Zenon DEF LookupIndex
  <2>2. CASE /\ TablesWith(index, readers[r].key) # {}
             /\ ReaderStep(r, [readers[r] EXCEPT !.pc = "chunk", !.hint = IndexGet(index, readers[r].key)])
    <3> DEFINE k == readers[r].key
    <3> DEFINE hint == IndexGet(index, k)
    <3>1. PICK i \in TablesWith(index, k) :
            hint = [fileId |-> index[i].fileId,
                    offset |-> index[i].map[k].offset,
                    size   |-> index[i].map[k].size]
      <4>1. index \in Seq({index[i] : i \in DOMAIN index})
        BY <1>0 DEF TypeOK
      <4>2. TablesWith(index, k) # {}
        BY <2>2
      <4> QED
        BY <4>1, <4>2, IndexGetFirst, Zenon
    <3>2. i \in DOMAIN index /\ k \in DOMAIN index[i].map
      BY DEF TablesWith
    <3>3. index[i].fileId \in Nat /\ index[i].map[k] \in Hints
      BY <1>0, <3>2 DEF TypeOK, IsTableIndex
    <3> HIDE DEF hint
    <3>4. hint \in FileHint
      BY <3>1, <3>3 DEF FileHint, Hints
    <3>5. [readers[r] EXCEPT !.pc = "chunk", !.hint = hint] \in ReaderState
      BY <1>a, <3>4 DEF ReaderState, ReaderPhases
    <3>6. ReaderStep(r, [readers[r] EXCEPT !.pc = "chunk", !.hint = hint])
      BY <2>2 DEF hint
    <3> QED
      BY <3>5, <3>6, TypeReaderStep
  <2> QED
    BY <1>b, <1>c, <2>1, <2>2
<1>4. CASE ReadChunk(r)
  <2> DEFINE t == Chunk(readers[r].hint.fileId)
  <2>1. PICK row \in ReadRows(t, readers[r].hint) : Finish(r, RowResult(row))
    BY <1>4 DEF ReadChunk
  <2>2. IsTable(t)
    BY <1>0, EmptyTableType DEF TypeOK, Chunk
  <2> HIDE DEF t
  <2>3. row \in Row
    BY <2>2, ReadRowsType
  <2> QED
    BY <1>b, <1>d, <2>1, <2>3
<1>5. CASE Return(r)
  BY <1>5, <1>c, TypeReaderStep DEF Return
<1> QED
  BY <1>1, <1>2, <1>3, <1>4, <1>5 DEF Get

LEMMA TypeClose ==
  ASSUME TypeInv, Close
  PROVE  TypeInv'
<1>0. TypeOK /\ LogIsOpen
  BY DEF TypeInv
<1>1. walFile \in Seq(Row) /\ walBuf \in Seq(Row)
  BY <1>0, ClientRowsAreRows, SeqMonotonic DEF Close, TypeOK, LogIsOpen
<1>2. walFile' \in Seq(Row)
  BY <1>1, ConcatProperties DEF Close
<1>3. MemoryLost /\ kvFlushed' = kv /\ UNCHANGED <<diskVars, kv, boundVars>>
  BY DEF Close
<1> QED
  BY <1>0, <1>2, <1>3, MemoryLostType DEF TypeInv, TypeOK, LogIsOpen, Phases, diskVars, boundVars

LEMMA TypeCrash ==
  ASSUME TypeInv, Crash
  PROVE  TypeInv'
<1>0. TypeOK /\ LogIsOpen
  BY DEF TypeInv
<1>1. PICK n \in 0 .. Len(walBuf) :
        /\ \/ walFile' = IF walFile = NoFile THEN NoFile ELSE walFile \o SubSeq(walBuf, 1, n)
           \/ /\ n < Len(walBuf)
              /\ \E row \in RowsFromCut(walBuf[n + 1]) : walFile' = walFile \o SubSeq(walBuf, 1, n) \o <<row>>
        /\ kv' = ApplyRows(kvFlushed, SubSeq(walBuf, 1, n))
        /\ kvFlushed' = ApplyRows(kvFlushed, SubSeq(walBuf, 1, n))
  BY Zenon DEF Crash
<1> DEFINE reached == SubSeq(walBuf, 1, n)
<1>2. walBuf \in Seq(ClientRows) /\ Len(walBuf) \in Nat /\ DOMAIN walBuf = 1 .. Len(walBuf)
  BY <1>0, LenProperties DEF TypeOK
<1>3. reached \in Seq(ClientRows)
  BY <1>2
<1> HIDE DEF reached
<1>4. kv' \in [Keys -> Values \cup {NotFound}] /\ kvFlushed' \in [Keys -> Values \cup {NotFound}]
  BY <1>0, <1>1, <1>3, ApplyRowsType DEF TypeOK, reached
<1>5. reached \in Seq(Row)
  BY <1>3, ClientRowsAreRows, SeqMonotonic
<1>6. walFile' = NoFile \/ walFile' \in Seq(Row)
  <2>1. CASE walFile' = IF walFile = NoFile THEN NoFile ELSE walFile \o reached
    BY <1>0, <1>5, <2>1, ConcatProperties DEF TypeOK
  <2>2. CASE /\ n < Len(walBuf)
             /\ \E row \in RowsFromCut(walBuf[n + 1]) : walFile' = walFile \o reached \o <<row>>
    <3>1. PICK row \in RowsFromCut(walBuf[n + 1]) : walFile' = walFile \o reached \o <<row>>
      BY <2>2
    <3>2. walBuf # <<>>
      BY <1>2, <2>2
    <3>3. walFile \in Seq(Row)
      BY <1>0, <3>2 DEF TypeOK, LogIsOpen
    <3>4. walBuf[n + 1] \in Row
      BY <1>2, <2>2, ClientRowsAreRows
    <3>5. row \in Row
      BY <3>4, RowsFromCutType
    <3>6. walFile \o reached \in Seq(Row) /\ <<row>> \in Seq(Row)
      BY <1>5, <3>3, <3>5, ConcatProperties
    <3> QED
      BY <3>1, <3>6, ConcatProperties
  <2> QED
    BY <1>1, <2>1, <2>2 DEF reached
<1>7. DOMAIN chunkFile' \subseteq Nat /\ \A x \in DOMAIN chunkFile' : IsTable(chunkFile'[x])
  <2>1. chunkFile' \in ChunkAtCrash
    BY Zenon DEF Crash
  <2>2. CASE chunkFile' = chunkFile
    BY <1>0, <2>2 DEF TypeOK
  <2>3. ASSUME NEW t \in TablesAtCrash, chunkFile' = Write(chunkFile, snapshot.segment, t)
        PROVE  DOMAIN chunkFile' \subseteq Nat /\ \A x \in DOMAIN chunkFile' : IsTable(chunkFile'[x])
    <3>1. snapshot.segment \in Nat /\ IsTable(snapshot.table)
      BY <1>0 DEF TypeOK
    <3>2. IsTable(t)
      BY <3>1, TableCut
    <3>3. /\ DOMAIN Write(chunkFile, snapshot.segment, t) \subseteq Nat
          /\ \A x \in DOMAIN Write(chunkFile, snapshot.segment, t) : IsTable(Write(chunkFile, snapshot.segment, t)[x])
      BY <1>0, <3>1, <3>2, WriteChunkType
    <3> QED
      BY <2>3, <3>3, Zenon
  <2> QED
    BY <2>1, <2>2, <2>3, Zenon DEF ChunkAtCrash
<1>8. bloomFile' \subseteq Nat
  BY <1>0 DEF Crash, BloomAtCrash, TypeOK
<1>9. MemoryLost /\ UNCHANGED boundVars
  BY Zenon DEF Crash
<1>10. /\ DOMAIN indexFile' \subseteq Nat
       /\ \A x \in DOMAIN indexFile' : indexFile'[x].written \in BOOLEAN /\ IsTableIndex(indexFile'[x].map)
  <2>1. indexFile' \in IndexAtCrash
    BY Zenon DEF Crash
  <2>2. CASE indexFile' = indexFile
    BY <1>0, <2>2 DEF TypeOK
  <2>3. ASSUME NEW m \in CutTableIndexes(SSTableIndex(snapshot.table)),
               indexFile' = Write(indexFile, snapshot.segment, [written |-> TRUE, map |-> m])
        PROVE  /\ DOMAIN indexFile' \subseteq Nat
               /\ \A x \in DOMAIN indexFile' :
                    indexFile'[x].written \in BOOLEAN /\ IsTableIndex(indexFile'[x].map)
    <3>1. snapshot.segment \in Nat /\ IsTable(snapshot.table)
      BY <1>0 DEF TypeOK
    <3>2. IsTableIndex(SSTableIndex(snapshot.table))
      BY <3>1, SSTableIndexType
    <3>3. IsTableIndex(m)
      BY <3>2, CutTableIndexType
    <3> QED
      BY <1>0, <2>3, <3>1, <3>3, WriteIndexType
  <2> QED
    BY <2>1, <2>2, <2>3, IndexFileCut, Zenon
<1> QED
  BY <1>0, <1>4, <1>6, <1>7, <1>8, <1>9, <1>10, MemoryLostType DEF TypeInv, TypeOK, LogIsOpen, Phases, boundVars

LEMMA TypeStep ==
  ASSUME TypeInv, [Next]_vars
  PROVE  TypeInv'
<1>1. CASE SessionNext
  BY <1>1, TypeOpen, TypeClientWrite, TypeSnapshot, TypeGet DEF SessionNext
<1>2. CASE Close
  BY <1>2, TypeClose
<1>3. CASE Crash
  BY <1>3, TypeCrash
<1>4. CASE UNCHANGED vars
  BY <1>4 DEF vars, TypeInv, TypeOK, LogIsOpen, memoryVars, diskVars, logVars, localVars, boundVars
<1> QED
  BY <1>1, <1>2, <1>3, <1>4 DEF Next

\* Every variable keeps its type through sessions, shutdowns and crashes; in
\* particular a lookup, whatever bytes it is led to, ends with a result of get,
\* and a torn log is replayed into rows.
THEOREM TypeCorrect == Spec => []TypeOK
<1>1. Init => TypeInv
  BY TypeInit
<1>2. TypeInv /\ [Next]_vars => TypeInv'
  BY TypeStep
<1>3. TypeInv => TypeOK
  BY DEF TypeInv
<1> QED
  BY <1>1, <1>2, <1>3, PTL DEF Spec
=============================================================================
