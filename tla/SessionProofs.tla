---------------------------- MODULE SessionProofs ----------------------------
(***************************************************************************)
(* One session on an empty directory: snapshots, index, Bloom filter and    *)
(* lookups agree at every step, and the engine implements KVStore, for any  *)
(* number of keys, values, readers, segments and operations.                *)
(***************************************************************************)
EXTENDS StorageEngineProofs

\* What the clients of the theorems keep to: no key is npos, no value is the empty
\* string when LZ4 is in use, and a row for each of their keys fits into a segment file
\* with 32-bit offsets.  createSortedStringsTable takes npos for the key before the
\* first, LZ4's adapter takes the empty string for a failure, and offsets wrap.
Storable ==
  /\ NPos \notin Keys
  /\ CompressionType = "LZ4" => EmptyValue \notin Values
  /\ \A t : IsTable(t) /\ DOMAIN t \subseteq Keys => Addressable(t)

-----------------------------------------------------------------------------
(* Values that the index leads to                                          *)

\* Table i is the first of the list that has key k.
FirstWith(list, k, i) == i \in TablesWith(list, k) /\ \A j \in TablesWith(list, k) : i <= j

LEMMA FirstWithExists ==
  ASSUME NEW S, NEW list \in Seq(S), NEW k, TablesWith(list, k) # {}
  PROVE  \E i : FirstWith(list, k, i)
<1>1. TablesWith(list, k) \subseteq Nat
  BY LenProperties DEF TablesWith
<1>2. \E n \in TablesWith(list, k) : \A m \in TablesWith(list, k) : n <= m
  BY <1>1, LeastNatural
<1> QED
  BY <1>2 DEF FirstWith

LEMMA FirstWithUnique ==
  ASSUME NEW S, NEW list \in Seq(S), NEW k, NEW i, NEW j, FirstWith(list, k, i), FirstWith(list, k, j)
  PROVE  i = j
<1>1. TablesWith(list, k) \subseteq Nat
  BY LenProperties DEF TablesWith
<1>2. i \in Nat /\ j \in Nat /\ i <= j /\ j <= i
  BY <1>1 DEF FirstWith
<1> QED
  BY <1>2

\* When the first table with the key describes its segment file as it is, the
\* bytes named by Index::get are the row of the key.
LEMMA ReadFirst ==
  ASSUME NEW S, NEW list \in Seq(S), NEW k, NEW i, FirstWith(list, k, i),
         NEW t, IsTable(t), Addressable(t), list[i].map = SSTableIndex(t)
  PROVE  /\ k \in DOMAIN t
         /\ IndexGet(list, k).fileId = list[i].fileId
         /\ ReadRows(t, IndexGet(list, k)) = {t[k]}
<1>1. TablesWith(list, k) # {}
  BY DEF FirstWith
<1>2. PICK j \in TablesWith(list, k) :
        /\ \A m \in TablesWith(list, k) : j <= m
        /\ IndexGet(list, k) = [fileId |-> list[j].fileId,
                                offset |-> list[j].map[k].offset,
                                size   |-> list[j].map[k].size]
  BY <1>1, IndexGetFirst, Zenon
<1>3. FirstWith(list, k, j)
  BY <1>2 DEF FirstWith
<1>4. j = i
  BY <1>3, FirstWithUnique
<1>5. k \in DOMAIN t
  <2>1. k \in DOMAIN list[i].map
    BY DEF FirstWith, TablesWith
  <2>2. DOMAIN SSTableIndex(t) = DOMAIN t
    BY SSTableIndexType
  <2> QED
    BY <2>1, <2>2
<1> DEFINE hint == SSTableIndex(t)[k]
<1>6. ReadRows(t, hint) = {t[k]}
  BY <1>5, IndexedRowIsRead
<1> HIDE DEF hint
<1>7. IndexGet(list, k).fileId = list[i].fileId
  BY <1>2, <1>4
<1>8. IndexGet(list, k).offset = hint.offset /\ IndexGet(list, k).size = hint.size
  BY <1>2, <1>4 DEF hint
<1>9. ReadRows(t, IndexGet(list, k)) = ReadRows(t, hint)
  BY <1>8, SameHint
<1> QED
  BY <1>5, <1>6, <1>7, <1>9

\* The value of a key by the index, in a state whose index is right ...
LEMMA IndexValueFirst ==
  ASSUME TypeOK, IndexMatchesSegments, NEW k, NEW i, FirstWith(index, k, i)
  PROVE  /\ k \in DOMAIN chunkFile[index[i].fileId]
         /\ RowsOnDisk(k) = {chunkFile[index[i].fileId][k]}
         /\ IndexValue(k) = RowResult(chunkFile[index[i].fileId][k])
<1> DEFINE t == chunkFile[index[i].fileId]
<1>1. i \in DOMAIN index /\ TablesWith(index, k) # {}
  BY DEF FirstWith, TablesWith
<1>2. index \in Seq({index[j] : j \in DOMAIN index})
  BY DEF TypeOK
<1>3. /\ index[i].fileId \in DOMAIN chunkFile /\ index[i].map = SSTableIndex(t)
      /\ IsTable(t) /\ Addressable(t)
  BY <1>1 DEF TypeOK, IndexMatchesSegments
<1>4. Chunk(index[i].fileId) = t
  BY <1>3 DEF Chunk
<1> HIDE DEF t
<1>5. /\ k \in DOMAIN t
      /\ IndexGet(index, k).fileId = index[i].fileId
      /\ ReadRows(t, IndexGet(index, k)) = {t[k]}
  BY <1>2, <1>3, ReadFirst
<1>6. RowsOnDisk(k) = {t[k]}
  BY <1>4, <1>5 DEF RowsOnDisk
<1>7. (CHOOSE row \in RowsOnDisk(k) : TRUE) = t[k]
  BY <1>6
<1>8. IndexValue(k) = RowResult(t[k])
  BY <1>1, <1>7 DEF IndexValue
<1> QED
  BY <1>5, <1>6, <1>8 DEF t

\* ... and in its successor.
LEMMA IndexValueFirstNext ==
  ASSUME TypeOK', IndexMatchesSegments', NEW k, NEW i, FirstWith(index', k, i)
  PROVE  /\ k \in DOMAIN chunkFile'[index'[i].fileId]
         /\ IndexValue(k)' = RowResult(chunkFile'[index'[i].fileId][k])
<1> DEFINE t == chunkFile'[index'[i].fileId]
<1>1. i \in DOMAIN index' /\ TablesWith(index', k) # {}
  BY DEF FirstWith, TablesWith
<1>2. index' \in Seq({index'[j] : j \in DOMAIN index'})
  BY DEF TypeOK
<1>3. /\ index'[i].fileId \in DOMAIN chunkFile' /\ index'[i].map = SSTableIndex(t)
      /\ IsTable(t) /\ Addressable(t)
  BY <1>1 DEF TypeOK, IndexMatchesSegments
<1>4. (IF index'[i].fileId \in DOMAIN chunkFile' THEN chunkFile'[index'[i].fileId] ELSE EmptyTable) = t
  BY <1>3
<1> HIDE DEF t
<1>5. /\ k \in DOMAIN t
      /\ IndexGet(index', k).fileId = index'[i].fileId
      /\ ReadRows(t, IndexGet(index', k)) = {t[k]}
  BY <1>2, <1>3, ReadFirst
<1> DEFINE hint == IndexGet(index', k)
<1>6. RowsOnDisk(k)' = {t[k]}
  <2>1. RowsOnDisk(k)' =
          ReadRows(IF hint.fileId \in DOMAIN chunkFile' THEN chunkFile'[hint.fileId] ELSE EmptyTable, hint)
    BY DEF RowsOnDisk, Chunk
  <2> HIDE DEF hint
  <2> QED
    BY <1>4, <1>5, <2>1 DEF hint
<1>7. (CHOOSE row \in RowsOnDisk(k)' : TRUE) = t[k]
  BY <1>6
<1>8. IndexValue(k)' = RowResult(t[k])
  BY <1>1, <1>7 DEF IndexValue
<1> QED
  BY <1>5, <1>8 DEF t

\* A step that leaves the index and the segment files it names alone leaves the
\* values alone.
LEMMA IndexValueSame ==
  ASSUME TypeOK, TypeOK', IndexMatchesSegments, index' = index, segmentId' >= segmentId,
         \A i \in DOMAIN index :
           /\ index[i].fileId \in DOMAIN chunkFile'
           /\ chunkFile'[index[i].fileId] = chunkFile[index[i].fileId]
  PROVE  IndexMatchesSegments' /\ \A k : IndexValue(k)' = IndexValue(k)
<1>1. IndexMatchesSegments'
  <2>1. ASSUME NEW i \in DOMAIN index
        PROVE  /\ index[i].fileId < segmentId'
               /\ index[i].fileId \in DOMAIN chunkFile'
               /\ index[i].map = SSTableIndex(chunkFile'[index[i].fileId])
               /\ Addressable(chunkFile'[index[i].fileId])
    <3>1. /\ index[i].fileId < segmentId
          /\ index[i].map = SSTableIndex(chunkFile[index[i].fileId])
          /\ Addressable(chunkFile[index[i].fileId])
      BY DEF IndexMatchesSegments
    <3>2. index[i].fileId \in Nat /\ segmentId \in Nat /\ segmentId' \in Nat
      BY DEF TypeOK
    <3>3. index[i].fileId < segmentId'
      BY <3>1, <3>2
    <3> QED
      BY <3>1, <3>3
  <2> QED
    BY <2>1 DEF IndexMatchesSegments
<1>2. ASSUME NEW k
      PROVE  IndexValue(k)' = IndexValue(k)
  <2>1. CASE TablesWith(index, k) = {}
    BY <2>1 DEF IndexValue
  <2>2. CASE TablesWith(index, k) # {}
    <3>1. PICK i : FirstWith(index, k, i)
      <4>1. index \in Seq({index[j] : j \in DOMAIN index})
        BY DEF TypeOK
      <4> QED
        BY <2>2, <4>1, FirstWithExists, Zenon
    <3>2. IndexValue(k) = RowResult(chunkFile[index[i].fileId][k])
      BY <3>1, IndexValueFirst
    <3>3. IndexValue(k)' = RowResult(chunkFile'[index'[i].fileId][k])
      BY <1>1, <3>1, IndexValueFirstNext
    <3>4. i \in DOMAIN index
      BY <3>1 DEF FirstWith, TablesWith
    <3> QED
      BY <3>2, <3>3, <3>4
  <2> QED
    BY <2>1, <2>2
<1> QED
  BY <1>1, <1>2

-----------------------------------------------------------------------------
(* Frames: what a step that does not concern them leaves true             *)

\* The values of the index and the lookups in progress, when neither the index,
\* nor the files it names, nor the history changes.
LEMMA ReadersFrame ==
  ASSUME TypeOK, TypeOK', SessionInv, index' = index, segmentId' >= segmentId,
         \A i \in DOMAIN index :
           /\ index[i].fileId \in DOMAIN chunkFile'
           /\ chunkFile'[index[i].fileId] = chunkFile[index[i].fileId],
         readers' = readers, kv' = kv
  PROVE  /\ IndexMatchesSegments'
         /\ \A k : IndexValue(k)' = IndexValue(k)
         /\ \A r \in Readers : ReaderConsistent(r)'
<1>1. IndexMatchesSegments' /\ \A k : IndexValue(k)' = IndexValue(k)
  BY IndexValueSame DEF SessionInv
<1>2. ASSUME NEW r \in Readers
      PROVE  ReaderConsistent(r)'
  <2>1. ReaderConsistent(r)
    BY DEF SessionInv
  <2> QED
    BY <1>1, <2>1 DEF ReaderConsistent
<1> QED
  BY <1>1, <1>2

\* The history agrees with the engine as soon as it does so key by key.
LEMMA ContentsAt ==
  ASSUME SessionInv, NEW k \in Keys
  PROVE  kv[k] = HeldValue(k)
BY DEF SessionInv, Contents

LEMMA ContentsNext ==
  ASSUME TypeOK', \A k \in Keys : kv'[k] = HeldValue(k)'
  PROVE  kv' = Contents'
BY DEF TypeOK, Contents

\* Clients' keys never make createSortedStringsTable drop a row.
LEMMA CreateKeeps ==
  ASSUME Storable, RowsKeyed
  PROVE  CreateSortedStringsTable(memTable) = memTable
BY DEF Storable, RowsKeyed, CreateSortedStringsTable

-----------------------------------------------------------------------------
(* The invariant holds initially and through the opening                   *)

LEMMA SessionInit == Init => SessionInv
<1> SUFFICES ASSUME Init PROVE SessionInv
  OBVIOUS
<1>1. DOMAIN index = {} /\ DOMAIN memTable = {} /\ DOMAIN chunkFile = {} /\ DOMAIN indexFile = {}
  BY DEF Init, EmptyTable, NoFiles
<1>2. OpeningEmpty
  BY <1>1 DEF Init, OpeningEmpty
<1>3. IndexMatchesSegments /\ FilterCovers /\ RowsKeyed
  <2>1. DOMAIN snapshot.table = {}
    BY DEF Init, NoSnapshot, EmptyTable
  <2> QED
    BY <1>1, <2>1 DEF IndexMatchesSegments, FilterCovers, RowsKeyed, Init
<1>4. SnapshotConsistent
  BY DEF SnapshotConsistent, SnapshotPhases, PendingPhases, Init
<1>5. kv = Contents
  <2>1. \A k \in Keys : TablesWith(index, k) = {}
    BY <1>1 DEF TablesWith
  <2>2. \A k \in Keys : HeldValue(k) = NotFound
    BY <1>1, <2>1 DEF HeldValue, IndexValue, PendingPhases, Init
  <2> QED
    BY <2>2 DEF Contents, Init
<1>6. \A r \in Readers : ReaderConsistent(r)
  BY DEF ReaderConsistent, IdleReader, Init
<1> QED
  BY <1>2, <1>3, <1>4, <1>5, <1>6 DEF SessionInv, Init

\* The steps of open find an empty directory.
LEMMA SessionOpen ==
  ASSUME TypeOK, TypeOK', SessionInv, Open
  PROVE  SessionInv'
<1>1. /\ index = <<>> /\ memTable = EmptyTable /\ bloomFile = {} /\ toLoad = {} /\ DOMAIN indexFile = {}
      /\ pc \in {"closed", "openLog", "openIndex"}
      /\ pc = "closed" => walFile = NoFile
  BY DEF Open, OpenRestore, OpenLog, OpenLoadIndex, OpenBloom, SessionInv, OpeningEmpty
<1>2. /\ index' = index /\ memTable' = memTable /\ bloomFile' = bloomFile /\ toLoad' = toLoad
      /\ indexFile' = indexFile /\ chunkFile' = chunkFile /\ segmentId' = segmentId
      /\ readers' = readers /\ kv' = kv /\ snapshot' = snapshot
      /\ pc' \in {"openLog", "openIndex", "ready"}
  <2>1. CASE OpenRestore
    <3>1. memTable' \in {EmptyTable}
      BY <1>1, <2>1 DEF OpenRestore, RestoreFromLog
    <3> QED
      BY <1>1, <2>1, <3>1 DEF OpenRestore, diskVars, logVars, localVars
  <2>2. CASE OpenLog
    BY <1>1, <2>2 DEF OpenLog, memoryVars, diskVars
  <2>3. CASE OpenLoadIndex
    BY <1>1, <2>3 DEF OpenLoadIndex
  <2>4. CASE OpenBloom
    BY <1>1, <2>4 DEF OpenBloom, diskVars, logVars, localVars
  <2> QED
    BY <2>1, <2>2, <2>3, <2>4 DEF Open
<1>3. DOMAIN index = {} /\ DOMAIN memTable = {}
  BY <1>1 DEF EmptyTable
<1>4. /\ IndexMatchesSegments'
      /\ \A k : IndexValue(k)' = IndexValue(k)
      /\ \A r \in Readers : ReaderConsistent(r)'
  <2>1. segmentId' >= segmentId
    BY <1>2 DEF TypeOK
  <2> QED
    BY <1>2, <1>3, <2>1, ReadersFrame
<1>5. OpeningEmpty'
  BY <1>1, <1>2 DEF OpeningEmpty
<1>6. SnapshotConsistent'
  BY <1>2 DEF SnapshotConsistent, SnapshotPhases, PendingPhases
<1>7. FilterCovers' /\ RowsKeyed'
  BY <1>2, <1>3 DEF FilterCovers, RowsKeyed, SessionInv
<1>8. kv' = Contents'
  <2>1. ASSUME NEW k \in Keys
        PROVE  kv'[k] = HeldValue(k)'
    <3>1. kv[k] = HeldValue(k)
      BY ContentsAt
    <3> QED
      BY <1>1, <1>2, <1>3, <1>4, <3>1 DEF HeldValue, PendingPhases
  <2> QED
    BY <2>1, ContentsNext
<1> QED
  BY <1>2, <1>4, <1>5, <1>6, <1>7, <1>8 DEF SessionInv

-----------------------------------------------------------------------------
(* makeSnapshot                                                            *)

\* The segment file being written is not one that the index names.
LEMMA SessionBeginSnapshot ==
  ASSUME TypeOK, TypeOK', Storable, SessionInv, BeginSnapshot
  PROVE  SessionInv'
<1>1. /\ pc = "snapshot" /\ pc' = "dump" /\ segmentId \in Nat /\ segmentId' = segmentId + 1
      /\ memTable' = memTable /\ index' = index /\ bloomFilter' = bloomFilter
      /\ readers' = readers /\ kv' = kv
  BY DEF BeginSnapshot, TypeOK, logVars
<1>2. snapshot'.segment = segmentId /\ snapshot'.table = memTable
  BY CreateKeeps DEF BeginSnapshot, SessionInv
<1>3. /\ DOMAIN chunkFile' = DOMAIN chunkFile \cup {segmentId}
      /\ chunkFile'[segmentId] = EmptyTable
      /\ \A x \in DOMAIN chunkFile \ {segmentId} : chunkFile'[x] = chunkFile[x]
  BY DEF BeginSnapshot, Write
<1>4. \A i \in DOMAIN index :
        /\ index[i].fileId # segmentId
        /\ index[i].fileId \in DOMAIN chunkFile'
        /\ chunkFile'[index[i].fileId] = chunkFile[index[i].fileId]
  BY <1>1, <1>3 DEF SessionInv, IndexMatchesSegments, TypeOK
<1>5. /\ IndexMatchesSegments'
      /\ \A k : IndexValue(k)' = IndexValue(k)
      /\ \A r \in Readers : ReaderConsistent(r)'
  <2>1. segmentId' >= segmentId
    BY <1>1
  <2> QED
    BY <1>1, <1>4, <2>1, ReadersFrame
<1>6. OpeningEmpty'
  BY <1>1 DEF OpeningEmpty
<1>7. SnapshotConsistent'
  BY <1>1, <1>2, <1>4 DEF SnapshotConsistent, PendingPhases
<1>8. FilterCovers'
  BY <1>1 DEF FilterCovers, SessionInv
<1>9. RowsKeyed'
  <2>1. DOMAIN EmptyTable = {}
    BY DEF EmptyTable
  <2> QED
    BY <1>1, <1>2, <1>3, <2>1 DEF RowsKeyed, SessionInv
<1>10. kv' = Contents'
  <2>1. ASSUME NEW k \in Keys
        PROVE  kv'[k] = HeldValue(k)'
    <3>1. kv[k] = HeldValue(k)
      BY ContentsAt
    <3> QED
      BY <1>1, <1>5, <3>1 DEF HeldValue, PendingPhases
  <2> QED
    BY <2>1, ContentsNext
<1> QED
  BY <1>1, <1>5, <1>6, <1>7, <1>8, <1>9, <1>10 DEF SessionInv

LEMMA SessionDumpMemTable ==
  ASSUME TypeOK, TypeOK', Storable, SessionInv, DumpMemTable
  PROVE  SessionInv'
<1>1. /\ pc = "dump" /\ pc' = "clear" /\ segmentId \in Nat /\ segmentId' = segmentId
      /\ memTable' = memTable /\ index' = index /\ bloomFilter' = bloomFilter
      /\ readers' = readers /\ kv' = kv /\ snapshot' = snapshot
  BY DEF DumpMemTable, TypeOK, logVars, memoryVars, localVars
<1>2. /\ snapshot.table = memTable
      /\ segmentId = snapshot.segment + 1
      /\ \A i \in DOMAIN index : index[i].fileId # snapshot.segment
  BY <1>1 DEF SessionInv, SnapshotConsistent, SnapshotPhases
<1>3. /\ DOMAIN chunkFile' = DOMAIN chunkFile \cup {snapshot.segment}
      /\ chunkFile'[snapshot.segment] = memTable
      /\ \A x \in DOMAIN chunkFile \ {snapshot.segment} : chunkFile'[x] = chunkFile[x]
  BY CreateKeeps DEF DumpMemTable, Write, SessionInv
<1>4. \A i \in DOMAIN index :
        /\ index[i].fileId \in DOMAIN chunkFile'
        /\ chunkFile'[index[i].fileId] = chunkFile[index[i].fileId]
  BY <1>2, <1>3 DEF SessionInv, IndexMatchesSegments, TypeOK
<1>5. /\ IndexMatchesSegments'
      /\ \A k : IndexValue(k)' = IndexValue(k)
      /\ \A r \in Readers : ReaderConsistent(r)'
  <2>1. segmentId' >= segmentId
    BY <1>1
  <2> QED
    BY <1>1, <1>4, <2>1, ReadersFrame
<1>6. OpeningEmpty'
  BY <1>1 DEF OpeningEmpty
<1>7. SnapshotConsistent'
  BY <1>1, <1>2, <1>3 DEF SnapshotConsistent, PendingPhases
<1>8. FilterCovers'
  BY <1>1 DEF FilterCovers, SessionInv
<1>9. RowsKeyed'
  BY <1>1, <1>3 DEF RowsKeyed, SessionInv
<1>10. kv' = Contents'
  <2>1. ASSUME NEW k \in Keys
        PROVE  kv'[k] = HeldValue(k)'
    <3>1. kv[k] = HeldValue(k)
      BY ContentsAt
    <3> QED
      BY <1>1, <1>5, <3>1 DEF HeldValue, PendingPhases
  <2> QED
    BY <2>1, ContentsNext
<1> QED
  BY <1>1, <1>5, <1>6, <1>7, <1>8, <1>9, <1>10 DEF SessionInv

\* Clearing the memtable hides nothing: its table is pending.
LEMMA SessionClearMemTable ==
  ASSUME TypeOK, TypeOK', SessionInv, ClearMemTable
  PROVE  SessionInv'
<1>1. /\ pc = "clear" /\ pc' = "bloom" /\ segmentId \in Nat /\ segmentId' = segmentId
      /\ memTable' = EmptyTable /\ index' = index /\ bloomFilter' = bloomFilter
      /\ chunkFile' = chunkFile
      /\ readers' = readers /\ kv' = kv /\ snapshot' = snapshot
  BY DEF ClearMemTable, TypeOK, diskVars, localVars
<1>2. DOMAIN memTable' = {}
  BY <1>1 DEF EmptyTable
<1>3. snapshot.table = memTable
  BY <1>1 DEF SessionInv, SnapshotConsistent
<1>4. /\ IndexMatchesSegments'
      /\ \A k : IndexValue(k)' = IndexValue(k)
      /\ \A r \in Readers : ReaderConsistent(r)'
  <2>1. segmentId' >= segmentId
    BY <1>1
  <2>2. \A i \in DOMAIN index : index[i].fileId \in DOMAIN chunkFile
    BY DEF SessionInv, IndexMatchesSegments
  <2> QED
    BY <1>1, <2>1, <2>2, ReadersFrame
<1>5. OpeningEmpty'
  BY <1>1 DEF OpeningEmpty
<1>6. SnapshotConsistent'
  BY <1>1 DEF SnapshotConsistent, PendingPhases, SnapshotPhases, SessionInv
<1>7. FilterCovers' /\ RowsKeyed'
  BY <1>1, <1>2 DEF FilterCovers, RowsKeyed, SessionInv
<1>8. kv' = Contents'
  <2>1. ASSUME NEW k \in Keys
        PROVE  kv'[k] = HeldValue(k)'
    <3>1. kv[k] = HeldValue(k)
      BY ContentsAt
    <3> QED
      BY <1>1, <1>2, <1>3, <1>4, <3>1 DEF HeldValue, PendingPhases
  <2> QED
    BY <2>1, ContentsNext
<1> QED
  BY <1>1, <1>4, <1>5, <1>6, <1>7, <1>8 DEF SessionInv

\* The filter gets the keys of the table before the index does.
LEMMA SessionSaveFilter ==
  ASSUME TypeOK, TypeOK', SessionInv, AddToBloom \/ DumpBloom \/ OpenIndexFile
  PROVE  SessionInv'
<1>1. /\ pc \in {"bloom", "bloomDump", "index"} /\ pc' \in {"bloomDump", "index", "indexDump"}
      /\ segmentId \in Nat /\ segmentId' = segmentId
      /\ memTable' = memTable /\ index' = index /\ chunkFile' = chunkFile
      /\ readers' = readers /\ kv' = kv /\ snapshot' = snapshot
  BY DEF AddToBloom, DumpBloom, OpenIndexFile, TypeOK, memoryVars, logVars, localVars
<1>2. /\ IndexMatchesSegments'
      /\ \A k : IndexValue(k)' = IndexValue(k)
      /\ \A r \in Readers : ReaderConsistent(r)'
  <2>1. segmentId' >= segmentId
    BY <1>1
  <2>2. \A i \in DOMAIN index : index[i].fileId \in DOMAIN chunkFile
    BY DEF SessionInv, IndexMatchesSegments
  <2> QED
    BY <1>1, <2>1, <2>2, ReadersFrame
<1>3. OpeningEmpty'
  BY <1>1 DEF OpeningEmpty
<1>4. SnapshotConsistent'
  BY <1>1 DEF SnapshotConsistent, PendingPhases, SnapshotPhases, SessionInv
<1>5. FilterCovers'
  <2>1. CASE AddToBloom
    <3>1. bloomFilter' = BloomAdd(bloomFilter, DOMAIN snapshot.table)
      BY <2>1 DEF AddToBloom
    <3>2. ASSUME NEW i \in DOMAIN index, NEW k \in DOMAIN index[i].map
          PROVE  ProbablyContains(bloomFilter', k)
      <4>1. ProbablyContains(bloomFilter, k)
        BY DEF SessionInv, FilterCovers
      <4> QED
        BY <3>1, <4>1, BloomAddCovers
    <3>3. ASSUME NEW k \in DOMAIN snapshot.table
          PROVE  ProbablyContains(bloomFilter', k)
      BY <3>1, BloomAddCovers
    <3> QED
      BY <1>1, <3>2, <3>3 DEF FilterCovers
  <2>2. CASE DumpBloom \/ OpenIndexFile
    <3>1. bloomFilter' = bloomFilter /\ pc \in {"bloomDump", "index"}
      BY <2>2 DEF DumpBloom, OpenIndexFile, memoryVars
    <3> QED
      BY <1>1, <3>1 DEF FilterCovers, SessionInv
  <2> QED
    BY <2>1, <2>2
<1>6. RowsKeyed'
  BY <1>1 DEF RowsKeyed, SessionInv
<1>7. kv' = Contents'
  <2>1. ASSUME NEW k \in Keys
        PROVE  kv'[k] = HeldValue(k)'
    <3>1. kv[k] = HeldValue(k)
      BY ContentsAt
    <3> QED
      BY <1>1, <1>2, <3>1 DEF HeldValue, PendingPhases
  <2> QED
    BY <2>1, ContentsNext
<1> QED
  BY <1>1, <1>2, <1>3, <1>4, <1>5, <1>6, <1>7 DEF SessionInv

\* What the list leads to once the table of the snapshot stands in front.
LEMMA PushedValues ==
  ASSUME TypeOK, TypeOK', IndexMatchesSegments, IndexMatchesSegments',
         NEW table, index' = IndexUpdate(index, table), chunkFile' = chunkFile,
         NEW k
  PROVE  IF k \in DOMAIN table.map
         THEN k \in DOMAIN chunkFile[table.fileId] /\ IndexValue(k)' = RowResult(chunkFile[table.fileId][k])
         ELSE IndexValue(k)' = IndexValue(k)
<1>1. /\ DOMAIN index = 1 .. Len(index) /\ Len(index) \in Nat
      /\ DOMAIN index' = 1 .. 1 + Len(index)
      /\ index'[1] = table
      /\ \A i \in DOMAIN index : index'[i + 1] = index[i]
      /\ \A i \in DOMAIN index' : i = 1 \/ (i - 1 \in DOMAIN index /\ index'[i] = index[i - 1])
  BY IndexPushed
<1>2. CASE k \in DOMAIN table.map
  <2>1. FirstWith(index', k, 1)
    BY <1>1, <1>2 DEF FirstWith, TablesWith
  <2> QED
    BY <1>1, <1>2, <2>1, IndexValueFirstNext
<1>3. CASE k \notin DOMAIN table.map
  <2>1. CASE TablesWith(index, k) = {}
    <3>1. TablesWith(index', k) = {}
      BY <1>1, <1>3, <2>1 DEF TablesWith
    <3> QED
      BY <1>3, <2>1, <3>1 DEF IndexValue
  <2>2. CASE TablesWith(index, k) # {}
    <3>1. PICK i : FirstWith(index, k, i)
      <4>1. index \in Seq({index[j] : j \in DOMAIN index})
        BY DEF TypeOK
      <4> QED
        BY <2>2, <4>1, FirstWithExists, Zenon
    <3>2. i \in DOMAIN index /\ index'[i + 1] = index[i] /\ i \in Nat
      BY <1>1, <3>1 DEF FirstWith, TablesWith
    <3>3. FirstWith(index', k, i + 1)
      <4>1. i + 1 \in TablesWith(index', k)
        BY <1>1, <3>1, <3>2 DEF FirstWith, TablesWith
      <4>2. ASSUME NEW j \in TablesWith(index', k)
            PROVE  i + 1 <= j
        <5>1. j \in DOMAIN index' /\ k \in DOMAIN index'[j].map
          BY DEF TablesWith
        <5>2. j # 1 /\ j - 1 \in DOMAIN index /\ index'[j] = index[j - 1]
          BY <1>1, <1>3, <5>1
        <5>3. j - 1 \in TablesWith(index, k)
          BY <5>1, <5>2 DEF TablesWith
        <5>4. i <= j - 1
          BY <3>1, <5>3 DEF FirstWith
        <5> QED
          BY <1>1, <3>2, <5>1, <5>4
      <4> QED
        BY <4>1, <4>2 DEF FirstWith
    <3>4. IndexValue(k) = RowResult(chunkFile[index[i].fileId][k])
      BY <3>1, IndexValueFirst
    <3>5. IndexValue(k)' = RowResult(chunkFile'[index'[i + 1].fileId][k])
      BY <3>3, IndexValueFirstNext
    <3> QED
      BY <1>3, <3>2, <3>4, <3>5
  <2> QED
    BY <2>1, <2>2
<1> QED
  BY <1>2, <1>3

\* The pending table moves into the index, where the same rows are found; a
\* lookup that holds a hint keeps it, one place further down the list.
LEMMA SessionDumpIndex ==
  ASSUME TypeOK, TypeOK', Storable, SessionInv, DumpIndex
  PROVE  SessionInv'
<1> DEFINE table == [fileId |-> snapshot.segment, map |-> SSTableIndex(snapshot.table)]
<1>1. /\ pc = "indexDump" /\ pc' = "ready" /\ segmentId \in Nat /\ segmentId' = segmentId
      /\ memTable' = memTable /\ bloomFilter' = bloomFilter /\ chunkFile' = chunkFile
      /\ readers' = readers /\ kv' = kv
  BY DEF DumpIndex, TypeOK, logVars
<1>2. /\ segmentId = snapshot.segment + 1 /\ snapshot.segment \in Nat
      /\ \A i \in DOMAIN index : index[i].fileId # snapshot.segment
      /\ memTable = EmptyTable
      /\ snapshot.segment \in DOMAIN chunkFile /\ chunkFile[snapshot.segment] = snapshot.table
  BY <1>1 DEF SessionInv, SnapshotConsistent, SnapshotPhases, PendingPhases, TypeOK
<1>3. index' = IndexUpdate(index, table)
  BY <1>2 DEF DumpIndex, Indexed
<1>4. /\ table.fileId = snapshot.segment
      /\ table.map = SSTableIndex(snapshot.table)
      /\ DOMAIN table.map = DOMAIN snapshot.table
  BY SSTableIndexType DEF TypeOK
<1> HIDE DEF table
<1>5. /\ DOMAIN index = 1 .. Len(index) /\ Len(index) \in Nat
      /\ DOMAIN index' = 1 .. 1 + Len(index)
      /\ index'[1] = table
      /\ \A i \in DOMAIN index : index'[i + 1] = index[i]
      /\ \A i \in DOMAIN index' : i = 1 \/ (i - 1 \in DOMAIN index /\ index'[i] = index[i - 1])
  BY <1>3, IndexPushed
<1>6. IndexMatchesSegments'
  <2> SUFFICES ASSUME NEW i \in DOMAIN index'
               PROVE  /\ index'[i].fileId < segmentId'
                      /\ index'[i].fileId \in DOMAIN chunkFile'
                      /\ index'[i].map = SSTableIndex(chunkFile'[index'[i].fileId])
                      /\ Addressable(chunkFile'[index'[i].fileId])
    BY DEF IndexMatchesSegments
  <2>1. CASE i = 1
    <3>1. Addressable(snapshot.table)
      BY DEF Storable, TypeOK, SessionInv, RowsKeyed
    <3> QED
      BY <1>1, <1>2, <1>4, <1>5, <2>1, <3>1
  <2>2. CASE i # 1
    <3>1. i - 1 \in DOMAIN index /\ index'[i] = index[i - 1]
      BY <1>5, <2>2
    <3> QED
      BY <1>1, <3>1 DEF SessionInv, IndexMatchesSegments
  <2> QED
    BY <2>1, <2>2
<1>7. ASSUME NEW k
      PROVE  IF k \in DOMAIN snapshot.table
             THEN IndexValue(k)' = RowResult(snapshot.table[k])
             ELSE IndexValue(k)' = IndexValue(k)
  <2>1. IF k \in DOMAIN table.map
        THEN k \in DOMAIN chunkFile[table.fileId] /\ IndexValue(k)' = RowResult(chunkFile[table.fileId][k])
        ELSE IndexValue(k)' = IndexValue(k)
    BY <1>1, <1>3, <1>6, PushedValues DEF SessionInv
  <2> QED
    BY <1>2, <1>4, <2>1
<1>8. DOMAIN memTable = {}
  BY <1>2 DEF EmptyTable
<1>9. ASSUME NEW k \in Keys
      PROVE  kv[k] = IndexValue(k)' /\ kv'[k] = HeldValue(k)'
  <2>1. kv[k] = HeldValue(k)
    BY ContentsAt
  <2>2. kv[k] = IndexValue(k)'
    BY <1>1, <1>7, <1>8, <2>1 DEF HeldValue, PendingPhases
  <2>3. HeldValue(k)' = IndexValue(k)'
    BY <1>1, <1>8 DEF HeldValue, PendingPhases
  <2> QED
    BY <1>1, <2>2, <2>3
<1>10. kv' = Contents'
  BY <1>9, ContentsNext
<1>11. ASSUME NEW r \in Readers
       PROVE  ReaderConsistent(r)'
  <2>1. ReaderConsistent(r) /\ readers'[r] = readers[r]
    BY <1>1 DEF SessionInv
  <2>2. readers[r].pc \in {"bloom", "index"} => IndexValue(readers[r].key)' \in readers[r].seen
    BY <1>9, <2>1 DEF ReaderConsistent
  <2>3. ASSUME readers[r].pc = "chunk"
        PROVE  \E i \in DOMAIN index' :
                 /\ readers[r].key \in DOMAIN index'[i].map
                 /\ readers[r].hint = [fileId |-> index'[i].fileId,
                                       offset |-> index'[i].map[readers[r].key].offset,
                                       size   |-> index'[i].map[readers[r].key].size]
                 /\ \/ readers[r].tomb
                    \/ RowResult(chunkFile'[index'[i].fileId][readers[r].key]) \in readers[r].seen
    <3>1. PICK i \in DOMAIN index :
            /\ readers[r].key \in DOMAIN index[i].map
            /\ readers[r].hint = [fileId |-> index[i].fileId,
                                  offset |-> index[i].map[readers[r].key].offset,
                                  size   |-> index[i].map[readers[r].key].size]
            /\ readers[r].tomb \/ RowResult(chunkFile[index[i].fileId][readers[r].key]) \in readers[r].seen
      BY <2>1, <2>3 DEF ReaderConsistent
    <3>2. i + 1 \in DOMAIN index' /\ index'[i + 1] = index[i]
      BY <1>5
    <3> QED
      BY <1>1, <3>1, <3>2
  <2> QED
    BY <1>1, <2>1, <2>2, <2>3 DEF ReaderConsistent
<1>12. FilterCovers'
  <2>1. ASSUME NEW i \in DOMAIN index', NEW k \in DOMAIN index'[i].map
        PROVE  ProbablyContains(bloomFilter, k)
    <3>1. CASE i = 1
      BY <1>1, <1>4, <1>5, <2>1, <3>1 DEF SessionInv, FilterCovers
    <3>2. CASE i # 1
      <4>1. i - 1 \in DOMAIN index /\ index'[i] = index[i - 1]
        BY <1>5, <3>2
      <4> QED
        BY <2>1, <4>1 DEF SessionInv, FilterCovers
    <3> QED
      BY <3>1, <3>2
  <2> QED
    BY <1>1, <2>1 DEF FilterCovers
<1>13. OpeningEmpty' /\ SnapshotConsistent' /\ RowsKeyed'
  <2>1. DOMAIN snapshot'.table = {}
    BY DEF DumpIndex, NoSnapshot, EmptyTable
  <2> QED
    BY <1>1, <2>1 DEF OpeningEmpty, SnapshotConsistent, SnapshotPhases, PendingPhases, RowsKeyed, SessionInv
<1> QED
  BY <1>1, <1>6, <1>10, <1>11, <1>12, <1>13 DEF SessionInv

-----------------------------------------------------------------------------
(* put and remove                                                          *)

LEMMA SessionInsertRow ==
  ASSUME TypeOK, TypeOK', SessionInv, NEW row, NEW x, InsertRow(row, x),
         row.key \in Keys, RowResult(row) = x, pc' \in {"ready", "snapshot"}
  PROVE  SessionInv'
<1>1. /\ pc = "ready" /\ segmentId \in Nat /\ segmentId' = segmentId
      /\ memTable' = Insert(memTable, row)
      /\ kv' = [kv EXCEPT ![row.key] = x]
      /\ readers' = Seen(row.key, x)
      /\ index' = index /\ bloomFilter' = bloomFilter /\ chunkFile' = chunkFile /\ snapshot' = snapshot
  BY DEF InsertRow, TypeOK, diskVars, localVars
<1>2. /\ DOMAIN memTable' = DOMAIN memTable \cup {row.key}
      /\ memTable'[row.key] = row
      /\ \A k \in DOMAIN memTable \ {row.key} : memTable'[k] = memTable[k]
  BY <1>1 DEF Insert
<1>3. IndexMatchesSegments' /\ \A k : IndexValue(k)' = IndexValue(k)
  <2>1. segmentId' >= segmentId
    BY <1>1
  <2>2. \A i \in DOMAIN index : index[i].fileId \in DOMAIN chunkFile
    BY DEF SessionInv, IndexMatchesSegments
  <2> QED
    BY <1>1, <2>1, <2>2, IndexValueSame DEF SessionInv
<1>4. kv'[row.key] = x /\ \A k \in Keys \ {row.key} : kv'[k] = kv[k]
  BY <1>1 DEF TypeOK
<1>5. kv' = Contents'
  <2>1. ASSUME NEW k \in Keys
        PROVE  kv'[k] = HeldValue(k)'
    <3>1. kv[k] = HeldValue(k)
      BY ContentsAt
    <3> QED
      BY <1>1, <1>2, <1>3, <1>4, <3>1 DEF HeldValue, PendingPhases
  <2> QED
    BY <2>1, ContentsNext
<1>6. ASSUME NEW r \in Readers
      PROVE  ReaderConsistent(r)'
  <2>1. ReaderConsistent(r)
    BY DEF SessionInv
  <2>2. CASE readers[r].pc \in {"bloom", "index", "chunk"} /\ readers[r].key = row.key
    <3>1. readers'[r] = [readers[r] EXCEPT !.seen = @ \cup {x}]
      BY <1>1, <2>2 DEF Seen
    <3>2. /\ readers'[r].pc = readers[r].pc /\ readers'[r].key = readers[r].key
          /\ readers'[r].tomb = readers[r].tomb /\ readers'[r].hint = readers[r].hint
          /\ readers'[r].seen = readers[r].seen \cup {x}
      BY <3>1 DEF TypeOK, ReaderState
    <3> QED
      BY <1>1, <1>3, <1>4, <2>1, <2>2, <3>2 DEF ReaderConsistent
  <2>3. CASE ~(readers[r].pc \in {"bloom", "index", "chunk"} /\ readers[r].key = row.key)
    <3>1. readers'[r] = readers[r]
      BY <1>1, <2>3 DEF Seen
    <3> QED
      BY <1>1, <1>3, <1>4, <2>1, <2>3, <3>1 DEF ReaderConsistent
  <2> QED
    BY <2>2, <2>3
<1>7. RowsKeyed'
  BY <1>1, <1>2 DEF RowsKeyed, SessionInv
<1>8. OpeningEmpty' /\ SnapshotConsistent' /\ FilterCovers'
  BY <1>1 DEF OpeningEmpty, SnapshotConsistent, SnapshotPhases, PendingPhases, FilterCovers, SessionInv
<1> QED
  BY <1>3, <1>5, <1>6, <1>7, <1>8 DEF SessionInv

\* What the rows of clients decode to.
LEMMA ClientRowResults ==
  ASSUME Storable, NEW k \in Keys
  PROVE  /\ RowResult(RemoveRow(k)) = NotFound /\ RemoveRow(k).key = k
         /\ \A v \in Values : RowResult(PutRow(k, v)) = v /\ PutRow(k, v).key = k
<1>1. k \in KeyIds
  BY KeysAssumption DEF KeyIds
<1>2. RowResult(RemoveRow(k)) = NotFound /\ RemoveRow(k).key = k
  BY <1>1, RemoveRowType DEF RowResult
<1>3. ASSUME NEW v \in Values
      PROVE  RowResult(PutRow(k, v)) = v /\ PutRow(k, v).key = k
  <2>1. Decode(PutRow(k, v)) = v
    BY PutRowDecodes DEF Storable
  <2>2. PutRow(k, v).type = "Put" /\ PutRow(k, v).key = k
    BY PutRowType
  <2> QED
    BY <2>1, <2>2 DEF RowResult
<1> QED
  BY <1>2, <1>3

LEMMA SessionClientWrite ==
  ASSUME TypeOK, TypeOK', Storable, SessionInv, ClientWrite
  PROVE  SessionInv'
<1>1. ASSUME NEW k \in RemoveKeys, Remove(k)
      PROVE  SessionInv'
  <2>1. k \in Keys
    BY EngineAssumption
  <2>2. InsertRow(RemoveRow(k), NotFound) /\ pc' \in {"ready", "snapshot"}
    BY <1>1 DEF Remove, InsertRow
  <2> QED
    BY <2>1, <2>2, ClientRowResults, SessionInsertRow
<1>2. ASSUME NEW k \in Keys, NEW v \in Values, Put(k, v)
      PROVE  SessionInv'
  <2>1. InsertRow(PutRow(k, v), v) /\ pc' \in {"ready", "snapshot"}
    BY <1>2 DEF Put
  <2>2. RowResult(PutRow(k, v)) = v /\ PutRow(k, v).key = k
    BY ClientRowResults
  <2> QED
    BY <2>1, <2>2, SessionInsertRow
<1> QED
  BY <1>1, <1>2 DEF ClientWrite

-----------------------------------------------------------------------------
(* get                                                                     *)

\* A step of a lookup changes nothing but the lookup.
LEMMA SessionReaderStep ==
  ASSUME TypeOK, TypeOK', SessionInv, NEW r \in Readers, NEW state, ReaderStep(r, state),
         ReaderConsistent(r)'
  PROVE  SessionInv'
<1>1. /\ pc' = pc /\ memTable' = memTable /\ segmentId' = segmentId /\ index' = index
      /\ bloomFilter' = bloomFilter /\ chunkFile' = chunkFile /\ indexFile' = indexFile
      /\ bloomFile' = bloomFile /\ walFile' = walFile /\ kv' = kv
      /\ snapshot' = snapshot /\ toLoad' = toLoad
  BY DEF ReaderStep, memoryVars, diskVars, logVars, localVars
<1>2. \A q \in Readers \ {r} : readers'[q] = readers[q]
  BY DEF ReaderStep, TypeOK
<1>3. \A k : IndexValue(k)' = IndexValue(k)
  BY <1>1 DEF IndexValue, RowsOnDisk, Chunk
<1>4. ASSUME NEW q \in Readers
      PROVE  ReaderConsistent(q)'
  <2>1. CASE q = r
    BY <2>1
  <2>2. CASE q # r
    <3>1. ReaderConsistent(q) /\ readers'[q] = readers[q]
      BY <1>2, <2>2 DEF SessionInv
    <3> QED
      BY <1>1, <1>3, <3>1 DEF ReaderConsistent
  <2> QED
    BY <2>1, <2>2
<1>5. kv' = Contents'
  <2>1. ASSUME NEW k \in Keys
        PROVE  kv'[k] = HeldValue(k)'
    <3>1. kv[k] = HeldValue(k)
      BY ContentsAt
    <3> QED
      BY <1>1, <1>3, <3>1 DEF HeldValue
  <2> QED
    BY <2>1, ContentsNext
<1>6. OpeningEmpty' /\ IndexMatchesSegments' /\ SnapshotConsistent' /\ FilterCovers' /\ RowsKeyed'
  BY <1>1 DEF OpeningEmpty, IndexMatchesSegments, SnapshotConsistent, FilterCovers, RowsKeyed, SessionInv
<1> QED
  BY <1>1, <1>4, <1>5, <1>6 DEF SessionInv

\* The state of a lookup after its step, field by field.
LEMMA ReaderStepAt ==
  ASSUME TypeOK, NEW r \in Readers, NEW state, ReaderStep(r, state)
  PROVE  /\ readers'[r] = state
         /\ index' = index /\ chunkFile' = chunkFile /\ kv' = kv
         /\ \A k : IndexValue(k)' = IndexValue(k)
<1>1. readers'[r] = state
  BY DEF ReaderStep, TypeOK
<1>2. index' = index /\ chunkFile' = chunkFile /\ kv' = kv
  BY DEF ReaderStep, memoryVars, diskVars, logVars
<1>3. \A k : IndexValue(k)' = IndexValue(k)
  BY <1>2 DEF IndexValue, RowsOnDisk, Chunk
<1> QED
  BY <1>1, <1>2, <1>3

\* A lookup that ends with a value the key had.
LEMMA SessionFinish ==
  ASSUME TypeOK, TypeOK', SessionInv, NEW r \in Readers, NEW x, Finish(r, x),
         readers[r].tomb \/ x \in readers[r].seen
  PROVE  SessionInv'
<1> DEFINE state == [readers[r] EXCEPT !.pc = "done", !.res = x]
<1>1. ReaderStep(r, state)
  BY DEF Finish
<1>2. state.pc = "done" /\ state.res = x /\ state.seen = readers[r].seen /\ state.tomb = readers[r].tomb
  BY DEF TypeOK, ReaderState
<1> HIDE DEF state
<1>3. readers'[r] = state
  BY <1>1, ReaderStepAt
<1>4. ReaderConsistent(r)'
  BY <1>2, <1>3 DEF ReaderConsistent
<1> QED
  BY <1>1, <1>4, SessionReaderStep

\* A key that the filter denies is in no table.
LEMMA FilterMiss ==
  ASSUME SessionInv, NEW k, ~ProbablyContains(bloomFilter, k)
  PROVE  TablesWith(index, k) = {} /\ IndexValue(k) = NotFound
<1>1. TablesWith(index, k) = {}
  BY DEF SessionInv, FilterCovers, TablesWith
<1> QED
  BY <1>1 DEF IndexValue

\* A hint names one whole row, of the key that was asked for.
LEMMA HintNamesRow ==
  ASSUME TypeOK, SessionInv, NEW r \in Readers, readers[r].pc = "chunk"
  PROVE  LET chunk == Chunk(readers[r].hint.fileId)
             k     == readers[r].key
         IN  /\ k \in DOMAIN chunk
             /\ chunk[k].key = k
             /\ ReadRows(chunk, readers[r].hint) = {chunk[k]}
             /\ readers[r].tomb \/ RowResult(chunk[k]) \in readers[r].seen
<1> DEFINE k == readers[r].key
<1>1. PICK i \in DOMAIN index :
        /\ k \in DOMAIN index[i].map
        /\ readers[r].hint = [fileId |-> index[i].fileId,
                              offset |-> index[i].map[k].offset,
                              size   |-> index[i].map[k].size]
        /\ readers[r].tomb \/ RowResult(chunkFile[index[i].fileId][k]) \in readers[r].seen
  BY DEF SessionInv, ReaderConsistent
<1> DEFINE t == chunkFile[index[i].fileId]
<1>2. /\ index[i].fileId \in DOMAIN chunkFile /\ index[i].map = SSTableIndex(t)
      /\ IsTable(t) /\ Addressable(t)
  BY DEF TypeOK, SessionInv, IndexMatchesSegments
<1>3. Chunk(readers[r].hint.fileId) = t
  BY <1>1, <1>2 DEF Chunk
<1>4. k \in DOMAIN t
  BY <1>1, <1>2, SSTableIndexType
<1>5. t[k].key = k
  BY <1>2, <1>4 DEF SessionInv, RowsKeyed
<1> DEFINE hint == SSTableIndex(t)[k]
<1>6. ReadRows(t, hint) = {t[k]}
  BY <1>2, <1>4, IndexedRowIsRead
<1>7. readers[r].hint.offset = hint.offset /\ readers[r].hint.size = hint.size
  BY <1>1, <1>2
<1> HIDE DEF hint
<1>8. ReadRows(t, readers[r].hint) = {t[k]}
  BY <1>6, <1>7, SameHint
<1> QED
  BY <1>1, <1>3, <1>4, <1>5, <1>8

LEMMA SessionFindInMemory ==
  ASSUME TypeOK, TypeOK', SessionInv, NEW r \in Readers, NEW k \in Keys, FindInMemory(r, k)
  PROVE  SessionInv'
<1> DEFINE found == k \in DOMAIN memTable
           begun == [IdleReader EXCEPT !.key = k, !.seen = {kv[k]}]
           hit   == [begun EXCEPT !.pc = "done", !.res = Decode(memTable[k])]
           miss  == [begun EXCEPT !.pc = "bloom", !.tomb = found]
<1>1. pc = "ready" /\ ReaderStep(r, IF found /\ memTable[k].type # "Remove" THEN hit ELSE miss)
  BY DEF FindInMemory
<1>2. kv[k] = HeldValue(k)
  BY ContentsAt
<1>3. /\ hit.pc = "done" /\ hit.res = Decode(memTable[k]) /\ hit.seen = {kv[k]}
      /\ miss.pc = "bloom" /\ miss.key = k /\ miss.seen = {kv[k]} /\ miss.tomb = found
  BY DEF IdleReader
<1> HIDE DEF hit, miss
<1>4. CASE found /\ memTable[k].type # "Remove"
  <2>1. ReaderStep(r, hit)
    BY <1>1, <1>4
  <2>2. Decode(memTable[k]) = kv[k]
    BY <1>2, <1>4 DEF HeldValue, RowResult
  <2>3. readers'[r] = hit
    BY <2>1, ReaderStepAt
  <2>4. ReaderConsistent(r)'
    BY <1>3, <2>2, <2>3 DEF ReaderConsistent
  <2> QED
    BY <2>1, <2>4, SessionReaderStep
<1>5. CASE ~(found /\ memTable[k].type # "Remove")
  <2>1. ReaderStep(r, miss)
    BY <1>1, <1>5
  <2>2. found \/ IndexValue(k) = kv[k]
    BY <1>1, <1>2 DEF HeldValue, PendingPhases
  <2>3. readers'[r] = miss /\ kv' = kv /\ IndexValue(k)' = IndexValue(k)
    BY <2>1, ReaderStepAt
  <2>4. ReaderConsistent(r)'
    BY <1>3, <2>2, <2>3 DEF ReaderConsistent
  <2> QED
    BY <2>1, <2>4, SessionReaderStep
<1> QED
  BY <1>4, <1>5

LEMMA SessionCheckBloom ==
  ASSUME TypeOK, TypeOK', SessionInv, NEW r \in Readers, CheckBloom(r)
  PROVE  SessionInv'
<1>1. readers[r].pc = "bloom" /\ ReaderConsistent(r)
  BY DEF CheckBloom, SessionInv
<1>2. PICK bits \in BloomSeen :
        IF ProbablyContains(bits, readers[r].key)
        THEN ReaderStep(r, [readers[r] EXCEPT !.pc = "index"])
        ELSE Finish(r, NotFound)
  BY Zenon DEF CheckBloom
<1>3. CASE ProbablyContains(bits, readers[r].key)
  <2> DEFINE state == [readers[r] EXCEPT !.pc = "index"]
  <2>1. ReaderStep(r, state)
    BY <1>2, <1>3
  <2>2. /\ state.pc = "index" /\ state.key = readers[r].key
        /\ state.seen = readers[r].seen /\ state.tomb = readers[r].tomb
    BY DEF TypeOK, ReaderState
  <2> HIDE DEF state
  <2>3. readers'[r] = state /\ kv' = kv /\ \A k : IndexValue(k)' = IndexValue(k)
    BY <2>1, ReaderStepAt
  <2>4. ReaderConsistent(r)'
    BY <1>1, <2>2, <2>3 DEF ReaderConsistent
  <2> QED
    BY <2>1, <2>4, SessionReaderStep
<1>4. CASE ~ProbablyContains(bits, readers[r].key)
  <2>1. ~ProbablyContains(bloomFilter, readers[r].key)
    <3>1. bits = bloomFilter \/ bits = BloomAdd(bloomFilter, DOMAIN snapshot.table)
      BY DEF BloomSeen
    <3> QED
      BY <1>4, <3>1, BloomAddCovers
  <2>2. IndexValue(readers[r].key) = NotFound
    BY <2>1, FilterMiss
  <2>3. readers[r].tomb \/ NotFound \in readers[r].seen
    BY <1>1, <2>2 DEF ReaderConsistent
  <2>4. Finish(r, NotFound)
    BY <1>2, <1>4
  <2> QED
    BY <2>3, <2>4, SessionFinish
<1> QED
  BY <1>3, <1>4

LEMMA SessionLookupIndex ==
  ASSUME TypeOK, TypeOK', SessionInv, NEW r \in Readers, LookupIndex(r)
  PROVE  SessionInv'
<1> DEFINE k == readers[r].key
<1>1. readers[r].pc = "index" /\ ReaderConsistent(r)
  BY DEF LookupIndex, SessionInv
<1>2. CASE TablesWith(index, k) = {}
  <2>1. IndexValue(k) = NotFound
    BY <1>2 DEF IndexValue
  <2>2. Finish(r, NotFound)
    BY <1>2 DEF LookupIndex
  <2>3. readers[r].tomb \/ NotFound \in readers[r].seen
    BY <1>1, <2>1 DEF ReaderConsistent
  <2> QED
    BY <2>2, <2>3, SessionFinish
<1>3. CASE TablesWith(index, k) # {}
  <2> DEFINE state == [readers[r] EXCEPT !.pc = "chunk", !.hint = IndexGet(index, k)]
  <2>1. ReaderStep(r, state)
    BY <1>3 DEF LookupIndex
  <2>2. /\ state.pc = "chunk" /\ state.key = k /\ state.hint = IndexGet(index, k)
        /\ state.seen = readers[r].seen /\ state.tomb = readers[r].tomb
    BY DEF TypeOK, ReaderState
  <2>3. index \in Seq({index[j] : j \in DOMAIN index})
    BY DEF TypeOK
  <2>4. PICK i \in TablesWith(index, k) :
          /\ \A j \in TablesWith(index, k) : i <= j
          /\ IndexGet(index, k) = [fileId |-> index[i].fileId,
                                   offset |-> index[i].map[k].offset,
                                   size   |-> index[i].map[k].size]
    BY <1>3, <2>3, IndexGetFirst, Zenon
  <2>5. FirstWith(index, k, i)
    BY <2>4 DEF FirstWith
  <2>6. IndexValue(k) = RowResult(chunkFile[index[i].fileId][k])
    BY <2>5, IndexValueFirst DEF SessionInv
  <2>7. i \in DOMAIN index /\ k \in DOMAIN index[i].map
    BY DEF TablesWith
  <2> HIDE DEF state
  <2>8. readers'[r] = state /\ kv' = kv /\ index' = index /\ chunkFile' = chunkFile
    BY <2>1, ReaderStepAt
  <2>9. ReaderConsistent(r)'
    BY <1>1, <2>2, <2>4, <2>6, <2>7, <2>8 DEF ReaderConsistent
  <2> QED
    BY <2>1, <2>9, SessionReaderStep
<1> QED
  BY <1>2, <1>3

LEMMA SessionReadChunk ==
  ASSUME TypeOK, TypeOK', SessionInv, NEW r \in Readers, ReadChunk(r)
  PROVE  SessionInv'
<1> DEFINE chunk == Chunk(readers[r].hint.fileId)
           k     == readers[r].key
<1>1. readers[r].pc = "chunk"
  BY DEF ReadChunk
<1>2. /\ ReadRows(chunk, readers[r].hint) = {chunk[k]}
      /\ readers[r].tomb \/ RowResult(chunk[k]) \in readers[r].seen
  BY <1>1, HintNamesRow
<1>3. Finish(r, RowResult(chunk[k]))
  BY <1>2 DEF ReadChunk
<1> QED
  BY <1>2, <1>3, SessionFinish

LEMMA SessionGet ==
  ASSUME TypeOK, TypeOK', SessionInv, NEW r \in Readers, Get(r)
  PROVE  SessionInv'
<1>1. ASSUME Return(r)
      PROVE  SessionInv'
  <2>1. ReaderStep(r, IdleReader)
    BY <1>1 DEF Return
  <2>2. readers'[r] = IdleReader
    BY <2>1, ReaderStepAt
  <2>3. ReaderConsistent(r)'
    BY <2>2 DEF ReaderConsistent, IdleReader
  <2> QED
    BY <2>1, <2>3, SessionReaderStep
<1> QED
  BY <1>1, SessionFindInMemory, SessionCheckBloom, SessionLookupIndex, SessionReadChunk DEF Get

-----------------------------------------------------------------------------
(* The theorems                                                            *)

\* The invariants of the proofs in one.
ProofInv == TypeInv /\ SessionInv

LEMMA SessionStutter ==
  ASSUME SessionInv, UNCHANGED vars
  PROVE  SessionInv'
<1>1. /\ pc' = pc /\ memTable' = memTable /\ segmentId' = segmentId /\ index' = index
      /\ bloomFilter' = bloomFilter /\ chunkFile' = chunkFile /\ indexFile' = indexFile
      /\ bloomFile' = bloomFile /\ walFile' = walFile /\ kv' = kv
      /\ snapshot' = snapshot /\ toLoad' = toLoad /\ readers' = readers
  BY DEF vars, memoryVars, diskVars, logVars, localVars, boundVars
<1>2. \A k : IndexValue(k)' = IndexValue(k)
  BY <1>1 DEF IndexValue, RowsOnDisk, Chunk
<1>3. kv' = Contents'
  BY <1>1, <1>2 DEF SessionInv, Contents, HeldValue
<1>4. \A r \in Readers : ReaderConsistent(r)'
  BY <1>1, <1>2 DEF SessionInv, ReaderConsistent
<1>5. OpeningEmpty' /\ IndexMatchesSegments' /\ SnapshotConsistent' /\ FilterCovers' /\ RowsKeyed'
  BY <1>1 DEF SessionInv, OpeningEmpty, IndexMatchesSegments, SnapshotConsistent, FilterCovers, RowsKeyed
<1> QED
  BY <1>1, <1>3, <1>4, <1>5 DEF SessionInv

LEMMA SessionStep ==
  ASSUME Storable, ProofInv, [SessionNext]_vars
  PROVE  ProofInv'
<1>1. TypeOK /\ TypeInv /\ SessionInv
  BY DEF ProofInv, TypeInv
<1>2. TypeInv'
  BY <1>1, TypeStep DEF Next
<1>3. TypeOK'
  BY <1>2 DEF TypeInv
<1>4. ASSUME Snapshot
      PROVE  SessionInv'
  BY <1>1, <1>3, <1>4, SessionBeginSnapshot, SessionDumpMemTable, SessionClearMemTable,
     SessionSaveFilter, SessionDumpIndex DEF Snapshot
<1>5. SessionInv'
  BY <1>1, <1>3, <1>4, SessionStutter, SessionOpen, SessionClientWrite, SessionGet DEF SessionNext
<1> QED
  BY <1>2, <1>5 DEF ProofInv

\* The invariant of the proofs holds throughout a session.
LEMMA SessionCorrect ==
  ASSUME Storable
  PROVE  SessionSpec => []ProofInv
<1>1. Init => ProofInv
  BY TypeInit, SessionInit DEF ProofInv
<1>2. ProofInv /\ [SessionNext]_vars => ProofInv'
  BY SessionStep
<1> QED
  BY <1>1, <1>2, PTL DEF SessionSpec

\* Index, segment files, Bloom filter, memtable and lookups agree at every step
\* of put, remove, makeSnapshot and get.
THEOREM SessionInvariant ==
  ASSUME Storable
  PROVE  SessionSpec => []SessionInv
<1>1. ProofInv => SessionInv
  BY DEF ProofInv
<1> QED
  BY <1>1, SessionCorrect, PTL

\* get answers with what the engine holds.
LEMMA ReadsServe == ProofInv => ReadYourWrites
<1>1. ASSUME ProofInv, pc = "ready", NEW k \in Keys, ~TombstoneInMemory(k)
      PROVE  GetResults(k) = {kv[k]}
  <2>1. TypeOK /\ SessionInv /\ IndexMatchesSegments
    BY <1>1 DEF ProofInv, TypeInv, SessionInv
  <2>2. kv[k] = HeldValue(k)
    BY <2>1, ContentsAt
  <2>3. CASE k \in DOMAIN memTable
    BY <1>1, <2>2, <2>3 DEF GetResults, TombstoneInMemory, HeldValue, RowResult
  <2>4. CASE k \notin DOMAIN memTable
    <3>1. kv[k] = IndexValue(k)
      BY <1>1, <2>2, <2>4 DEF HeldValue, PendingPhases
    <3>2. CASE ~ProbablyContains(bloomFilter, k) \/ TablesWith(index, k) = {}
      <4>1. IndexValue(k) = NotFound
        BY <2>1, <3>2, FilterMiss DEF IndexValue
      <4> QED
        BY <2>4, <3>1, <3>2, <4>1 DEF GetResults
    <3>3. CASE ProbablyContains(bloomFilter, k) /\ TablesWith(index, k) # {}
      <4>1. index \in Seq({index[i] : i \in DOMAIN index})
        BY <2>1 DEF TypeOK
      <4>2. PICK i : FirstWith(index, k, i)
        BY <3>3, <4>1, FirstWithExists
      <4>3. \E row : RowsOnDisk(k) = {row} /\ IndexValue(k) = RowResult(row)
        BY <2>1, <4>2, IndexValueFirst
      <4>4. {RowResult(row) : row \in RowsOnDisk(k)} = {IndexValue(k)}
        BY <4>3
      <4>5. GetResults(k) = {RowResult(row) : row \in RowsOnDisk(k)}
        BY <2>4, <3>3 DEF GetResults
      <4> QED
        BY <3>1, <4>4, <4>5
    <3> QED
      BY <3>2, <3>3
  <2> QED
    BY <2>3, <2>4
<1> QED
  BY <1>1 DEF ReadYourWrites

\* A lookup that has the engine to itself returns the last value put and nothing
\* after a remove, whether the row is in the memtable or in a segment.
THEOREM ReadYourWritesHolds ==
  ASSUME Storable
  PROVE  SessionSpec => []ReadYourWrites
BY ReadsServe, SessionCorrect, PTL

\* A lookup that gives up the lock twice still returns a value its key had
\* while it ran.
THEOREM GetLinearizableHolds ==
  ASSUME Storable
  PROVE  SessionSpec => []GetLinearizable
<1>1. ProofInv => GetLinearizable
  BY DEF ProofInv, SessionInv, ReaderConsistent, GetLinearizable
<1> QED
  BY <1>1, SessionCorrect, PTL

\* The place in a segment file that findOnDisk remembers over the unlock names
\* the row of its key for as long as the lookup lasts.
THEOREM HintStableHolds ==
  ASSUME Storable
  PROVE  SessionSpec => []HintStable
<1>1. ASSUME ProofInv, NEW r \in Readers, readers[r].pc = "chunk",
             NEW row \in ReadRows(Chunk(readers[r].hint.fileId), readers[r].hint)
      PROVE  /\ row.key = readers[r].key
             /\ row \in {Chunk(readers[r].hint.fileId)[k] : k \in DOMAIN Chunk(readers[r].hint.fileId)}
  <2>1. TypeOK /\ SessionInv
    BY <1>1 DEF ProofInv, TypeInv
  <2> QED
    BY <1>1, <2>1, HintNamesRow
<1>2. ProofInv => HintStable
  BY <1>1 DEF HintStable
<1> QED
  BY <1>2, SessionCorrect, PTL

\* No key of the index is lost to the Bloom filter that is asked first.
THEOREM BloomCoversIndexHolds ==
  ASSUME Storable
  PROVE  SessionSpec => []BloomCoversIndex
<1>1. ProofInv => BloomCoversIndex
  BY DEF ProofInv, SessionInv, FilterCovers, BloomCoversIndex, TablesWith
<1> QED
  BY <1>1, SessionCorrect, PTL

-----------------------------------------------------------------------------

LEMMA SegmentsStep ==
  ASSUME ProofInv, [SessionNext]_vars, NEW s \in DOMAIN chunkFile, Indexed(index, s)
  PROVE  s \in DOMAIN chunkFile' /\ chunkFile'[s] = chunkFile[s]
<1>1. PICK i \in DOMAIN index : index[i].fileId = s
  BY DEF Indexed
<1>2. s < segmentId /\ segmentId \in Nat
  BY <1>1 DEF ProofInv, TypeInv, TypeOK, SessionInv, IndexMatchesSegments
<1>3. CASE BeginSnapshot
  BY <1>2, <1>3 DEF BeginSnapshot, Write
<1>4. CASE DumpMemTable
  <2>1. s # snapshot.segment
    BY <1>1, <1>4 DEF DumpMemTable, ProofInv, SessionInv, SnapshotConsistent, SnapshotPhases
  <2> QED
    BY <1>4, <2>1 DEF DumpMemTable, Write
<1>5. CASE ~BeginSnapshot /\ ~DumpMemTable
  <2>1. CASE Snapshot
    BY <1>5, <2>1 DEF Snapshot, ClearMemTable, AddToBloom, DumpBloom, OpenIndexFile, DumpIndex, diskVars
  <2>2. CASE Open \/ UNCHANGED vars
    BY <2>2 DEF Open, OpenRestore, OpenLog, OpenLoadIndex, OpenBloom, vars, diskVars
  <2>3. CASE ClientWrite
    BY <2>3 DEF ClientWrite, Put, Remove, InsertRow, diskVars
  <2>4. ASSUME NEW r \in Readers, Get(r)
        PROVE  chunkFile' = chunkFile
    <3>1. \E state : ReaderStep(r, state)
      BY <2>4, Zenon DEF Get, FindInMemory, CheckBloom, LookupIndex, ReadChunk, Return, Finish
    <3> QED
      BY <3>1 DEF ReaderStep, diskVars
  <2> QED
    BY <2>1, <2>2, <2>3, <2>4 DEF SessionNext
<1> QED
  BY <1>3, <1>4, <1>5

\* A segment file that the index names is never written again, so that lookups
\* may read it without the lock.
THEOREM SegmentsImmutableHolds ==
  ASSUME Storable
  PROVE  SessionSpec => SegmentsImmutable
<1>1. ProofInv /\ [SessionNext]_vars =>
        [\A s \in DOMAIN chunkFile :
           Indexed(index, s) => s \in DOMAIN chunkFile' /\ chunkFile'[s] = chunkFile[s]]_vars
  BY SegmentsStep
<1> QED
  BY <1>1, SessionCorrect, PTL DEF SessionSpec, SegmentsImmutable

-----------------------------------------------------------------------------

\* A put or a remove is the one of the map, any other step leaves it alone.
LEMMA KVStep ==
  ASSUME ProofInv, ProofInv', [SessionNext]_vars
  PROVE  [KV!Next]_<<Contents, ops>>
<1>1. kv = Contents /\ kv' = Contents'
  BY DEF ProofInv, SessionInv
<1>2. CASE ClientWrite
  <2>1. ASSUME NEW k \in RemoveKeys, Remove(k)
        PROVE  KV!Next
    <3>1. k \in Keys
      BY EngineAssumption
    <3>2. kv' = [kv EXCEPT ![k] = NotFound] /\ ops' = ops + 1
      BY <2>1, <3>1 DEF Remove, InsertRow, RemoveRow
    <3>3. KV!Remove(k)
      BY <1>1, <3>2 DEF KV!Remove
    <3> QED
      BY <3>1, <3>3 DEF KV!Next
  <2>2. ASSUME NEW k \in Keys, NEW v \in Values, Put(k, v)
        PROVE  KV!Next
    <3>1. kv' = [kv EXCEPT ![k] = v] /\ ops' = ops + 1
      BY <2>2 DEF Put, InsertRow, PutRow
    <3>2. KV!Put(k, v)
      BY <1>1, <3>1 DEF KV!Put
    <3> QED
      BY <3>2 DEF KV!Next
  <2> QED
    BY <1>2, <2>1, <2>2 DEF ClientWrite
<1>3. CASE ~ClientWrite
  <2>1. ASSUME Snapshot
        PROVE  kv' = kv /\ ops' = ops
    BY <2>1 DEF Snapshot, BeginSnapshot, DumpMemTable, ClearMemTable, AddToBloom, DumpBloom,
                OpenIndexFile, DumpIndex, logVars, boundVars
  <2>2. ASSUME Open \/ UNCHANGED vars
        PROVE  kv' = kv /\ ops' = ops
    BY <2>2 DEF Open, OpenRestore, OpenLog, OpenLoadIndex, OpenBloom, vars, logVars, boundVars
  <2>3. ASSUME NEW r \in Readers, Get(r)
        PROVE  kv' = kv /\ ops' = ops
    <3>1. \E state : ReaderStep(r, state)
      BY <2>3, Zenon DEF Get, FindInMemory, CheckBloom, LookupIndex, ReadChunk, Return, Finish
    <3> QED
      BY <3>1 DEF ReaderStep, logVars, boundVars
  <2>4. kv' = kv /\ ops' = ops
    BY <1>3, <2>1, <2>2, <2>3 DEF SessionNext
  <2> QED
    BY <1>1, <2>4
<1> QED
  BY <1>2, <1>3

\* The engine implements the map of Database.h: seen through what it holds,
\* every step of its snapshots and lookups is invisible.
THEOREM RefinesKVStore ==
  ASSUME Storable
  PROVE  SessionSpec => ImplementsKVStore
<1>1. Init => KV!Init
  BY SessionInit DEF Init, SessionInv, KV!Init
<1>2. ProofInv /\ ProofInv' /\ [SessionNext]_vars => [KV!Next]_<<Contents, ops>>
  BY KVStep
<1> QED
  BY <1>1, <1>2, SessionCorrect, PTL DEF SessionSpec, ImplementsKVStore, KV!Spec

=============================================================================
