----------------------------- MODULE RecoveryProofs -----------------------------
(***************************************************************************)
(* Any number of processes, one after the other, each of which may crash at *)
(* any step: what the log and the memtable hold for a key, when a directory *)
(* cannot be opened, which segment the index asks first, and what a         *)
(* shutdown in order leaves.                                               *)
(***************************************************************************)
EXTENDS StorageEngineProofs

\* No value is the empty string when LZ4 is in use, whose adapter cannot read it.
ValuesReturn == CompressionType = "LZ4" => EmptyValue \notin Values

\* The log gives back the rows that were logged: buffers are written to the file row
\* by row, the row that an empty log is replayed as is no client's, and values can be
\* read.
FaithfulLog ==
  /\ ~SplitWrites
  /\ 0 \notin Keys
  /\ ValuesReturn

-----------------------------------------------------------------------------
(* Replaying one log after another                                         *)

\* Of a key in both logs the row of the second is found.
LEMMA ReplayConcat ==
  ASSUME NEW a \in Seq(Row), NEW b \in Seq(Row), NEW k \in DOMAIN Replay(a \o b)
  PROVE  IF k \in DOMAIN Replay(b) THEN Replay(a \o b)[k] = Replay(b)[k]
         ELSE k \in DOMAIN Replay(a) /\ Replay(a \o b)[k] = Replay(a)[k]
<1> DEFINE ab == a \o b
<1>1. /\ DOMAIN a = 1 .. Len(a) /\ Len(a) \in Nat
      /\ DOMAIN b = 1 .. Len(b) /\ Len(b) \in Nat
      /\ ab \in Seq(Row) /\ DOMAIN ab = 1 .. Len(a) + Len(b)
      /\ \A i \in DOMAIN a : ab[i] = a[i]
  BY LenProperties, ConcatProperties
<1>2. \A j \in DOMAIN b : Len(a) + j \in DOMAIN ab /\ ab[Len(a) + j] = b[j]
  <2> SUFFICES ASSUME NEW j \in DOMAIN b PROVE Len(a) + j \in DOMAIN ab /\ ab[Len(a) + j] = b[j]
    OBVIOUS
  <2>1. Len(a) + j \in 1 .. Len(a) + Len(b) /\ ~(Len(a) + j <= Len(a)) /\ (Len(a) + j) - Len(a) = j
    BY <1>1
  <2>2. ab[Len(a) + j] = b[(Len(a) + j) - Len(a)]
    BY <2>1, ConcatProperties
  <2> QED
    BY <1>1, <2>1, <2>2
<1> HIDE DEF ab
<1>3. PICK i \in DOMAIN ab :
        /\ ab[i].key = k
        /\ \A j \in DOMAIN ab : ab[j].key = k => j <= i
        /\ Replay(ab)[k] = ab[i]
  BY <1>1, ReplayLast DEF ab
<1>4. ASSUME k \in DOMAIN Replay(b) PROVE Replay(ab)[k] = Replay(b)[k]
  <2>1. PICK n \in DOMAIN b :
          /\ b[n].key = k
          /\ \A j \in DOMAIN b : b[j].key = k => j <= n
          /\ Replay(b)[k] = b[n]
    BY <1>4, ReplayLast
  <2>2. Len(a) + n <= i
    BY <1>2, <1>3, <2>1
  <2>3. i - Len(a) \in DOMAIN b /\ i = Len(a) + (i - Len(a))
    BY <1>1, <2>1, <2>2
  <2>4. b[i - Len(a)].key = k
    BY <1>2, <1>3, <2>3
  <2>5. i = Len(a) + n
    BY <1>1, <2>1, <2>2, <2>3, <2>4
  <2> QED
    BY <1>2, <1>3, <2>1, <2>5
<1>5. ASSUME k \notin DOMAIN Replay(b) PROVE k \in DOMAIN Replay(a) /\ Replay(ab)[k] = Replay(a)[k]
  <2>1. \A j \in DOMAIN b : b[j].key # k
    BY <1>5 DEF Replay
  <2>2. i \in DOMAIN a
    <3>1. CASE i > Len(a)
      <4>1. i - Len(a) \in DOMAIN b /\ i = Len(a) + (i - Len(a))
        BY <1>1, <3>1
      <4>2. b[i - Len(a)].key = k
        BY <1>2, <1>3, <4>1
      <4> QED
        BY <2>1, <4>1, <4>2
    <3> QED
      BY <1>1, <3>1
  <2>3. k \in DOMAIN Replay(a)
    BY <1>1, <1>3, <2>2 DEF Replay
  <2>4. PICK n \in DOMAIN a :
          /\ a[n].key = k
          /\ \A j \in DOMAIN a : a[j].key = k => j <= n
          /\ Replay(a)[k] = a[n]
    BY <2>3, ReplayLast
  <2>5. n <= i /\ i <= n
    BY <1>1, <1>3, <2>2, <2>4
  <2>6. n = i
    BY <1>1, <2>2, <2>4, <2>5
  <2> QED
    BY <1>1, <1>3, <2>3, <2>4, <2>6
<1> QED
  BY <1>4, <1>5 DEF ab

-----------------------------------------------------------------------------
(* Logs and the history                                                    *)

\* What get makes of a client's row is what the client wrote.
LEMMA ClientRowResult ==
  ASSUME ValuesReturn, NEW row \in ClientRows
  PROVE  RowResult(row) = IF row.type = "Remove" THEN NotFound ELSE row.data[2]
<1>1. ASSUME NEW k \in Keys, NEW v \in Values, row = PutRow(k, v)
      PROVE  RowResult(row) = IF row.type = "Remove" THEN NotFound ELSE row.data[2]
  <2>1. row.type = "Put" /\ row.data[2] = v
    BY <1>1, PutRowType
  <2>2. Decode(row) = v
    BY <1>1, PutRowDecodes DEF ValuesReturn
  <2> QED
    BY <2>1, <2>2 DEF RowResult
<1>2. ASSUME NEW k \in Keys, row = RemoveRow(k)
      PROVE  RowResult(row) = IF row.type = "Remove" THEN NotFound ELSE row.data[2]
  <2>1. row.type = "Remove"
    BY <1>2 DEF RemoveRow
  <2> QED
    BY <2>1 DEF RowResult
<1> QED
  BY <1>1, <1>2 DEF ClientRows

\* The rows that a replay finds are rows of the log.
LEMMA ReplayOfClients ==
  ASSUME NEW rows \in Seq(ClientRows)
  PROVE  rows \in Seq(Row) /\ \A k \in DOMAIN Replay(rows) : Replay(rows)[k] \in ClientRows
<1>1. rows \in Seq(Row)
  BY ClientRowsAreRows, SeqMonotonic
<1>2. ASSUME NEW k \in DOMAIN Replay(rows) PROVE Replay(rows)[k] \in ClientRows
  <2>1. PICK i \in DOMAIN rows : Replay(rows)[k] = rows[i]
    BY <1>1, ReplayLast
  <2> QED
    BY <2>1, LenProperties
<1> QED
  BY <1>1, <1>2

\* The history after a log has, for the keys of the log, what get makes of the rows
\* that a replay finds.
LEMMA ApplyRowsIs ==
  ASSUME ValuesReturn, NEW f, NEW rows \in Seq(ClientRows), NEW k \in Keys
  PROVE  ApplyRows(f, rows)[k] =
           IF k \in DOMAIN Replay(rows) THEN RowResult(Replay(rows)[k]) ELSE f[k]
<1>1. k \in DOMAIN Replay(rows) =>
        RowResult(Replay(rows)[k]) =
          IF Replay(rows)[k].type = "Remove" THEN NotFound ELSE Replay(rows)[k].data[2]
  BY ReplayOfClients, ClientRowResult
<1> QED
  BY <1>1 DEF ApplyRows

\* For the keys of the log a replay finds what the history f has.
Agrees(rows, f) == \A k \in DOMAIN Replay(rows) \cap Keys : RowResult(Replay(rows)[k]) = f[k]

\* Two logs, one after the other, agree with the history after the second.
LEMMA AgreesConcat ==
  ASSUME ValuesReturn, NEW f, NEW a \in Seq(ClientRows), NEW b \in Seq(ClientRows), Agrees(a, f)
  PROVE  Agrees(a \o b, ApplyRows(f, b))
<1> SUFFICES ASSUME NEW k \in DOMAIN Replay(a \o b), k \in Keys
             PROVE  RowResult(Replay(a \o b)[k]) = ApplyRows(f, b)[k]
  BY DEF Agrees
<1>1. IF k \in DOMAIN Replay(b) THEN Replay(a \o b)[k] = Replay(b)[k]
      ELSE k \in DOMAIN Replay(a) /\ Replay(a \o b)[k] = Replay(a)[k]
  BY ReplayOfClients, ReplayConcat
<1>2. ApplyRows(f, b)[k] = IF k \in DOMAIN Replay(b) THEN RowResult(Replay(b)[k]) ELSE f[k]
  BY ApplyRowsIs
<1> QED
  BY <1>1, <1>2 DEF Agrees

\* No row changes no history.
LEMMA ApplyNothing ==
  ASSUME NEW S, NEW f \in [Keys -> S]
  PROVE  ApplyRows(f, <<>>) = f
<1>1. DOMAIN Replay(<<>>) = {}
  BY DEF Replay
<1> QED
  BY <1>1 DEF ApplyRows

\* One row more changes the history of its key.
LEMMA ApplyAppend ==
  ASSUME ValuesReturn, NEW f, NEW rows \in Seq(ClientRows), NEW row \in ClientRows
  PROVE  ApplyRows(f, Append(rows, row)) = [ApplyRows(f, rows) EXCEPT ![row.key] = RowResult(row)]
<1> DEFINE m == Insert(Replay(rows), row)
<1>1. rows \in Seq(Row) /\ row \in Row
  BY ReplayOfClients, ClientRowsAreRows
<1>2. Replay(Append(rows, row)) = m
  BY <1>1, ReplayAppend
<1>3. Append(rows, row) \in Seq(ClientRows)
  OBVIOUS
<1>4. DOMAIN m = DOMAIN Replay(rows) \cup {row.key}
  BY DEF Insert
<1>5. \A k \in DOMAIN m : m[k] = IF k = row.key THEN row ELSE Replay(rows)[k]
  BY <1>4 DEF Insert
<1> HIDE DEF m
<1>6. ASSUME NEW k \in Keys
      PROVE  ApplyRows(f, Append(rows, row))[k] = IF k = row.key THEN RowResult(row) ELSE ApplyRows(f, rows)[k]
  <2>1. ApplyRows(f, Append(rows, row))[k] = IF k \in DOMAIN m THEN RowResult(m[k]) ELSE f[k]
    BY <1>2, <1>3, ApplyRowsIs
  <2>2. ApplyRows(f, rows)[k] = IF k \in DOMAIN Replay(rows) THEN RowResult(Replay(rows)[k]) ELSE f[k]
    BY ApplyRowsIs
  <2> QED
    BY <1>4, <1>5, <2>1, <2>2
<1>7. \A s : ApplyRows(f, s) = [k \in Keys |-> ApplyRows(f, s)[k]]
  BY DEF ApplyRows
<1>8. \A s : DOMAIN ApplyRows(f, s) = Keys
  BY DEF ApplyRows
<1>9. [ApplyRows(f, rows) EXCEPT ![row.key] = RowResult(row)]
        = [k \in Keys |-> IF k = row.key THEN RowResult(row) ELSE ApplyRows(f, rows)[k]]
  BY <1>8
<1>10. ApplyRows(f, Append(rows, row))
         = [k \in Keys |-> IF k = row.key THEN RowResult(row) ELSE ApplyRows(f, rows)[k]]
  BY <1>6, <1>7
<1> QED
  BY <1>9, <1>10

-----------------------------------------------------------------------------
(* The memtable through restarts and crashes                               *)

\* The log in the file agrees with the history at its last flush, the rows in its
\* buffer make of that the history of now, and the memtable agrees with the latter.
RecoveryInv ==
  /\ walFile # NoFile => walFile \in Seq(ClientRows) /\ Agrees(walFile, kvFlushed)
  /\ kv = ApplyRows(kvFlushed, walBuf)
  /\ MemTableIsNewest

\* Restoring the log of the process before gives a memtable without an old row.
LEMMA RecoveryRestore ==
  ASSUME FaithfulLog, TypeInv, RecoveryInv, OpenRestore
  PROVE  RecoveryInv'
<1>1. /\ pc = "closed" /\ memTable' \in RestoreFromLog(walFile)
      /\ UNCHANGED <<walFile, walBuf, kv, kvFlushed>>
  BY DEF OpenRestore, logVars
<1>2. kv = kvFlushed
  <2>1. walBuf = <<>> /\ kvFlushed \in [Keys -> Values \cup {NotFound}]
    BY <1>1 DEF TypeInv, LogIsOpen, TypeOK
  <2> QED
    BY <2>1, ApplyNothing DEF RecoveryInv
<1>3. ASSUME NEW k \in DOMAIN memTable' \cap Keys PROVE RowResult(memTable'[k]) = kv[k]
  <2>1. CASE walFile = NoFile
    BY <1>1, <1>3, <2>1 DEF RestoreFromLog, EmptyTable
  <2>2. CASE walFile # NoFile /\ walFile = <<>>
    <3>1. PICK row \in RowsFromNothing : memTable' = Insert(EmptyTable, row)
      BY <1>1, <2>2 DEF RestoreFromLog
    <3>2. DOMAIN memTable' = {0}
      BY <3>1 DEF RowsFromNothing, Insert, EmptyTable
    <3> QED
      BY <1>3, <3>2 DEF FaithfulLog
  <2>3. CASE walFile # NoFile /\ walFile # <<>>
    <3>1. memTable' = Replay(walFile)
      BY <1>1, <2>3 DEF RestoreFromLog
    <3>2. Agrees(walFile, kvFlushed)
      BY <2>3 DEF RecoveryInv
    <3> QED
      BY <1>2, <1>3, <3>1, <3>2 DEF Agrees
  <2> QED
    BY <2>1, <2>2, <2>3
<1>4. MemTableIsNewest'
  BY <1>1, <1>3 DEF MemTableIsNewest
<1> QED
  BY <1>1, <1>4 DEF RecoveryInv

\* A write logs and inserts the row that its client's history gets.
LEMMA RecoveryInsert ==
  ASSUME FaithfulLog, TypeInv, RecoveryInv, NEW row \in ClientRows, row.key \in Keys, NEW x,
         RowResult(row) = x, InsertRow(row, x)
  PROVE  RecoveryInv'
<1>1. /\ memTable' = Insert(memTable, row) /\ walBuf' = Append(walBuf, row)
      /\ kv' = [kv EXCEPT ![row.key] = x] /\ UNCHANGED <<walFile, kvFlushed>>
  BY DEF InsertRow
<1>2. kv' = ApplyRows(kvFlushed', walBuf')
  <2>1. walBuf \in Seq(ClientRows)
    BY DEF TypeInv, TypeOK
  <2> QED
    BY <1>1, <2>1, ApplyAppend DEF RecoveryInv, FaithfulLog
<1>3. ASSUME NEW k \in DOMAIN memTable' \cap Keys PROVE RowResult(memTable'[k]) = kv'[k]
  <2>1. DOMAIN kv = Keys
    BY DEF TypeInv, TypeOK
  <2>2. CASE k = row.key
    BY <1>1, <1>3, <2>1, <2>2 DEF Insert
  <2>3. CASE k # row.key
    <3>1. k \in DOMAIN memTable /\ memTable'[k] = memTable[k] /\ kv'[k] = kv[k]
      BY <1>1, <1>3, <2>1, <2>3 DEF Insert
    <3> QED
      BY <1>3, <3>1 DEF RecoveryInv, MemTableIsNewest
  <2> QED
    BY <2>2, <2>3
<1>4. MemTableIsNewest'
  BY <1>3 DEF MemTableIsNewest
<1> QED
  BY <1>1, <1>2, <1>4 DEF RecoveryInv

\* A put or a remove writes a row that get makes its value of.
LEMMA RecoveryWrite ==
  ASSUME FaithfulLog, TypeInv, RecoveryInv, ClientWrite
  PROVE  RecoveryInv'
<1>1. ASSUME NEW k \in Keys, NEW v \in Values, Put(k, v) PROVE RecoveryInv'
  <2>1. PutRow(k, v) \in ClientRows /\ PutRow(k, v).key = k
    BY PutRowType DEF ClientRows
  <2>2. RowResult(PutRow(k, v)) = v
    BY PutRowType, PutRowDecodes DEF RowResult, FaithfulLog, ValuesReturn
  <2>3. InsertRow(PutRow(k, v), v)
    BY <1>1 DEF Put
  <2> QED
    BY <2>1, <2>2, <2>3, RecoveryInsert
<1>2. ASSUME NEW k \in RemoveKeys, Remove(k) PROVE RecoveryInv'
  <2>1. k \in Keys /\ k \in KeyIds
    BY EngineAssumption, KeysAssumption DEF KeyIds
  <2>2. RemoveRow(k) \in ClientRows /\ RemoveRow(k).key = k /\ RemoveRow(k).type = "Remove"
    BY <2>1, RemoveRowType DEF ClientRows
  <2>3. RowResult(RemoveRow(k)) = NotFound /\ InsertRow(RemoveRow(k), NotFound)
    BY <1>2, <2>2 DEF RowResult, Remove
  <2> QED
    BY <2>1, <2>2, <2>3, RecoveryInsert
<1> QED
  BY <1>1, <1>2 DEF ClientWrite

\* The log after a flush: its rows agree with the history after the rows that were
\* flushed.
LEMMA FlushedAgrees ==
  ASSUME FaithfulLog, TypeInv, RecoveryInv, walFile # NoFile, NEW n \in 0 .. Len(walBuf)
  PROVE  /\ SubSeq(walBuf, 1, n) \in Seq(ClientRows)
         /\ walFile \o SubSeq(walBuf, 1, n) \in Seq(ClientRows)
         /\ Agrees(walFile \o SubSeq(walBuf, 1, n), ApplyRows(kvFlushed, SubSeq(walBuf, 1, n)))
<1>1. walBuf \in Seq(ClientRows) /\ walFile \in Seq(ClientRows) /\ Agrees(walFile, kvFlushed)
  BY DEF TypeInv, TypeOK, RecoveryInv
<1>2. SubSeq(walBuf, 1, n) \in Seq(ClientRows)
  <2>1. Len(walBuf) \in Nat /\ walBuf \in [1 .. Len(walBuf) -> ClientRows]
    BY <1>1, LenProperties
  <2> QED
    BY <2>1, SubSeqProperties
<1> HIDE DEF ClientRows
<1> QED
  BY <1>1, <1>2, AgreesConcat, ConcatProperties DEF FaithfulLog

\* The same for the whole buffer, which then is empty.
LEMMA RecoveryFlush ==
  ASSUME FaithfulLog, TypeInv, RecoveryInv, walFile # NoFile,
         walFile' = walFile \o walBuf, walBuf' = <<>>, kvFlushed' = kv, kv' = kv, memTable' = EmptyTable
  PROVE  RecoveryInv'
<1>1. walBuf \in Seq(ClientRows) /\ kv \in [Keys -> Values \cup {NotFound}]
  BY DEF TypeInv, TypeOK
<1>2. walFile' \in Seq(ClientRows) /\ Agrees(walFile', kvFlushed')
  <2>1. walFile \in Seq(ClientRows) /\ Agrees(walFile, kvFlushed) /\ kvFlushed' = ApplyRows(kvFlushed, walBuf)
    BY DEF RecoveryInv
  <2> QED
    BY <1>1, <2>1, AgreesConcat, ConcatProperties DEF FaithfulLog
<1>3. kv' = ApplyRows(kvFlushed', walBuf')
  BY <1>1, ApplyNothing
<1>4. MemTableIsNewest'
  BY DEF MemTableIsNewest, EmptyTable
<1> QED
  BY <1>2, <1>3, <1>4 DEF RecoveryInv

\* After a crash the file of the log has some of the rows of the buffer, all of them
\* whole, and the history goes back to them.
LEMMA RecoveryCrash ==
  ASSUME FaithfulLog, TypeInv, RecoveryInv, Crash
  PROVE  RecoveryInv'
<1>1. PICK n \in 0 .. Len(walBuf) :
        /\ walFile' = IF walFile = NoFile THEN NoFile ELSE walFile \o SubSeq(walBuf, 1, n)
        /\ kv' = ApplyRows(kvFlushed, SubSeq(walBuf, 1, n))
        /\ kvFlushed' = ApplyRows(kvFlushed, SubSeq(walBuf, 1, n))
  BY DEF Crash, FaithfulLog
<1>2. walBuf' = <<>> /\ memTable' = EmptyTable
  BY DEF Crash, MemoryLost
<1>3. SubSeq(walBuf, 1, n) \in Seq(ClientRows)
  <2>1. walBuf \in Seq(ClientRows)
    BY DEF TypeInv, TypeOK
  <2>2. Len(walBuf) \in Nat /\ walBuf \in [1 .. Len(walBuf) -> ClientRows]
    BY <2>1, LenProperties
  <2> QED
    BY <2>2, SubSeqProperties
<1>4. kvFlushed' \in [Keys -> Values \cup {NotFound}]
  BY <1>1, <1>3, ApplyRowsType DEF TypeInv, TypeOK
<1>5. kv' = ApplyRows(kvFlushed', walBuf')
  BY <1>1, <1>2, <1>4, ApplyNothing
<1>6. walFile' # NoFile => walFile' \in Seq(ClientRows) /\ Agrees(walFile', kvFlushed')
  <2>1. CASE walFile = NoFile
    BY <1>1, <2>1
  <2>2. CASE walFile # NoFile
    BY <1>1, <2>2, FlushedAgrees
  <2> QED
    BY <2>1, <2>2
<1>7. MemTableIsNewest'
  BY <1>2 DEF MemTableIsNewest, EmptyTable
<1> QED
  BY <1>5, <1>6, <1>7 DEF RecoveryInv

\* The steps that leave the log and the memtable alone.
LEMMA RecoveryUnchanged ==
  ASSUME RecoveryInv, UNCHANGED <<memTable, walFile, walBuf, kv, kvFlushed>>
  PROVE  RecoveryInv'
BY DEF RecoveryInv, MemTableIsNewest

\* Every step keeps the invariant.
LEMMA RecoveryStep ==
  ASSUME FaithfulLog, TypeInv, RecoveryInv, [Next]_vars
  PROVE  RecoveryInv'
<1> USE DEF memoryVars, diskVars, logVars, localVars, boundVars
<1>1. CASE OpenRestore
  BY <1>1, RecoveryRestore
<1>2. CASE OpenLog
  <2>1. walFile' = <<>> /\ UNCHANGED <<memTable, walBuf, kv, kvFlushed>>
    BY <1>2 DEF OpenLog
  <2>2. DOMAIN Replay(<<>>) = {}
    BY DEF Replay
  <2>3. <<>> \in Seq(ClientRows)
    OBVIOUS
  <2>4. Agrees(walFile', kvFlushed')
    BY <2>1, <2>2 DEF Agrees
  <2>5. MemTableIsNewest'
    BY <2>1 DEF RecoveryInv, MemTableIsNewest
  <2> QED
    BY <2>1, <2>3, <2>4, <2>5 DEF RecoveryInv
<1>3. CASE OpenLoadIndex \/ OpenBloom
  BY <1>3, RecoveryUnchanged DEF OpenLoadIndex, OpenBloom
<1>4. CASE ClientWrite
  BY <1>4, RecoveryWrite
<1>5. CASE ClearMemTable
  <2>1. walFile # NoFile
    BY <1>5 DEF ClearMemTable, TypeInv, LogIsOpen
  <2> QED
    BY <1>5, <2>1, RecoveryFlush DEF ClearMemTable
<1>6. CASE BeginSnapshot \/ DumpMemTable \/ AddToBloom \/ DumpBloom \/ OpenIndexFile \/ DumpIndex
  BY <1>6, RecoveryUnchanged DEF BeginSnapshot, DumpMemTable, AddToBloom, DumpBloom, OpenIndexFile, DumpIndex
<1>7. ASSUME NEW r \in Readers, Get(r) PROVE RecoveryInv'
  BY <1>7, RecoveryUnchanged DEF Get, FindInMemory, CheckBloom, LookupIndex, ReadChunk, Return, Finish, ReaderStep
<1>8. CASE Close
  <2>1. walFile # NoFile
    BY <1>8 DEF Close, TypeInv, LogIsOpen
  <2> QED
    BY <1>8, <2>1, RecoveryFlush DEF Close, MemoryLost
<1>9. CASE Crash
  BY <1>9, RecoveryCrash
<1>10. CASE UNCHANGED vars
  BY <1>10, RecoveryUnchanged DEF vars
<1> QED
  BY <1>1, <1>2, <1>3, <1>4, <1>5, <1>6, <1>7, <1>8, <1>9, <1>10
     DEF Next, SessionNext, Open, Snapshot

\* Whatever was restored, flushed, lost in a crash or truncated before, the row that
\* the memtable holds for a key is the last write of it: a restart never takes an
\* older row from the log for the newest.
THEOREM MemTableIsNewestHolds ==
  ASSUME FaithfulLog
  PROVE  Spec => []MemTableIsNewest
<1>1. Init => RecoveryInv
  <2> SUFFICES ASSUME Init PROVE RecoveryInv
    OBVIOUS
  <2>1. walFile = NoFile /\ walBuf = <<>> /\ memTable = EmptyTable
        /\ kv = [k \in Keys |-> NotFound] /\ kvFlushed = [k \in Keys |-> NotFound]
    BY DEF Init
  <2>2. kv = ApplyRows(kvFlushed, walBuf)
    <3>1. kvFlushed \in [Keys -> {NotFound}]
      BY <2>1
    <3>2. ApplyRows(kvFlushed, <<>>) = kvFlushed
      BY <3>1, ApplyNothing
    <3> QED
      BY <2>1, <3>2
  <2>3. MemTableIsNewest
    BY <2>1 DEF MemTableIsNewest, EmptyTable
  <2> QED
    BY <2>1, <2>2, <2>3 DEF RecoveryInv
<1>2. TypeInv /\ RecoveryInv /\ [Next]_vars => TypeInv' /\ RecoveryInv'
  BY RecoveryStep, TypeStep
<1>3. RecoveryInv => MemTableIsNewest
  BY DEF RecoveryInv
<1> QED
  BY <1>1, <1>2, <1>3, TypeInit, PTL DEF Spec

-----------------------------------------------------------------------------
(* Directories that cannot be opened                                       *)

\* A file of the index was created and not written.
IndexIsTorn == \E s \in DOMAIN indexFile : ~indexFile[s].written

\* While the index is loaded the list names no file that is still to be read.
LoadInv ==
  /\ pc \in {"closed", "openLog"} => index = <<>>
  /\ pc = "openIndex" /\ ~IndexIsTorn => \A i \in DOMAIN index : index[i].fileId \notin toLoad
  /\ pc = "failed" => IndexIsTorn

LEMMA LoadStep ==
  ASSUME TypeInv, LoadInv, [Next]_vars
  PROVE  LoadInv'
<1> USE DEF memoryVars, diskVars, logVars, localVars, boundVars
<1>1. CASE OpenRestore
  BY <1>1 DEF OpenRestore, LoadInv
<1>2. CASE OpenLog
  BY <1>2 DEF OpenLog, LoadInv
<1>3. CASE OpenLoadIndex
  <2> DEFINE table(y) == LoadTableIndex(y, indexFile[y])
  <2>1. PICK s \in toLoad :
          IF Indexed(index, table(s).fileId)
          THEN pc' = "failed" /\ toLoad' = {} /\ UNCHANGED index
          ELSE /\ index' = IndexUpdate(index, table(s))
               /\ toLoad' = toLoad \ {s}
               /\ UNCHANGED pc
    BY <1>3, Zenon DEF OpenLoadIndex
  <2>2. pc = "openIndex" /\ IndexIsTorn' = IndexIsTorn
    BY <1>3 DEF OpenLoadIndex, IndexIsTorn
  <2>3. ~IndexIsTorn => table(s).fileId = s
    BY <2>1 DEF IndexIsTorn, LoadTableIndex, TypeInv, TypeOK
  <2> HIDE DEF table
  <2>4. CASE Indexed(index, table(s).fileId)
    <3>1. IndexIsTorn
      BY <2>1, <2>2, <2>3, <2>4 DEF LoadInv, Indexed
    <3> QED
      BY <2>1, <2>2, <2>4, <3>1 DEF LoadInv
  <2>5. CASE ~Indexed(index, table(s).fileId)
    <3>1. index' = IndexUpdate(index, table(s)) /\ toLoad' = toLoad \ {s} /\ pc' = pc
      BY <2>1, <2>5
    <3>2. ASSUME ~IndexIsTorn, NEW i \in DOMAIN index' PROVE index'[i].fileId \notin toLoad'
      <4>1. i = 1 \/ (i - 1 \in DOMAIN index /\ index'[i] = index[i - 1])
        BY <3>1, <3>2, IndexPushed DEF TypeInv
      <4>2. index'[1] = table(s)
        BY <3>1, IndexPushed DEF TypeInv
      <4> QED
        BY <2>2, <2>3, <3>1, <3>2, <4>1, <4>2 DEF LoadInv
    <3> QED
      BY <2>2, <3>1, <3>2 DEF LoadInv
  <2> QED
    BY <2>4, <2>5
<1>4. CASE OpenBloom
  BY <1>4 DEF OpenBloom, LoadInv
<1>5. CASE ClientWrite \/ Snapshot
  <2>1. pc' \in SnapshotPhases \cup {"ready"}
    BY <1>5 DEF ClientWrite, Put, Remove, InsertRow, Snapshot, SnapshotPhases, BeginSnapshot, DumpMemTable,
                ClearMemTable, AddToBloom, DumpBloom, OpenIndexFile, DumpIndex
  <2>2. pc' \notin {"closed", "openLog", "openIndex", "failed"}
    BY <2>1 DEF SnapshotPhases
  <2> QED
    BY <2>2 DEF LoadInv
<1>6. ASSUME NEW r \in Readers, Get(r) PROVE LoadInv'
  <2>1. UNCHANGED <<pc, index, indexFile, toLoad>>
    BY <1>6 DEF Get, FindInMemory, CheckBloom, LookupIndex, ReadChunk, Return, Finish, ReaderStep
  <2> QED
    BY <2>1 DEF LoadInv, IndexIsTorn
<1>7. CASE Close \/ Crash
  BY <1>7 DEF Close, Crash, MemoryLost, LoadInv
<1>8. CASE UNCHANGED vars
  BY <1>8 DEF vars, LoadInv, IndexIsTorn
<1> QED
  BY <1>1, <1>2, <1>3, <1>4, <1>5, <1>6, <1>7, <1>8 DEF Next, SessionNext, Open

\* open throws on its own directory only if a crash came between the creation of an
\* index file and its contents: index files that were written, in whole or in part,
\* keep their ids apart.
THEOREM OpenFailsOnlyTornHolds == Spec => []OpenFailsOnlyTorn
<1>1. Init => LoadInv
  BY DEF Init, LoadInv
<1>2. TypeInv /\ LoadInv /\ [Next]_vars => TypeInv' /\ LoadInv'
  BY LoadStep, TypeStep
<1>3. LoadInv => OpenFailsOnlyTorn
  BY DEF LoadInv, IndexIsTorn, OpenFailsOnlyTorn
<1> QED
  BY <1>1, <1>2, <1>3, TypeInit, PTL DEF Spec

-----------------------------------------------------------------------------
(* What a shutdown leaves                                                  *)

\* Keys that no index file is loaded with by default.
KeysButZero == Keys \ {0}

\* The bits pass the clients' keys that the index files know, those that the list knows,
\* those of the table that is being saved.
FilesPass(bits) ==
  \A s \in DOMAIN indexFile : \A k \in KeysButZero \cap DOMAIN indexFile[s].map : ProbablyContains(bits, k)

ListPasses(bits) ==
  \A i \in DOMAIN index : \A k \in KeysButZero \cap DOMAIN index[i].map : ProbablyContains(bits, k)

TablePasses(bits) == \A k \in KeysButZero \cap DOMAIN snapshot.table : ProbablyContains(bits, k)

\* Every index file is whole but the one that is being written.
FilesWhole ==
  \A s \in DOMAIN indexFile : indexFile[s].written \/ (pc = "indexDump" /\ s = snapshot.segment)

\* The filter and its file: the keys of a table are added before a file or the list knows
\* them, and the file has no bits only until the filter is dumped.
FilterInv ==
  /\ FilesWhole
  /\ pc # "bloomDump" => FilesPass(bloomFile)
  /\ pc \in {"index", "indexDump"} => TablePasses(bloomFile)
  /\ pc = "openIndex" => ListPasses(bloomFile)
  /\ pc \in {"ready"} \cup SnapshotPhases => ListPasses(bloomFilter) /\ FilesPass(bloomFilter)
  /\ pc \in {"bloomDump", "index", "indexDump"} => TablePasses(bloomFilter)

\* Index::load takes the keys of a list from the file of the list.
LEMMA FilterLoad ==
  ASSUME TypeInv, FilterInv, OpenLoadIndex
  PROVE  FilterInv'
<1> USE DEF diskVars
<1> DEFINE table(y) == LoadTableIndex(y, indexFile[y])
<1>1. PICK s \in toLoad :
        IF Indexed(index, table(s).fileId)
        THEN pc' = "failed" /\ toLoad' = {} /\ UNCHANGED index
        ELSE /\ index' = IndexUpdate(index, table(s))
             /\ toLoad' = toLoad \ {s}
             /\ UNCHANGED pc
  BY Zenon DEF OpenLoadIndex
<1>2. /\ pc = "openIndex" /\ pc' \in {"openIndex", "failed"}
      /\ UNCHANGED <<indexFile, bloomFile, snapshot>>
  BY <1>1 DEF OpenLoadIndex
<1>3. s \in DOMAIN indexFile
  BY <1>1 DEF TypeInv, TypeOK
<1>4. KeysButZero \cap DOMAIN table(s).map \subseteq DOMAIN indexFile[s].map
  BY DEF LoadTableIndex, KeysButZero
<1> HIDE DEF table
<1>5. FilesWhole' /\ FilesPass(bloomFile)'
  BY <1>2 DEF FilterInv, FilesWhole, FilesPass
<1>6. ASSUME pc' = "openIndex" PROVE ListPasses(bloomFile)'
  <2>1. index' = index \/ index' = IndexUpdate(index, table(s))
    BY <1>1
  <2>2. CASE index' = index
    BY <1>2, <2>2 DEF FilterInv, ListPasses
  <2>3. CASE index' = IndexUpdate(index, table(s))
    <3> SUFFICES ASSUME NEW i \in DOMAIN index', NEW k \in KeysButZero \cap DOMAIN index'[i].map
                 PROVE  ProbablyContains(bloomFile, k)
      BY <1>2 DEF ListPasses
    <3>1. index'[1] = table(s) /\ (i = 1 \/ (i - 1 \in DOMAIN index /\ index'[i] = index[i - 1]))
      BY <2>3, IndexPushed DEF TypeInv
    <3>2. CASE i = 1
      <4>1. k \in KeysButZero \cap DOMAIN indexFile[s].map
        BY <1>4, <3>1, <3>2
      <4> QED
        BY <1>2, <1>3, <4>1 DEF FilterInv, FilesPass
    <3>3. CASE i - 1 \in DOMAIN index /\ index'[i] = index[i - 1]
      BY <1>2, <3>3 DEF FilterInv, ListPasses
    <3> QED
      BY <3>1, <3>2, <3>3
  <2> QED
    BY <2>1, <2>2, <2>3
<1> QED
  BY <1>2, <1>5, <1>6 DEF FilterInv, SnapshotPhases

\* makeSnapshot saves the filter before it writes the index.
LEMMA FilterSnapshot ==
  ASSUME TypeInv, FilterInv, Snapshot
  PROVE  FilterInv'
<1> USE DEF memoryVars, localVars
<1>1. CASE BeginSnapshot \/ DumpMemTable \/ ClearMemTable
  <2>1. /\ pc \in {"snapshot", "dump", "clear"} /\ pc' \in {"dump", "clear", "bloom"}
        /\ UNCHANGED <<index, bloomFilter, indexFile, bloomFile>>
    BY <1>1 DEF BeginSnapshot, DumpMemTable, ClearMemTable, diskVars
  <2> QED
    BY <2>1 DEF FilterInv, FilesWhole, FilesPass, ListPasses, SnapshotPhases
<1>2. CASE AddToBloom
  <2>1. /\ pc = "bloom" /\ pc' = "bloomDump" /\ UNCHANGED <<index, indexFile, snapshot>>
        /\ bloomFilter' = BloomAdd(bloomFilter, DOMAIN snapshot.table)
    BY <1>2 DEF AddToBloom
  <2>2. FilesWhole'
    BY <2>1 DEF FilterInv, FilesWhole
  <2>3. ListPasses(bloomFilter)' /\ FilesPass(bloomFilter)' /\ TablePasses(bloomFilter)'
    <3>1. ListPasses(bloomFilter) /\ FilesPass(bloomFilter)
      BY <2>1 DEF FilterInv, SnapshotPhases
    <3>2. \A k : ProbablyContains(bloomFilter, k) \/ k \in DOMAIN snapshot.table => ProbablyContains(bloomFilter', k)
      BY <2>1, BloomAddCovers
    <3> QED
      BY <2>1, <3>1, <3>2 DEF ListPasses, FilesPass, TablePasses
  <2> QED
    BY <2>1, <2>2, <2>3 DEF FilterInv
<1>3. CASE DumpBloom
  <2>1. /\ pc = "bloomDump" /\ pc' = "index" /\ UNCHANGED <<index, indexFile, snapshot, bloomFilter>>
        /\ bloomFile' = bloomFilter
    BY <1>3 DEF DumpBloom
  <2>2. FilesWhole'
    BY <2>1 DEF FilterInv, FilesWhole
  <2>3. ListPasses(bloomFilter) /\ FilesPass(bloomFilter) /\ TablePasses(bloomFilter)
    BY <2>1 DEF FilterInv, SnapshotPhases
  <2>4. /\ ListPasses(bloomFilter)' /\ FilesPass(bloomFilter)' /\ TablePasses(bloomFilter)'
        /\ FilesPass(bloomFile)' /\ TablePasses(bloomFile)'
    BY <2>1, <2>3 DEF ListPasses, FilesPass, TablePasses
  <2> QED
    BY <2>1, <2>2, <2>4 DEF FilterInv
<1>4. CASE OpenIndexFile
  <2>1. /\ pc = "index" /\ pc' = "indexDump" /\ UNCHANGED <<index, snapshot, bloomFilter, bloomFile>>
        /\ indexFile' = Write(indexFile, snapshot.segment, [written |-> FALSE, map |-> [k \in {} |-> 0]])
    BY <1>4 DEF OpenIndexFile
  <2>2. ASSUME NEW s \in DOMAIN indexFile'
        PROVE  \/ s \in DOMAIN indexFile /\ indexFile'[s] = indexFile[s]
               \/ s = snapshot.segment /\ DOMAIN indexFile'[s].map = {}
    BY <2>1 DEF Write
  <2>3. ListPasses(bloomFilter) /\ FilesPass(bloomFilter) /\ TablePasses(bloomFilter)
        /\ FilesPass(bloomFile) /\ TablePasses(bloomFile)
    BY <2>1 DEF FilterInv, SnapshotPhases
  <2>4. FilesWhole'
    BY <2>1, <2>2 DEF FilterInv, FilesWhole
  <2>5. FilesPass(bloomFilter)' /\ FilesPass(bloomFile)'
    BY <2>1, <2>2, <2>3 DEF FilesPass
  <2>6. ListPasses(bloomFilter)' /\ TablePasses(bloomFilter)' /\ TablePasses(bloomFile)'
    BY <2>1, <2>3 DEF ListPasses, TablePasses
  <2> QED
    BY <2>1, <2>4, <2>5, <2>6 DEF FilterInv
<1>5. CASE DumpIndex
  <2> DEFINE map == SSTableIndex(snapshot.table)
  <2>1. /\ pc = "indexDump" /\ pc' = "ready" /\ UNCHANGED <<bloomFilter, bloomFile>>
        /\ indexFile' = Write(indexFile, snapshot.segment, [written |-> TRUE, map |-> map])
        /\ \/ index' = index
           \/ index' = IndexUpdate(index, [fileId |-> snapshot.segment, map |-> map])
    BY <1>5 DEF DumpIndex
  <2>2. DOMAIN map = DOMAIN snapshot.table
    BY DEF SSTableIndex
  <2> HIDE DEF map
  <2>3. ASSUME NEW s \in DOMAIN indexFile'
        PROVE  \/ s \in DOMAIN indexFile /\ s # snapshot.segment /\ indexFile'[s] = indexFile[s]
               \/ s = snapshot.segment /\ indexFile'[s].written /\ indexFile'[s].map = map
    BY <2>1 DEF Write
  <2>4. /\ ListPasses(bloomFilter) /\ FilesPass(bloomFilter) /\ TablePasses(bloomFilter)
        /\ FilesPass(bloomFile) /\ TablePasses(bloomFile)
    BY <2>1 DEF FilterInv, SnapshotPhases
  <2>5. FilesWhole'
    BY <2>3 DEF FilterInv, FilesWhole
  <2>6. FilesPass(bloomFilter)' /\ FilesPass(bloomFile)'
    BY <2>1, <2>2, <2>3, <2>4 DEF FilesPass, TablePasses
  <2>7. ListPasses(bloomFilter)'
    <3> SUFFICES ASSUME NEW i \in DOMAIN index', NEW k \in KeysButZero \cap DOMAIN index'[i].map
                 PROVE  ProbablyContains(bloomFilter, k)
      BY <2>1 DEF ListPasses
    <3>1. CASE index' = index
      BY <2>4, <3>1 DEF ListPasses
    <3>2. CASE index' = IndexUpdate(index, [fileId |-> snapshot.segment, map |-> map])
      <4>1. /\ index'[1] = [fileId |-> snapshot.segment, map |-> map]
            /\ i = 1 \/ (i - 1 \in DOMAIN index /\ index'[i] = index[i - 1])
        BY <3>2, IndexPushed DEF TypeInv
      <4>2. CASE i = 1
        BY <2>2, <2>4, <4>1, <4>2 DEF TablePasses
      <4>3. CASE i - 1 \in DOMAIN index /\ index'[i] = index[i - 1]
        BY <2>4, <4>3 DEF ListPasses
      <4> QED
        BY <4>1, <4>2, <4>3
    <3> QED
      BY <2>1, <3>1, <3>2
  <2> QED
    BY <2>1, <2>5, <2>6, <2>7 DEF FilterInv
<1> QED
  BY <1>1, <1>2, <1>3, <1>4, <1>5 DEF Snapshot

LEMMA FilterStep ==
  ASSUME ~CanCrash, TypeInv, LoadInv, FilterInv, [Next]_vars
  PROVE  FilterInv'
<1> USE DEF memoryVars, diskVars, logVars, localVars, boundVars
<1>1. CASE OpenRestore \/ OpenLog
  <2>1. /\ pc \in {"closed", "openLog"} /\ pc' \in {"openLog", "openIndex"}
        /\ UNCHANGED <<index, indexFile, bloomFile>>
    BY <1>1 DEF OpenRestore, OpenLog
  <2>2. index = <<>>
    BY <2>1 DEF LoadInv
  <2>3. ListPasses(bloomFile)'
    BY <2>1, <2>2 DEF ListPasses
  <2>4. FilesWhole' /\ FilesPass(bloomFile)'
    BY <2>1 DEF FilterInv, FilesWhole, FilesPass
  <2> QED
    BY <2>1, <2>3, <2>4 DEF FilterInv, SnapshotPhases
<1>2. CASE OpenLoadIndex
  BY <1>2, FilterLoad
<1>3. CASE OpenBloom
  <2>1. /\ pc = "openIndex" /\ pc' = "ready" /\ bloomFilter' = bloomFile
        /\ UNCHANGED <<index, indexFile, bloomFile>>
    BY <1>3 DEF OpenBloom
  <2>2. FilesWhole' /\ FilesPass(bloomFile)' /\ FilesPass(bloomFilter)' /\ ListPasses(bloomFilter)'
    BY <2>1 DEF FilterInv, FilesWhole, FilesPass, ListPasses
  <2> QED
    BY <2>1, <2>2 DEF FilterInv
<1>4. CASE ClientWrite
  <2>1. /\ pc = "ready" /\ pc' \in {"ready", "snapshot"}
        /\ UNCHANGED <<index, indexFile, bloomFile, bloomFilter>>
    BY <1>4 DEF ClientWrite, Put, Remove, InsertRow
  <2> QED
    BY <2>1 DEF FilterInv, FilesWhole, FilesPass, ListPasses, SnapshotPhases
<1>5. CASE Snapshot
  BY <1>5, FilterSnapshot
<1>6. ASSUME NEW r \in Readers, Get(r) PROVE FilterInv'
  <2>1. UNCHANGED <<pc, index, indexFile, bloomFile, bloomFilter, snapshot>>
    BY <1>6 DEF Get, FindInMemory, CheckBloom, LookupIndex, ReadChunk, Return, Finish, ReaderStep
  <2> QED
    BY <2>1 DEF FilterInv, FilesWhole, FilesPass, ListPasses, TablePasses
<1>7. CASE Close
  <2>1. /\ pc \in {"ready", "failed"} /\ pc' = "closed" /\ UNCHANGED <<indexFile, bloomFile>>
    BY <1>7 DEF Close, MemoryLost
  <2> QED
    BY <2>1 DEF FilterInv, FilesWhole, FilesPass, SnapshotPhases
<1>8. CASE Crash
  BY <1>8 DEF Crash
<1>9. CASE UNCHANGED vars
  BY <1>9 DEF vars, FilterInv, FilesWhole, FilesPass, ListPasses, TablePasses
<1> QED
  BY <1>1, <1>2, <1>3, <1>4, <1>5, <1>6, <1>7, <1>8, <1>9 DEF Next, SessionNext, Open

ShutdownInv == TypeInv /\ LoadInv /\ FilterInv

LEMMA ShutdownCorrect ==
  ASSUME ~CanCrash
  PROVE  Spec => []ShutdownInv
<1>1. Init => ShutdownInv
  <2> SUFFICES ASSUME Init PROVE ShutdownInv
    OBVIOUS
  <2>1. pc = "closed" /\ index = <<>> /\ DOMAIN indexFile = {}
    BY DEF Init, NoFiles
  <2> QED
    BY <2>1, TypeInit DEF ShutdownInv, LoadInv, FilterInv, FilesWhole, FilesPass, SnapshotPhases
<1>2. ShutdownInv /\ [Next]_vars => ShutdownInv'
  BY TypeStep, LoadStep, FilterStep DEF ShutdownInv
<1> QED
  BY <1>1, <1>2, PTL DEF Spec

\* Opening a directory that was closed in order never throws, whatever number of processes
\* wrote to it before: Index::load meets every file written and no file id twice.
THEOREM OpensAfterShutdown ==
  ASSUME ~CanCrash
  PROVE  Spec => [](pc # "failed")
<1>1. ShutdownInv => pc # "failed"
  BY DEF ShutdownInv, LoadInv, FilterInv, FilesWhole, IndexIsTorn
<1> QED
  BY <1>1, ShutdownCorrect, PTL

\* The filter never hides a key that the index knows, through any number of processes that
\* shut down in order, also when a segment number is used again: the filter is saved whole
\* before the index file of a table is, and loaded with it.
THEOREM FilterSurvivesShutdown ==
  ASSUME ~CanCrash, 0 \notin Keys
  PROVE  Spec => []BloomCoversIndex
<1>1. ShutdownInv => BloomCoversIndex
  <2> SUFFICES ASSUME ShutdownInv, pc \notin {"openLog", "openIndex"}, NEW k \in Keys, TablesWith(index, k) # {}
               PROVE  ProbablyContains(bloomFilter, k)
    BY DEF BloomCoversIndex
  <2>1. PICK i \in DOMAIN index : k \in DOMAIN index[i].map
    BY DEF TablesWith
  <2>2. pc \in {"ready"} \cup SnapshotPhases
    <3>1. pc # "closed"
      BY <2>1 DEF ShutdownInv, LoadInv
    <3>2. pc # "failed"
      BY DEF ShutdownInv, LoadInv, FilterInv, FilesWhole, IndexIsTorn
    <3> QED
      BY <3>1, <3>2 DEF ShutdownInv, TypeInv, TypeOK, Phases, OpenPhases
  <2> QED
    BY <2>1, <2>2 DEF ShutdownInv, FilterInv, ListPasses, KeysButZero
<1> QED
  BY <1>1, ShutdownCorrect, PTL

-----------------------------------------------------------------------------
(* The order of the index files                                            *)

\* The digits of n, when h gives those of the numbers below.
DigitsStep(h, n) == IF n < 10 THEN <<n>> ELSE Append(h[n \div 10], n % 10)

\* h gives the digits of the numbers up to m.
DigitsUpTo(m, h) == h = [n \in 0 .. m |-> DigitsStep(h, n)]

LEMMA TenthIsLess ==
  ASSUME NEW n \in Nat, ~(n < 10)
  PROVE  n \div 10 \in Nat /\ n \div 10 < n
OBVIOUS

LEMMA DigitsAgree ==
  ASSUME NEW a \in Nat, NEW g, DigitsUpTo(a, g), NEW b \in Nat, NEW h, DigitsUpTo(b, h),
         NEW n \in Nat, n <= a, n <= b
  PROVE  g[n] = h[n]
<1> DEFINE S == {i \in Nat : i <= a /\ i <= b /\ g[i] # h[i]}
<1>1. \A i \in Nat : (i <= a => g[i] = DigitsStep(g, i)) /\ (i <= b => h[i] = DigitsStep(h, i))
  BY DEF DigitsUpTo
<1>2. SUFFICES ASSUME S # {} PROVE FALSE
  OBVIOUS
<1>3. S \subseteq Nat
  OBVIOUS
<1>4. PICK i \in S : \A j \in S : i <= j
  <2> HIDE DEF S
  <2> QED
    BY <1>2, <1>3, LeastNatural
<1>a. i \in Nat /\ i <= a /\ i <= b /\ g[i] # h[i]
  BY <1>4
<1>b. g[i] = DigitsStep(g, i) /\ h[i] = DigitsStep(h, i)
  BY <1>1, <1>a
<1>5. CASE i < 10
  BY <1>5, <1>a, <1>b DEF DigitsStep
<1>6. CASE ~(i < 10)
  <2>1. i \div 10 \in Nat /\ i \div 10 < i
    BY <1>4, <1>6, TenthIsLess
  <2>2. g[i \div 10] = h[i \div 10]
    <3>1. i \div 10 \notin S
      BY <1>4, <2>1
    <3>2. i \div 10 <= a /\ i \div 10 <= b
      BY <1>4, <2>1
    <3> QED
      BY <2>1, <3>1, <3>2
  <2>3. DigitsStep(g, i) = DigitsStep(h, i)
    BY <1>6, <2>2 DEF DigitsStep
  <2> QED
    BY <1>a, <1>b, <2>3
<1> QED
  BY <1>5, <1>6

LEMMA DigitsPartExists ==
  ASSUME NEW m \in Nat
  PROVE  \E h : DigitsUpTo(m, h)
<1> DEFINE S == {i \in Nat : ~\E h : DigitsUpTo(i, h)}
<1>1. SUFFICES ASSUME S # {} PROVE FALSE
  OBVIOUS
<1>2. S \subseteq Nat
  OBVIOUS
<1>3. PICK i \in S : \A j \in S : i <= j
  <2> HIDE DEF S
  <2> QED
    BY <1>1, <1>2, LeastNatural
<1>4. \A g : ~DigitsUpTo(i, g)
  BY <1>3
<1>5. ASSUME NEW h, i = 0 \/ (i - 1 \in Nat /\ DigitsUpTo(i - 1, h)) PROVE FALSE
  <2> DEFINE g == [n \in 0 .. i |-> DigitsStep(h, n)]
  <2>1. ASSUME NEW n \in 0 .. i PROVE DigitsStep(h, n) = DigitsStep(g, n)
    <3>1. CASE n < 10
      BY <3>1 DEF DigitsStep
    <3>2. CASE ~(n < 10)
      <4>1. n \div 10 \in Nat /\ n \div 10 < n /\ n \in Nat /\ n <= i /\ i \in Nat
        BY <1>3, <3>2, TenthIsLess
      <4>2. n \div 10 \in 0 .. i - 1 /\ n \div 10 \in 0 .. i /\ i # 0
        BY <4>1
      <4>3. h[n \div 10] = DigitsStep(h, n \div 10)
        BY <1>5, <4>2 DEF DigitsUpTo
      <4>4. g[n \div 10] = DigitsStep(h, n \div 10)
        BY <4>2
      <4> HIDE DEF g
      <4> QED
        BY <3>2, <4>3, <4>4 DEF DigitsStep
    <3> QED
      BY <3>1, <3>2
  <2>2. g = [n \in 0 .. i |-> DigitsStep(g, n)]
    <3>1. \A n \in 0 .. i : g[n] = DigitsStep(g, n)
      BY <2>1
    <3>2. g = [n \in 0 .. i |-> g[n]]
      OBVIOUS
    <3> HIDE DEF g
    <3> QED
      BY <3>1, <3>2
  <2> HIDE DEF g
  <2> QED
    BY <1>4, <2>2 DEF DigitsUpTo
<1>6. CASE i = 0
  BY <1>5, <1>6
<1>7. CASE i # 0
  <2>1. i - 1 \in Nat /\ i - 1 \notin S
    BY <1>3, <1>7
  <2> QED
    BY <1>5, <2>1
<1> QED
  BY <1>6, <1>7

\* std::to_string of a number below ten is its one digit: the recursion that defines the
\* digits has a solution.
LEMMA OneDigit ==
  ASSUME NEW n \in Nat, n < 10
  PROVE  Digits[n] = <<n>>
<1> DEFINE part(m) == CHOOSE h : DigitsUpTo(m, h)
           D == [m \in Nat |-> part(m)[m]]
<1>1. \A m \in Nat : DigitsUpTo(m, part(m))
  BY DigitsPartExists
<1> HIDE DEF part
<1>2. ASSUME NEW m \in Nat PROVE D[m] = DigitsStep(D, m)
  <2>1. D[m] = DigitsStep(part(m), m)
    <3>1. part(m) = [i \in 0 .. m |-> DigitsStep(part(m), i)]
      BY <1>1 DEF DigitsUpTo
    <3> QED
      BY <3>1
  <2>2. CASE m < 10
    BY <2>1, <2>2 DEF DigitsStep
  <2>3. CASE ~(m < 10)
    <3>1. m \div 10 \in Nat /\ m \div 10 <= m
      BY <2>3, TenthIsLess
    <3>2. part(m)[m \div 10] = part(m \div 10)[m \div 10]
      <4>1. DigitsUpTo(m, part(m)) /\ DigitsUpTo(m \div 10, part(m \div 10)) /\ m \div 10 <= m \div 10
        BY <1>1, <3>1
      <4> QED
        BY <3>1, <4>1, DigitsAgree
    <3>3. D[m \div 10] = part(m \div 10)[m \div 10]
      BY <3>1
    <3> HIDE DEF D
    <3> QED
      BY <2>1, <2>3, <3>2, <3>3 DEF DigitsStep
  <2> QED
    BY <2>2, <2>3
<1>3. D = [m \in Nat |-> D[m]]
  OBVIOUS
<1> HIDE DEF D
<1>4. D = [m \in Nat |-> DigitsStep(D, m)]
  BY <1>2, <1>3
<1>5. Digits = CHOOSE f : f = [m \in Nat |-> DigitsStep(f, m)]
  BY DEF Digits, DigitsStep
<1>6. Digits = [m \in Nat |-> DigitsStep(Digits, m)]
  BY <1>4, <1>5
<1> QED
  BY <1>6 DEF DigitsStep

\* So the paths of such segments are ordered as the segments are.
LEMMA PathOrderOfDigits ==
  ASSUME NEW a \in Nat, NEW b \in Nat, a < 10, b < 10, PathLess(a, b)
  PROVE  a < b
<1>1. Digits[a] = <<a>> /\ Digits[b] = <<b>>
  BY OneDigit
<1>2. PICK i \in 1 .. Len(<<b>>) : i <= Len(<<a>>) => <<a>>[i] < <<b>>[i]
  BY <1>1 DEF PathLess
<1> QED
  BY <1>2

\* Phases in which a segment has its number and no entry on the list yet.
SegmentPhases == SnapshotPhases \ {"snapshot"}

\* Below this number every segment has an index file.
FirstUnfiled == IF pc \in SegmentPhases THEN snapshot.segment ELSE segmentId

\* Segment numbers are taken one by one, from 0 in every process, so the index files have
\* no gap.
FilesDense ==
  /\ \A s \in DOMAIN indexFile : \A t \in Nat : t < s => t \in DOMAIN indexFile
  /\ \A t \in Nat : t < FirstUnfiled => t \in DOMAIN indexFile
  /\ pc \in SegmentPhases => segmentId = snapshot.segment + 1
  /\ pc = "indexDump" => snapshot.segment \in DOMAIN indexFile
  /\ pc \in {"closed", "openLog", "openIndex", "failed"} => segmentId = 0

OneDigitFiles == \A s \in DOMAIN indexFile : s < 10

Descending == \A i, j \in DOMAIN index : i < j => index[i].fileId > index[j].fileId

\* The list has the files in falling order: while it is loaded those that were read, which
\* are lower than those that are left, and after that all, but the one being written.
ListMirrors ==
  /\ Descending
  /\ pc \in {"closed", "openLog"} => index = <<>>
  /\ pc = "openIndex" =>
       /\ \A s \in DOMAIN indexFile : s \in toLoad \/ Indexed(index, s)
       /\ \A i \in DOMAIN index : \A t \in toLoad : index[i].fileId < t
  /\ pc \in {"ready", "openIndex"} \cup SnapshotPhases =>
       \A i \in DOMAIN index : index[i].fileId \in DOMAIN indexFile
  /\ pc \in {"ready"} \cup SnapshotPhases =>
       \A s \in DOMAIN indexFile :
         \/ Indexed(index, s)
         \/ pc = "indexDump" /\ s = snapshot.segment /\ \A i \in DOMAIN index : index[i].fileId < s

OrderInv == FilesDense /\ (OneDigitFiles => ListMirrors)

\* A lower list stays in order when a table is put in front of it.
LEMMA PushedInOrder ==
  ASSUME TypeOK, NEW table, index' = IndexUpdate(index, table), Descending,
         \A i \in DOMAIN index : index[i].fileId < table.fileId, table.fileId \in Nat
  PROVE  /\ Descending'
         /\ \A s : Indexed(index', s) <=> Indexed(index, s) \/ s = table.fileId
         /\ \A i \in DOMAIN index' : index'[i] = table \/ \E j \in DOMAIN index : index'[i] = index[j]
<1>1. /\ DOMAIN index = 1 .. Len(index) /\ Len(index) \in Nat
      /\ DOMAIN index' = 1 .. 1 + Len(index)
      /\ index'[1] = table
      /\ \A i \in DOMAIN index : index'[i + 1] = index[i]
      /\ \A i \in DOMAIN index' : i = 1 \/ (i - 1 \in DOMAIN index /\ index'[i] = index[i - 1])
  BY IndexPushed
<1>2. ASSUME NEW i \in DOMAIN index', NEW j \in DOMAIN index', i < j
      PROVE  index'[i].fileId > index'[j].fileId
  <2>1. j # 1 /\ j - 1 \in DOMAIN index /\ index'[j] = index[j - 1] /\ index[j - 1].fileId \in Nat
    BY <1>1, <1>2 DEF TypeOK
  <2>2. CASE i = 1
    <3>1. index[j - 1].fileId < table.fileId
      BY <2>1
    <3> QED
      BY <1>1, <2>1, <2>2, <3>1
  <2>3. CASE i # 1
    <3>1. i - 1 \in DOMAIN index /\ index'[i] = index[i - 1] /\ i - 1 < j - 1
      BY <1>1, <1>2, <2>3
    <3> QED
      BY <2>1, <3>1 DEF Descending
  <2> QED
    BY <2>2, <2>3
<1>3. ASSUME NEW s, Indexed(index', s) PROVE Indexed(index, s) \/ s = table.fileId
  BY <1>1, <1>3 DEF Indexed
<1>4. ASSUME NEW s, Indexed(index, s) PROVE Indexed(index', s)
  <2>1. PICK i \in DOMAIN index : index[i].fileId = s
    BY <1>4 DEF Indexed
  <2>2. i + 1 \in DOMAIN index' /\ index'[i + 1] = index[i]
    BY <1>1
  <2> QED
    BY <2>1, <2>2 DEF Indexed
<1>5. Indexed(index', table.fileId)
  <2>1. 1 \in DOMAIN index'
    BY <1>1
  <2> QED
    BY <1>1, <2>1 DEF Indexed
<1>6. Descending'
  BY <1>2 DEF Descending
<1> QED
  BY <1>1, <1>3, <1>4, <1>5, <1>6

\* Index::load puts the lowest file that is left in front; an empty file is taken for
\* segment 0, which comes first.
LEMMA OrderLoad ==
  ASSUME TypeInv, OrderInv, OneDigitFiles, OpenLoadIndex
  PROVE  ListMirrors'
<1> USE DEF diskVars
<1> DEFINE table(y) == LoadTableIndex(y, indexFile[y])
<1>1. PICK s \in toLoad :
        /\ \A t \in toLoad \ {s} : PathLess(s, t)
        /\ IF Indexed(index, table(s).fileId)
           THEN pc' = "failed" /\ toLoad' = {} /\ UNCHANGED index
           ELSE /\ index' = IndexUpdate(index, table(s))
                /\ toLoad' = toLoad \ {s}
                /\ UNCHANGED pc
  BY Zenon DEF OpenLoadIndex
<1>2. pc = "openIndex" /\ UNCHANGED indexFile
  BY DEF OpenLoadIndex
<1>3. /\ toLoad \subseteq DOMAIN indexFile /\ DOMAIN indexFile \subseteq Nat
      /\ s \in DOMAIN indexFile /\ s \in Nat
  BY <1>1 DEF TypeInv, TypeOK
<1>4. \A t \in toLoad \ {s} : s < t
  <2> SUFFICES ASSUME NEW t \in toLoad \ {s} PROVE s < t
    OBVIOUS
  <2>1. t \in Nat /\ t < 10 /\ s < 10
    BY <1>3 DEF OneDigitFiles
  <2>2. PathLess(s, t)
    BY <1>1
  <2> QED
    BY <1>3, <2>1, <2>2, PathOrderOfDigits
<1>5. ListMirrors
  BY DEF OrderInv
<1>6. CASE Indexed(index, table(s).fileId)
  <2>1. pc' = "failed" /\ index' = index
    BY <1>1, <1>6
  <2> QED
    BY <1>5, <2>1 DEF ListMirrors, Descending, SnapshotPhases
<1>7. CASE ~Indexed(index, table(s).fileId)
  <2>1. index' = IndexUpdate(index, table(s)) /\ toLoad' = toLoad \ {s} /\ pc' = "openIndex"
    BY <1>1, <1>2, <1>7
  <2>2. table(s).fileId = s
    <3>1. CASE indexFile[s].written
      BY <3>1 DEF LoadTableIndex
    <3>2. CASE ~indexFile[s].written
      <4>1. table(s).fileId = 0
        BY <3>2 DEF LoadTableIndex
      <4> HIDE DEF table
      <4>2. 0 \in DOMAIN indexFile
        BY <1>3 DEF OrderInv, FilesDense
      <4>3. 0 \in toLoad
        BY <1>2, <1>5, <1>7, <4>1, <4>2 DEF ListMirrors
      <4>4. s = 0
        <5>1. s # 0 => s < 0
          BY <1>4, <4>3
        <5> QED
          BY <1>3, <5>1
      <4> QED
        BY <4>1, <4>4
    <3> QED
      BY <3>1, <3>2
  <2> HIDE DEF table
  <2>3. \A i \in DOMAIN index : index[i].fileId < s /\ index[i].fileId \in DOMAIN indexFile
    BY <1>2, <1>5 DEF ListMirrors
  <2>4. Descending
    BY <1>5 DEF ListMirrors
  <2>5. /\ Descending'
        /\ \A t : Indexed(index', t) <=> Indexed(index, t) \/ t = s
        /\ \A i \in DOMAIN index' : index'[i] = table(s) \/ \E j \in DOMAIN index : index'[i] = index[j]
    BY <1>3, <2>1, <2>2, <2>3, <2>4, PushedInOrder DEF TypeInv
  <2>6. \A t \in DOMAIN indexFile' : t \in toLoad' \/ Indexed(index', t)
    BY <1>2, <1>5, <2>1, <2>5 DEF ListMirrors
  <2>7. ASSUME NEW i \in DOMAIN index'
        PROVE  index'[i].fileId \in DOMAIN indexFile' /\ \A t \in toLoad' : index'[i].fileId < t
    <3>1. CASE index'[i] = table(s)
      BY <1>2, <1>3, <1>4, <2>1, <2>2, <3>1
    <3>2. CASE \E j \in DOMAIN index : index'[i] = index[j]
      <4>1. PICK j \in DOMAIN index : index'[i] = index[j]
        BY <3>2
      <4>2. \A t \in toLoad : index[j].fileId < t
        BY <1>2, <1>5 DEF ListMirrors
      <4> QED
        BY <1>2, <2>1, <2>3, <4>1, <4>2
    <3> QED
      BY <2>5, <3>1, <3>2
  <2> QED
    BY <2>1, <2>5, <2>6, <2>7 DEF ListMirrors, SnapshotPhases
<1> QED
  BY <1>6, <1>7

\* The steps of makeSnapshot number the segments without a gap.
LEMMA DenseSnapshot ==
  ASSUME TypeInv, FilesDense, Snapshot
  PROVE  FilesDense' /\ DOMAIN indexFile \subseteq DOMAIN indexFile'
<1> USE DEF memoryVars, localVars, SegmentPhases, SnapshotPhases
<1>0. segmentId \in Nat /\ snapshot.segment \in Nat /\ DOMAIN indexFile \subseteq Nat
  BY DEF TypeInv, TypeOK
<1>1. CASE BeginSnapshot
  <2>1. /\ pc = "snapshot" /\ pc' = "dump" /\ segmentId' = segmentId + 1 /\ snapshot'.segment = segmentId
        /\ UNCHANGED indexFile
    BY <1>1 DEF BeginSnapshot
  <2>2. FirstUnfiled' = FirstUnfiled
    BY <2>1 DEF FirstUnfiled
  <2> QED
    BY <2>1, <2>2 DEF FilesDense
<1>2. CASE DumpMemTable \/ ClearMemTable \/ AddToBloom \/ DumpBloom
  <2>1. /\ pc \in {"dump", "clear", "bloom", "bloomDump"} /\ pc' \in {"clear", "bloom", "bloomDump", "index"}
        /\ UNCHANGED <<segmentId, snapshot, indexFile>>
    BY <1>2 DEF DumpMemTable, ClearMemTable, AddToBloom, DumpBloom, diskVars
  <2>2. FirstUnfiled' = FirstUnfiled
    BY <2>1 DEF FirstUnfiled
  <2> QED
    BY <2>1, <2>2 DEF FilesDense
<1>3. CASE OpenIndexFile
  <2>1. /\ pc = "index" /\ pc' = "indexDump" /\ UNCHANGED <<segmentId, snapshot>>
        /\ DOMAIN indexFile' = DOMAIN indexFile \cup {snapshot.segment}
    BY <1>3 DEF OpenIndexFile, Write
  <2>2. FirstUnfiled' = FirstUnfiled /\ FirstUnfiled = snapshot.segment
    BY <2>1 DEF FirstUnfiled
  <2> QED
    BY <2>1, <2>2 DEF FilesDense
<1>4. CASE DumpIndex
  <2>1. /\ pc = "indexDump" /\ pc' = "ready" /\ UNCHANGED segmentId
        /\ DOMAIN indexFile' = DOMAIN indexFile \cup {snapshot.segment}
    BY <1>4 DEF DumpIndex, Write
  <2>2. /\ FirstUnfiled = snapshot.segment /\ FirstUnfiled' = snapshot.segment + 1
        /\ DOMAIN indexFile' = DOMAIN indexFile
    BY <2>1 DEF FirstUnfiled, FilesDense
  <2>3. ASSUME NEW t \in Nat, t < FirstUnfiled' PROVE t \in DOMAIN indexFile'
    <3>1. t = snapshot.segment \/ t < snapshot.segment
      BY <1>0, <2>2, <2>3
    <3> QED
      BY <2>1, <2>2, <3>1 DEF FilesDense
  <2> QED
    BY <2>1, <2>2, <2>3 DEF FilesDense
<1> QED
  BY <1>1, <1>2, <1>3, <1>4 DEF Snapshot

\* Index files are created and never removed, and a crash creates none.
LEMMA DenseStep ==
  ASSUME TypeInv, FilesDense, [Next]_vars
  PROVE  FilesDense' /\ DOMAIN indexFile \subseteq DOMAIN indexFile'
<1> USE DEF memoryVars, diskVars, logVars, localVars, boundVars
<1>1. CASE Open
  <2>1. /\ pc \in {"closed", "openLog", "openIndex"} /\ pc' \in {"openLog", "openIndex", "failed", "ready"}
        /\ UNCHANGED <<segmentId, snapshot, indexFile>>
    <3>1. CASE OpenRestore \/ OpenLog \/ OpenBloom
      BY <3>1 DEF OpenRestore, OpenLog, OpenBloom
    <3>2. CASE OpenLoadIndex
      <4>1. pc = "openIndex" /\ UNCHANGED <<segmentId, snapshot, indexFile>> /\ pc' \in {"failed", pc}
        BY <3>2, Zenon DEF OpenLoadIndex
      <4> QED
        BY <4>1
    <3> QED
      BY <1>1, <3>1, <3>2 DEF Open
  <2>2. FirstUnfiled' = FirstUnfiled
    BY <2>1 DEF FirstUnfiled, SegmentPhases, SnapshotPhases
  <2> QED
    BY <2>1, <2>2 DEF FilesDense, SegmentPhases, SnapshotPhases
<1>2. CASE ClientWrite
  <2>1. /\ pc = "ready" /\ pc' \in {"ready", "snapshot"} /\ UNCHANGED <<segmentId, snapshot, indexFile>>
    BY <1>2 DEF ClientWrite, Put, Remove, InsertRow
  <2>2. FirstUnfiled' = FirstUnfiled
    BY <2>1 DEF FirstUnfiled, SegmentPhases, SnapshotPhases
  <2> QED
    BY <2>1, <2>2 DEF FilesDense, SegmentPhases, SnapshotPhases
<1>3. CASE Snapshot
  BY <1>3, DenseSnapshot
<1>4. CASE UNCHANGED vars \/ \E r \in Readers : Get(r)
  <2>1. UNCHANGED <<pc, segmentId, snapshot, indexFile>>
    BY <1>4 DEF vars, Get, FindInMemory, CheckBloom, LookupIndex, ReadChunk, Return, Finish, ReaderStep
  <2>2. FirstUnfiled' = FirstUnfiled
    BY <2>1 DEF FirstUnfiled
  <2> QED
    BY <2>1, <2>2 DEF FilesDense
<1>5. CASE Close \/ Crash
  <2>1. pc' = "closed" /\ segmentId' = 0
    BY <1>5 DEF Close, Crash, MemoryLost
  <2>2. DOMAIN indexFile' = DOMAIN indexFile
    <3>1. CASE Close
      BY <3>1 DEF Close
    <3>2. CASE Crash
      <4>1. indexFile' \in IndexAtCrash
        BY <3>2 DEF Crash
      <4>2. ASSUME indexFile' # indexFile
            PROVE  pc = "indexDump" /\ DOMAIN indexFile' = DOMAIN indexFile \cup {snapshot.segment}
        BY <4>1, <4>2, IndexFileCut DEF Write
      <4> QED
        BY <4>2 DEF FilesDense
    <3> QED
      BY <1>5, <3>1, <3>2
  <2>3. FirstUnfiled' = 0 /\ \A t \in Nat : ~(t < 0)
    BY <2>1 DEF FirstUnfiled, SegmentPhases, SnapshotPhases
  <2> QED
    BY <2>1, <2>2, <2>3 DEF FilesDense, SegmentPhases, SnapshotPhases
<1> QED
  BY <1>1, <1>2, <1>3, <1>4, <1>5 DEF Next, SessionNext

\* makeSnapshot puts its table in front of all that is lower, or, when the number was used
\* before, leaves the list as it is.
LEMMA OrderSnapshot ==
  ASSUME TypeInv, OrderInv, OneDigitFiles, Snapshot
  PROVE  ListMirrors'
<1> USE DEF memoryVars, localVars
<1>0. ListMirrors /\ FilesDense /\ DOMAIN indexFile \subseteq Nat /\ snapshot.segment \in Nat
  BY DEF OrderInv, TypeInv, TypeOK
<1>1. CASE BeginSnapshot \/ DumpMemTable \/ ClearMemTable \/ AddToBloom \/ DumpBloom
  <2>1. /\ pc \in {"snapshot", "dump", "clear", "bloom", "bloomDump"}
        /\ pc' \in {"dump", "clear", "bloom", "bloomDump", "index"}
        /\ UNCHANGED <<index, indexFile>>
    BY <1>1 DEF BeginSnapshot, DumpMemTable, ClearMemTable, AddToBloom, DumpBloom, diskVars
  <2> QED
    BY <1>0, <2>1 DEF ListMirrors, Descending, SnapshotPhases
<1>2. CASE OpenIndexFile
  <2>1. /\ pc = "index" /\ pc' = "indexDump" /\ UNCHANGED <<index, snapshot>>
        /\ DOMAIN indexFile' = DOMAIN indexFile \cup {snapshot.segment}
    BY <1>2 DEF OpenIndexFile, Write
  <2>2. \A i \in DOMAIN index : index[i].fileId \in DOMAIN indexFile
    BY <1>0, <2>1 DEF ListMirrors, SnapshotPhases
  <2>3. \A s \in DOMAIN indexFile : Indexed(index, s)
    BY <1>0, <2>1 DEF ListMirrors, SnapshotPhases
  <2>4. ASSUME snapshot.segment \notin DOMAIN indexFile, NEW i \in DOMAIN index
        PROVE  index[i].fileId < snapshot.segment
    <3>1. index[i].fileId \in Nat /\ index[i].fileId # snapshot.segment
      BY <1>0, <2>2, <2>4
    <3>2. ~(snapshot.segment < index[i].fileId)
      BY <1>0, <2>2, <2>4 DEF FilesDense
    <3> QED
      BY <1>0, <3>1, <3>2
  <2>5. ASSUME NEW s \in DOMAIN indexFile'
        PROVE  \/ Indexed(index, s)
               \/ s = snapshot.segment /\ \A i \in DOMAIN index : index[i].fileId < s
    BY <2>1, <2>3, <2>4
  <2> QED
    BY <1>0, <2>1, <2>2, <2>5 DEF ListMirrors, Descending
<1>3. CASE DumpIndex
  <2> DEFINE table == [fileId |-> snapshot.segment, map |-> SSTableIndex(snapshot.table)]
             s == snapshot.segment
  <2>1. /\ pc = "indexDump" /\ pc' = "ready"
        /\ DOMAIN indexFile' = DOMAIN indexFile \cup {s}
        /\ index' = IF Indexed(index, s) THEN index ELSE IndexUpdate(index, table)
    BY <1>3 DEF DumpIndex, Write
  <2>2. DOMAIN indexFile' = DOMAIN indexFile /\ s \in DOMAIN indexFile
    BY <1>0, <2>1 DEF FilesDense
  <2>3. table.fileId = s
    OBVIOUS
  <2> HIDE DEF table, s
  <2>4. /\ Descending
        /\ \A i \in DOMAIN index : index[i].fileId \in DOMAIN indexFile
        /\ \A t \in DOMAIN indexFile : Indexed(index, t) \/ (t = s /\ \A i \in DOMAIN index : index[i].fileId < t)
    BY <1>0, <2>1 DEF ListMirrors, SnapshotPhases, s
  <2>5. CASE Indexed(index, s)
    <3>1. index' = index
      BY <2>1, <2>5
    <3>2. \A t \in DOMAIN indexFile : Indexed(index, t)
      BY <2>4, <2>5
    <3> QED
      BY <2>1, <2>2, <2>4, <3>1, <3>2 DEF ListMirrors, Descending
  <2>6. CASE ~Indexed(index, s)
    <3>1. index' = IndexUpdate(index, table)
      BY <2>1, <2>6
    <3>2. \A i \in DOMAIN index : index[i].fileId < s
      BY <2>2, <2>4, <2>6
    <3>3. s \in Nat
      BY <1>0 DEF s
    <3>4. /\ Descending'
          /\ \A t : Indexed(index', t) <=> Indexed(index, t) \/ t = s
          /\ \A i \in DOMAIN index' : index'[i] = table \/ \E j \in DOMAIN index : index'[i] = index[j]
      BY <2>3, <2>4, <3>1, <3>2, <3>3, PushedInOrder DEF TypeInv
    <3>5. ASSUME NEW i \in DOMAIN index' PROVE index'[i].fileId \in DOMAIN indexFile
      BY <2>2, <2>3, <2>4, <3>4
    <3>6. \A t \in DOMAIN indexFile : Indexed(index', t)
      BY <2>4, <3>4
    <3> QED
      BY <2>1, <2>2, <3>4, <3>5, <3>6 DEF ListMirrors
  <2> QED
    BY <2>5, <2>6
<1> QED
  BY <1>1, <1>2, <1>3 DEF Snapshot

LEMMA OrderStep ==
  ASSUME TypeInv, OrderInv, [Next]_vars
  PROVE  OrderInv'
<1> USE DEF memoryVars, diskVars, logVars, localVars, boundVars
<1>0. FilesDense' /\ (OneDigitFiles' => OneDigitFiles)
  BY DenseStep DEF OrderInv, OneDigitFiles
<1> SUFFICES ASSUME OneDigitFiles PROVE ListMirrors'
  BY <1>0 DEF OrderInv
<1>r. ListMirrors
  BY DEF OrderInv
<1>1. CASE OpenRestore \/ OpenLog
  <2>1. /\ pc \in {"closed", "openLog"} /\ pc' \in {"openLog", "openIndex"} /\ UNCHANGED <<index, indexFile>>
        /\ pc' = "openIndex" => toLoad' = DOMAIN indexFile
    BY <1>1 DEF OpenRestore, OpenLog
  <2>2. DOMAIN index = {} /\ index = <<>>
    BY <1>r, <2>1 DEF ListMirrors
  <2> QED
    BY <2>1, <2>2 DEF ListMirrors, Descending, SnapshotPhases
<1>2. CASE OpenLoadIndex
  BY <1>2, OrderLoad
<1>3. CASE OpenBloom
  <2>1. pc = "openIndex" /\ pc' = "ready" /\ toLoad = {} /\ UNCHANGED <<index, indexFile>>
    BY <1>3 DEF OpenBloom
  <2> QED
    BY <1>r, <2>1 DEF ListMirrors, Descending
<1>4. CASE ClientWrite
  <2>1. /\ pc = "ready" /\ pc' \in {"ready", "snapshot"} /\ UNCHANGED <<index, indexFile>>
    BY <1>4 DEF ClientWrite, Put, Remove, InsertRow
  <2> QED
    BY <1>r, <2>1 DEF ListMirrors, Descending, SnapshotPhases
<1>5. CASE Snapshot
  BY <1>5, OrderSnapshot
<1>6. CASE UNCHANGED vars \/ \E r \in Readers : Get(r)
  <2>1. UNCHANGED <<pc, index, indexFile, toLoad, snapshot>>
    BY <1>6 DEF vars, Get, FindInMemory, CheckBloom, LookupIndex, ReadChunk, Return, Finish, ReaderStep
  <2> QED
    BY <1>r, <2>1 DEF ListMirrors, Descending
<1>7. CASE Close \/ Crash
  <2>1. pc' = "closed" /\ index' = <<>>
    BY <1>7 DEF Close, Crash, MemoryLost
  <2> QED
    BY <2>1 DEF ListMirrors, Descending, SnapshotPhases
<1> QED
  BY <1>1, <1>2, <1>3, <1>4, <1>5, <1>6, <1>7 DEF Next, SessionNext, Open

\* However many processes wrote, stopped or crashed, and whatever numbers were used again:
\* while file ids have one digit the list has the segment with the highest number in front.
THEOREM IndexHighestFirstHolds == Spec => []IndexHighestFirst
<1>1. Init => OrderInv
  <2> SUFFICES ASSUME Init PROVE OrderInv
    OBVIOUS
  <2>1. pc = "closed" /\ segmentId = 0 /\ index = <<>> /\ DOMAIN indexFile = {}
    BY DEF Init, NoFiles
  <2>2. FirstUnfiled = 0 /\ \A t \in Nat : ~(t < 0)
    BY <2>1 DEF FirstUnfiled, SegmentPhases, SnapshotPhases
  <2> QED
    BY <2>1, <2>2 DEF OrderInv, FilesDense, ListMirrors, Descending, SegmentPhases, SnapshotPhases
<1>2. TypeInv /\ OrderInv /\ [Next]_vars => TypeInv' /\ OrderInv'
  BY OrderStep, TypeStep
<1>3. OrderInv => IndexHighestFirst
  BY DEF OrderInv, OneDigitFiles, ListMirrors, Descending, IndexHighestFirst
<1> QED
  BY <1>1, <1>2, <1>3, TypeInit, PTL DEF Spec

-----------------------------------------------------------------------------
(* Damage is noticed                                                       *)

\* A row that a client wrote, or one with no hash in the place of its checksum.
Honest(row) == row.checksum \in {ZeroSum, GarbageSum} \/ row \in ClientRows

HonestTable(t) == \A k \in DOMAIN t : Honest(t[k])

\* get makes a stored value of an honest row, or reports it.
LEMMA HonestResult ==
  ASSUME HashType # "NoHash", NEW row, Honest(row)
  PROVE  /\ row.type # "Remove" => Decode(row) \in Values \cup {Error}
         /\ RowResult(row) \in Values \cup {NotFound, Error}
<1>1. ASSUME row.checksum \in {ZeroSum, GarbageSum} PROVE Decode(row) = Error
  <2>1. Hash(row.data) = <<HashType, row.data>>
    BY DEF Hash
  <2>2. <<HashType, row.data>> # ZeroSum /\ <<HashType, row.data>> # GarbageSum
    BY DEF ZeroSum, GarbageSum
  <2> QED
    BY <1>1, <2>1, <2>2 DEF Decode
<1>2. ASSUME row \in ClientRows, row.type # "Remove" PROVE Decode(row) \in Values \cup {Error}
  <2>1. PICK k \in Keys, v \in Values : row = PutRow(k, v)
    BY <1>2 DEF ClientRows, RemoveRow
  <2>2. row.data = <<CompressionType, v>>
    BY <2>1, PutRowType
  <2>3. Uncompress(row.data) \in {v, Error}
    <3>1. row.data[1] = CompressionType /\ row.data[2] = v
      BY <2>2
    <3> QED
      BY <3>1 DEF Uncompress
  <2> QED
    BY <2>3 DEF Decode
<1> QED
  BY <1>1, <1>2 DEF Honest, RowResult

\* What is read of a segment file of honest rows is honest, wherever it is read.
LEMMA HonestRead ==
  ASSUME NEW t, IsTable(t), HonestTable(t), NEW hint, NEW row \in ReadRows(t, hint)
  PROVE  Honest(row)
<1>1. ASSUME row \in RowsFromNothing \cup RowsFromGarbage PROVE Honest(row)
  BY <1>1 DEF RowsFromNothing, RowsFromGarbage, Honest
<1>2. ASSUME NEW k \in DOMAIN t, row \in RowsFromPrefix(t[k], hint.size) PROVE Honest(row)
  <2>1. row = t[k] \/ \E d \in {GarbageData, t[k].data} : row = [t[k] EXCEPT !.data = d, !.checksum = ZeroSum]
    BY <1>2, Zenon DEF RowsFromPrefix
  <2>2. CASE row = t[k]
    BY <2>2 DEF HonestTable
  <2>3. ASSUME NEW d, row = [t[k] EXCEPT !.data = d, !.checksum = ZeroSum] PROVE row.checksum = ZeroSum
    <3>1. t[k] \in Row
      BY DEF IsTable
    <3> QED
      BY <2>3, <3>1 DEF Row
  <2> QED
    BY <2>1, <2>2, <2>3 DEF Honest
<1>3. \/ row \in RowsFromNothing \cup RowsFromGarbage
      \/ \E k \in DOMAIN t : row \in RowsFromPrefix(t[k], hint.size)
  BY Zenon DEF ReadRows
<1> QED
  BY <1>1, <1>2, <1>3

HonestRows == {row \in Row : Honest(row)}

LEMMA ClientsAreHonest == ClientRows \subseteq HonestRows
BY ClientRowsAreRows DEF HonestRows, Honest

\* The rows in memory and on disk are honest.
HonestInv ==
  /\ HonestTable(memTable)
  /\ HonestTable(snapshot.table)
  /\ \A s \in DOMAIN chunkFile : HonestTable(chunkFile[s])
  /\ walFile # NoFile => walFile \in Seq(HonestRows)

LEMMA HonestRestore ==
  ASSUME NEW file, file = NoFile \/ file \in Seq(HonestRows), NEW t \in RestoreFromLog(file)
  PROVE  HonestTable(t)
<1>1. CASE file = NoFile
  BY <1>1 DEF RestoreFromLog, EmptyTable, HonestTable
<1>2. CASE file # NoFile /\ file = <<>>
  <2>1. PICK row \in RowsFromNothing : t = Insert(EmptyTable, row)
    BY <1>2 DEF RestoreFromLog
  <2>2. Honest(row)
    BY DEF RowsFromNothing, Honest
  <2>3. \A k \in DOMAIN t : t[k] = row
    BY <2>1 DEF Insert, EmptyTable
  <2> QED
    BY <2>2, <2>3 DEF HonestTable
<1>3. CASE file # NoFile /\ file # <<>>
  <2>1. file \in Seq(HonestRows) /\ t = Replay(file)
    BY <1>3 DEF RestoreFromLog
  <2>2. file \in Seq(Row)
    <3>1. HonestRows \subseteq Row
      BY DEF HonestRows
    <3> QED
      BY <2>1, <3>1, SeqMonotonic
  <2>3. \A i \in DOMAIN file : Honest(file[i])
    <3>1. \A i \in DOMAIN file : file[i] \in HonestRows
      BY <2>1, LenProperties
    <3> QED
      BY <3>1 DEF HonestRows
  <2> QED
    BY <2>1, <2>2, <2>3, ReplayLast DEF HonestTable
<1> QED
  BY <1>1, <1>2, <1>3

\* Files of honest rows, and one more.
LEMMA HonestWrite ==
  ASSUME \A s \in DOMAIN chunkFile : HonestTable(chunkFile[s]), NEW n, NEW t, HonestTable(t)
  PROVE  \A s \in DOMAIN Write(chunkFile, n, t) : HonestTable(Write(chunkFile, n, t)[s])
<1>1. \A s \in DOMAIN Write(chunkFile, n, t) :
        Write(chunkFile, n, t)[s] = t \/ (s \in DOMAIN chunkFile /\ Write(chunkFile, n, t)[s] = chunkFile[s])
  BY DEF Write
<1> QED
  BY <1>1

LEMMA HonestCreate ==
  ASSUME NEW m, HonestTable(m)
  PROVE  HonestTable(CreateSortedStringsTable(m))
BY DEF CreateSortedStringsTable, EmptyTable, HonestTable

\* A prefix of the rows of the buffer, and the beginning of one more, at the end of
\* the file of the log.
LEMMA HonestFlush ==
  ASSUME TypeInv, walFile \in Seq(HonestRows), NEW n \in 0 .. Len(walBuf)
  PROVE  /\ walFile \o walBuf \in Seq(HonestRows)
         /\ walFile \o SubSeq(walBuf, 1, n) \in Seq(HonestRows)
         /\ n < Len(walBuf) => \A row \in RowsFromCut(walBuf[n + 1]) :
              walFile \o SubSeq(walBuf, 1, n) \o <<row>> \in Seq(HonestRows)
<1>1. walBuf \in Seq(HonestRows) /\ walBuf \in Seq(ClientRows) /\ Len(walBuf) \in Nat
  <2>1. walBuf \in Seq(ClientRows)
    BY DEF TypeInv, TypeOK
  <2> QED
    BY <2>1, ClientsAreHonest, SeqMonotonic, LenProperties
<1> HIDE DEF HonestRows
<1>2. SubSeq(walBuf, 1, n) \in Seq(HonestRows)
  <2>1. walBuf \in [1 .. Len(walBuf) -> HonestRows]
    BY <1>1, LenProperties
  <2> QED
    BY <1>1, <2>1, SubSeqProperties
<1>3. walFile \o walBuf \in Seq(HonestRows) /\ walFile \o SubSeq(walBuf, 1, n) \in Seq(HonestRows)
  BY <1>1, <1>2, ConcatProperties
<1>4. ASSUME n < Len(walBuf), NEW row \in RowsFromCut(walBuf[n + 1])
      PROVE  walFile \o SubSeq(walBuf, 1, n) \o <<row>> \in Seq(HonestRows)
  <2>1. walBuf[n + 1] \in Row
    <3>1. n + 1 \in 1 .. Len(walBuf)
      BY <1>1, <1>4
    <3>2. walBuf[n + 1] \in ClientRows
      BY <1>1, <3>1, LenProperties
    <3> QED
      BY <3>2, ClientRowsAreRows
  <2>2. row \in Row
    BY <2>1, RowsFromCutType
  <2>3. row.checksum = ZeroSum
    BY <1>4, <2>1, CutUnsummed
  <2>4. row \in HonestRows
    BY <2>2, <2>3 DEF HonestRows, Honest
  <2>5. <<row>> \in Seq(HonestRows)
    BY <2>4
  <2> QED
    BY <1>3, <2>5, ConcatProperties
<1> QED
  BY <1>3, <1>4

\* A process that dies leaves what it read or wrote.
LEMMA HonestCrash ==
  ASSUME TypeInv, HonestInv, Crash
  PROVE  HonestInv'
<1>1. memTable' = EmptyTable /\ snapshot' = NoSnapshot
  BY DEF Crash, MemoryLost
<1>2. HonestTable(memTable') /\ HonestTable(snapshot'.table)
  BY <1>1 DEF NoSnapshot, EmptyTable, HonestTable
<1>3. \A s \in DOMAIN chunkFile' : HonestTable(chunkFile'[s])
  <2>1. chunkFile' \in ChunkAtCrash
    BY DEF Crash
  <2>2. CASE pc = "dump"
    <3>1. PICK t \in TablesAtCrash : chunkFile' = Write(chunkFile, snapshot.segment, t)
      BY <2>1, <2>2 DEF ChunkAtCrash
    <3>2. ASSUME NEW k \in DOMAIN t PROVE Honest(t[k])
      <4>1. IsTable(snapshot.table) /\ HonestTable(snapshot.table)
        BY DEF TypeInv, TypeOK, HonestInv
      <4>2. /\ k \in DOMAIN snapshot.table
            /\ t[k] = snapshot.table[k] \/ t[k] \in RowsFromCut(snapshot.table[k])
        BY <4>1, TableCut, Zenon
      <4>3. snapshot.table[k] \in Row /\ Honest(snapshot.table[k])
        BY <4>1, <4>2 DEF IsTable, HonestTable
      <4> QED
        BY <4>2, <4>3, CutUnsummed DEF Honest
    <3>3. \A s \in DOMAIN chunkFile : HonestTable(chunkFile[s])
      BY DEF HonestInv
    <3>4. HonestTable(t)
      BY <3>2, Zenon DEF HonestTable
    <3> QED
      BY <3>1, <3>3, <3>4, HonestWrite
  <2>3. CASE pc # "dump"
    BY <2>1, <2>3 DEF ChunkAtCrash, HonestInv
  <2> QED
    BY <2>2, <2>3
<1>4. walFile' # NoFile => walFile' \in Seq(HonestRows)
  <2>1. PICK n \in 0 .. Len(walBuf) :
          \/ walFile' = IF walFile = NoFile THEN NoFile ELSE walFile \o SubSeq(walBuf, 1, n)
          \/ /\ n < Len(walBuf)
             /\ \E row \in RowsFromCut(walBuf[n + 1]) : walFile' = walFile \o SubSeq(walBuf, 1, n) \o <<row>>
    BY Zenon DEF Crash
  <2>2. CASE walFile = NoFile
    <3>1. walBuf = <<>>
      BY <2>2 DEF TypeInv, LogIsOpen
    <3>2. Len(walBuf) = 0
      BY <3>1
    <3> QED
      BY <2>1, <2>2, <3>2
  <2>3. CASE walFile # NoFile
    <3>1. walFile \in Seq(HonestRows)
      BY <2>3 DEF HonestInv
    <3> HIDE DEF HonestRows
    <3> QED
      BY <2>1, <2>3, <3>1, HonestFlush
  <2> QED
    BY <2>2, <2>3
<1> QED
  BY <1>2, <1>3, <1>4 DEF HonestInv

\* The steps that write no rows.
LEMMA HonestUnchanged ==
  ASSUME HonestInv, UNCHANGED <<memTable, snapshot, chunkFile, walFile>>
  PROVE  HonestInv'
BY DEF HonestInv, HonestTable

LEMMA HonestSnapshot ==
  ASSUME TypeInv, HonestInv, Snapshot
  PROVE  HonestInv'
<1> USE DEF memoryVars, diskVars, logVars, localVars, boundVars
<1>0. HonestTable(memTable) /\ HonestTable(CreateSortedStringsTable(memTable)) /\ HonestTable(EmptyTable)
  BY HonestCreate DEF HonestInv, HonestTable, EmptyTable
<1>1. CASE BeginSnapshot
  <2>1. \A s \in DOMAIN chunkFile' : HonestTable(chunkFile'[s])
    BY <1>0, <1>1, HonestWrite DEF BeginSnapshot, HonestInv
  <2>2. HonestTable(snapshot'.table) /\ memTable' = memTable /\ walFile' = walFile
    BY <1>0, <1>1 DEF BeginSnapshot
  <2> QED
    BY <1>0, <2>1, <2>2 DEF HonestInv
<1>2. CASE DumpMemTable
  <2>1. \A s \in DOMAIN chunkFile' : HonestTable(chunkFile'[s])
    BY <1>0, <1>2, HonestWrite DEF DumpMemTable, HonestInv
  <2>2. UNCHANGED <<snapshot, memTable, walFile>>
    BY <1>2 DEF DumpMemTable
  <2> QED
    BY <2>1, <2>2 DEF HonestInv
<1>3. CASE ClearMemTable
  <2>1. walFile # NoFile
    BY <1>3 DEF ClearMemTable, TypeInv, LogIsOpen
  <2>2. walFile' \in Seq(HonestRows)
    <3>1. walFile \in Seq(HonestRows) /\ 0 \in 0 .. Len(walBuf)
      BY <2>1, LenProperties DEF HonestInv, TypeInv, TypeOK
    <3> HIDE DEF HonestRows
    <3> QED
      BY <1>3, <3>1, HonestFlush DEF ClearMemTable
  <2>3. memTable' = EmptyTable /\ UNCHANGED <<snapshot, chunkFile>>
    BY <1>3 DEF ClearMemTable
  <2> QED
    BY <1>0, <2>2, <2>3 DEF HonestInv
<1>4. CASE AddToBloom \/ DumpBloom \/ OpenIndexFile
  BY <1>4, HonestUnchanged DEF AddToBloom, DumpBloom, OpenIndexFile
<1>5. CASE DumpIndex
  <2>1. snapshot' = NoSnapshot /\ UNCHANGED <<memTable, chunkFile, walFile>>
    BY <1>5 DEF DumpIndex
  <2>2. snapshot'.table = EmptyTable
    BY <2>1 DEF NoSnapshot
  <2> QED
    BY <1>0, <2>1, <2>2 DEF HonestInv
<1> QED
  BY <1>1, <1>2, <1>3, <1>4, <1>5 DEF Snapshot

\* Every step keeps the rows honest.
LEMMA HonestStep ==
  ASSUME TypeInv, HonestInv, [Next]_vars
  PROVE  HonestInv'
<1> USE DEF memoryVars, diskVars, logVars, localVars, boundVars
<1>1. CASE OpenRestore
  <2>1. HonestTable(memTable')
    BY <1>1, HonestRestore DEF OpenRestore, HonestInv
  <2> QED
    BY <1>1, <2>1 DEF OpenRestore, HonestInv
<1>2. CASE OpenLog
  <2>1. walFile' \in Seq(HonestRows)
    BY <1>2 DEF OpenLog
  <2> QED
    BY <1>2, <2>1 DEF OpenLog, HonestInv
<1>3. CASE OpenLoadIndex \/ OpenBloom
  BY <1>3, HonestUnchanged DEF OpenLoadIndex, OpenBloom
<1>4. CASE ClientWrite
  <2>1. PICK row \in ClientRows : memTable' = Insert(memTable, row) /\ UNCHANGED <<snapshot, chunkFile, walFile>>
    <3>1. ASSUME NEW k \in Keys, NEW v \in Values, Put(k, v)
          PROVE  PutRow(k, v) \in ClientRows /\ InsertRow(PutRow(k, v), v)
      BY <3>1 DEF Put, ClientRows
    <3>2. ASSUME NEW k \in RemoveKeys, Remove(k)
          PROVE  RemoveRow(k) \in ClientRows /\ InsertRow(RemoveRow(k), NotFound)
      BY <3>2, EngineAssumption DEF Remove, ClientRows
    <3> QED
      BY <1>4, <3>1, <3>2 DEF ClientWrite, InsertRow
  <2>2. HonestTable(memTable')
    BY <2>1 DEF HonestInv, HonestTable, Insert, Honest
  <2> QED
    BY <2>1, <2>2 DEF HonestInv
<1>5. CASE Snapshot
  BY <1>5, HonestSnapshot
<1>6. ASSUME NEW r \in Readers, Get(r) PROVE HonestInv'
  BY <1>6, HonestUnchanged DEF Get, FindInMemory, CheckBloom, LookupIndex, ReadChunk, Return, Finish, ReaderStep
<1>7. CASE Close
  <2>1. walFile # NoFile
    BY <1>7 DEF Close, TypeInv, LogIsOpen
  <2>2. walFile' \in Seq(HonestRows)
    <3>1. walFile \in Seq(HonestRows) /\ 0 \in 0 .. Len(walBuf)
      BY <2>1, LenProperties DEF HonestInv, TypeInv, TypeOK
    <3> HIDE DEF HonestRows
    <3> QED
      BY <1>7, <3>1, HonestFlush DEF Close
  <2>3. memTable' = EmptyTable /\ snapshot' = NoSnapshot /\ chunkFile' = chunkFile
    BY <1>7 DEF Close, MemoryLost
  <2> QED
    BY <2>2, <2>3 DEF HonestInv, NoSnapshot, EmptyTable, HonestTable
<1>8. CASE Crash
  BY <1>8, HonestCrash
<1>9. CASE UNCHANGED vars
  BY <1>9, HonestUnchanged DEF vars
<1> QED
  BY <1>1, <1>2, <1>3, <1>4, <1>5, <1>6, <1>7, <1>8, <1>9 DEF Next, SessionNext, Open

\* With checksums get returns what some client stored, nothing or an error, whatever
\* crashes, torn logs, reused segment numbers and half written files have made of the
\* directory: bytes read from the wrong place never pass for a value.
THEOREM OnlyStoredValuesHolds ==
  ASSUME HashType # "NoHash"
  PROVE  Spec => []OnlyStoredValues
<1>1. Init => HonestInv
  BY DEF Init, HonestInv, HonestTable, EmptyTable, NoSnapshot, NoFiles
<1>2. TypeInv /\ HonestInv /\ [Next]_vars => TypeInv' /\ HonestInv'
  BY HonestStep, TypeStep
<1>3. ASSUME TypeInv, HonestInv, NEW k \in Keys PROVE GetResults(k) \subseteq Values \cup {NotFound, Error}
  <2>1. ASSUME NEW row \in RowsOnDisk(k) PROVE RowResult(row) \in Values \cup {NotFound, Error}
    <3> DEFINE hint == IndexGet(index, k)
    <3>1. IsTable(Chunk(hint.fileId)) /\ HonestTable(Chunk(hint.fileId))
      BY <1>3, EmptyTableType DEF Chunk, TypeInv, TypeOK, HonestInv, HonestTable, EmptyTable
    <3>2. row \in ReadRows(Chunk(hint.fileId), hint)
      BY DEF RowsOnDisk
    <3> HIDE DEF hint
    <3> QED
      BY <3>1, <3>2, HonestRead, HonestResult
  <2>2. ASSUME k \in DOMAIN memTable, memTable[k].type # "Remove"
        PROVE  Decode(memTable[k]) \in Values \cup {NotFound, Error}
    <3>1. Honest(memTable[k])
      BY <1>3, <2>2 DEF HonestInv, HonestTable
    <3> QED
      BY <2>2, <3>1, HonestResult
  <2> QED
    BY <2>1, <2>2 DEF GetResults
<1>4. TypeInv /\ HonestInv => OnlyStoredValues
  BY <1>3 DEF OnlyStoredValues
<1> QED
  BY <1>1, <1>2, <1>4, TypeInit, PTL DEF Spec
=============================================================================
