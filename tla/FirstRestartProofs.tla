------------------------- MODULE FirstRestartProofs -------------------------
(***************************************************************************)
(* The process after the first one: what a shutdown or a crash leaves in    *)
(* the directory, and what opening it again makes of that, up to the first  *)
(* snapshot that takes a segment number for the second time: what lookups   *)
(* are served, and where the hints lead.                                   *)
(***************************************************************************)
EXTENDS SessionProofs, RecoveryProofs

\* The clients of one session, when none uses the key 0, as which an empty log is
\* replayed and an empty index file is loaded.
Restartable == Storable /\ 0 \notin Keys

-----------------------------------------------------------------------------
(* What a log says of a key                                                *)

\* What get makes of the row that a replay of the log finds for k.
ValueIn(rows, k) == IF k \in DOMAIN Replay(rows) THEN RowResult(Replay(rows)[k]) ELSE NotFound

\* The log says of every key but d what the history f says.
Records(rows, f, d) == \A k \in Keys \ {d} : ValueIn(rows, k) = f[k]

\* The keys of a log that was appended to.
LEMMA ReplayKeys ==
  ASSUME NEW a \in Seq(Row), NEW b \in Seq(Row)
  PROVE  DOMAIN Replay(a \o b) = DOMAIN Replay(a) \cup DOMAIN Replay(b)
<1> DEFINE ab == a \o b
<1>1. /\ DOMAIN a = 1 .. Len(a) /\ Len(a) \in Nat
      /\ DOMAIN b = 1 .. Len(b) /\ Len(b) \in Nat
      /\ ab \in Seq(Row) /\ DOMAIN ab = 1 .. Len(a) + Len(b)
      /\ \A i \in DOMAIN a : i \in DOMAIN ab /\ ab[i] = a[i]
  BY LenProperties, ConcatProperties
<1>2. ASSUME NEW k \in DOMAIN Replay(ab) PROVE k \in DOMAIN Replay(a) \cup DOMAIN Replay(b)
  BY <1>2, ReplayConcat
<1>3. ASSUME NEW i \in DOMAIN a PROVE a[i].key \in DOMAIN Replay(ab)
  BY <1>1 DEF Replay
<1>4. ASSUME NEW j \in DOMAIN b PROVE b[j].key \in DOMAIN Replay(ab)
  <2>1. Len(a) + j \in 1 .. Len(a) + Len(b) /\ ~(Len(a) + j <= Len(a)) /\ (Len(a) + j) - Len(a) = j
    BY <1>1
  <2>2. ab[Len(a) + j] = b[(Len(a) + j) - Len(a)]
    BY <2>1, ConcatProperties
  <2> HIDE DEF ab
  <2> QED
    BY <1>1, <2>1, <2>2 DEF Replay
<1> HIDE DEF ab
<1>5. DOMAIN Replay(a) \subseteq DOMAIN Replay(ab) /\ DOMAIN Replay(b) \subseteq DOMAIN Replay(ab)
  BY <1>3, <1>4 DEF Replay
<1> QED
  BY <1>2, <1>5 DEF ab

\* An empty log says nothing.
LEMMA ReplayNothing == DOMAIN Replay(<<>>) = {} /\ \A k : ValueIn(<<>>, k) = NotFound
<1>1. DOMAIN Replay(<<>>) = {}
  BY DEF Replay
<1> QED
  BY <1>1 DEF ValueIn

\* The log of a process, and what it logs after it.
LEMMA RecordsConcat ==
  ASSUME ValuesReturn, NEW f, NEW d, NEW a \in Seq(ClientRows), NEW b \in Seq(ClientRows), Records(a, f, d)
  PROVE  Records(a \o b, ApplyRows(f, b), d)
<1> SUFFICES ASSUME NEW k \in Keys \ {d} PROVE ValueIn(a \o b, k) = ApplyRows(f, b)[k]
  BY DEF Records
<1>1. a \in Seq(Row) /\ b \in Seq(Row)
  BY ReplayOfClients
<1>2. ApplyRows(f, b)[k] = IF k \in DOMAIN Replay(b) THEN RowResult(Replay(b)[k]) ELSE f[k]
  BY ApplyRowsIs
<1>3. f[k] = ValueIn(a, k)
  BY DEF Records
<1>4. DOMAIN Replay(a \o b) = DOMAIN Replay(a) \cup DOMAIN Replay(b)
  BY <1>1, ReplayKeys
<1>5. k \in DOMAIN Replay(a \o b) =>
        IF k \in DOMAIN Replay(b) THEN Replay(a \o b)[k] = Replay(b)[k]
        ELSE k \in DOMAIN Replay(a) /\ Replay(a \o b)[k] = Replay(a)[k]
  BY <1>1, ReplayConcat
<1> QED
  BY <1>2, <1>3, <1>4, <1>5 DEF ValueIn

\* A row that was cut, or any other, at the end of the log: nothing changes but for
\* the key it is read with.
LEMMA RecordsTorn ==
  ASSUME NEW f, NEW rows \in Seq(Row), Records(rows, f, 0), 0 \notin Keys, NEW row \in Row
  PROVE  /\ rows \o <<row>> \in Seq(Row)
         /\ DOMAIN Replay(rows) \subseteq DOMAIN Replay(rows \o <<row>>)
         /\ Records(rows \o <<row>>, f, row.key)
<1>1. rows \o <<row>> = Append(rows, row)
  BY AppendIsConcat
<1>2. Replay(rows \o <<row>>) = Insert(Replay(rows), row)
  BY <1>1, ReplayAppend
<1>3. DOMAIN Insert(Replay(rows), row) = DOMAIN Replay(rows) \cup {row.key}
  BY DEF Insert
<1>4. \A k \in DOMAIN Replay(rows) : k # row.key => Insert(Replay(rows), row)[k] = Replay(rows)[k]
  BY DEF Insert
<1>5. Append(rows, row) \in Seq(Row)
  OBVIOUS
<1>6. ASSUME NEW k \in Keys \ {row.key} PROVE ValueIn(rows \o <<row>>, k) = f[k]
  <2>1. ValueIn(rows, k) = f[k]
    BY DEF Records
  <2> QED
    BY <1>2, <1>3, <1>4, <2>1 DEF ValueIn
<1> QED
  BY <1>1, <1>2, <1>3, <1>5, <1>6 DEF Records

-----------------------------------------------------------------------------
(* The inductive invariant                                                 *)

\* The rows that restoreFromLog would meet.
LoggedRows == IF walFile = NoFile THEN <<>> ELSE walFile

\* No process has ended yet.
FirstProcess == session = 0 \/ (session = 1 /\ pc # "closed")

\* The log is truncated when it is opened and never between: what an index file knows
\* of a client's key the log knows as well.
IndexLogged ==
  \A s \in DOMAIN indexFile : DOMAIN indexFile[s].map \cap Keys \subseteq DOMAIN Replay(LoggedRows)

\* The log of the first process tells the whole history: its file that of the last
\* flush, its buffer what came after.  All that is in memory has passed through it.
FirstLog ==
  /\ pc \in {"closed", "openLog"} => walFile = NoFile
  /\ walFile # NoFile => walFile \in Seq(ClientRows)
  /\ Records(LoggedRows, kvFlushed, 0)
  /\ kv = ApplyRows(kvFlushed, walBuf)
  /\ DOMAIN memTable \subseteq DOMAIN Replay(LoggedRows) \cup DOMAIN Replay(walBuf)
  /\ pc \in PendingPhases => DOMAIN snapshot.table \subseteq DOMAIN Replay(LoggedRows)
  /\ IndexLogged

\* What the first process leaves: a log that tells the history of every key but, when
\* it was cut inside a row, the one that the row is read with.
DirectoryLeft ==
  session = 1 /\ pc = "closed" =>
    /\ kv = kvFlushed
    /\ IndexLogged
    /\ walFile # NoFile => walFile \in Seq(Row)
    /\ \E d : (d \in Keys => SplitWrites) /\ Records(LoggedRows, kvFlushed, d)

\* Key k is served from the memtable, or it has no value and no file knows it.
Served(k) ==
  IF k \in DOMAIN memTable THEN RowResult(memTable[k]) = kv[k]
  ELSE /\ kv[k] = NotFound
       /\ TablesWith(index, k) = {}
       /\ \A s \in DOMAIN indexFile : k \notin DOMAIN indexFile[s].map

\* The second process, until it takes a segment number.
SecondProcess ==
  session = 2 /\ pc # "closed" /\ segmentId = 0 =>
    \E d : (d \in Keys => SplitWrites) /\ \A k \in Keys \ {d} : Served(k)

\* A snapshot that is under way has taken a number.
SegmentTaken == pc \in SnapshotPhases \ {"snapshot"} => segmentId > 0

RestartInv ==
  /\ TypeInv
  /\ LoadInv
  /\ session = 0 => pc = "closed"
  /\ SegmentTaken
  /\ FirstProcess => SessionInv /\ FirstLog
  /\ DirectoryLeft
  /\ SecondProcess

-----------------------------------------------------------------------------
(* The first process                                                       *)

\* The rows of a log that is not there, or has none.
LEMMA LoggedNothing ==
  ASSUME NEW rows, rows = <<>>
  PROVE  /\ rows \in Seq(ClientRows) /\ rows \in Seq(Row)
         /\ DOMAIN Replay(rows) = {} /\ \A k : ValueIn(rows, k) = NotFound
BY ReplayNothing

LEMMA EmptyFileExists == <<>> # NoFile
<1>1. <<>> \in Seq(Row)
  OBVIOUS
<1> QED
  BY <1>1, NoFileAssumption

\* An empty directory.
LEMMA FirstInit == Init => RestartInv
<1> SUFFICES ASSUME Init PROVE RestartInv
  OBVIOUS
<1>1. /\ pc = "closed" /\ session = 0 /\ walFile = NoFile /\ walBuf = <<>> /\ index = <<>>
      /\ kv = [k \in Keys |-> NotFound] /\ kvFlushed = [k \in Keys |-> NotFound]
      /\ DOMAIN memTable = {} /\ DOMAIN indexFile = {}
  BY DEF Init, EmptyTable, NoFiles
<1>2. TypeInv /\ SessionInv
  BY TypeInit, SessionInit
<1>3. LoggedRows = <<>>
  BY <1>1 DEF LoggedRows
<1>4. Records(LoggedRows, kvFlushed, 0)
  BY <1>1, <1>3, ReplayNothing DEF Records
<1>5. kv = ApplyRows(kvFlushed, walBuf)
  <2>1. kvFlushed \in [Keys -> {NotFound}]
    BY <1>1
  <2>2. ApplyRows(kvFlushed, <<>>) = kvFlushed
    BY <2>1, ApplyNothing
  <2> QED
    BY <1>1, <2>2
<1>6. FirstLog
  BY <1>1, <1>4, <1>5 DEF FirstLog, IndexLogged, PendingPhases
<1>7. LoadInv /\ DirectoryLeft /\ SecondProcess
  BY <1>1 DEF LoadInv, DirectoryLeft, SecondProcess
<1> QED
  BY <1>1, <1>2, <1>6, <1>7 DEF RestartInv, SegmentTaken, SnapshotPhases

\* The steps that leave the log, the memtable and the index files alone.
LEMMA FirstUnchanged ==
  ASSUME FirstLog, UNCHANGED <<memTable, walFile, walBuf, kv, kvFlushed, indexFile>>,
         pc' \in {"closed", "openLog"} => walFile = NoFile,
         pc' \in PendingPhases => DOMAIN snapshot'.table \subseteq DOMAIN Replay(LoggedRows)
  PROVE  FirstLog'
<1>1. LoggedRows' = LoggedRows
  BY DEF LoggedRows
<1>2. IndexLogged'
  BY <1>1 DEF FirstLog, IndexLogged
<1>3. Records(LoggedRows', kvFlushed', 0)
  BY <1>1 DEF FirstLog
<1> QED
  BY <1>1, <1>2, <1>3 DEF FirstLog

\* The steps of open find nothing.
LEMMA FirstOpen ==
  ASSUME TypeInv, SessionInv, FirstLog, Open
  PROVE  FirstLog'
<1> USE DEF memoryVars, diskVars, logVars, localVars, boundVars
<1>1. CASE OpenRestore
  <2>1. walFile = NoFile /\ memTable = EmptyTable
    BY <1>1 DEF OpenRestore, FirstLog, SessionInv, OpeningEmpty
  <2>2. memTable' = memTable
    BY <1>1, <2>1 DEF OpenRestore, RestoreFromLog
  <2> QED
    BY <1>1, <2>1, <2>2, FirstUnchanged DEF OpenRestore, PendingPhases
<1>2. CASE OpenLog
  <2>1. walFile = NoFile /\ walFile' = <<>> /\ pc' = "openIndex"
        /\ UNCHANGED <<memTable, walBuf, kv, kvFlushed, indexFile>>
    BY <1>2 DEF OpenLog, FirstLog
  <2>2. LoggedRows = <<>> /\ LoggedRows' = <<>>
    BY <2>1 DEF LoggedRows
  <2>3. Records(LoggedRows', kvFlushed', 0)
    BY <2>1, <2>2 DEF FirstLog
  <2>4. IndexLogged'
    BY <2>1, <2>2 DEF FirstLog, IndexLogged
  <2>5. walFile' \in Seq(ClientRows)
    BY <2>1
  <2> QED
    BY <2>1, <2>2, <2>3, <2>4, <2>5 DEF FirstLog, PendingPhases
<1>3. CASE OpenLoadIndex
  BY <1>3 DEF OpenLoadIndex, SessionInv, OpeningEmpty
<1>4. CASE OpenBloom
  BY <1>4, FirstUnchanged DEF OpenBloom, PendingPhases
<1> QED
  BY <1>1, <1>2, <1>3, <1>4 DEF Open

\* A write logs the row that the history gets.
LEMMA FirstInsert ==
  ASSUME Restartable, TypeInv, FirstLog, NEW row \in ClientRows, NEW x, RowResult(row) = x,
         InsertRow(row, x), pc' \in {"ready", "snapshot"}
  PROVE  FirstLog'
<1> USE DEF diskVars, localVars
<1>1. /\ memTable' = Insert(memTable, row) /\ walBuf' = Append(walBuf, row)
      /\ kv' = [kv EXCEPT ![row.key] = x] /\ UNCHANGED <<walFile, kvFlushed, indexFile>>
  BY DEF InsertRow
<1>2. walBuf \in Seq(ClientRows) /\ walBuf \in Seq(Row) /\ row \in Row
  BY ClientRowsAreRows, SeqMonotonic DEF TypeInv, TypeOK
<1>3. kv' = ApplyRows(kvFlushed', walBuf')
  BY <1>1, <1>2, ApplyAppend DEF FirstLog, Restartable, Storable, ValuesReturn
<1>4. LoggedRows' = LoggedRows
  BY <1>1 DEF LoggedRows
<1>5. DOMAIN memTable' \subseteq DOMAIN Replay(LoggedRows') \cup DOMAIN Replay(walBuf')
  <2>1. Replay(walBuf') = Insert(Replay(walBuf), row)
    BY <1>1, <1>2, ReplayAppend
  <2>2. DOMAIN Replay(walBuf') = DOMAIN Replay(walBuf) \cup {row.key}
    BY <2>1 DEF Insert
  <2>3. DOMAIN memTable' = DOMAIN memTable \cup {row.key}
    BY <1>1 DEF Insert
  <2> QED
    BY <1>4, <2>2, <2>3 DEF FirstLog
<1>6. IndexLogged' /\ Records(LoggedRows', kvFlushed', 0)
  BY <1>1, <1>4 DEF FirstLog, IndexLogged
<1>7. pc' \notin {"closed", "openLog"} \cup PendingPhases
  BY DEF PendingPhases
<1>8. walFile' # NoFile => walFile' \in Seq(ClientRows)
  BY <1>1 DEF FirstLog
<1> QED
  BY <1>3, <1>5, <1>6, <1>7, <1>8 DEF FirstLog

LEMMA FirstWrite ==
  ASSUME Restartable, TypeInv, FirstLog, ClientWrite
  PROVE  FirstLog'
<1>1. ASSUME NEW k \in Keys, NEW v \in Values, Put(k, v) PROVE FirstLog'
  <2>1. PutRow(k, v) \in ClientRows
    BY DEF ClientRows
  <2>2. RowResult(PutRow(k, v)) = v
    BY ClientRowResults DEF Restartable
  <2>3. InsertRow(PutRow(k, v), v) /\ pc' \in {"ready", "snapshot"}
    BY <1>1 DEF Put
  <2> QED
    BY <2>1, <2>2, <2>3, FirstInsert
<1>2. ASSUME NEW k \in RemoveKeys, Remove(k) PROVE FirstLog'
  <2>1. k \in Keys
    BY EngineAssumption
  <2>2. RemoveRow(k) \in ClientRows
    BY <2>1 DEF ClientRows
  <2>3. RowResult(RemoveRow(k)) = NotFound
    BY <2>1, ClientRowResults DEF Restartable
  <2>4. InsertRow(RemoveRow(k), NotFound) /\ pc' \in {"ready", "snapshot"}
    BY <1>2 DEF Remove, InsertRow
  <2> QED
    BY <2>2, <2>3, <2>4, FirstInsert
<1> QED
  BY <1>1, <1>2 DEF ClientWrite

\* The file of the log after its buffer, or the first rows of it, came to its end.
LEMMA FirstFlush ==
  ASSUME Restartable, TypeInv, FirstLog, walFile # NoFile, NEW n \in 0 .. Len(walBuf)
  PROVE  /\ SubSeq(walBuf, 1, n) \in Seq(ClientRows)
         /\ walFile \o SubSeq(walBuf, 1, n) \in Seq(ClientRows)
         /\ Records(walFile \o SubSeq(walBuf, 1, n), ApplyRows(kvFlushed, SubSeq(walBuf, 1, n)), 0)
         /\ DOMAIN Replay(walFile) \subseteq DOMAIN Replay(walFile \o SubSeq(walBuf, 1, n))
<1>1. walBuf \in Seq(ClientRows) /\ walFile \in Seq(ClientRows) /\ Records(walFile, kvFlushed, 0)
  BY DEF TypeInv, TypeOK, FirstLog, LoggedRows
<1>2. SubSeq(walBuf, 1, n) \in Seq(ClientRows)
  <2>1. Len(walBuf) \in Nat /\ walBuf \in [1 .. Len(walBuf) -> ClientRows]
    BY <1>1, LenProperties
  <2> QED
    BY <2>1, SubSeqProperties
<1>3. ValuesReturn
  BY DEF Restartable, Storable, ValuesReturn
<1>4. walFile \in Seq(Row) /\ SubSeq(walBuf, 1, n) \in Seq(Row)
  BY <1>1, <1>2, ReplayOfClients
<1>5. DOMAIN Replay(walFile) \subseteq DOMAIN Replay(walFile \o SubSeq(walBuf, 1, n))
  BY <1>4, ReplayKeys
<1> HIDE DEF ClientRows
<1> QED
  BY <1>1, <1>2, <1>3, <1>5, RecordsConcat, ConcatProperties

\* The same for the whole buffer, as the clearing of the memtable and the end of a
\* process flush it.
LEMMA FirstFlushAll ==
  ASSUME Restartable, TypeInv, FirstLog, walFile # NoFile
  PROVE  /\ walFile \o walBuf \in Seq(ClientRows)
         /\ Records(walFile \o walBuf, kv, 0)
         /\ DOMAIN Replay(walFile \o walBuf) = DOMAIN Replay(walFile) \cup DOMAIN Replay(walBuf)
<1>1. walBuf \in Seq(ClientRows) /\ walFile \in Seq(ClientRows) /\ Records(walFile, kvFlushed, 0)
      /\ kv = ApplyRows(kvFlushed, walBuf)
  BY DEF TypeInv, TypeOK, FirstLog, LoggedRows
<1>2. ValuesReturn
  BY DEF Restartable, Storable, ValuesReturn
<1>3. walFile \in Seq(Row) /\ walBuf \in Seq(Row)
  BY <1>1, ReplayOfClients
<1>4. DOMAIN Replay(walFile \o walBuf) = DOMAIN Replay(walFile) \cup DOMAIN Replay(walBuf)
  BY <1>3, ReplayKeys
<1> HIDE DEF ClientRows
<1> QED
  BY <1>1, <1>2, <1>4, RecordsConcat, ConcatProperties

LEMMA FirstClear ==
  ASSUME Restartable, TypeInv, SessionInv, FirstLog, ClearMemTable
  PROVE  FirstLog'
<1> USE DEF diskVars, localVars
<1>1. /\ pc = "clear" /\ pc' = "bloom" /\ memTable' = EmptyTable
      /\ walFile' = walFile \o walBuf /\ walBuf' = <<>> /\ kvFlushed' = kv
      /\ UNCHANGED <<kv, indexFile, snapshot>>
  BY DEF ClearMemTable
<1>2. walFile # NoFile /\ snapshot.table = memTable
  BY <1>1 DEF TypeInv, LogIsOpen, SessionInv, SnapshotConsistent
<1>3. /\ walFile' \in Seq(ClientRows) /\ Records(walFile', kvFlushed', 0)
      /\ DOMAIN Replay(walFile') = DOMAIN Replay(walFile) \cup DOMAIN Replay(walBuf)
  BY <1>1, <1>2, FirstFlushAll
<1>4. walFile' # NoFile
  BY <1>3, ClientRowsAreRows, SeqMonotonic, NoFileAssumption
<1>5. LoggedRows = walFile /\ LoggedRows' = walFile'
  BY <1>2, <1>4 DEF LoggedRows
<1>6. DOMAIN snapshot'.table \subseteq DOMAIN Replay(LoggedRows')
  BY <1>1, <1>2, <1>3, <1>5 DEF FirstLog
<1>7. IndexLogged'
  BY <1>1, <1>3, <1>5 DEF FirstLog, IndexLogged
<1>8. kv' = ApplyRows(kvFlushed', walBuf')
  <2>1. kv \in [Keys -> Values \cup {NotFound}]
    BY DEF TypeInv, TypeOK
  <2>2. ApplyRows(kv, <<>>) = kv
    BY <2>1, ApplyNothing
  <2> QED
    BY <1>1, <2>2
<1>9. DOMAIN memTable' = {}
  BY <1>1 DEF EmptyTable
<1> QED
  BY <1>1, <1>3, <1>5, <1>6, <1>7, <1>8, <1>9 DEF FirstLog

\* The index file of a snapshot gets keys of the table, which have been logged.
LEMMA FirstIndexFile ==
  ASSUME FirstLog, pc \in PendingPhases, NEW file,
         DOMAIN file.map \subseteq DOMAIN snapshot.table, indexFile' = Write(indexFile, snapshot.segment, file)
  PROVE  \A s \in DOMAIN indexFile' : DOMAIN indexFile'[s].map \cap Keys \subseteq DOMAIN Replay(LoggedRows)
<1>1. \A s \in DOMAIN indexFile' :
        indexFile'[s] = file \/ (s \in DOMAIN indexFile /\ indexFile'[s] = indexFile[s])
  BY DEF Write
<1>2. DOMAIN file.map \subseteq DOMAIN Replay(LoggedRows)
  BY DEF FirstLog
<1>3. \A s \in DOMAIN indexFile : DOMAIN indexFile[s].map \cap Keys \subseteq DOMAIN Replay(LoggedRows)
  BY DEF FirstLog, IndexLogged
<1> QED
  BY <1>1, <1>2, <1>3

LEMMA FirstSnapshot ==
  ASSUME Restartable, TypeInv, SessionInv, FirstLog, Snapshot
  PROVE  FirstLog'
<1> USE DEF memoryVars, diskVars, logVars, localVars, boundVars
<1>1. CASE BeginSnapshot \/ DumpMemTable
  <2>1. pc' \notin {"closed", "openLog"} \cup PendingPhases
    BY <1>1 DEF BeginSnapshot, DumpMemTable, PendingPhases
  <2> QED
    BY <1>1, <2>1, FirstUnchanged DEF BeginSnapshot, DumpMemTable
<1>2. CASE ClearMemTable
  BY <1>2, FirstClear
<1>3. CASE AddToBloom \/ DumpBloom
  <2>1. pc \in PendingPhases /\ snapshot' = snapshot /\ pc' \notin {"closed", "openLog"}
    BY <1>3 DEF AddToBloom, DumpBloom, PendingPhases
  <2>2. DOMAIN snapshot'.table \subseteq DOMAIN Replay(LoggedRows)
    BY <2>1 DEF FirstLog
  <2> QED
    BY <1>3, <2>1, <2>2, FirstUnchanged DEF AddToBloom, DumpBloom
<1>4. CASE OpenIndexFile
  <2> DEFINE file == [written |-> FALSE, map |-> [k \in {} |-> 0]]
  <2>1. /\ pc \in PendingPhases /\ pc' \notin {"closed", "openLog"}
        /\ UNCHANGED <<memTable, walFile, walBuf, kv, kvFlushed, snapshot>>
        /\ indexFile' = Write(indexFile, snapshot.segment, file)
    BY <1>4 DEF OpenIndexFile, PendingPhases
  <2>2. DOMAIN file.map = {}
    OBVIOUS
  <2> HIDE DEF file
  <2>3. LoggedRows' = LoggedRows
    BY <2>1 DEF LoggedRows
  <2>4. IndexLogged'
    BY <2>1, <2>2, <2>3, FirstIndexFile DEF IndexLogged
  <2> QED
    BY <2>1, <2>3, <2>4 DEF FirstLog
<1>5. CASE DumpIndex
  <2> DEFINE file == [written |-> TRUE, map |-> SSTableIndex(snapshot.table)]
  <2>1. /\ pc \in PendingPhases /\ pc' = "ready"
        /\ UNCHANGED <<memTable, walFile, walBuf, kv, kvFlushed>>
        /\ indexFile' = Write(indexFile, snapshot.segment, file)
    BY <1>5 DEF DumpIndex, PendingPhases
  <2>2. DOMAIN file.map = DOMAIN snapshot.table
    BY SSTableIndexType DEF TypeInv, TypeOK
  <2> HIDE DEF file
  <2>3. LoggedRows' = LoggedRows
    BY <2>1 DEF LoggedRows
  <2>4. IndexLogged'
    BY <2>1, <2>2, <2>3, FirstIndexFile DEF IndexLogged
  <2>5. pc' \notin {"closed", "openLog"} \cup PendingPhases
    BY <2>1 DEF PendingPhases
  <2> QED
    BY <2>1, <2>3, <2>4, <2>5 DEF FirstLog
<1> QED
  BY <1>1, <1>2, <1>3, <1>4, <1>5 DEF Snapshot

\* Every step but the end of the process.
LEMMA FirstStep ==
  ASSUME Restartable, TypeInv, SessionInv, FirstLog, [SessionNext]_vars
  PROVE  SessionInv' /\ FirstLog'
<1> USE DEF memoryVars, diskVars, logVars, localVars, boundVars
<1>1. SessionInv'
  BY SessionStep DEF ProofInv, Restartable
<1>2. ASSUME Open PROVE FirstLog'
  BY <1>2, FirstOpen
<1>3. ASSUME ClientWrite PROVE FirstLog'
  BY <1>3, FirstWrite
<1>4. ASSUME Snapshot PROVE FirstLog'
  BY <1>4, FirstSnapshot
<1>5. ASSUME UNCHANGED <<pc, memTable, walFile, walBuf, kv, kvFlushed, indexFile, snapshot>>
      PROVE  FirstLog'
  <2>1. pc' \in {"closed", "openLog"} => walFile = NoFile
    BY <1>5 DEF FirstLog
  <2>2. pc' \in PendingPhases => DOMAIN snapshot'.table \subseteq DOMAIN Replay(LoggedRows)
    BY <1>5 DEF FirstLog
  <2> QED
    BY <1>5, <2>1, <2>2, FirstUnchanged
<1>6. ASSUME NEW r \in Readers, Get(r) PROVE FirstLog'
  <2>1. \E state : ReaderStep(r, state)
    BY <1>6, Zenon DEF Get, FindInMemory, CheckBloom, LookupIndex, ReadChunk, Return, Finish
  <2> QED
    BY <1>5, <2>1 DEF ReaderStep
<1>7. ASSUME UNCHANGED vars PROVE FirstLog'
  BY <1>5, <1>7 DEF vars
<1> QED
  BY <1>1, <1>2, <1>3, <1>4, <1>6, <1>7 DEF SessionNext

-----------------------------------------------------------------------------
(* What the first process leaves                                           *)

\* A shutdown flushes the log.
LEMMA FirstClose ==
  ASSUME Restartable, TypeInv, FirstLog, Close
  PROVE  DirectoryLeft'
<1>1. /\ walFile # NoFile /\ walFile' = walFile \o walBuf /\ kvFlushed' = kv /\ kv' = kv
      /\ indexFile' = indexFile
  BY DEF Close, TypeInv, LogIsOpen, diskVars
<1>2. /\ walFile' \in Seq(ClientRows) /\ Records(walFile', kvFlushed', 0)
      /\ DOMAIN Replay(walFile) \subseteq DOMAIN Replay(walFile')
  BY <1>1, FirstFlushAll
<1>3. walFile' \in Seq(Row) /\ walFile' # NoFile
  BY <1>2, ClientRowsAreRows, SeqMonotonic, NoFileAssumption
<1>4. LoggedRows = walFile /\ LoggedRows' = walFile'
  BY <1>1, <1>3 DEF LoggedRows
<1>5. IndexLogged'
  BY <1>1, <1>2, <1>4 DEF FirstLog, IndexLogged
<1> QED
  BY <1>1, <1>2, <1>3, <1>4, <1>5 DEF DirectoryLeft, Restartable

\* The index files that a crash leaves.
LEMMA IndexAtCrashLogged ==
  ASSUME TypeInv, FirstLog, indexFile' \in IndexAtCrash
  PROVE  \A s \in DOMAIN indexFile' : DOMAIN indexFile'[s].map \cap Keys \subseteq DOMAIN Replay(LoggedRows)
<1>1. CASE indexFile' = indexFile
  BY <1>1 DEF FirstLog, IndexLogged
<1>2. CASE indexFile' # indexFile
  <2>1. /\ pc = "indexDump"
        /\ \E m \in CutTableIndexes(SSTableIndex(snapshot.table)) :
             indexFile' = Write(indexFile, snapshot.segment, [written |-> TRUE, map |-> m])
    BY <1>2, IndexFileCut
  <2>2. PICK m \in CutTableIndexes(SSTableIndex(snapshot.table)) :
          indexFile' = Write(indexFile, snapshot.segment, [written |-> TRUE, map |-> m])
    BY <2>1
  <2>3. DOMAIN m \subseteq DOMAIN snapshot.table
    <3>1. IsTable(snapshot.table)
      BY DEF TypeInv, TypeOK
    <3>2. DOMAIN SSTableIndex(snapshot.table) = DOMAIN snapshot.table /\ DOMAIN snapshot.table \subseteq KeyIds
      BY <3>1, SSTableIndexType DEF IsTable
    <3> QED
      BY <3>2, CutTableIndex
  <2> DEFINE file == [written |-> TRUE, map |-> m]
  <2>4. DOMAIN file.map = DOMAIN m /\ indexFile' = Write(indexFile, snapshot.segment, file)
    BY <2>2
  <2> HIDE DEF file
  <2> QED
    BY <2>1, <2>3, <2>4, FirstIndexFile DEF PendingPhases
<1> QED
  BY <1>1, <1>2

\* The file of the log after a crash, when only whole rows have reached it ...
LEMMA CrashWhole ==
  ASSUME Restartable, TypeInv, FirstLog, NEW n \in 0 .. Len(walBuf),
         walFile' = IF walFile = NoFile THEN NoFile ELSE walFile \o SubSeq(walBuf, 1, n),
         kvFlushed' = ApplyRows(kvFlushed, SubSeq(walBuf, 1, n))
  PROVE  /\ walFile' # NoFile => walFile' \in Seq(Row)
         /\ Records(LoggedRows', kvFlushed', 0)
         /\ DOMAIN Replay(LoggedRows) \subseteq DOMAIN Replay(LoggedRows')
<1>1. CASE walFile = NoFile
  <2>1. walBuf = <<>>
    BY <1>1 DEF TypeInv, LogIsOpen
  <2>2. SubSeq(walBuf, 1, n) = <<>>
    BY <2>1
  <2>3. kvFlushed' = kvFlushed
    BY <2>2, ApplyNothing DEF TypeInv, TypeOK
  <2>4. walFile' = NoFile /\ LoggedRows' = LoggedRows
    BY <1>1 DEF LoggedRows
  <2> QED
    BY <2>3, <2>4 DEF FirstLog
<1>2. CASE walFile # NoFile
  <2>1. walFile' = walFile \o SubSeq(walBuf, 1, n)
    BY <1>2
  <2>2. /\ walFile' \in Seq(ClientRows) /\ Records(walFile', kvFlushed', 0)
        /\ DOMAIN Replay(walFile) \subseteq DOMAIN Replay(walFile')
    BY <1>2, <2>1, FirstFlush
  <2>3. walFile' \in Seq(Row) /\ walFile' # NoFile
    BY <2>2, ClientRowsAreRows, SeqMonotonic, NoFileAssumption
  <2>4. LoggedRows = walFile /\ LoggedRows' = walFile'
    BY <1>2, <2>3 DEF LoggedRows
  <2> QED
    BY <2>2, <2>3, <2>4
<1> QED
  BY <1>1, <1>2

\* ... and when part of the next one has.
LEMMA CrashCut ==
  ASSUME Restartable, TypeInv, FirstLog, NEW n \in 0 .. Len(walBuf), n < Len(walBuf),
         NEW row \in RowsFromCut(walBuf[n + 1]), walFile' = walFile \o SubSeq(walBuf, 1, n) \o <<row>>,
         kvFlushed' = ApplyRows(kvFlushed, SubSeq(walBuf, 1, n))
  PROVE  /\ walFile' \in Seq(Row)
         /\ Records(LoggedRows', kvFlushed', row.key)
         /\ DOMAIN Replay(LoggedRows) \subseteq DOMAIN Replay(LoggedRows')
<1> DEFINE rows == walFile \o SubSeq(walBuf, 1, n)
<1>1. walBuf \in Seq(ClientRows) /\ Len(walBuf) \in Nat
  BY LenProperties DEF TypeInv, TypeOK
<1>2. walFile # NoFile
  <2>1. walBuf # <<>>
    BY <1>1
  <2> QED
    BY <2>1 DEF TypeInv, LogIsOpen
<1>3. /\ rows \in Seq(ClientRows) /\ Records(rows, kvFlushed', 0)
      /\ DOMAIN Replay(walFile) \subseteq DOMAIN Replay(rows)
  BY <1>2, FirstFlush
<1>4. row \in Row
  <2>1. n + 1 \in 1 .. Len(walBuf)
    BY <1>1
  <2>2. walBuf[n + 1] \in Row
    BY <1>1, <2>1, LenProperties, ClientRowsAreRows
  <2> QED
    BY <2>2, RowsFromCutType
<1>5. rows \in Seq(Row)
  BY <1>3, ClientRowsAreRows, SeqMonotonic
<1>6. walFile' = rows \o <<row>>
  OBVIOUS
<1> HIDE DEF rows
<1>7. /\ walFile' \in Seq(Row) /\ Records(walFile', kvFlushed', row.key)
      /\ DOMAIN Replay(rows) \subseteq DOMAIN Replay(walFile')
  BY <1>3, <1>4, <1>5, <1>6, RecordsTorn DEF Restartable
<1>8. LoggedRows = walFile /\ LoggedRows' = walFile'
  BY <1>2, <1>7, NoFileAssumption DEF LoggedRows
<1> QED
  BY <1>3, <1>7, <1>8

\* A crash loses rows of the buffer only, and with them what the clients were
\* promised of them.
LEMMA FirstCrash ==
  ASSUME Restartable, TypeInv, FirstLog, Crash
  PROVE  DirectoryLeft'
<1>1. PICK n \in 0 .. Len(walBuf) :
        /\ \/ walFile' = IF walFile = NoFile THEN NoFile ELSE walFile \o SubSeq(walBuf, 1, n)
           \/ /\ SplitWrites
              /\ n < Len(walBuf)
              /\ \E row \in RowsFromCut(walBuf[n + 1]) : walFile' = walFile \o SubSeq(walBuf, 1, n) \o <<row>>
        /\ kv' = ApplyRows(kvFlushed, SubSeq(walBuf, 1, n))
        /\ kvFlushed' = ApplyRows(kvFlushed, SubSeq(walBuf, 1, n))
  BY Zenon DEF Crash
<1>2. \E d : /\ d \in Keys => SplitWrites
             /\ Records(LoggedRows', kvFlushed', d)
             /\ walFile' # NoFile => walFile' \in Seq(Row)
             /\ DOMAIN Replay(LoggedRows) \subseteq DOMAIN Replay(LoggedRows')
  <2>1. CASE walFile' = IF walFile = NoFile THEN NoFile ELSE walFile \o SubSeq(walBuf, 1, n)
    BY <1>1, <2>1, CrashWhole DEF Restartable
  <2>2. ASSUME SplitWrites, n < Len(walBuf), NEW row \in RowsFromCut(walBuf[n + 1]),
               walFile' = walFile \o SubSeq(walBuf, 1, n) \o <<row>>
        PROVE  \E d : /\ d \in Keys => SplitWrites
                      /\ Records(LoggedRows', kvFlushed', d)
                      /\ walFile' # NoFile => walFile' \in Seq(Row)
                      /\ DOMAIN Replay(LoggedRows) \subseteq DOMAIN Replay(LoggedRows')
    BY <1>1, <2>2, CrashCut
  <2> QED
    BY <1>1, <2>1, <2>2
<1>3. IndexLogged'
  <2>1. indexFile' \in IndexAtCrash
    BY DEF Crash
  <2>2. \A s \in DOMAIN indexFile' : DOMAIN indexFile'[s].map \cap Keys \subseteq DOMAIN Replay(LoggedRows)
    BY <2>1, IndexAtCrashLogged
  <2> QED
    BY <1>2, <2>2 DEF IndexLogged
<1> QED
  BY <1>1, <1>2, <1>3 DEF DirectoryLeft

-----------------------------------------------------------------------------
(* The second process                                                      *)

\* The log that is replayed gives every key its value but the one it was cut in.
LEMMA SecondRestore ==
  ASSUME Restartable, TypeInv, LoadInv, DirectoryLeft, session = 1, OpenRestore
  PROVE  SecondProcess'
<1>1. /\ pc = "closed" /\ memTable' \in RestoreFromLog(walFile)
      /\ UNCHANGED <<index, indexFile, walFile, kv>>
  BY DEF OpenRestore, diskVars, logVars
<1>2. index = <<>> /\ kv = kvFlushed /\ IndexLogged /\ (walFile # NoFile => walFile \in Seq(Row))
  BY <1>1 DEF LoadInv, DirectoryLeft
<1>3. PICK d : (d \in Keys => SplitWrites) /\ Records(LoggedRows, kvFlushed, d)
  BY <1>1 DEF DirectoryLeft
<1>4. ASSUME NEW k \in Keys \ {d} PROVE Served(k)'
  <2>1. kv[k] = ValueIn(LoggedRows, k)
    BY <1>2, <1>3 DEF Records
  <2>2. TablesWith(index, k) = {}
    BY <1>2 DEF TablesWith
  <2>3. k \notin DOMAIN Replay(LoggedRows) =>
          kv[k] = NotFound /\ \A s \in DOMAIN indexFile : k \notin DOMAIN indexFile[s].map
    BY <1>2, <2>1 DEF ValueIn, IndexLogged
  <2>4. k \in DOMAIN Replay(LoggedRows) => kv[k] = RowResult(Replay(LoggedRows)[k])
    BY <2>1 DEF ValueIn
  <2>5. CASE walFile = NoFile
    <3>1. DOMAIN memTable' = {} /\ DOMAIN Replay(LoggedRows) = {}
      BY <1>1, <2>5, ReplayNothing DEF RestoreFromLog, EmptyTable, LoggedRows
    <3> QED
      BY <1>1, <2>2, <2>3, <3>1 DEF Served
  <2>6. CASE walFile # NoFile /\ walFile = <<>>
    <3>1. PICK row \in RowsFromNothing : memTable' = Insert(EmptyTable, row)
      BY <1>1, <2>6 DEF RestoreFromLog
    <3>2. DOMAIN memTable' = {0}
      BY <3>1 DEF RowsFromNothing, Insert, EmptyTable
    <3>3. k \notin DOMAIN memTable'
      BY <3>2 DEF Restartable
    <3>4. DOMAIN Replay(LoggedRows) = {}
      BY <2>6, ReplayNothing DEF LoggedRows
    <3> QED
      BY <1>1, <2>2, <2>3, <3>3, <3>4 DEF Served
  <2>7. CASE walFile # NoFile /\ walFile # <<>>
    <3>1. memTable' = Replay(LoggedRows)
      BY <1>1, <2>7 DEF RestoreFromLog, LoggedRows
    <3> QED
      BY <1>1, <2>2, <2>3, <2>4, <3>1 DEF Served
  <2> QED
    BY <2>5, <2>6, <2>7
<1> QED
  BY <1>3, <1>4 DEF SecondProcess

\* The steps that leave alone what is in memory and in the index files.
LEMMA SecondUnchanged ==
  ASSUME SecondProcess, session = 2, pc # "closed", segmentId = 0,
         UNCHANGED <<memTable, kv, index, indexFile>>
  PROVE  SecondProcess'
<1>1. \A k : Served(k)' = Served(k)
  BY DEF Served
<1> QED
  BY <1>1 DEF SecondProcess

\* The index files do not know the keys that the log does not know.
LEMMA SecondLoad ==
  ASSUME Restartable, TypeInv, SecondProcess, session = 2, pc # "closed", segmentId = 0, OpenLoadIndex
  PROVE  SecondProcess'
<1> DEFINE table(y) == LoadTableIndex(y, indexFile[y])
<1>1. PICK s \in toLoad :
        IF Indexed(index, table(s).fileId)
        THEN pc' = "failed" /\ toLoad' = {} /\ UNCHANGED index
        ELSE /\ index' = IndexUpdate(index, table(s))
             /\ toLoad' = toLoad \ {s}
             /\ UNCHANGED pc
  BY Zenon DEF OpenLoadIndex
<1>2. UNCHANGED <<memTable, kv, indexFile>>
  BY DEF OpenLoadIndex, diskVars, logVars
<1>3. s \in DOMAIN indexFile
  BY DEF TypeInv, TypeOK
<1>4. \A k \in Keys : k \in DOMAIN table(s).map => k \in DOMAIN indexFile[s].map
  <2>1. DOMAIN table(s).map = {} \/ DOMAIN table(s).map = {0} \/ table(s).map = indexFile[s].map
    BY DEF LoadTableIndex
  <2> HIDE DEF table
  <2> QED
    BY <2>1 DEF Restartable
<1> HIDE DEF table
<1>5. CASE index' = index
  BY <1>2, <1>5, SecondUnchanged
<1>6. CASE index' = IndexUpdate(index, table(s))
  <2>1. PICK d : (d \in Keys => SplitWrites) /\ \A k \in Keys \ {d} : Served(k)
    BY DEF SecondProcess
  <2>2. ASSUME NEW k \in Keys \ {d} PROVE Served(k)'
    <3>1. Served(k)
      BY <2>1
    <3>2. CASE k \in DOMAIN memTable
      BY <1>2, <3>1, <3>2 DEF Served
    <3>3. CASE k \notin DOMAIN memTable
      <4>1. kv[k] = NotFound /\ TablesWith(index, k) = {}
            /\ \A y \in DOMAIN indexFile : k \notin DOMAIN indexFile[y].map
        BY <3>1, <3>3 DEF Served
      <4>2. ASSUME NEW i \in DOMAIN index' PROVE k \notin DOMAIN index'[i].map
        <5>1. /\ index'[1] = table(s)
              /\ i = 1 \/ (i - 1 \in DOMAIN index /\ index'[i] = index[i - 1])
          BY <1>6, IndexPushed DEF TypeInv
        <5>2. k \notin DOMAIN table(s).map
          BY <1>3, <1>4, <4>1
        <5>3. i - 1 \in DOMAIN index => k \notin DOMAIN index[i - 1].map
          BY <4>1 DEF TablesWith
        <5> QED
          BY <5>1, <5>2, <5>3
      <4>3. TablesWith(index', k) = {}
        BY <4>2 DEF TablesWith
      <4> QED
        BY <1>2, <3>3, <4>1, <4>3 DEF Served
    <3> QED
      BY <3>2, <3>3
  <2> QED
    BY <2>1, <2>2 DEF SecondProcess
<1> QED
  BY <1>1, <1>5, <1>6

\* What is written goes to the memtable.
LEMMA SecondInsert ==
  ASSUME TypeInv, SecondProcess, session = 2, pc # "closed", segmentId = 0,
         NEW row, NEW x, row.key \in Keys, RowResult(row) = x, InsertRow(row, x)
  PROVE  SecondProcess'
<1>1. /\ memTable' = Insert(memTable, row) /\ kv' = [kv EXCEPT ![row.key] = x]
      /\ UNCHANGED <<index, indexFile>>
  BY DEF InsertRow, diskVars
<1>2. PICK d : (d \in Keys => SplitWrites) /\ \A k \in Keys \ {d} : Served(k)
  BY DEF SecondProcess
<1>3. /\ DOMAIN memTable' = DOMAIN memTable \cup {row.key}
      /\ memTable'[row.key] = row
      /\ \A k \in DOMAIN memTable \ {row.key} : memTable'[k] = memTable[k]
  BY <1>1 DEF Insert
<1>4. kv'[row.key] = x /\ \A k \in Keys \ {row.key} : kv'[k] = kv[k]
  BY <1>1 DEF TypeInv, TypeOK
<1>5. ASSUME NEW k \in Keys \ {d} PROVE Served(k)'
  <2>1. Served(k)
    BY <1>2
  <2>2. CASE k = row.key
    BY <1>3, <1>4, <2>2 DEF Served
  <2>3. CASE k # row.key
    BY <1>1, <1>3, <1>4, <2>1, <2>3 DEF Served
  <2> QED
    BY <2>2, <2>3
<1> QED
  BY <1>2, <1>5 DEF SecondProcess

LEMMA SecondWrite ==
  ASSUME Restartable, TypeInv, SecondProcess, session = 2, pc # "closed", segmentId = 0, ClientWrite
  PROVE  SecondProcess'
<1>1. ASSUME NEW k \in Keys, NEW v \in Values, Put(k, v) PROVE SecondProcess'
  <2>1. RowResult(PutRow(k, v)) = v /\ PutRow(k, v).key = k
    BY ClientRowResults DEF Restartable
  <2>2. InsertRow(PutRow(k, v), v)
    BY <1>1 DEF Put
  <2> QED
    BY <2>1, <2>2, SecondInsert
<1>2. ASSUME NEW k \in RemoveKeys, Remove(k) PROVE SecondProcess'
  <2>1. k \in Keys
    BY EngineAssumption
  <2>2. RowResult(RemoveRow(k)) = NotFound /\ RemoveRow(k).key = k
    BY <2>1, ClientRowResults DEF Restartable
  <2>3. InsertRow(RemoveRow(k), NotFound)
    BY <1>2 DEF Remove
  <2> QED
    BY <2>1, <2>2, <2>3, SecondInsert
<1> QED
  BY <1>1, <1>2 DEF ClientWrite

LEMMA SegmentTakenStep ==
  ASSUME TypeInv, SegmentTaken, [Next]_vars
  PROVE  SegmentTaken' /\ (Snapshot => segmentId' > 0)
<1> USE DEF memoryVars, diskVars, logVars, localVars, boundVars
<1>1. ASSUME Snapshot PROVE segmentId' > 0
  <2>1. CASE BeginSnapshot
    BY <2>1 DEF BeginSnapshot, TypeInv, TypeOK
  <2>2. CASE DumpMemTable \/ ClearMemTable \/ AddToBloom \/ DumpBloom \/ OpenIndexFile \/ DumpIndex
    BY <2>2 DEF DumpMemTable, ClearMemTable, AddToBloom, DumpBloom, OpenIndexFile, DumpIndex,
                SegmentTaken, SnapshotPhases
  <2> QED
    BY <1>1, <2>1, <2>2 DEF Snapshot
<1>2. ASSUME Open \/ ClientWrite \/ Close \/ Crash PROVE pc' \notin SnapshotPhases \ {"snapshot"}
  BY <1>2 DEF Open, OpenRestore, OpenLog, OpenLoadIndex, OpenBloom, ClientWrite, Put, Remove, InsertRow,
              Close, Crash, MemoryLost, SnapshotPhases
<1>3. ASSUME NEW r \in Readers, Get(r) PROVE UNCHANGED <<pc, segmentId>>
  <2>1. \E state : ReaderStep(r, state)
    BY <1>3, Zenon DEF Get, FindInMemory, CheckBloom, LookupIndex, ReadChunk, Return, Finish
  <2> QED
    BY <2>1 DEF ReaderStep
<1>4. UNCHANGED vars => UNCHANGED <<pc, segmentId>>
  BY DEF vars
<1> QED
  BY <1>1, <1>2, <1>3, <1>4 DEF SegmentTaken, Next, SessionNext

\* Every step of the second process before it takes a segment number.
LEMMA SecondStep ==
  ASSUME Restartable, TypeInv, SegmentTaken, SecondProcess, session = 2, pc # "closed", segmentId' = 0,
         [SessionNext]_vars
  PROVE  SecondProcess'
<1> USE DEF memoryVars, diskVars, logVars, localVars, boundVars
<1>1. ~Snapshot
  BY SegmentTakenStep DEF Next
<1>2. CASE OpenLog \/ OpenBloom
  BY <1>2, SecondUnchanged DEF OpenLog, OpenBloom
<1>3. CASE OpenLoadIndex
  <2>1. segmentId = 0
    BY <1>3 DEF OpenLoadIndex
  <2> QED
    BY <1>3, <2>1, SecondLoad
<1>4. CASE ClientWrite
  <2>1. segmentId = 0
    BY <1>4 DEF ClientWrite, Put, Remove, InsertRow
  <2> QED
    BY <1>4, <2>1, SecondWrite
<1>5. ASSUME NEW r \in Readers, Get(r) PROVE SecondProcess'
  <2>1. \E state : ReaderStep(r, state)
    BY <1>5, Zenon DEF Get, FindInMemory, CheckBloom, LookupIndex, ReadChunk, Return, Finish
  <2> QED
    BY <2>1, SecondUnchanged DEF ReaderStep
<1>6. CASE UNCHANGED vars
  BY <1>6, SecondUnchanged DEF vars
<1>7. ~OpenRestore
  BY DEF OpenRestore
<1> QED
  BY <1>1, <1>2, <1>3, <1>4, <1>5, <1>6, <1>7 DEF SessionNext, Open

-----------------------------------------------------------------------------
(* The theorems                                                            *)

\* How a step counts the processes.
LEMMA SessionCounted ==
  ASSUME TypeInv, [Next]_vars
  PROVE  /\ OpenRestore => pc = "closed" /\ pc' = "openLog" /\ session' = session + 1
         /\ ~OpenRestore => session' = session
         /\ Close \/ Crash => pc # "closed" /\ pc' = "closed"
         /\ [SessionNext]_vars /\ ~OpenRestore => (pc' = "closed" <=> pc = "closed")
<1> USE DEF memoryVars, diskVars, logVars, localVars, boundVars
<1>1. OpenRestore => pc = "closed" /\ pc' = "openLog" /\ session' = session + 1
  BY DEF OpenRestore
<1>2. ASSUME OpenLog \/ OpenLoadIndex \/ OpenBloom PROVE session' = session /\ pc # "closed" /\ pc' # "closed"
  BY <1>2 DEF OpenLog, OpenLoadIndex, OpenBloom
<1>3. ASSUME ClientWrite PROVE session' = session /\ pc # "closed" /\ pc' # "closed"
  BY <1>3 DEF ClientWrite, Put, Remove, InsertRow
<1>4. ASSUME Snapshot PROVE session' = session /\ pc # "closed" /\ pc' # "closed"
  BY <1>4 DEF Snapshot, BeginSnapshot, DumpMemTable, ClearMemTable, AddToBloom, DumpBloom, OpenIndexFile, DumpIndex
<1>5. ASSUME NEW r \in Readers, Get(r) PROVE UNCHANGED <<session, pc>>
  <2>1. \E state : ReaderStep(r, state)
    BY <1>5, Zenon DEF Get, FindInMemory, CheckBloom, LookupIndex, ReadChunk, Return, Finish
  <2> QED
    BY <2>1 DEF ReaderStep
<1>6. UNCHANGED vars => UNCHANGED <<session, pc>>
  BY DEF vars
<1>7. ASSUME Close \/ Crash PROVE session' = session /\ pc # "closed" /\ pc' = "closed"
  BY <1>7 DEF Close, Crash, MemoryLost
<1> QED
  BY <1>1, <1>2, <1>3, <1>4, <1>5, <1>6, <1>7 DEF Next, SessionNext, Open

LEMMA RestartStep ==
  ASSUME Restartable, RestartInv, [Next]_vars
  PROVE  RestartInv'
<1>1. /\ TypeInv /\ LoadInv /\ SegmentTaken /\ DirectoryLeft /\ SecondProcess
      /\ session = 0 => pc = "closed"
      /\ FirstProcess => SessionInv /\ FirstLog
      /\ session \in Nat
  BY DEF RestartInv, TypeInv, TypeOK
<1>2. TypeInv' /\ LoadInv' /\ SegmentTaken'
  BY <1>1, TypeStep, LoadStep, SegmentTakenStep
<1>3. /\ OpenRestore => pc = "closed" /\ pc' = "openLog" /\ session' = session + 1
      /\ ~OpenRestore => session' = session
      /\ Close \/ Crash => pc # "closed" /\ pc' = "closed"
      /\ [SessionNext]_vars /\ ~OpenRestore => (pc' = "closed" <=> pc = "closed")
  BY <1>1, SessionCounted
<1>4. [SessionNext]_vars \/ Close \/ Crash
  BY DEF Next
<1>5. session' = 0 => pc' = "closed"
  BY <1>1, <1>3, <1>4
<1>6. ASSUME FirstProcess' PROVE SessionInv' /\ FirstLog'
  <2>1. FirstProcess /\ [SessionNext]_vars
    BY <1>1, <1>3, <1>4, <1>6 DEF FirstProcess
  <2> QED
    BY <1>1, <2>1, FirstStep
<1>7. DirectoryLeft'
  <2>1. CASE session' = 1 /\ pc' = "closed"
    <3>1. CASE Close \/ Crash
      <4>1. FirstProcess
        BY <1>3, <2>1, <3>1 DEF FirstProcess, OpenRestore
      <4> QED
        BY <1>1, <3>1, <4>1, FirstClose, FirstCrash
    <3>2. CASE [SessionNext]_vars
      <4>1. session = 1 /\ pc = "closed" /\ ~OpenRestore
        BY <1>3, <2>1, <3>2
      <4>2. ~Open /\ ~ClientWrite /\ ~Snapshot
        BY <4>1 DEF Open, OpenLog, OpenLoadIndex, OpenBloom, ClientWrite, Put, Remove, InsertRow,
             Snapshot, BeginSnapshot, DumpMemTable, ClearMemTable, AddToBloom, DumpBloom, OpenIndexFile, DumpIndex
      <4>3. (\E r \in Readers : Get(r)) \/ UNCHANGED vars
        BY <3>2, <4>2 DEF SessionNext
      <4>4. UNCHANGED <<kv, kvFlushed, walFile, indexFile>>
        <5>1. ASSUME NEW r \in Readers, Get(r) PROVE UNCHANGED <<kv, kvFlushed, walFile, indexFile>>
          <6>1. \E state : ReaderStep(r, state)
            BY <5>1, Zenon DEF Get, FindInMemory, CheckBloom, LookupIndex, ReadChunk, Return, Finish
          <6> QED
            BY <6>1 DEF ReaderStep, diskVars, logVars
        <5> QED
          BY <4>3, <5>1 DEF vars, diskVars, logVars
      <4>5. LoggedRows' = LoggedRows /\ (IndexLogged' <=> IndexLogged)
        BY <4>4 DEF LoggedRows, IndexLogged
      <4> QED
        BY <1>1, <4>1, <4>4, <4>5 DEF DirectoryLeft
    <3> QED
      BY <1>4, <3>1, <3>2
  <2>2. CASE ~(session' = 1 /\ pc' = "closed")
    BY <2>2 DEF DirectoryLeft
  <2> QED
    BY <2>1, <2>2
<1>8. SecondProcess'
  <2>1. CASE session' = 2 /\ pc' # "closed" /\ segmentId' = 0
    <3>1. [SessionNext]_vars
      BY <1>3, <1>4, <2>1
    <3>2. CASE OpenRestore
      <4>1. session = 1
        BY <1>1, <1>3, <2>1, <3>2
      <4> QED
        BY <1>1, <3>2, <4>1, SecondRestore
    <3>3. CASE ~OpenRestore
      BY <1>1, <1>3, <2>1, <3>1, <3>3, SecondStep
    <3> QED
      BY <3>2, <3>3
  <2>2. CASE ~(session' = 2 /\ pc' # "closed" /\ segmentId' = 0)
    BY <2>2 DEF SecondProcess
  <2> QED
    BY <2>1, <2>2
<1> QED
  BY <1>2, <1>5, <1>6, <1>7, <1>8 DEF RestartInv

LEMMA RestartCorrect ==
  ASSUME Restartable
  PROVE  Spec => []RestartInv
<1>1. Init => RestartInv
  BY FirstInit
<1>2. RestartInv /\ [Next]_vars => RestartInv'
  BY RestartStep
<1> QED
  BY <1>1, <1>2, PTL DEF Spec

\* What is served is what get answers.
LEMMA ServedIsRead ==
  ASSUME NEW k \in Keys, Served(k), ~TombstoneInMemory(k)
  PROVE  GetResults(k) = {kv[k]}
BY DEF Served, GetResults, TombstoneInMemory, RowResult

\* The keys that get answers wrongly before a segment number is taken for the second
\* time: none in the first process, one in the second if its log was cut in a row.
LEMMA OneKeyDamaged ==
  ASSUME RestartInv, BeforeReuse, pc = "ready"
  PROVE  \E d : /\ d \in Keys => SplitWrites
                /\ \A k \in Keys \ {d} : TombstoneInMemory(k) \/ GetResults(k) = {kv[k]}
<1>1. session \in Nat /\ session # 0 /\ session <= 2 /\ (session = 2 => segmentId = 0)
  BY DEF RestartInv, BeforeReuse, TypeInv, TypeOK
<1>2. CASE session = 1
  <2>1. ReadYourWrites
    BY <1>2, ReadsServe DEF RestartInv, FirstProcess, ProofInv
  <2>2. PICK d : d \notin Keys
    <3>1. NPos + 1 \notin Keys
      BY KeysAssumption
    <3> QED
      BY <3>1
  <2> QED
    BY <2>1, <2>2 DEF ReadYourWrites
<1>3. CASE session = 2
  <2>1. PICK d : (d \in Keys => SplitWrites) /\ \A k \in Keys \ {d} : Served(k)
    BY <1>1, <1>3 DEF RestartInv, SecondProcess
  <2> QED
    BY <2>1, ServedIsRead
<1> QED
  BY <1>1, <1>2, <1>3

\* The process after the first serves all that reached the log, and all it writes
\* itself, until its first snapshot: the replay of wal.bin in open, the index files and
\* the segments of the process before never make get answer with anything else, however
\* that process ended and wherever in a snapshot it was.
THEOREM FirstRestartServesHolds ==
  ASSUME Restartable, ~SplitWrites
  PROVE  Spec => []FirstRestartServes
<1>1. ASSUME RestartInv PROVE FirstRestartServes
  <2>1. ASSUME BeforeReuse, pc = "ready", NEW k \in Keys
        PROVE  TombstoneInMemory(k) \/ GetResults(k) = {kv[k]}
    BY <1>1, <2>1, OneKeyDamaged
  <2> QED
    BY <2>1 DEF FirstRestartServes, ReadYourWrites
<1> QED
  BY <1>1, RestartCorrect, PTL

\* When the buffer of the log is written to its file up to the middle of a row and the
\* process dies, at most one key is answered wrongly by the process after it.
THEOREM DamageIsLocalHolds ==
  ASSUME Restartable
  PROVE  Spec => []DamageIsLocal
<1>1. ASSUME RestartInv PROVE DamageIsLocal
  <2>1. ASSUME BeforeReuse, pc = "ready",
               NEW j \in Keys, ~TombstoneInMemory(j), GetResults(j) # {kv[j]},
               NEW k \in Keys, ~TombstoneInMemory(k), GetResults(k) # {kv[k]}
        PROVE  j = k
    BY <1>1, <2>1, OneKeyDamaged
  <2> QED
    BY <2>1 DEF DamageIsLocal
<1> QED
  BY <1>1, RestartCorrect, PTL

-----------------------------------------------------------------------------
(* Hints before a segment number is used again                             *)

\* The hint names the row of client's key k in segment file s, and no offset of that file
\* has wrapped.
Leads(s, k, hint) ==
  /\ s \in DOMAIN chunkFile
  /\ k \in DOMAIN chunkFile[s] /\ chunkFile[s][k].key = k
  /\ Addressable(chunkFile[s])
  /\ hint = SSTableIndex(chunkFile[s])[k]

\* A hint in segment file s leads to the row of its key, except that the hint of key d may
\* lead to the row of any key, or to nothing.
LeadsBut(d, s, k, hint) ==
  \/ Leads(s, k, hint)
  \/ k = d /\ (hint = DefaultHint \/ \E j \in KeyIds : Leads(s, j, hint))

FilesLead(d) ==
  \A s \in DOMAIN indexFile : \A k \in Keys \cap DOMAIN indexFile[s].map :
    LeadsBut(d, s, k, indexFile[s].map[k])

ListLeads(d) ==
  \A i \in DOMAIN index : \A k \in Keys \cap DOMAIN index[i].map :
    LeadsBut(d, index[i].fileId, k, index[i].map[k])

\* The index file of a segment comes after the segment file.
FilesBehind ==
  \A s \in DOMAIN indexFile :
    /\ s < segmentId
    /\ pc \in {"dump", "clear", "bloom", "bloomDump", "index"} => s # snapshot.segment

\* What the first process writes leads to the rows of its keys (0 being the id of none), what
\* it leaves does so but for one key, and what the second process loads too, until it takes
\* a segment number.
HintInv ==
  /\ FirstProcess => FilesLead(0) /\ FilesBehind
  /\ session = 1 /\ pc = "closed" => \E d \in KeyIds : FilesLead(d)
  /\ session = 2 /\ pc # "closed" /\ segmentId = 0 => \E d \in KeyIds : FilesLead(d) /\ ListLeads(d)

\* Segment files that an index file knows are the same: the hints stay good.
LEMMA LeadsSame ==
  ASSUME NEW d, FilesLead(d), indexFile' = indexFile,
         \A s \in DOMAIN indexFile : s \in DOMAIN chunkFile => s \in DOMAIN chunkFile' /\ chunkFile'[s] = chunkFile[s]
  PROVE  FilesLead(d)'
<1> SUFFICES ASSUME NEW s \in DOMAIN indexFile, NEW k \in Keys \cap DOMAIN indexFile[s].map
             PROVE  LeadsBut(d, s, k, indexFile[s].map[k])'
  BY DEF FilesLead
<1>1. LeadsBut(d, s, k, indexFile[s].map[k])
  BY DEF FilesLead
<1>2. ASSUME NEW j, Leads(s, j, indexFile[s].map[k]) PROVE Leads(s, j, indexFile[s].map[k])'
  BY <1>2 DEF Leads
<1> QED
  BY <1>1, <1>2 DEF LeadsBut

\* Where no key is excepted, any may be.
LEMMA LeadsWeaker ==
  ASSUME 0 \notin Keys, FilesLead(0), NEW d
  PROVE  FilesLead(d)
BY DEF FilesLead, LeadsBut

\* An index file that knows some rows of the segment that has been dumped.
LEMMA LeadsWritten ==
  ASSUME Restartable, TypeInv, SessionInv, NEW d, FilesLead(d), pc = "indexDump", chunkFile' = chunkFile,
         NEW file, DOMAIN file.map \subseteq DOMAIN snapshot.table,
         \A k \in DOMAIN file.map : k # d => file.map[k] = SSTableIndex(snapshot.table)[k],
         \A k \in DOMAIN file.map :
           file.map[k] = DefaultHint \/ \E j \in DOMAIN snapshot.table : file.map[k] = SSTableIndex(snapshot.table)[j],
         indexFile' = Write(indexFile, snapshot.segment, file)
  PROVE  FilesLead(d)'
<1>1. /\ snapshot.segment \in DOMAIN chunkFile /\ chunkFile[snapshot.segment] = snapshot.table
      /\ DOMAIN snapshot.table \subseteq Keys
      /\ \A k \in DOMAIN chunkFile[snapshot.segment] : chunkFile[snapshot.segment][k].key = k
  BY DEF SessionInv, SnapshotConsistent, RowsKeyed, PendingPhases
<1>2. Addressable(snapshot.table)
  BY <1>1 DEF Restartable, Storable, TypeInv, TypeOK
<1>3. \A j \in DOMAIN snapshot.table : Leads(snapshot.segment, j, SSTableIndex(snapshot.table)[j])
  BY <1>1, <1>2 DEF Leads
<1>4. DOMAIN snapshot.table \subseteq KeyIds
  BY DEF TypeInv, TypeOK, IsTable
<1> SUFFICES ASSUME NEW s \in DOMAIN indexFile', NEW k \in Keys \cap DOMAIN indexFile'[s].map
             PROVE  LeadsBut(d, s, k, indexFile'[s].map[k])
  BY DEF FilesLead, LeadsBut, Leads
<1>5. CASE s = snapshot.segment
  <2>1. indexFile'[s] = file
    BY <1>5 DEF Write
  <2>2. k \in DOMAIN file.map /\ k \in DOMAIN snapshot.table
    BY <2>1
  <2>3. CASE k # d
    BY <1>3, <1>5, <2>1, <2>2, <2>3 DEF LeadsBut
  <2>4. CASE k = d
    BY <1>3, <1>4, <1>5, <2>1, <2>2, <2>4 DEF LeadsBut
  <2> QED
    BY <2>3, <2>4
<1>6. CASE s # snapshot.segment
  <2>1. s \in DOMAIN indexFile /\ indexFile'[s] = indexFile[s]
    BY <1>6 DEF Write
  <2> QED
    BY <2>1 DEF FilesLead
<1> QED
  BY <1>5, <1>6

\* The first process writes segment files that no index file knows yet.
LEMMA HintSnapshot ==
  ASSUME Restartable, TypeInv, SessionInv, FilesLead(0), FilesBehind, Snapshot
  PROVE  FilesLead(0)' /\ FilesBehind'
<1> USE DEF memoryVars, localVars
<1>0. segmentId \in Nat /\ snapshot.segment \in Nat /\ DOMAIN indexFile \subseteq Nat
  BY DEF TypeInv, TypeOK
<1>1. CASE BeginSnapshot
  <2>1. /\ pc' = "dump" /\ segmentId' = segmentId + 1 /\ snapshot'.segment = segmentId
        /\ chunkFile' = Write(chunkFile, segmentId, EmptyTable) /\ indexFile' = indexFile
    BY <1>1 DEF BeginSnapshot
  <2>2. \A s \in DOMAIN indexFile : s < segmentId /\ s # segmentId
    BY <1>0 DEF FilesBehind
  <2>3. \A s \in DOMAIN indexFile : s \in DOMAIN chunkFile => s \in DOMAIN chunkFile' /\ chunkFile'[s] = chunkFile[s]
    BY <2>1, <2>2 DEF Write
  <2>4. FilesBehind'
    BY <1>0, <2>1, <2>2 DEF FilesBehind
  <2> QED
    BY <2>1, <2>3, <2>4, LeadsSame
<1>2. CASE DumpMemTable
  <2>1. /\ pc = "dump" /\ pc' = "clear" /\ UNCHANGED <<segmentId, snapshot, indexFile>>
        /\ chunkFile' = Write(chunkFile, snapshot.segment, CreateSortedStringsTable(memTable))
    BY <1>2 DEF DumpMemTable
  <2>2. \A s \in DOMAIN indexFile : s < segmentId /\ s # snapshot.segment
    BY <2>1 DEF FilesBehind
  <2>3. \A s \in DOMAIN indexFile : s \in DOMAIN chunkFile => s \in DOMAIN chunkFile' /\ chunkFile'[s] = chunkFile[s]
    BY <2>1, <2>2 DEF Write
  <2>4. FilesBehind'
    BY <2>1, <2>2 DEF FilesBehind
  <2> QED
    BY <2>1, <2>3, <2>4, LeadsSame
<1>3. CASE ClearMemTable \/ AddToBloom \/ DumpBloom
  <2>1. /\ pc \in {"clear", "bloom", "bloomDump"} /\ pc' \in {"bloom", "bloomDump", "index"}
        /\ UNCHANGED <<segmentId, snapshot, indexFile, chunkFile>>
    BY <1>3 DEF ClearMemTable, AddToBloom, DumpBloom, diskVars
  <2> QED
    BY <2>1, LeadsSame DEF FilesBehind
<1>4. CASE OpenIndexFile
  <2> DEFINE file == [written |-> FALSE, map |-> [k \in {} |-> 0]]
  <2>1. /\ pc = "index" /\ pc' = "indexDump" /\ UNCHANGED <<segmentId, snapshot, chunkFile>>
        /\ indexFile' = Write(indexFile, snapshot.segment, file)
    BY <1>4 DEF OpenIndexFile
  <2>2. DOMAIN file.map = {}
    OBVIOUS
  <2> HIDE DEF file
  <2>3. segmentId = snapshot.segment + 1
    BY <2>1 DEF SessionInv, SnapshotConsistent, SnapshotPhases
  <2>4. ASSUME NEW s \in DOMAIN indexFile' PROVE s < segmentId'
    <3>1. s \in DOMAIN indexFile \/ s = snapshot.segment
      BY <2>1 DEF Write
    <3> QED
      BY <1>0, <2>1, <2>3, <3>1 DEF FilesBehind
  <2>5. ASSUME NEW s \in DOMAIN indexFile', NEW k \in Keys \cap DOMAIN indexFile'[s].map
        PROVE  LeadsBut(0, s, k, indexFile'[s].map[k])
    <3>1. s # snapshot.segment
      BY <2>1, <2>2, <2>5 DEF Write
    <3>2. s \in DOMAIN indexFile /\ indexFile'[s] = indexFile[s]
      BY <2>1, <3>1 DEF Write
    <3> QED
      BY <3>2 DEF FilesLead
  <2> QED
    BY <2>1, <2>4, <2>5 DEF FilesLead, FilesBehind, LeadsBut, Leads
<1>5. CASE DumpIndex
  <2> DEFINE file == [written |-> TRUE, map |-> SSTableIndex(snapshot.table)]
  <2>1. /\ pc = "indexDump" /\ pc' = "ready" /\ UNCHANGED <<segmentId, chunkFile>>
        /\ indexFile' = Write(indexFile, snapshot.segment, file)
    BY <1>5 DEF DumpIndex
  <2>2. file.map = SSTableIndex(snapshot.table) /\ DOMAIN file.map = DOMAIN snapshot.table
    BY SSTableIndexType DEF TypeInv, TypeOK
  <2> HIDE DEF file
  <2>3. segmentId = snapshot.segment + 1
    BY <2>1 DEF SessionInv, SnapshotConsistent, SnapshotPhases
  <2>4. ASSUME NEW s \in DOMAIN indexFile' PROVE s < segmentId'
    <3>1. s \in DOMAIN indexFile \/ s = snapshot.segment
      BY <2>1 DEF Write
    <3> QED
      BY <1>0, <2>1, <2>3, <3>1 DEF FilesBehind
  <2>5. FilesLead(0)'
    BY <2>1, <2>2, LeadsWritten
  <2> QED
    BY <2>1, <2>4, <2>5 DEF FilesBehind
<1> QED
  BY <1>1, <1>2, <1>3, <1>4, <1>5 DEF Snapshot

\* The steps of the first process.
LEMMA HintFirst ==
  ASSUME Restartable, TypeInv, SessionInv, FilesLead(0), FilesBehind, [SessionNext]_vars
  PROVE  FilesLead(0)' /\ FilesBehind'
<1> USE DEF memoryVars, diskVars, logVars, localVars, boundVars
<1>1. CASE Open
  <2>1. pc \in {"closed", "openLog", "openIndex"} /\ UNCHANGED indexFile
    <3>1. OpenLoadIndex => pc = "openIndex" /\ UNCHANGED indexFile
      BY Zenon DEF OpenLoadIndex
    <3> QED
      BY <1>1, <3>1 DEF Open, OpenRestore, OpenLog, OpenBloom
  <2>2. DOMAIN indexFile = {}
    BY <2>1 DEF SessionInv, OpeningEmpty
  <2> QED
    BY <2>1, <2>2 DEF FilesLead, FilesBehind
<1>2. CASE ClientWrite
  <2>1. /\ pc' \in {"ready", "snapshot"} /\ UNCHANGED <<segmentId, snapshot, indexFile, chunkFile>>
    BY <1>2 DEF ClientWrite, Put, Remove, InsertRow
  <2> QED
    BY <2>1, LeadsSame DEF FilesBehind
<1>3. CASE Snapshot
  BY <1>3, HintSnapshot
<1>4. CASE UNCHANGED vars \/ \E r \in Readers : Get(r)
  <2>1. UNCHANGED <<pc, segmentId, snapshot, indexFile, chunkFile>>
    BY <1>4 DEF vars, Get, FindInMemory, CheckBloom, LookupIndex, ReadChunk, Return, Finish, ReaderStep
  <2> QED
    BY <2>1, LeadsSame DEF FilesBehind
<1> QED
  BY <1>1, <1>2, <1>3, <1>4 DEF SessionNext

\* A crash cuts a segment file only before there is an index file of it, and an index file
\* only after its segment file was closed.
LEMMA HintCrash ==
  ASSUME Restartable, TypeInv, SessionInv, FilesLead(0), FilesBehind, Crash
  PROVE  \E d \in KeyIds : FilesLead(d)'
<1>0. 0 \in KeyIds /\ 0 \notin Keys
  BY KeysAssumption DEF KeyIds, Restartable
<1>1. chunkFile' \in ChunkAtCrash /\ indexFile' \in IndexAtCrash
  BY DEF Crash
<1>2. CASE pc = "indexDump"
  <2> DEFINE map == SSTableIndex(snapshot.table)
  <2>1. chunkFile' = chunkFile
    BY <1>1, <1>2 DEF ChunkAtCrash
  <2>2. DOMAIN map = DOMAIN snapshot.table /\ DOMAIN map \subseteq KeyIds
    BY SSTableIndexType DEF TypeInv, TypeOK, IsTable
  <2>3. CASE indexFile' = indexFile
    BY <1>0, <2>1, <2>3, LeadsSame
  <2>4. CASE indexFile' # indexFile
    <3>1. PICK m \in CutTableIndexes(map) :
            indexFile' = Write(indexFile, snapshot.segment, [written |-> TRUE, map |-> m])
      BY <1>1, <2>4, IndexFileCut
    <3> DEFINE file == [written |-> TRUE, map |-> m]
    <3>2. file.map = m /\ indexFile' = Write(indexFile, snapshot.segment, file)
      BY <3>1
    <3> HIDE DEF file, map
    <3>3. /\ DOMAIN m \subseteq DOMAIN map
          /\ \A k \in DOMAIN m : m[k] = DefaultHint \/ \E j \in DOMAIN map : m[k] = map[j]
          /\ \E d \in KeyIds : \A k \in DOMAIN m : k # d => m[k] = map[k]
      BY <2>2, CutTableIndex
    <3>4. PICK d \in KeyIds : \A k \in DOMAIN m : k # d => m[k] = map[k]
      BY <3>3
    <3>5. FilesLead(d)
      BY <1>0, LeadsWeaker
    <3>6. /\ DOMAIN file.map \subseteq DOMAIN snapshot.table
          /\ \A k \in DOMAIN file.map : k # d => file.map[k] = SSTableIndex(snapshot.table)[k]
          /\ \A k \in DOMAIN file.map :
               file.map[k] = DefaultHint
                 \/ \E j \in DOMAIN snapshot.table : file.map[k] = SSTableIndex(snapshot.table)[j]
      BY <2>2, <3>2, <3>3, <3>4 DEF map
    <3> QED
      BY <1>2, <2>1, <3>2, <3>5, <3>6, LeadsWritten
  <2> QED
    BY <2>3, <2>4
<1>3. CASE pc = "dump"
  <2>1. indexFile' = indexFile
    BY <1>1, <1>3 DEF IndexAtCrash
  <2>2. \A s \in DOMAIN indexFile : s # snapshot.segment
    BY <1>3 DEF FilesBehind
  <2>3. \E content : chunkFile' = Write(chunkFile, snapshot.segment, content)
    BY <1>1, <1>3 DEF ChunkAtCrash
  <2>4. \A s \in DOMAIN indexFile : s \in DOMAIN chunkFile => s \in DOMAIN chunkFile' /\ chunkFile'[s] = chunkFile[s]
    BY <2>2, <2>3 DEF Write
  <2> QED
    BY <1>0, <2>1, <2>4, LeadsSame
<1>4. CASE pc \notin {"dump", "indexDump"}
  <2>1. indexFile' = indexFile /\ chunkFile' = chunkFile
    BY <1>1, <1>4 DEF IndexAtCrash, ChunkAtCrash
  <2> QED
    BY <1>0, <2>1, LeadsSame
<1> QED
  BY <1>2, <1>3, <1>4

\* The second process loads hints that lead to rows.
LEMMA HintLoad ==
  ASSUME 0 \notin Keys, TypeInv, NEW d, FilesLead(d), ListLeads(d), OpenLoadIndex
  PROVE  FilesLead(d)' /\ ListLeads(d)'
<1> USE DEF diskVars
<1> DEFINE table(y) == LoadTableIndex(y, indexFile[y])
<1>1. PICK s \in toLoad :
        IF Indexed(index, table(s).fileId)
        THEN pc' = "failed" /\ toLoad' = {} /\ UNCHANGED index
        ELSE /\ index' = IndexUpdate(index, table(s))
             /\ toLoad' = toLoad \ {s}
             /\ UNCHANGED pc
  BY Zenon DEF OpenLoadIndex
<1>2. UNCHANGED <<indexFile, chunkFile>>
  BY DEF OpenLoadIndex
<1>3. s \in DOMAIN indexFile
  BY <1>1 DEF TypeInv, TypeOK
<1>4. ASSUME NEW k \in Keys \cap DOMAIN table(s).map PROVE LeadsBut(d, table(s).fileId, k, table(s).map[k])
  <2>1. indexFile[s].written
    BY DEF LoadTableIndex
  <2>2. table(s).fileId = s /\ (table(s).map = indexFile[s].map \/ DOMAIN table(s).map = {0})
    BY <2>1 DEF LoadTableIndex
  <2>3. table(s).map = indexFile[s].map
    BY <2>2
  <2> HIDE DEF table
  <2> QED
    BY <1>3, <2>2, <2>3 DEF FilesLead
<1> HIDE DEF table
<1>5. FilesLead(d)'
  BY <1>2, LeadsSame
<1>6. ASSUME NEW i \in DOMAIN index', NEW k \in Keys \cap DOMAIN index'[i].map
      PROVE  LeadsBut(d, index'[i].fileId, k, index'[i].map[k])
  <2>1. CASE index' = index
    BY <2>1 DEF ListLeads
  <2>2. CASE index' = IndexUpdate(index, table(s))
    <3>1. index'[1] = table(s) /\ (i = 1 \/ (i - 1 \in DOMAIN index /\ index'[i] = index[i - 1]))
      BY <2>2, IndexPushed DEF TypeInv
    <3>2. CASE i = 1
      BY <1>4, <3>1, <3>2
    <3>3. CASE i - 1 \in DOMAIN index /\ index'[i] = index[i - 1]
      BY <3>3 DEF ListLeads
    <3> QED
      BY <3>1, <3>2, <3>3
  <2> QED
    BY <1>1, <2>1, <2>2
<1> QED
  BY <1>2, <1>5, <1>6 DEF ListLeads, LeadsBut, Leads

LEMMA HintSecond ==
  ASSUME Restartable, TypeInv, SegmentTaken, NEW d, FilesLead(d), ListLeads(d), pc # "closed", segmentId' = 0, [SessionNext]_vars
  PROVE  FilesLead(d)' /\ ListLeads(d)'
<1> USE DEF memoryVars, diskVars, logVars, localVars, boundVars
<1>1. ~Snapshot
  BY SegmentTakenStep DEF Next
<1>2. CASE UNCHANGED <<index, indexFile, chunkFile>>
  <2>1. FilesLead(d)'
    BY <1>2, LeadsSame
  <2> QED
    BY <1>2, <2>1 DEF ListLeads, LeadsBut, Leads
<1>3. CASE OpenLoadIndex
  BY <1>3, HintLoad DEF Restartable
<1>4. ASSUME ~OpenLoadIndex PROVE UNCHANGED <<index, indexFile, chunkFile>>
  <2>1. ~OpenRestore
    BY DEF OpenRestore
  <2>2. OpenLog \/ OpenBloom \/ ClientWrite => UNCHANGED <<index, indexFile, chunkFile>>
    BY DEF OpenLog, OpenBloom, ClientWrite, Put, Remove, InsertRow
  <2>3. (\E r \in Readers : Get(r)) \/ UNCHANGED vars => UNCHANGED <<index, indexFile, chunkFile>>
    BY DEF vars, Get, FindInMemory, CheckBloom, LookupIndex, ReadChunk, Return, Finish, ReaderStep
  <2> QED
    BY <1>1, <1>4, <2>1, <2>2, <2>3 DEF SessionNext, Open
<1> QED
  BY <1>2, <1>3, <1>4

LEMMA HintStep ==
  ASSUME Restartable, RestartInv, HintInv, [Next]_vars
  PROVE  HintInv'
<1>1. /\ TypeInv /\ LoadInv /\ SegmentTaken
      /\ session = 0 => pc = "closed"
      /\ FirstProcess => SessionInv
      /\ session \in Nat
  BY DEF RestartInv, TypeInv, TypeOK
<1>2. /\ OpenRestore => pc = "closed" /\ pc' = "openLog" /\ session' = session + 1
      /\ ~OpenRestore => session' = session
      /\ Close \/ Crash => pc # "closed" /\ pc' = "closed"
      /\ [SessionNext]_vars /\ ~OpenRestore => (pc' = "closed" <=> pc = "closed")
  BY <1>1, SessionCounted
<1>3. [SessionNext]_vars \/ Close \/ Crash
  BY DEF Next
<1>4. ASSUME FirstProcess' PROVE FilesLead(0)' /\ FilesBehind'
  <2>1. FirstProcess /\ [SessionNext]_vars
    BY <1>1, <1>2, <1>3, <1>4 DEF FirstProcess
  <2> QED
    BY <1>1, <2>1, HintFirst DEF HintInv
<1>5. ASSUME session' = 1, pc' = "closed" PROVE \E d \in KeyIds : FilesLead(d)'
  <2>1. CASE Close \/ Crash
    <3>1. FirstProcess
      BY <1>2, <1>5, <2>1 DEF FirstProcess, OpenRestore
    <3>2. Close => UNCHANGED <<indexFile, chunkFile>>
      BY DEF Close, diskVars
    <3>3. 0 \in KeyIds /\ FilesLead(0) /\ FilesBehind /\ SessionInv
      BY <1>1, <3>1, KeysAssumption DEF HintInv, KeyIds
    <3>4. CASE Close
      BY <3>2, <3>3, <3>4, LeadsSame
    <3>5. CASE Crash
      BY <1>1, <3>3, <3>5, HintCrash
    <3> QED
      BY <2>1, <3>4, <3>5
  <2>2. CASE [SessionNext]_vars
    <3>1. session = 1 /\ pc = "closed" /\ ~OpenRestore
      BY <1>2, <1>5, <2>2
    <3>2. ~Open /\ ~ClientWrite /\ ~Snapshot
      BY <3>1 DEF Open, OpenLog, OpenLoadIndex, OpenBloom, ClientWrite, Put, Remove, InsertRow,
           Snapshot, BeginSnapshot, DumpMemTable, ClearMemTable, AddToBloom, DumpBloom, OpenIndexFile, DumpIndex
    <3>3. (\E r \in Readers : Get(r)) \/ UNCHANGED vars
      BY <2>2, <3>2 DEF SessionNext
    <3>4. UNCHANGED <<indexFile, chunkFile>>
      BY <3>3 DEF vars, diskVars, Get, FindInMemory, CheckBloom, LookupIndex, ReadChunk, Return, Finish, ReaderStep
    <3>5. PICK d \in KeyIds : FilesLead(d)
      BY <3>1 DEF HintInv
    <3> QED
      BY <3>4, <3>5, LeadsSame
  <2> QED
    BY <1>3, <2>1, <2>2
<1>6. ASSUME session' = 2, pc' # "closed", segmentId' = 0 PROVE \E d \in KeyIds : FilesLead(d)' /\ ListLeads(d)'
  <2>1. [SessionNext]_vars
    BY <1>2, <1>3, <1>6
  <2>2. CASE OpenRestore
    <3>1. session = 1 /\ pc = "closed"
      BY <1>1, <1>2, <1>6, <2>2
    <3>2. index = <<>> /\ UNCHANGED <<index, indexFile, chunkFile>>
      BY <1>1, <2>2, <3>1 DEF OpenRestore, LoadInv, diskVars
    <3>3. DOMAIN index' = {}
      BY <3>2
    <3>4. PICK d \in KeyIds : FilesLead(d)
      BY <3>1 DEF HintInv
    <3>5. FilesLead(d)' /\ ListLeads(d)'
      BY <3>2, <3>3, <3>4, LeadsSame DEF ListLeads
    <3> QED
      BY <3>5
  <2>3. CASE ~OpenRestore
    <3>1. session = 2 /\ pc # "closed"
      BY <1>2, <1>6, <2>1, <2>3
    <3>2. segmentId = 0
      <4>1. ~Snapshot
        BY <1>1, <1>6, SegmentTakenStep DEF Next
      <4>2. UNCHANGED segmentId
        <5>1. Open \/ ClientWrite => UNCHANGED segmentId
          BY Zenon DEF Open, OpenRestore, OpenLog, OpenLoadIndex, OpenBloom, ClientWrite, Put, Remove, InsertRow, memoryVars
        <5>2. (\E r \in Readers : Get(r)) \/ UNCHANGED vars => UNCHANGED segmentId
          BY DEF vars, memoryVars, Get, FindInMemory, CheckBloom, LookupIndex, ReadChunk, Return, Finish, ReaderStep
        <5> QED
          BY <2>1, <4>1, <5>1, <5>2 DEF SessionNext
      <4> QED
        BY <1>6, <4>2
    <3>3. PICK d \in KeyIds : FilesLead(d) /\ ListLeads(d)
      BY <3>1, <3>2 DEF HintInv
    <3>4. FilesLead(d)' /\ ListLeads(d)'
      BY <1>1, <1>6, <2>1, <3>1, <3>3, HintSecond
    <3> QED
      BY <3>4
  <2> QED
    BY <2>2, <2>3
<1> QED
  BY <1>4, <1>5, <1>6 DEF HintInv

\* What a hint that leads to a row reads is that row.
LEMMA LeadingRow ==
  ASSUME TypeInv, NEW s, NEW k, NEW map, k \in DOMAIN map, NEW j, Leads(s, j, map[k]),
         NEW hint, hint = [fileId |-> s, offset |-> map[k].offset, size |-> map[k].size]
  PROVE  /\ j \in DOMAIN Chunk(s) /\ Chunk(s)[j].key = j
         /\ ReadRows(Chunk(s), hint) = {Chunk(s)[j]}
<1> DEFINE t == chunkFile[s]
<1>1. Chunk(s) = t
  BY DEF Chunk, Leads
<1>2. IsTable(t) /\ Addressable(t) /\ j \in DOMAIN t /\ t[j].key = j
  BY DEF Leads, TypeInv, TypeOK
<1>3. hint.offset = SSTableIndex(t)[j].offset /\ hint.size = SSTableIndex(t)[j].size
  BY DEF Leads
<1> HIDE DEF t
<1>4. ReadRows(t, SSTableIndex(t)[j]) = {t[j]}
  BY <1>2, IndexedRowIsRead
<1>5. ReadRows(t, hint) = ReadRows(t, SSTableIndex(t)[j])
  BY <1>3, SameHint
<1> QED
  BY <1>1, <1>2, <1>4, <1>5

\* The hint of a key reads a row of that key, except for key d, for which it reads a whole
\* row or has no size.
LEMMA LeadingRows ==
  ASSUME TypeInv, NEW d, ListLeads(d), NEW k \in Keys, TablesWith(index, k) # {}
  PROVE  /\ k # d => \A row \in RowsOnDisk(k) : row.key = k
         /\ \/ IndexGet(index, k).size = 0
            \/ \A row \in RowsOnDisk(k) : \E j \in DOMAIN Chunk(IndexGet(index, k).fileId) :
                 row = Chunk(IndexGet(index, k).fileId)[j]
<1>1. index \in Seq({index[j] : j \in DOMAIN index})
  BY DEF TypeInv, TypeOK
<1>2. PICK i \in TablesWith(index, k) :
        IndexGet(index, k) = [fileId |-> index[i].fileId,
                              offset |-> index[i].map[k].offset,
                              size   |-> index[i].map[k].size]
  BY <1>1, IndexGetFirst, Zenon
<1> DEFINE hint == IndexGet(index, k)
           s == index[i].fileId
           map == index[i].map
<1>3. i \in DOMAIN index /\ k \in DOMAIN map /\ LeadsBut(d, s, k, map[k])
  BY DEF ListLeads, TablesWith
<1>4. hint = [fileId |-> s, offset |-> map[k].offset, size |-> map[k].size]
  BY <1>2
<1>5. RowsOnDisk(k) = ReadRows(Chunk(s), hint) /\ hint.fileId = s /\ hint.size = map[k].size
  BY <1>4 DEF RowsOnDisk
<1> HIDE DEF hint, s, map
<1>6. ASSUME NEW j, Leads(s, j, map[k])
      PROVE  /\ j \in DOMAIN Chunk(s) /\ Chunk(s)[j].key = j
             /\ RowsOnDisk(k) = {Chunk(s)[j]}
  <2>1. ReadRows(Chunk(s), hint) = {Chunk(s)[j]} /\ j \in DOMAIN Chunk(s) /\ Chunk(s)[j].key = j
    BY <1>3, <1>4, <1>6, LeadingRow
  <2> QED
    BY <1>5, <2>1
<1>7. CASE Leads(s, k, map[k])
  <2>1. k \in DOMAIN Chunk(s) /\ Chunk(s)[k].key = k /\ RowsOnDisk(k) = {Chunk(s)[k]}
    BY <1>6, <1>7
  <2> QED
    BY <1>5, <2>1 DEF hint
<1>8. CASE k = d /\ map[k] = DefaultHint
  <2>1. hint.size = 0
    BY <1>5, <1>8 DEF DefaultHint
  <2> QED
    BY <1>8, <2>1 DEF hint
<1>9. CASE k = d /\ \E j \in KeyIds : Leads(s, j, map[k])
  <2>1. PICK j : Leads(s, j, map[k])
    BY <1>9
  <2>2. j \in DOMAIN Chunk(s) /\ RowsOnDisk(k) = {Chunk(s)[j]}
    BY <1>6, <2>1
  <2> QED
    BY <1>5, <1>9, <2>2 DEF hint
<1> QED
  BY <1>3, <1>7, <1>8, <1>9 DEF LeadsBut

\* The list of the first process.
LEMMA FirstListLeads ==
  ASSUME SessionInv
  PROVE  ListLeads(0)
<1> SUFFICES ASSUME NEW i \in DOMAIN index, NEW k \in Keys \cap DOMAIN index[i].map
             PROVE  Leads(index[i].fileId, k, index[i].map[k])
  BY DEF ListLeads, LeadsBut
<1> DEFINE t == chunkFile[index[i].fileId]
<1>1. index[i].fileId \in DOMAIN chunkFile /\ index[i].map = SSTableIndex(t) /\ Addressable(t)
  BY DEF SessionInv, IndexMatchesSegments
<1>2. DOMAIN SSTableIndex(t) = DOMAIN t
  BY DEF SSTableIndex
<1>3. \A j \in DOMAIN t : t[j].key = j
  BY <1>1 DEF SessionInv, RowsKeyed
<1> QED
  BY <1>1, <1>2, <1>3 DEF Leads

\* A shutdown or a crash at any step of a snapshot, in the middle of an index file too, leaves
\* one key at most that the next process is led astray for: to a whole row of another key,
\* or to no row.  The hints of all other keys lead to rows of theirs.
THEOREM HintsUntilReuseHolds ==
  ASSUME Restartable
  PROVE  Spec => []HintsUntilReuse
<1>1. Init => HintInv
  <2> SUFFICES ASSUME Init PROVE HintInv
    OBVIOUS
  <2>1. session = 0 /\ DOMAIN indexFile = {}
    BY DEF Init, NoFiles
  <2> QED
    BY <2>1 DEF HintInv, FilesLead, FilesBehind
<1>2. RestartInv /\ HintInv /\ [Next]_vars => HintInv'
  BY HintStep
<1>3. RestartInv /\ HintInv => HintsUntilReuse
  <2> SUFFICES ASSUME RestartInv, HintInv, BeforeReuse, pc = "ready" PROVE HintsUntilReuse
    BY DEF HintsUntilReuse
  <2>1. TypeInv /\ session \in Nat /\ session # 0
    BY DEF RestartInv, TypeInv, TypeOK
  <2>2. \E d : ListLeads(d)
    <3>1. CASE session = 1
      BY <2>1, <3>1, FirstListLeads DEF RestartInv, FirstProcess
    <3>2. CASE session = 2
      BY <2>1, <3>2 DEF HintInv, BeforeReuse
    <3> QED
      BY <2>1, <3>1, <3>2 DEF BeforeReuse
  <2>3. PICK d : ListLeads(d)
    BY <2>2
  <2>4. \A k \in Misdirected : k = d /\ k \in Keys /\ TablesWith(index, k) # {}
    BY <2>1, <2>3, LeadingRows, Zenon DEF Misdirected
  <2>5. \A k \in Misdirected :
          \/ IndexGet(index, k).size = 0
          \/ \A row \in RowsOnDisk(k) : \E j \in DOMAIN Chunk(IndexGet(index, k).fileId) :
               row = Chunk(IndexGet(index, k).fileId)[j]
    BY <2>1, <2>3, <2>4, LeadingRows, Zenon
  <2> QED
    BY <2>4, <2>5, Zenon DEF HintsUntilReuse
<1> QED
  BY <1>1, <1>2, <1>3, RestartCorrect, PTL DEF Spec
=============================================================================
