---------------------------- MODULE StorageEngine ----------------------------
(***************************************************************************)
(* StorageEngine: the memtable, the write-ahead log, snapshots into segment *)
(* files with their index and Bloom filter, concurrent lookups, shutdown,   *)
(* crashes and reopening.                                                   *)
(*                                                                         *)
(* put and remove hold m_mutex exclusively from the insertion to the end of *)
(* the snapshot it may cause, so one variable, pc, says where the engine is: *)
(* "ready" means that nobody holds the lock exclusively.  A lookup takes    *)
(* the lock twice, shared, and tests the Bloom filter and reads the segment *)
(* file without it: these are steps of their own.                           *)
(*                                                                         *)
(* A crash is the death of the process: what was handed to the operating    *)
(* system stays, what sits in the buffers of the C++ streams is lost.       *)
(***************************************************************************)
EXTENDS Index, BloomFilter

CONSTANTS
  Readers,        \* threads that call get
  MemTableLimit,  \* Options.maxMemTableSize
  WalBuffer,      \* bytes the stream buffer of the log can hold
  SplitWrites,    \* may the library write a buffer of rows that ends inside one?
  CanCrash,       \* do processes crash, or only shut down?
  MaxSessions,    \* bound: how often the database is opened
  WriteSessions,  \* sessions in which clients write
  MaxOps,         \* bound: puts and removes in all
  RemoveKeys,     \* bound: the keys clients remove
  NoFile          \* a log file that does not exist

ASSUME EngineAssumption ==
  /\ SplitWrites \in BOOLEAN
  /\ CanCrash \in BOOLEAN
  /\ MaxSessions \in Nat
  /\ MaxOps \in Nat
  /\ MemTableLimit \in Nat
  /\ WalBuffer \in Nat
  /\ RemoveKeys \subseteq Keys

ASSUME BloomHashAssumption == BloomHash \in [KeyIds -> Nat \X Nat]

ASSUME NoFileAssumption == NoFile \notin Seq(Row)

VARIABLES
  \* memory
  pc,           \* where the engine is
  memTable,     \* m_memTable->m_map: the newest row of each key
  memorySize,   \* m_memTable->m_memorySize
  segmentId,    \* m_segmentId
  index,        \* m_index
  bloomFilter,  \* m_bloomFilter
  walBuf,       \* rows logged since the last flush of the log
  snapshot,     \* locals of makeSnapshot: segment and table
  toLoad,       \* local of Index::load: index files not read yet
  readers,      \* the lookup each thread is in
  \* disk
  walFile,      \* wal.bin
  chunkFile,    \* segment/segment_<n>.bin
  indexFile,    \* index/index_<n>.bin
  bloomFile,    \* bloom_filter.bin; a missing file is as good as no bits
  \* history: what the clients were promised
  kv,           \* the value of each key after the writes that were logged
  kvFlushed,    \* the same at the last flush of the log
  session,      \* number of times the database was opened
  ops           \* number of writes

memoryVars == <<memTable, memorySize, segmentId, index, bloomFilter>>
diskVars   == <<chunkFile, indexFile, bloomFile>>
logVars    == <<walBuf, walFile, kv, kvFlushed>>
localVars  == <<snapshot, toLoad>>
boundVars  == <<session, ops>>

vars == <<pc, memoryVars, diskVars, logVars, localVars, readers, boundVars>>

OpenPhases     == {"openLog", "openIndex"}
SnapshotPhases == {"snapshot", "dump", "clear", "bloom", "bloomDump", "index", "indexDump"}
Phases         == {"closed", "ready", "failed"} \cup OpenPhases \cup SnapshotPhases

\* Phases in which the memtable is cleared and its table not indexed yet.
PendingPhases  == {"bloom", "bloomDump", "index", "indexDump"}

NoSnapshot == [segment |-> 0, table |-> EmptyTable]
NoHint     == [fileId |-> 0, offset |-> 0, size |-> 0]
NoFiles    == [s \in {} |-> EmptyTable]

ReaderPhases == {"idle", "bloom", "index", "chunk", "done"}
IdleReader ==
  [pc |-> "idle", key |-> 0, hint |-> NoHint, res |-> NotFound, seen |-> {}, tomb |-> FALSE]

ReaderState ==
  [pc : ReaderPhases, key : KeyIds, hint : FileHint, res : Results,
   seen : SUBSET Results, tomb : BOOLEAN]

-----------------------------------------------------------------------------
(* Helpers                                                                 *)

\* Writing a whole file.
Write(files, s, content) ==
  [t \in DOMAIN files \cup {s} |-> IF t = s THEN content ELSE files[t]]

\* The segment file a hint names; a file that does not exist reads as empty.
Chunk(s) == IF s \in DOMAIN chunkFile THEN chunkFile[s] ELSE EmptyTable

\* What findOnDisk and get make of a row read from a segment.
RowResult(row) == IF row.type = "Remove" THEN NotFound ELSE Decode(row)

\* Mutant of RestoreFromLog: one damaged row and the whole log is given up.
RestoreAllOrNothing(file) ==
  IF file = NoFile \/ \E i \in DOMAIN file : file[i].type = "Put" /\ Decode(file[i]) = Error
  THEN {EmptyTable}
  ELSE {Replay(file)}

\* MemTable::restoreFromLog on a fresh memtable.  The loop runs once before
\* it looks at the end of the stream, so an empty log gives a row too.
RestoreFromLog(file) ==
  IF file = NoFile THEN {EmptyTable}
  ELSE IF file = <<>> THEN {Insert(EmptyTable, row) : row \in RowsFromNothing}
  ELSE {Replay(file)}

\* Bytes of the rows of the log buffer after the n-th.
BufferedBytes(n) ==
  Cardinality({b \in (n + 1 .. Len(walBuf)) \X (1 .. HeaderSize + ValueSize) :
                 b[2] <= RowSize(walBuf[b[1]])})

\* The history after the rows of a log: NotFound after a removal.
ApplyRows(f, rows) ==
  LET m == Replay(rows) IN
  [k \in Keys |-> IF k \notin DOMAIN m THEN f[k]
                  ELSE IF m[k].type = "Remove" THEN NotFound ELSE m[k].data[2]]

\* A write of k is seen by the lookups of k in progress.
Seen(k, x) ==
  [r \in Readers |->
     IF readers[r].pc \in {"bloom", "index", "chunk"} /\ readers[r].key = k
     THEN [readers[r] EXCEPT !.seen = @ \cup {x}]
     ELSE readers[r]]

-----------------------------------------------------------------------------
(* Opening: a new process with a fresh StorageEngine.                      *)

\* open up to restoreFromLog.
OpenRestore ==
  /\ pc = "closed"
  /\ session < MaxSessions
  /\ memTable' \in RestoreFromLog(walFile)
  /\ pc' = "openLog"
  /\ session' = session + 1
  /\ UNCHANGED <<memorySize, segmentId, index, bloomFilter, diskVars, logVars, localVars, readers, ops>>

\* setWriteAheadLog: the log is opened for output, which truncates it.
OpenLog ==
  /\ pc = "openLog"
  /\ walFile' = <<>>
  /\ toLoad' = DOMAIN indexFile
  /\ pc' = "openIndex"
  /\ UNCHANGED <<memoryVars, diskVars, walBuf, kv, kvFlushed, snapshot, readers, boundVars>>

\* One turn of the loop of Index::load: the first file left, in path order.
OpenLoadIndex ==
  /\ pc = "openIndex"
  /\ \E s \in toLoad :
       LET table == LoadTableIndex(s, indexFile[s]) IN
       /\ \A t \in toLoad \ {s} : PathLess(s, t)
       /\ IF Indexed(index, table.fileId)
          THEN pc' = "failed" /\ toLoad' = {} /\ UNCHANGED index
          ELSE /\ index' = IndexUpdate(index, table)
               /\ toLoad' = toLoad \ {s}
               /\ UNCHANGED pc
  /\ UNCHANGED <<memTable, memorySize, segmentId, bloomFilter, diskVars, logVars, snapshot, readers, boundVars>>

\* m_bloomFilter.load, the end of open.
OpenBloom ==
  /\ pc = "openIndex"
  /\ toLoad = {}
  /\ bloomFilter' = bloomFile
  /\ pc' = "ready"
  /\ UNCHANGED <<memTable, memorySize, segmentId, index, diskVars, logVars, localVars, readers, boundVars>>

-----------------------------------------------------------------------------
(* put, remove and makeSnapshot, under the exclusive lock                  *)

\* Mutant of InsertRow: the row is logged without its checksum.
InsertRowUnchecked(row, x) ==
  /\ pc = "ready"
  /\ session \in WriteSessions
  /\ ops < MaxOps
  /\ memTable' = Insert(memTable, row)
  /\ memorySize' = memorySize + RowSize(row)
  /\ walBuf' = Append(walBuf, [row EXCEPT !.checksum = ZeroSum])
  /\ kv' = [kv EXCEPT ![row.key] = x]
  /\ readers' = Seen(row.key, x)
  /\ ops' = ops + 1
  /\ UNCHANGED <<segmentId, index, bloomFilter, diskVars, walFile, kvFlushed, localVars, session>>

\* Log and insert one row, and account for it.
InsertRow(row, x) ==
  /\ pc = "ready"
  /\ session \in WriteSessions
  /\ ops < MaxOps
  /\ memTable' = Insert(memTable, row)
  /\ memorySize' = memorySize + RowSize(row)
  /\ walBuf' = Append(walBuf, row)
  /\ kv' = [kv EXCEPT ![row.key] = x]
  /\ readers' = Seen(row.key, x)
  /\ ops' = ops + 1
  /\ UNCHANGED <<segmentId, index, bloomFilter, diskVars, walFile, kvFlushed, localVars, session>>

Put(k, v) ==
  /\ InsertRow(PutRow(k, v), v)
  /\ pc' = IF memorySize' >= MemTableLimit THEN "snapshot" ELSE "ready"

Remove(k) ==
  /\ InsertRow(RemoveRow(k), NotFound)
  /\ UNCHANGED pc

\* Mutant of BeginSnapshot: m_segmentId is not incremented.
BeginSnapshotSameSegment ==
  /\ pc = "snapshot"
  /\ snapshot' = [segment |-> segmentId, table |-> CreateSortedStringsTable(memTable)]
  /\ chunkFile' = Write(chunkFile, segmentId, EmptyTable)
  /\ pc' = "dump"
  /\ UNCHANGED <<memoryVars, indexFile, bloomFile, logVars, toLoad, readers, boundVars>>

\* Take the next segment number, build the table, open the segment file.
BeginSnapshot ==
  /\ pc = "snapshot"
  /\ segmentId' = segmentId + 1
  /\ snapshot' = [segment |-> segmentId, table |-> CreateSortedStringsTable(memTable)]
  /\ chunkFile' = Write(chunkFile, segmentId, EmptyTable)
  /\ pc' = "dump"
  /\ UNCHANGED <<memTable, memorySize, index, bloomFilter, indexFile, bloomFile, logVars, toLoad, readers, boundVars>>

\* MemTable::dump.
DumpMemTable ==
  /\ pc = "dump"
  /\ chunkFile' = Write(chunkFile, snapshot.segment, CreateSortedStringsTable(memTable))
  /\ pc' = "clear"
  /\ UNCHANGED <<memoryVars, indexFile, bloomFile, logVars, localVars, readers, boundVars>>

\* Mutant of ClearMemTable: the buffer of the log is cleared and not flushed.
ClearMemTableUnflushed ==
  /\ pc = "clear"
  /\ memTable' = EmptyTable
  /\ memorySize' = 0
  /\ walBuf' = <<>>
  /\ kvFlushed' = kv
  /\ pc' = "bloom"
  /\ UNCHANGED <<segmentId, index, bloomFilter, diskVars, walFile, kv, localVars, readers, boundVars>>

\* MemTable::clear, which flushes the log (and leaves its rows in the file).
ClearMemTable ==
  /\ pc = "clear"
  /\ memTable' = EmptyTable
  /\ memorySize' = 0
  /\ walFile' = walFile \o walBuf
  /\ walBuf' = <<>>
  /\ kvFlushed' = kv
  /\ pc' = "bloom"
  /\ UNCHANGED <<segmentId, index, bloomFilter, diskVars, kv, localVars, readers, boundVars>>

\* Mutant of AddToBloom: the keys are taken from the memtable, already cleared.
AddClearedToBloom ==
  /\ pc = "bloom"
  /\ bloomFile' = {}
  /\ bloomFilter' = BloomAdd(bloomFilter, DOMAIN memTable)
  /\ pc' = "bloomDump"
  /\ UNCHANGED <<memTable, memorySize, segmentId, index, chunkFile, indexFile, logVars, localVars, readers, boundVars>>

\* Open (and truncate) the filter's file, add the keys of the table.
AddToBloom ==
  /\ pc = "bloom"
  /\ bloomFile' = {}
  /\ bloomFilter' = BloomAdd(bloomFilter, DOMAIN snapshot.table)
  /\ pc' = "bloomDump"
  /\ UNCHANGED <<memTable, memorySize, segmentId, index, chunkFile, indexFile, logVars, localVars, readers, boundVars>>

DumpBloom ==
  /\ pc = "bloomDump"
  /\ bloomFile' = bloomFilter
  /\ pc' = "index"
  /\ UNCHANGED <<memoryVars, chunkFile, indexFile, logVars, localVars, readers, boundVars>>

\* Open (and truncate) the index file of the segment.
OpenIndexFile ==
  /\ pc = "index"
  /\ indexFile' = Write(indexFile, snapshot.segment, [written |-> FALSE, map |-> [k \in {} |-> 0]])
  /\ pc' = "indexDump"
  /\ UNCHANGED <<memoryVars, chunkFile, bloomFile, logVars, localVars, readers, boundVars>>

\* Mutant of DumpIndex: the lock is not given back.
DumpIndexKeepingLock ==
  LET map == SSTableIndex(snapshot.table) IN
  /\ pc = "indexDump"
  /\ indexFile' = Write(indexFile, snapshot.segment, [written |-> TRUE, map |-> map])
  /\ index' = IF Indexed(index, snapshot.segment) THEN index
              ELSE IndexUpdate(index, [fileId |-> snapshot.segment, map |-> map])
  /\ UNCHANGED <<pc, snapshot, memTable, memorySize, segmentId, bloomFilter, chunkFile, bloomFile,
                 logVars, toLoad, readers, boundVars>>

\* SSTableIndex::dump and Index::update; update throws out of put when the
\* file id is indexed already.  Either way the lock is released.
DumpIndex ==
  LET map == SSTableIndex(snapshot.table) IN
  /\ pc = "indexDump"
  /\ indexFile' = Write(indexFile, snapshot.segment, [written |-> TRUE, map |-> map])
  /\ index' = IF Indexed(index, snapshot.segment) THEN index
              ELSE IndexUpdate(index, [fileId |-> snapshot.segment, map |-> map])
  /\ snapshot' = NoSnapshot
  /\ pc' = "ready"
  /\ UNCHANGED <<memTable, memorySize, segmentId, bloomFilter, chunkFile, bloomFile, logVars, toLoad, readers, boundVars>>

Snapshot ==
  \/ BeginSnapshot
  \/ DumpMemTable
  \/ ClearMemTable
  \/ AddToBloom
  \/ DumpBloom
  \/ OpenIndexFile
  \/ DumpIndex

-----------------------------------------------------------------------------
(* get                                                                     *)

ReaderStep(r, state) ==
  /\ readers' = [readers EXCEPT ![r] = state]
  /\ UNCHANGED <<pc, memoryVars, diskVars, logVars, localVars, boundVars>>

Finish(r, x) == ReaderStep(r, [readers[r] EXCEPT !.pc = "done", !.res = x])

\* Mutant of FindInMemory: the memtable is searched without the lock.
FindInMemoryUnlocked(r, k) ==
  LET found == k \in DOMAIN memTable
      begun == [IdleReader EXCEPT !.key = k, !.seen = {kv[k]}]
  IN
  /\ readers[r].pc = "idle"
  /\ ReaderStep(r, IF found /\ memTable[k].type # "Remove"
                   THEN [begun EXCEPT !.pc = "done", !.res = Decode(memTable[k])]
                   ELSE [begun EXCEPT !.pc = "bloom", !.tomb = found])

\* findInMemory, under the shared lock.  A tombstone counts as a miss.
FindInMemory(r, k) ==
  LET found == k \in DOMAIN memTable
      begun == [IdleReader EXCEPT !.key = k, !.seen = {kv[k]}]
  IN
  /\ pc = "ready"
  /\ readers[r].pc = "idle"
  /\ ReaderStep(r, IF found /\ memTable[k].type # "Remove"
                   THEN [begun EXCEPT !.pc = "done", !.res = Decode(memTable[k])]
                   ELSE [begun EXCEPT !.pc = "bloom", !.tomb = found])

\* The filter a lookup can see: it is read without the lock, so while the keys
\* of a table are added a test may or may not see the bits.  Bits are only ever
\* set, hence the result is that of the filter before or after the loop.
BloomSeen ==
  {bloomFilter} \cup (IF pc = "bloom" THEN {BloomAdd(bloomFilter, DOMAIN snapshot.table)} ELSE {})

\* findOnDisk: the test of the Bloom filter.
CheckBloom(r) ==
  /\ readers[r].pc = "bloom"
  /\ \E bits \in BloomSeen :
       IF ProbablyContains(bits, readers[r].key)
       THEN ReaderStep(r, [readers[r] EXCEPT !.pc = "index"])
       ELSE Finish(r, NotFound)

\* findOnDisk: m_index->get under the shared lock.
LookupIndex(r) ==
  /\ pc = "ready"
  /\ readers[r].pc = "index"
  /\ IF TablesWith(index, readers[r].key) # {}
     THEN ReaderStep(r, [readers[r] EXCEPT !.pc = "chunk", !.hint = IndexGet(index, readers[r].key)])
     ELSE Finish(r, NotFound)

\* Mutant of ReadChunk: a tombstone sends the lookup back to its start.
ReadChunkRetrying(r) ==
  /\ readers[r].pc = "chunk"
  /\ \E row \in ReadRows(Chunk(readers[r].hint.fileId), readers[r].hint) :
       IF row.type = "Remove" THEN ReaderStep(r, [readers[r] EXCEPT !.pc = "bloom"])
       ELSE Finish(r, Decode(row))

\* findOnDisk: the segment file is read after the lock is released.
ReadChunk(r) ==
  /\ readers[r].pc = "chunk"
  /\ \E row \in ReadRows(Chunk(readers[r].hint.fileId), readers[r].hint) : Finish(r, RowResult(row))

Return(r) ==
  /\ readers[r].pc = "done"
  /\ ReaderStep(r, IdleReader)

Get(r) ==
  \/ \E k \in Keys : FindInMemory(r, k)
  \/ CheckBloom(r)
  \/ LookupIndex(r)
  \/ ReadChunk(r)
  \/ Return(r)

-----------------------------------------------------------------------------
(* The end of a process                                                    *)

MemoryLost ==
  /\ pc' = "closed"
  /\ memTable' = EmptyTable
  /\ memorySize' = 0
  /\ segmentId' = 0
  /\ index' = <<>>
  /\ bloomFilter' = {}
  /\ walBuf' = <<>>
  /\ snapshot' = NoSnapshot
  /\ toLoad' = {}
  /\ readers' = [r \in Readers |-> IdleReader]

\* The destructors: closing the stream of the log flushes it.  m_buffer is gone by then,
\* but the stream has a buffer of its own: pubsetbuf came after the file was opened.
Close ==
  /\ pc \in {"ready", "failed"}
  /\ \A r \in Readers : readers[r].pc = "idle"
  /\ walFile' = walFile \o walBuf
  /\ kvFlushed' = kv
  /\ MemoryLost
  /\ UNCHANGED <<diskVars, kv, boundVars>>

\* What the segment, filter and index files being written can hold when the
\* process dies: what has left the stream buffer is a prefix.  The library hands on
\* whole writes of the program: a row of a segment (perhaps cut in two, as in the log)
\* and one of the four pieces of an index entry.
RowsBefore(n) == [k \in {j \in DOMAIN snapshot.table : j < n} |-> snapshot.table[k]]

TablesAtCrash ==
  {RowsBefore(n) : n \in 0 .. NPos + 1} \cup
    IF ~SplitWrites THEN {}
    ELSE UNION {{Write(RowsBefore(k), k, row) : row \in RowsFromCut(snapshot.table[k])}
                 : k \in DOMAIN snapshot.table}

ChunkAtCrash ==
  IF pc # "dump" THEN {chunkFile}
  ELSE {Write(chunkFile, snapshot.segment, t) : t \in TablesAtCrash}

BloomAtCrash ==
  IF pc = "bloomDump" THEN {{b \in bloomFilter : b < n} : n \in 0 .. FilterSize} ELSE {bloomFile}

IndexAtCrash ==
  {indexFile} \cup
    IF pc = "indexDump"
    THEN {Write(indexFile, snapshot.segment, [written |-> TRUE, map |-> m])
            : m \in CutTableIndexes(SSTableIndex(snapshot.table))}
    ELSE {}

\* The log file has received some prefix of the buffered rows, no more than a
\* buffer full missing, and perhaps the beginning of one row more.
Crash ==
  /\ CanCrash
  /\ pc # "closed"
  /\ \E n \in 0 .. Len(walBuf) :
       LET reached == SubSeq(walBuf, 1, n) IN
       /\ BufferedBytes(n) <= WalBuffer
       /\ \/ walFile' = IF walFile = NoFile THEN NoFile ELSE walFile \o reached
          \/ /\ SplitWrites
             /\ n < Len(walBuf)
             /\ \E row \in RowsFromCut(walBuf[n + 1]) : walFile' = walFile \o reached \o <<row>>
       /\ kv' = ApplyRows(kvFlushed, reached)
       /\ kvFlushed' = ApplyRows(kvFlushed, reached)
  /\ chunkFile' \in ChunkAtCrash
  /\ bloomFile' \in BloomAtCrash
  /\ indexFile' \in IndexAtCrash
  /\ MemoryLost
  /\ UNCHANGED boundVars

-----------------------------------------------------------------------------
(* Specifications                                                          *)

Init ==
  /\ pc = "closed"
  /\ memTable = EmptyTable
  /\ memorySize = 0
  /\ segmentId = 0
  /\ index = <<>>
  /\ bloomFilter = {}
  /\ walBuf = <<>>
  /\ snapshot = NoSnapshot
  /\ toLoad = {}
  /\ readers = [r \in Readers |-> IdleReader]
  /\ walFile = NoFile
  /\ chunkFile = NoFiles
  /\ indexFile = NoFiles
  /\ bloomFile = {}
  /\ kv = [k \in Keys |-> NotFound]
  /\ kvFlushed = [k \in Keys |-> NotFound]
  /\ session = 0
  /\ ops = 0

Open ==
  \/ OpenRestore
  \/ OpenLog
  \/ OpenLoadIndex
  \/ OpenBloom

ClientWrite ==
  \/ \E k \in RemoveKeys : Remove(k)
  \/ \E k \in Keys, v \in Values : Put(k, v)

\* What happens while one process has the database open.
SessionNext ==
  \/ Open
  \/ ClientWrite
  \/ Snapshot
  \/ \E r \in Readers : Get(r)

Next == SessionNext \/ Close \/ Crash

\* One process on an empty directory.
SessionSpec == Init /\ [][SessionNext]_vars

\* Any number of processes, one after the other.
Spec == Init /\ [][Next]_vars

\* A snapshot runs to its end: nobody else can hold the lock.  A lookup that has
\* begun goes on; the lock it waits for is a pthread rwlock that prefers readers,
\* so that it is not passed over for ever by writers.
Fairness ==
  /\ WF_vars(Snapshot)
  /\ \A r \in Readers :
       /\ WF_vars(CheckBloom(r) \/ ReadChunk(r) \/ Return(r))
       /\ SF_vars(LookupIndex(r))

FairSessionSpec == SessionSpec /\ Fairness

-----------------------------------------------------------------------------
(* Properties                                                              *)

\* Every variable has its type.
TypeOK ==
  /\ pc \in Phases
  /\ IsTable(memTable)
  /\ memorySize \in Nat
  /\ segmentId \in Nat
  /\ index \in Seq({index[i] : i \in DOMAIN index})
  /\ \A i \in DOMAIN index : index[i].fileId \in Nat /\ IsTableIndex(index[i].map)
  /\ bloomFilter \subseteq Nat
  /\ walBuf \in Seq(ClientRows)
  /\ snapshot.segment \in Nat /\ IsTable(snapshot.table)
  /\ toLoad \subseteq DOMAIN indexFile
  /\ readers \in [Readers -> ReaderState]
  /\ walFile = NoFile \/ walFile \in Seq(Row)
  /\ DOMAIN chunkFile \subseteq Nat /\ \A s \in DOMAIN chunkFile : IsTable(chunkFile[s])
  /\ DOMAIN indexFile \subseteq Nat
  /\ \A s \in DOMAIN indexFile :
       indexFile[s].written \in BOOLEAN /\ IsTableIndex(indexFile[s].map)
  /\ bloomFile \subseteq Nat
  /\ kv \in [Keys -> Values \cup {NotFound}]
  /\ kvFlushed \in [Keys -> Values \cup {NotFound}]
  /\ session \in Nat
  /\ ops \in Nat

\* The rows findOnDisk can read for a key that the index knows.
RowsOnDisk(k) ==
  LET hint == IndexGet(index, k) IN ReadRows(Chunk(hint.fileId), hint)

\* What get can return when nothing else runs.
GetResults(k) ==
  IF k \in DOMAIN memTable /\ memTable[k].type # "Remove" THEN {Decode(memTable[k])}
  ELSE IF ~ProbablyContains(bloomFilter, k) \/ TablesWith(index, k) = {} THEN {NotFound}
  ELSE {RowResult(row) : row \in RowsOnDisk(k)}

\* The newest row of a key is a tombstone in the memtable, which get passes over.
TombstoneInMemory(k) == k \in DOMAIN memTable /\ memTable[k].type = "Remove"

\* get returns what was put last and nothing after a remove, wherever the row
\* is: memtable, any segment, or both.  Tombstones in the memtable are left to
\* RemovedStaysRemoved.
ReadYourWrites ==
  pc = "ready" => \A k \in Keys : TombstoneInMemory(k) \/ GetResults(k) = {kv[k]}

\* Database::remove, "Remove the database entry (if any)": a removed key is not
\* found.
RemovedStaysRemoved ==
  pc = "ready" => \A k \in Keys : kv[k] = NotFound => GetResults(k) = {NotFound}

\* A lookup that runs against writes and snapshots returns a value the key had
\* between its first and its last step, although it gives up the lock twice.
GetLinearizable ==
  \A r \in Readers :
    readers[r].pc = "done" /\ ~readers[r].tomb => readers[r].res \in readers[r].seen

\* The hint that findOnDisk carries out of the lock stays good: the bytes it
\* names are one whole row, of the key asked for.
HintStable ==
  \A r \in Readers :
    readers[r].pc = "chunk" =>
      \A row \in ReadRows(Chunk(readers[r].hint.fileId), readers[r].hint) :
        /\ row.key = readers[r].key
        /\ row \in {Chunk(readers[r].hint.fileId)[k] : k \in DOMAIN Chunk(readers[r].hint.fileId)}

\* A key that the index knows passes the Bloom filter, which findOnDisk asks
\* first: otherwise the key is lost although it is on disk.
BloomCoversIndex ==
  pc \notin {"openLog", "openIndex"} =>
    \A k \in Keys : TablesWith(index, k) # {} => ProbablyContains(bloomFilter, k)

\* findOnDisk takes the row it reads for the row of the key it looked up.
RowsOfTheirKey ==
  pc = "ready" => \A k \in Keys :
    TablesWith(index, k) # {} => \A row \in RowsOnDisk(k) : row.key = k

\* A segment file is never written again once the index names it: lookups read
\* it without the lock.
SegmentsImmutable ==
  [][\A s \in DOMAIN chunkFile :
       Indexed(index, s) => s \in DOMAIN chunkFile' /\ chunkFile'[s] = chunkFile[s]]_vars

\* No process has yet taken a segment number that an earlier one has used.
BeforeReuse == session <= 2 /\ (session = 2 => segmentId = 0)

\* What Database.h promises of persistence as far as the code keeps it: the process
\* after the first one, however that one ended, serves all that reached the log and
\* all it writes itself, until its first snapshot writes over segment 0.
FirstRestartServes == BeforeReuse => ReadYourWrites

\* Database::open throws on a directory the database left behind only if a crash came
\* between the creation of an index file and its contents.
OpenFailsOnlyTorn == pc = "failed" => \E s \in DOMAIN indexFile : ~indexFile[s].written

\* Index::get stops at the first table that knows the key: the list has the segment with the
\* highest number in front, after Index::load as after makeSnapshot, as long as file ids have
\* one digit and the order of the paths is that of the ids.
IndexHighestFirst ==
  (\A s \in DOMAIN indexFile : s < 10) =>
    \A i, j \in DOMAIN index : i < j => index[i].fileId > index[j].fileId

\* The keys whose hint leads to a row that is not theirs, or to no row.
Misdirected ==
  {k \in Keys : TablesWith(index, k) # {} /\ \E row \in RowsOnDisk(k) : row.key # k}

\* A crash while an index file is written misdirects one key at most, until a segment
\* number is used again: to nothing, or to a whole row of another key, which the checksum
\* lets pass.  Every other hint leads to a row of its key.
HintsUntilReuse ==
  BeforeReuse /\ pc = "ready" =>
    /\ \A j, k \in Misdirected : j = k
    /\ \A k \in Misdirected :
         LET hint == IndexGet(index, k) IN
         \/ hint.size = 0
         \/ \A row \in RowsOnDisk(k) : \E j \in DOMAIN Chunk(hint.fileId) : row = Chunk(hint.fileId)[j]

\* Through restarts and crashes the memtable never holds an old row: what it
\* holds for a key, restored from the log or inserted, is the last write.
MemTableIsNewest ==
  \A k \in DOMAIN memTable \cap Keys : RowResult(memTable[k]) = kv[k]

\* get returns only strings that clients stored, even from a torn log: damage is
\* noticed by the checksum and reported.
OnlyStoredValues ==
  pc = "ready" => \A k \in Keys : GetResults(k) \subseteq Values \cup {NotFound, Error}

\* A torn write of the log harms one key at most: the one that was being written
\* or, when the cut is inside its id, the one that its low bytes name.  The others
\* are served as FirstRestartServes says.
DamageIsLocal ==
  BeforeReuse /\ pc = "ready" =>
    \A j, k \in {i \in Keys : ~TombstoneInMemory(i) /\ GetResults(i) # {kv[i]}} : j = k

\* What a lookup that goes by the index alone gives.
IndexValue(k) ==
  IF TablesWith(index, k) = {} THEN NotFound ELSE RowResult(CHOOSE row \in RowsOnDisk(k) : TRUE)

\* What the engine holds for a key: its newest row, in the memtable, in the table
\* a snapshot is saving, or in the segment that the index names.
HeldValue(k) ==
  IF k \in DOMAIN memTable THEN RowResult(memTable[k])
  ELSE IF pc \in PendingPhases /\ k \in DOMAIN snapshot.table THEN RowResult(snapshot.table[k])
  ELSE IndexValue(k)

Contents == [k \in Keys |-> HeldValue(k)]

KV == INSTANCE KVStore WITH store <- Contents, writes <- ops, Missing <- NotFound

\* The engine implements the map that Database.h promises: a put or a remove
\* changes one entry, and no step of a snapshot or of a lookup changes any.
ImplementsKVStore == KV!Spec

\* Every get that begins returns, whatever the writers do.
GetTerminates == \A r \in Readers : readers[r].pc # "idle" ~> readers[r].pc = "idle"

\* Every snapshot ends and gives the lock back.
SnapshotCompletes == pc \in SnapshotPhases ~> pc = "ready"

-----------------------------------------------------------------------------
(* The inductive invariant of one session                                  *)

\* Before the first open of an empty directory is over there is nothing.
OpeningEmpty ==
  pc \in {"closed", "openLog", "openIndex"} =>
    /\ index = <<>> /\ memTable = EmptyTable
    /\ bloomFile = {} /\ toLoad = {} /\ DOMAIN indexFile = {}
    /\ pc = "closed" => walFile = NoFile

\* Each table index on the list describes its segment file as it is, and no offset
\* in it has wrapped.
IndexMatchesSegments ==
  \A i \in DOMAIN index :
    /\ index[i].fileId < segmentId
    /\ index[i].fileId \in DOMAIN chunkFile
    /\ index[i].map = SSTableIndex(chunkFile[index[i].fileId])
    /\ Addressable(chunkFile[index[i].fileId])

\* The snapshot in progress has a number nobody has used, and its table is the
\* memtable before the clearing and the segment file after the dump.
SnapshotConsistent ==
  /\ pc \in SnapshotPhases \ {"snapshot"} =>
       /\ segmentId = snapshot.segment + 1
       /\ \A i \in DOMAIN index : index[i].fileId # snapshot.segment
  /\ pc \in {"dump", "clear"} => snapshot.table = memTable
  /\ pc \in PendingPhases => memTable = EmptyTable
  /\ pc \in PendingPhases \cup {"clear"} =>
       snapshot.segment \in DOMAIN chunkFile /\ chunkFile[snapshot.segment] = snapshot.table

\* The Bloom filter holds every indexed key, and the keys of the snapshot before
\* they are indexed.
FilterCovers ==
  /\ \A i \in DOMAIN index : \A k \in DOMAIN index[i].map : ProbablyContains(bloomFilter, k)
  /\ pc \in {"bloomDump", "index", "indexDump"} =>
       \A k \in DOMAIN snapshot.table : ProbablyContains(bloomFilter, k)

\* Rows stand under their own key, and the memtable and the table that is saved hold
\* clients' keys only.
RowsKeyed ==
  /\ \A k \in DOMAIN memTable : k \in Keys /\ memTable[k].key = k
  /\ DOMAIN snapshot.table \subseteq Keys
  /\ \A s \in DOMAIN chunkFile : \A k \in DOMAIN chunkFile[s] : chunkFile[s][k].key = k

\* A lookup has met a value the key had since it began: the one that the index
\* leads to, the one its hint leads to, or its result.
ReaderConsistent(r) ==
  LET rd == readers[r] IN
  /\ rd.pc \in {"bloom", "index", "chunk"} => rd.key \in Keys /\ kv[rd.key] \in rd.seen
  /\ rd.pc \in {"bloom", "index"} /\ ~rd.tomb => IndexValue(rd.key) \in rd.seen
  /\ rd.pc = "chunk" =>
       \E i \in DOMAIN index :
         /\ rd.key \in DOMAIN index[i].map
         /\ rd.hint = [fileId |-> index[i].fileId,
                       offset |-> index[i].map[rd.key].offset,
                       size   |-> index[i].map[rd.key].size]
         /\ rd.tomb \/ RowResult(chunkFile[index[i].fileId][rd.key]) \in rd.seen
  /\ rd.pc = "done" /\ ~rd.tomb => rd.res \in rd.seen

\* Why a session is correct: index, segment files, filter and snapshot agree at
\* every step of makeSnapshot, what the clients wrote is what the engine holds,
\* and every lookup in progress is on the way to a value the key had.
SessionInv ==
  /\ OpeningEmpty
  /\ IndexMatchesSegments
  /\ SnapshotConsistent
  /\ FilterCovers
  /\ RowsKeyed
  /\ kv = Contents
  /\ \A r \in Readers : ReaderConsistent(r)
  /\ pc # "failed"
=============================================================================
