# A verification project for open-x-database

open-x-database (`omx`) is a C++ key-value store: an LSM-style storage engine
(memtable, write-ahead log, segment files with an index and a Bloom filter) behind
a small API, `include/omx/Database.h`, and a TCP server and client around it.
This directory holds TLA+ modules that model the engine, TLC runs on small
instances, and TLAPS proofs for all instances. A second model covers the server
and the client.

Contents: [inventory](#1-inventory) · [modules](#2-modules-and-the-code) ·
[runs](#3-runs) · [bounds](#4-bounds-symmetry-and-view) · [fairness](#5-fairness) ·
[proofs](#6-proofs) · [findings](#7-findings) · [limits](#8-what-is-not-shown) ·
[plan](#9-plan)

## 1. Inventory

| Component | State | Operations | Correct when |
|---|---|---|---|
| Storage engine (`StorageEngine.cpp`, `Database.cpp`) | `m_segmentId`, the shared mutex, the parts below | `open`, `put`, `remove`, `get`, `makeSnapshot`, `handle` | get returns the last write, at every moment of a concurrent snapshot and after any restart; a removed key is gone |
| Memtable (`MemTable.cpp`, `MemTableKey.h`) | ordered map from (key, insertion number) to rows, `m_memorySize`, a counter | `put`, `remove`, `get`, `clear`, `dump`, `setWriteAheadLog`, `restoreFromLog`, `createSortedStringsTable`, `…Index` | the row found for a key is its newest |
| Write-ahead log (`WriteAheadLog.cpp`) | an output stream with its buffer, `wal.bin` | constructor (truncates), `log`, `flushAndClear`, destructor | what was logged is replayed after a crash |
| Rows (`SSTableRow.cpp`, `Key.cpp`) | – | `serialize`, `deserialize`, `getRowSize` | what is read is what was written, and damage is noticed |
| Sorted string tables (`SSTable.cpp`) | rows in key order | `append`, `load`, `dump`, `merge` | one row per key, the newest |
| Index (`Index.cpp`, `SSTableIndex.cpp`) | list of table indexes, newest first; file-id map | `get`, `update`, `load`, `insert` | the first hit is the newest segment with the key, and its hint names the row |
| Bloom filter (`BloomFilter.h`) | bits | `add`, `probablyContains`, `dump`, `load` | no false negatives |
| Compression, hashing | – | adapters over LZ4, snappy, CityHash, MurmurHash | round trip; damage found |
| Options (`Options.h`) | `options.bin` | `saveOptions`, `loadOptions` | data is read with the options it was written with |
| Requests, responses | type or status, key, value, content length | `serialize`, `deserialize` | a message survives the wire |
| Server (`Networking/Acceptor`, `ServerBase`, `ServerSession`, `DatabaseServerImpl`) | io_service, threads, `m_isStopped`, per-session buffers | accept loop, read header, read body, answer, `start`, `wait`, `stop`, the destructor | every request is answered once; stop stops |
| Client (`ClientSession`, `DatabaseConnectorImpl`) | socket, promise, buffers | resolve, connect, send, two reads, fulfil | the future is fulfilled once |
| `File` | an mmap | – | used by one test only |

How they interact: `Database` forwards to `StorageEngine`. `put` and `remove` hold
`m_mutex` exclusively; `put` appends to the log, inserts into the memtable and, when
`m_memorySize` has reached `maxMemTableSize`, runs `makeSnapshot` before it unlocks:
next segment number, table, segment file, clearing of memtable (which flushes the
log), filter and its file, index file, `Index::update`. `get` takes the lock shared
twice (memtable, index), and does two things without it: it tests the Bloom filter
and reads the segment file. `open` replays the log, truncates it, loads every index
file in the order of their paths and the filter. The server calls
`StorageEngine::handle` from its pool of threads, and from the thread of a user that is in `wait`.

What is hard here: lookups against a snapshot that moves rows from memory to
disk in seven steps; reads outside the lock; the death of the process between any
two of those steps; a log that ends inside a row; several processes in a row on one
directory, each with options of its own; boundary values (key 2^64-1, key 0 and an empty log, the
empty string, offsets of 32 bits); requests that are under way when the server stops, starts again or
is destroyed.
`PROJECT.json` lists these as hazards with their lines.

## 2. Modules and the code

    SSTableRow -> SSTable -> Index --+-> StorageEngine -> MCStorageEngine (runs)
        |           |  BloomFilter --+        |   \-- INSTANCE KVStore (implements it)
        |           v                         v
        |    SSTableProofs -> StorageEngineProofs -> SessionProofs --+-> FirstRestartProofs
        |                                        \-> RecoveryProofs -/
        |
        |    Index -> MemTable -> MCMemTable (run), MemTableProofs (with SSTableProofs)
        |                 \-- INSTANCE NewestRows (implements it; NewestRows EXTENDS SSTable)
        |
        \--- INSTANCE of Options -> MCOptions (run), OptionsProofs

    Networking -> MCNetworking (runs), NetworkingProofs
        \-- INSTANCE KVStore (the database behind the server)

* **SSTableRow** – rows; `Compress`/`Uncompress`/`Hash`/`Decode` for what the
  adapters and `get` do with bytes; `RowsFrom…` for what `deserialize` makes of a
  stream that is empty, cut or misaligned (a misaligned one gives any key, any type and bytes nobody meant; the
  write beyond the key that a size larger than 8 causes is undefined behaviour and left out). A byte string is a pair of an encoding and
  a value, so "the raw string a" and "a under LZ4" differ, and an adapter that is given the bytes of
  another one fails or, without compression, hands them out. An uninitialised entry
  type is a choice. Checksums are collision free, and never zero by accident.
* **SSTable** – a table is a function from key ids to rows; the offset of a row is the
  number of bytes of the rows before it, modulo `OffsetRange` (2^32 in the code). `ReadRows` is the read of `findOnDisk`:
  the rows that `hint.size` bytes at `hint.offset` can give, whatever the file holds.
* **BloomFilter** – the filter as a set of bit positions, the rehash arithmetic with
  its wrap-around.
* **Index** – the list of table indexes, the order of `std::set<fs::path>` on the
  file names (`PathLess`), and what `SSTableIndex::load` makes of an empty file, of a
  file without entries, and of one that ends inside an entry (`CutTableIndexes`): an entry is written in
  four pieces, and load inserts a new key with the hint of the turn before when the file ends between them.
* **MemTable** – the ordered map from (key, insertion number) to rows: the comparator, `find` with a
  `SearchKey`, the loop that `dump`, `createSortedStringsTable` and `…Index` share, the log in front of
  it, `restoreFromLog`, `clear`; and the operations on what is saved that the engine does not use:
  `SSTable::merge`, `SSTable::load`, `Index::insert`. `Renew` is the next memtable on the same log, after a shutdown or
  a crash. `MergeRows` takes the addresses of the rows as arguments, since that is what `std::merge`
  compares.
* **NewestRows** – what StorageEngine has in the place of a memtable: the newest row per key and a count of
  bytes. MemTable implements it (`ImplementsNewestRows`).
* **Options** – `options.bin`: `OpenSave` creates it, `SaveOptions` writes it, `OpenLoad` reads it over the
  caller's options; `Put` and `Get` use the codec and the hasher that result (an instance of
  SSTableRow per pair). A process may `End` at any moment.
* **KVStore** – what `Database.h` promises: a map that put and remove change in one
  place.
* **StorageEngine** – the state machine. `pc` says where the holder of the exclusive
  lock is; `"ready"` means that nobody holds it, and shared sections are single steps
  enabled then.

| Action | Code |
|---|---|
| `OpenRestore`, `OpenLog`, `OpenLoadIndex`, `OpenBloom` | `StorageEngine::open`, one step per effect on disk or memory |
| `Put`, `Remove` (`InsertRow`) | `put`, `remove`, `MemTable::put`, `WriteAheadLog::log` |
| `BeginSnapshot` … `DumpIndex` | `makeSnapshot`, cut wherever a file is opened (truncated) and wherever it is written |
| `FindInMemory`, `CheckBloom`, `LookupIndex`, `ReadChunk`, `Return` | `get`: first lock, filter without the lock, second lock, file without the lock |
| `Close` | the destructors: closing the log's stream flushes it (`m_buffer` is destroyed before, but libstdc++ ignores `pubsetbuf` on an open file, so that the stream has a buffer of its own) |
| `Crash` | the process dies: streams lose what they buffer, and files being written hold a prefix. It ends at a write of the program, so an index entry may be cut between its pieces, as the library hands on writes whole; with `SplitWrites` the log and a segment may end inside a row too. A piece of an index entry is never cut |

  Three history variables say what clients were promised: `kv` (the value of each key
  after the writes that were logged), `kvFlushed` (the same at the last flush of the
  log) and `ops`. After a crash, `kv` is what reached the log file: the code does not
  promise more, since it never syncs and flushes only in a snapshot. A reader's `seen`
  collects the values its key had since the lookup began, and `tomb` that it passed over
  a tombstone in the memtable.
* **MCStorageEngine** – the Bloom hash, symmetry and view of the runs.
* **Networking** – client sessions, their connections, server sessions and the life of the server.
  Each `execute` has a connection of its own, so one index serves for the client session, the
  connection and the server session. A step is a handler together with the asynchronous operation it
  starts: asio tries a send or a write at once, so what the socket takes leaves in the same step.
  The database is the map `KVStore`, which SessionProofs shows the engine to implement (with the
  exception of the findings); `HandleThrows` is the `catch` of `handle`. Since each start opens the database again, the
  module also says what an open finds: `logged`, the keys with a row in the log, and `saved`, the contents that the
  segments may have (a put may have taken a snapshot or not). `kv` is the map as the requests left it.

| Action | Code |
|---|---|
| `Execute`, `OnResolve`, `OnConnect`, `OnSend`, `ClientReceive`, `OnError` | `DatabaseConnectorImpl::execute`, the handlers of `ClientSession`; one turn of `async_read` per step, the last one with its handler |
| `DestroyConnector` | the destructor: pending handlers, and with them sessions and promises, are destroyed |
| `OnAccept`, `ServerReceive`, `Handle…`, `ServerWrite`, `OnSessionError` | `Acceptor::onAccept`, the handlers of `ServerSession`, `StorageEngine::handle`; a thread is occupied from the complete request to the answer |
| `Start`, `StartFails` | `ServerBase::start` with `init`: the accept comes first, then `Database::open`, which may throw, then the threads. Start may come again after a failure or a stop |
| `Reopen`, `OpenNothing` (parts of these) | `StorageEngine::open` on the same object: the memtable becomes what the log gives, the log is truncated, the index loaded anew; or an exception before the log is truncated |
| `Wait`, `WaitReturns` | `wait`, a thread of the user that runs handlers until the service is stopped |
| `Stop`, `BeginDestroy` | `stop` by the user or by the destructor up to `Acceptor::stop` |
| `StopService`, `Join`, `JoinThrows` | the rest of `ServerBase::stop`: the service, then the threads one and all; threads that were joined before make `join` throw, which ends the process in the destructor (`"crashed"`) |
| `Destroy` | the members of the server: every socket is closed |
| `LinkFails` | the network (external) |

  Messages are counted in units (length field, fixed part, value). What a socket takes at once is a
  constant per side; the rest of a response is written from freed memory, so its value may be
  garbage.
* **MCMemTable**, **MCOptions**, **MCNetworking** – the rows, options and requests of the runs.

Properties that a run checks stand at the end of a module, with the inductive invariants
`SessionInv` (StorageEngine) and `NetworkInv` (Networking). Definitions whose comment starts with "Mutant of"
are plausible bugs; `PROJECT.json` names for each property one that breaks it.

## 3. Runs

Run one with `tlc -config X.cfg M`; M is MCMemTable for MemTable, MCOptions for Options, MCNetworking
for Network and PartialSend, and MCStorageEngine for the others.

| Run | Checks | Shows |
|---|---|---|
| Concurrent | `TypeOK`, `ReadYourWrites`, `GetLinearizable`, `HintStable`, `BloomCoversIndex`, `SessionInv`, `SegmentsImmutable`, `ImplementsKVStore` | one process; lookups at every step of puts, removes and snapshots (up to two snapshots and a false positive of the filter). The only exception is a lookup that met a tombstone in the memtable (finding RemovedKey) |
| Liveness | `GetTerminates`, `SnapshotCompletes` | lookups return and snapshots give the lock back, under the fairness of section 5 |
| TornLog | `OnlyStoredValues`, `DamageIsLocal` | the log ends inside a row (in the key's id, the value or the checksum): no made-up value reaches a client, and one key is harmed at most, whatever the next process writes before its first snapshot. Without compression, so that only the checksum can notice |
| Restarts | `MemTableIsNewest`, `FirstRestartServes`, `OpenFailsOnlyTorn`, `IndexHighestFirst`, `HintsUntilReuse` | three processes that all write and stop or die anywhere. The memtable never holds an old row. The second process serves everything that reached the log until its first snapshot, whatever files the first one left half written: the log covers for them. Until a segment number is used again a crash has misdirected one key of the index at most, to nothing or to a whole row of another key. The list of the index has the highest segment in front, through every reopening. `open` throws only after a crash that tore the creation of an index file |
| MemTable | `TypeOK`, `SavedAsFound`, `LogCoversMap`, `SizeCoversSegment`, `InsertedHintsRead`, `MergeKeepsNewest`, `ImplementsNewestRows` | two memtables in a row on one log: find finds the newest row, what is saved is what is found, the log covers the map although clear never shortens it, restored rows are all that the size leaves out, hints lead to their rows, and merge loses no key for any addresses |
| Options | `TypeOK`, `ReadableOnceSaved`, `ForeignHashRefused` | three processes with any options each and a crash inside `saveOptions`: once the file is written everything is readable; where it was lost, rows of another hash type are refused before they are decompressed |
| Network | `TypeOK`, `AnswerCorrect`, `PromiseSetOnce`, `NetworkInv`, `StopIsFinal`, `FirstReopenKeeps`, `FutureReady`, `SessionEnds` | a get and a request of another kind, with the server started, waited for, stopped, started again and destroyed, the connector destroyed, and the network or a start failing, at any moment: an answer belongs to its request and fits the values its key had, promises are set once, after stop no request changes the database but one that a thread in `wait` is at, the second open of the database (a stop and a start) loses nothing, futures become ready and sessions end |

The runs RemovedKey, SecondRestart, SegmentReuse, PathOrder and PartialSend end in a violation;
section 7 explains them.

## 4. Bounds, symmetry and view

* Two keys and two values: every property is about one key, another one to confuse it
  with, and an old and a new value. In TornLog the keys are 1 and 3 with
  `ByteWidths = {1, 2}`, so that the low bits of 3 name key 1.
* A row has 2 bytes, or 3 with a value; `MemTableLimit = 4` means that a snapshot holds one or
  two rows, and removes can pile up before one. `OffsetRange = 4` (8 in TornLog, whose rows are longer)
  is just enough for the offsets of such a segment. `FilterSize = NumHashes = 2` with the hash of
  MCStorageEngine makes one key a false positive of the other.
* `MaxOps = 5` (Concurrent) allows two snapshots after each other with the same key in both,
  and a tombstone on disk. `WalBuffer = 3` holds one row: a crash can lose one row, and
  what exceeds the buffer has been written.
* One reader: lookups change nothing but their own state, so two of them reach no
  combination of engine and lookup that one does not. The proofs are for any set of readers.
* `MaxSessions` is 2 or 3: enough to write, reopen, and reopen again. The file ids of
  Restarts have one digit; the run PathOrder has two.
* Values and readers are symmetric (no operator compares them but for equality). Liveness
  does without symmetry.
* `SessionView` leaves out the log, its buffer and `kvFlushed`: in one session without a crash
  nothing reads them.
* MemTable: three puts or removes over two memtables, on the keys 1, 2 and the key npos: two rows of one key and one
  of another, restored or not, every order of the addresses in a merge, and every order of the hints in an index. Rows come with and without a
  checksum. With `OffsetRange = 7` the runs meet the wrap-around, which `Addressable` excludes from
  `InsertedHintsRead`.
* Options: every pair of a codec and a hasher, three processes, two keys.
* Network: two clients on one key; one reads, the other sends everything else. Two gets
  do not disturb each other, and neither do two puts, which the engine's lock makes atomic. The value takes two units, the sockets
  four: a put fits exactly. One thread and a user in `wait`, so that two handlers can run at
  once; one stop by the user, and one failure of the network or of a start. The proofs are for any number of all of them.
* TornLog, Restarts, MemTable, Options, Network and the violation runs switch the deadlock check off: after the last process, or when
  both requests are over and the server is gone, the model stops. Concurrent and Liveness keep it on.

Variants that are not kept as runs of their own and can be had by changing constants:
* `Keys = {0}` in Restarts: an empty log is replayed as a row of key 0 (`MemTableIsNewest` fails);
  `Keys = {9}` = `{NPos}`: the row of key 2^64-1 is dropped when it is alone in its table
  (`FirstRestartServes`); `SplitWrites = TRUE`: the key whose row was torn.
* `EmptyValue` among `Values` under LZ4: get throws for a stored empty string.
* `OffsetRange = 3` in Concurrent: the hints of a segment beyond the range name other rows
  (`ReadYourWrites`).
* `BloomCoversIndex` under `Spec` with crashes: a crash between truncating and writing the filter's file. With
  `CanCrash = FALSE` in Restarts (and `MaxOps = 5`: a process can save two segments that the next one loads and writes over)
  it holds, and `pc` is never `"failed"`, as section 6 proves.
* `ServerBuffer = 3` in Network: the client reads garbage (`AnswerCorrect`).
* `FirstReopenKeeps` with `opens <= 3` in Network: a put, a stop and two starts, of which the first may fail (section 7).

## 5. Fairness

`FairSessionSpec` assumes
* weak fairness of the snapshot's steps: the thread that holds the exclusive lock waits
  for nobody;
* weak fairness of a lookup's steps that take no lock;
* strong fairness of `LookupIndex`: `std::shared_mutex` is a pthread rwlock with
  libstdc++ on Linux, and glibc's default prefers readers, so a waiting lookup
  gets the lock after finitely many releases.

Nothing is assumed of clients: writes and lookups need not happen. Since `MaxOps` bounds the
writes of a run, the strong form of fairness matters only for the unbounded system; what the run
tests is that no lookup and no snapshot can get stuck or go in circles.

`Networking!Spec` assumes weak fairness of the steps of every client session and server session
(the threads of the two io_services run what is ready) and of the life of the server (`Lifecycle`): the program
that builds a server starts it, a stop that was begun goes on when its threads have
finished, `wait` returns when the service is stopped, and a server that failed to start or was stopped is
destroyed in the end, whether it was started again or not. It is the destructor that closes the sockets:
between a stop and the destruction, clients wait on open connections that nobody serves. A server
that runs need never be stopped.

## 6. Proofs

All proofs hold for every set of keys, values and readers, and all bounds, sizes, filters and
limits within the named assumptions of the modules.

* **SSTableProofs** – facts about the operators. `IndexedRowIsRead`: for every table, reading
  the bytes that `SSTableIndex` names for a key in the file that `MemTable::dump` writes gives
  exactly that key's row. It rests on offsets that grow with the key (cardinality of the
  bytes before a row).
* **StorageEngineProofs** – `TypeCorrect : Spec => []TypeOK`, through any number of sessions
  and crashes. `TypeOK` is not inductive alone: `ClearMemTable` appends to `walFile`, which may
  be `NoFile` as far as the types say; `TypeInv` adds `LogIsOpen` (after `OpenLog` the file
  exists).
* **SessionProofs** – one session on an empty directory, from the hypothesis `Storable` (no
  client uses the key 2^64-1, none stores the empty string under LZ4, and the offsets of every table fit into 32 bits: `Addressable`): `SessionInvariant`,
  and from it `ReadYourWritesHolds`, `GetLinearizableHolds`, `HintStableHolds`,
  `BloomCoversIndexHolds`, the action property `SegmentsImmutableHolds` and the refinement
  `RefinesKVStore : SessionSpec => KV!Spec`.

`SessionInv` is the strengthening that makes the safety properties inductive:
* `IndexMatchesSegments`: every table index describes its segment file as it is and has a
  number below `segmentId`. With `SnapshotConsistent` (the number of the snapshot in progress is
  new) this is why no indexed file is written again.
* `SnapshotConsistent`: what `makeSnapshot` holds in its locals is the memtable before the
  clearing and the segment file after the dump; so when the index learns of the segment, the
  index is right.
* `FilterCovers`: the keys of the snapshot are in the filter before they are in the index; the
  lookup asks in the other order, so it cannot be told "no" for an indexed key.
* `kv = Contents`: the newest row is in exactly one of three places, depending on the phase.
  This is also the refinement mapping.
* `ReaderConsistent`: while a lookup is under way, the value that the index leads to (or that its
  hint leads to) is one the key had since the lookup began. It is what survives a snapshot
  between its steps: a new table changes the index's answer to the current value, which is in
  `seen` already.
* `OpeningEmpty`: the first open finds nothing.

The refinement says that, seen through `Contents`, a put or a remove is that of the map and
every other step is a stutter.

* **RecoveryProofs** – any number of processes on one directory, each of which stops or crashes anywhere:
  `OpenFailsOnlyTornHolds`, without hypotheses; `OnlyStoredValuesHolds`, when there is a checksum (`HashType`
  is not `NoHash`), torn logs and reused segment numbers included; `MemTableIsNewestHolds`, from the hypothesis
  `FaithfulLog` (no write of the log ends inside a row, no client uses the key 0, no empty string under LZ4).
  The variants in section 4 that violate `MemTableIsNewest` are the first two of these conditions dropped.
  `IndexHighestFirstHolds`, without hypotheses. And for processes that shut down in order (`~CanCrash`):
  `OpensAfterShutdown` (`open` never throws) and, when no client uses the key 0, `FilterSurvivesShutdown`.

`RecoveryInv` makes `MemTableIsNewest` inductive: the file of the log agrees with the history at its last flush,
and the rows in the buffer turn that history into the one of now, so that each prefix a crash can leave is a
history of its own (`AgreesConcat`). For `OpenFailsOnlyTorn`, `LoadInv` says that the list names no file still to be
read. For `OnlyStoredValues`, `HonestInv` says that every row in memory and on disk is a client's or has a
checksum that was never read: zero, which in the model no bytes hash to.

`OpensAfterShutdown` and `FilterSurvivesShutdown` rest on `ShutdownInv`. Its part `FilterInv` says in which order
`makeSnapshot` brings a key to its places: into the filter, into the filter's file, into the index file, into the list. What
is loaded next time is therefore covered in every phase but those in which the filter's file lies truncated, and these a
shutdown cannot meet (a crash can: section 7). The key 0 is the exception because an index file without entries, which
the process leaves that saved the row of npos alone, is read as one with the key 0.

`OrderInv` is why the index asks the highest segment first. The segments with an index file are all those below some
number (`FilesDense`: they are numbered from 0 in each process), and the part of them that `Index::load` has read, or all after
a snapshot, is in the list from the highest down (`ListMirrors`); a snapshot that uses a number again leaves its segment where it is in
the list, since `Index::update` refuses it. Without `FilesDense` a process could put a new segment 1 in front of a
segment 2 that it loaded, and an index file that a crash left empty, which is taken for that of segment 0, could come after others without
`open` noticing. Where the order of paths enters (`PathOrderOfDigits`), the recursive function `Digits` has to be known
for one digit: its equation has a solution, for two partial ones agree where both are defined (`DigitsAgree`) and the least
number without one would have one (`DigitsPartExists`).

* **FirstRestartProofs** – the first process and the one after it, from the hypothesis `Restartable` (`Storable`,
  and no client uses the key 0): `DamageIsLocalHolds`, for logs that end anywhere, with or without a checksum;
  `FirstRestartServesHolds`, when the log is written row by row; and `HintsUntilReuseHolds`. The variants of section 4 that violate
  `FirstRestartServes` are these hypotheses dropped.

None of them is inductive, since what the second process serves depends on what the first one left.
`RestartInv` has a part for each moment:
* while the first process lives, `SessionInv` and `FirstLog`: the log was truncated once, before any write, so its
  file tells the history up to the last flush and its buffer the rest, and every key that is in memory, in the snapshot under way
  or in an index file (`IndexLogged`) is a key of the log;
* when it has ended, `DirectoryLeft`: the file of the log tells the whole history that was promised, but for one key `d`, as
  which the cut row at its end is read; `d` is a client's key only under `SplitWrites`;
* while the second process lives and has taken no segment number, `SecondProcess`: each other key is `Served`, from the
  memtable when the log has it, and otherwise it has no value and no index file names it. What the first process left half
  written is never met, because whatever an index file leads to the memtable hides.

`HintsUntilReuse` needs the same moments for the files: the hints in the index files lead to whole rows, those of one key `d`
to rows of any key or to nothing (`FilesLead(d)`), because the index
file of a segment is opened after the segment file was closed (`FilesBehind`), so that a crash tears one of them at most and
never a segment that an index file knows, and what load makes of a torn index file gives one key the hint of
another or none (`IndexFileCut`, of StorageEngineProofs); the second process loads these hints (`ListLeads(d)`), and writes no file until it
takes a number (`HintInv`).

When a segment number is used again this ends, as the run SegmentReuse shows, and with it the promise (`BeforeReuse`).

* **MemTableProofs** – the memtable for any rows, any number of puts and any number of memtables on one log, without
  hypotheses: `MemTableTypes`, the refinement `NewestRowsImplemented : Spec => ImplementsNewestRows`,
  `SavedAsFoundHolds`, `LogCoversMapHolds`, `SizeCoversSegmentHolds`, `InsertedHintsReadHolds` and
  `MergeKeepsNewestHolds`.

The first three rest on the order of the map. `find` takes the first element that does not come before
the key; because the newest row of a key comes first, that is the newest element of the key, or one of
another key when the key is not there (`FindsNewest`, `FoundIsThere`), so an insertion under the next number
changes what is found under its own key only (`NewestInserted`). The loop that saves keeps an
element exactly when it is the newest of its key, for the element before it then has a smaller key, and an
element that is not has one of the same key before it (`KeptNewest`); the exception is npos (`KeptNPos`).
`LogCoversMap` is not inductive alone: `LogInvariant` adds that nothing is buffered without a log and that
nothing was put before a restore, so that each row goes to the end of what a restart would replay.
`SizeCovers`, which is inductive, is about what find finds instead of what is saved: an insertion makes it longer by
the row at most (`FileSizeInsert`), and what was restored by exactly the row (`FileSizeAppend`). For
`InsertedHintsRead`, the offsets that the loop adds up are those of the table (`KeptOffset`, a bijection between the
bytes of the elements kept and those of the file), and the list after n hints has one table more, of the n keys so
far (`BuiltStep`), which identifies the recursive function of `IndexByInsertion`; `IndexedRowIsRead` does the rest.

For `MergeKeepsNewest` a table is the list of its rows with rising keys, and there is one such list for it
(`RowListIs`, `AscendingIsRowList`). The loop of `std::merge` is a recursive function (`MergeLoop`) that
counts the rows taken from the left list. Wherever the rows lie it puts out the next row of one list (`MergedRow`) and
ends with all of both (`MergedAll`), and `std::unique` drops no key (`UniqueKeepsKeys`), so no key is lost. Where addresses rise
with the keys the comparison is one of keys (`TestByKey`): the keys put out do not fall (`MergedSorted`), the first row of
a key is the left one (`MergedFirst`), and `std::unique` leaves those (`UniqueOfSorted`). The step relation enters only
by `OwnKeys`, the strengthening that rows of the table saved last lie under their own keys (`StepOwnKeys`).

* **OptionsProofs** – for any options that programs pass to `open`: `OptionsTypes`, `ForeignHashRefusedHolds`, and
  `ReadableOnceSavedHolds`, the last from the hypothesis that no program uses LZ4 with the empty string. In
  `OptionsInv` options that were saved are those of every row and of every process, for nothing is put before
  the first process has saved its own.

* **NetworkingProofs** – client and server for any number of clients, requests, threads, failures and stops, and any
  sizes. Without further hypotheses: `NetworkTypes`, `PromiseSetOnceHolds` (a session that is not over has
  not set its promise, `PromisePending`), `PoolIdleHolds` and with it `StopIsFinalHolds`, and `FirstReopenKeepsHolds`. Under `AnswersFit`
  (every answer fits into the buffer of a socket; without it a client can read freed memory, and
  `AnswerCorrect` is false): `NetworkInvariant` and `AnswerCorrectHolds`.

`NetworkInv` is what makes `AnswerCorrect` inductive:
* `ServedOnce`: before its session answers, a request has changed nothing and nothing can be read from
  its connection; there is no way back to an earlier phase.
* `AnswerFits`: while a client waits, `seen` has the current value of its key; and from the moment its
  answer is sent, the answer fits what was applied and seen. Values that are seen later do no harm
  (`FitsGrows`).
* `SentWhole`: no rest of an answer is ever left to be sent. This is where `AnswersFit` enters.
* `PoolIdle`: no thread of `start` is in a handler before there are threads, after they were joined, or in a server that was
  stopped and started again. Requests change the database in handlers only, so after a stop it can only be the
  handler of a thread in `wait`; a start changes it by opening it, which executes no request (`OnlyHandlers`).

`FirstReopenKeeps` rests on `ReopenInv`: until the second open, whatever segments a put may have written agree with the map
on every key that has no row in the log (`LogOrSegments`), so log and segments give the map back. It holds after the first open because nothing
runs and nothing is logged before it (`Unopened`), and is lost with the second, which truncates a log that is not empty.

Every safety invariant and action property of the runs that pass is stated by a theorem, where needed under the
hypotheses named above. Only model-checked: liveness (the prover has no fairness), the runs that end in a violation
(section 7), and what the order of path names does to ids of two digits (`Digits` is recursive over its input).

## 7. Findings

Each is a run that ends in a violation of what the repository says; the quotations are in
`PROJECT.json`.

* **RemovedKey** – a remove of a key that has a row in a segment brings the old value back until
  the next snapshot: a tombstone in the memtable counts as a miss.
* **SecondRestart** – opening replays the log and truncates it; rows that were not saved in a
  segment are gone after the next restart.
* **SegmentReuse** – segment numbers start at 0 in every process: a snapshot overwrites a segment
  that the index names, and a key is answered with the row of another. In the run the first process saves key 2, and the second replays it,
  puts key 1 and saves both in segment 0: the old hint of 2 now leads to the row of 1, and the checksum lets it pass.
* **PathOrder** – index files are loaded in text order: with eleven segments, older values win after
  a reopen.
* **PartialSend** – a request larger than what the socket takes at once is sent in part; client and
  server wait for each other for ever.

Not kept as runs of their own:
* under LZ4 the empty string can be stored and not read;
* a crash while an index file is written, between a key and its hint, leaves a file from which the key is loaded with the
  hint of another key, and get answers it with the value of that key, whose checksum is good: after the next open but one,
  when no log hides it any more, or in the next process already when the newest row of the key is a tombstone in the memtable. `HintsUntilReuse` says what holds nevertheless;
* a crash while an index file is created leaves a directory that cannot be opened (that this is the
  only way to get there is `OpenFailsOnlyTorn`); one while the filter's file is written leaves a filter that denies
  indexed keys; one inside `saveOptions` leaves an empty `options.bin` that is never written again,
  so that each process uses the options of its program and refuses, or cannot decompress, the rows of others;
* answers larger than the socket's buffer are sent from freed memory;
* `Acceptor::stop` stores `false`, so the accept loop goes on until the service stops; a user's `stop` followed by
  the destructor joins the threads twice and ends the process; a server that is started again after a stop
  takes connections and serves none, and one that is started twice after it, or whose first such start failed late, has lost every row that no snapshot
  saved, as SecondRestart shows for processes (an open that finds an empty log also adds a row of key 0);
* `SSTable::merge` compares addresses: for rows whose addresses do not rise with the keys, the result is
  out of order and may hold two rows of a key (test/Test.cpp:357-379 allocates them in order).

The damaged filter and index files do not contradict `FirstRestartServes`. A log is never shortened while its process
runs, so in the second session the memtable still has every row of the first and hides the damage
of the files, but for the removed keys that `FirstRestartServes` excepts; once the next open has truncated the log it shows.

## 8. What is not shown

* A crash of the machine (as opposed to the process): the code never syncs, so nothing is promised.
* Failures of writes, full disks, concurrent processes on one directory: the code checks for none.
* Two `open` calls on one object other than by starts of a server, and calls before `open`. A start while the thread in `wait` is in a handler:
  `open` takes no lock, and what the handler finds is undefined. Networking leaves out key 0 and begins with an empty directory.
* Index files cut inside one of the four pieces of an entry: the library hands on writes whole, and it takes a short write of the kernel to cut one.
* Content lengths wider than 32 bits (`Request.cpp:14`): such a request is larger than any socket's
  buffer and ends as in PartialSend.
* A second `start` of a running server: assigning to a thread that runs calls `std::terminate`.
* `File`: one mapping that only a test uses. The programs, which parse arguments and print.
* What LZ4, snappy, CityHash and MurmurHash compute.

## 9. Plan

Done: rows, tables, index, filter, memtable, engine, recovery, options; client and server with the
server's life; the proofs of a session, of recovery, of the first restart, of the memtable, of options, and of
client and server.

Next: the options as variables of StorageEngine instead of a module of their own.
