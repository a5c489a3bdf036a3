------------------------------- MODULE Options -------------------------------
(***************************************************************************)
(* The options of a database: saveOptions and loadOptions in                *)
(* StorageEngine::open, the codec and the hasher chosen by them, and rows   *)
(* that one process has written and another one reads.                      *)
(*                                                                         *)
(* Rows stay where they are for good here; what restarts do to memtable,    *)
(* log and segments is the subject of StorageEngine.                        *)
(***************************************************************************)
EXTENDS Integers

CONSTANTS
  Keys, NPos, ByteWidths, Values, EmptyValue, HeaderSize, ValueSize,   \* see SSTableRow
  CallerOptions,   \* what programs pass to Database::open
  NoFile,          \* there is no options.bin
  EmptyFile,       \* options.bin was created and not written
  NoRow,           \* a key that was not put
  MaxSessions,     \* bound: how often the database is opened
  MaxPuts          \* bound: puts in all

CompressionTypes == {"NoCompression", "Snappy", "LZ4"}
HashTypes        == {"NoHash", "CityHash128", "MurmurHash3"}

\* struct Options; the WAL buffer's size goes the way of the limit.
OptionsRecord ==
  [maxMemTableSize : Nat, compressionType : CompressionTypes, hashType : HashTypes]

ASSUME OptionsAssumption ==
  /\ CallerOptions \subseteq OptionsRecord
  /\ {NoFile, EmptyFile} \cap OptionsRecord = {}
  /\ NoFile # EmptyFile
  /\ MaxSessions \in Nat /\ MaxPuts \in Nat

VARIABLES
  pc,           \* "closed", "saving" (inside saveOptions) or "open"
  opts,         \* m_opts
  optionsFile,  \* options.bin
  rows,         \* the row that was put last for each key
  \* history
  kv,           \* the value of each key
  hashed,       \* the hash type each row was put with
  session,      \* number of times the database was opened
  puts          \* number of puts

vars == <<pc, opts, optionsFile, rows, kv, hashed, session, puts>>

\* Rows under the codec and the hasher that the options o choose: createCompressor
\* and createHasher.
Codec(o) == INSTANCE SSTableRow WITH CompressionType <- o.compressionType, HashType <- o.hashType

\* Mutant of LoadOptions: the hash type is not read back.
LoadOptionsNoHash(given) ==
  IF optionsFile = EmptyFile THEN given ELSE [optionsFile EXCEPT !.hashType = given.hashType]

\* loadOptions into m_opts, which holds the caller's options before: reads from an
\* empty file fail and leave the fields as they are.
LoadOptions(given) == IF optionsFile = EmptyFile THEN given ELSE optionsFile

-----------------------------------------------------------------------------
\* Mutant of OpenSave: the file comes into being with the first write.
OpenSaveUncreated(given) ==
  /\ pc = "closed"
  /\ session < MaxSessions
  /\ optionsFile = NoFile
  /\ opts' = given
  /\ pc' = "saving"
  /\ session' = session + 1
  /\ UNCHANGED <<optionsFile, rows, kv, hashed, puts>>

\* open on a directory without options.bin: saveOptions creates the file.
OpenSave(given) ==
  /\ pc = "closed"
  /\ session < MaxSessions
  /\ optionsFile = NoFile
  /\ opts' = given
  /\ optionsFile' = EmptyFile
  /\ pc' = "saving"
  /\ session' = session + 1
  /\ UNCHANGED <<rows, kv, hashed, puts>>

\* The flush of saveOptions, which writes the few bytes at once.
SaveOptions ==
  /\ pc = "saving"
  /\ optionsFile' = opts
  /\ pc' = "open"
  /\ UNCHANGED <<opts, rows, kv, hashed, session, puts>>

\* open on a directory with options.bin.
OpenLoad(given) ==
  /\ pc = "closed"
  /\ session < MaxSessions
  /\ optionsFile # NoFile
  /\ opts' = LoadOptions(given)
  /\ pc' = "open"
  /\ session' = session + 1
  /\ UNCHANGED <<optionsFile, rows, kv, hashed, puts>>

\* StorageEngine::put compresses and hashes with the options in use.
Put(k, v) ==
  /\ pc = "open"
  /\ puts < MaxPuts
  /\ rows' = [rows EXCEPT ![k] = Codec(opts)!PutRow(k, v)]
  /\ kv' = [kv EXCEPT ![k] = v]
  /\ hashed' = [hashed EXCEPT ![k] = opts.hashType]
  /\ puts' = puts + 1
  /\ UNCHANGED <<pc, opts, optionsFile, session>>

\* The process shuts down, or dies at any moment.
End ==
  /\ pc # "closed"
  /\ pc' = "closed"
  /\ UNCHANGED <<opts, optionsFile, rows, kv, hashed, session, puts>>

Init ==
  /\ pc = "closed"
  /\ opts \in CallerOptions
  /\ optionsFile = NoFile
  /\ rows = [k \in Keys |-> NoRow]
  /\ kv = [k \in Keys |-> NoRow]
  /\ hashed = [k \in Keys |-> "NoHash"]
  /\ session = 0
  /\ puts = 0

Open == \E given \in CallerOptions : OpenSave(given) \/ OpenLoad(given)

Next ==
  \/ Open
  \/ SaveOptions
  \/ \E k \in Keys, v \in Values : Put(k, v)
  \/ End

Spec == Init /\ [][Next]_vars

-----------------------------------------------------------------------------
(* Properties                                                              *)

\* The variables hold what the code can put there; an empty file is one that a
\* process is about to write or died before writing.
TypeOK ==
  /\ pc \in {"closed", "saving", "open"}
  /\ opts \in CallerOptions
  /\ optionsFile \in CallerOptions \cup {NoFile, EmptyFile}
  /\ \A k \in Keys : rows[k] # NoRow =>
       \E o \in CallerOptions : o.hashType = hashed[k] /\ rows[k] = Codec(o)!PutRow(k, kv[k])
  /\ session \in 0 .. MaxSessions
  /\ puts \in 0 .. MaxPuts
  /\ (session = 0) = (optionsFile = NoFile)

\* StorageEngine::get for a key that was put.
Get(k) == Codec(opts)!Decode(rows[k])

\* Once the options are on disk, every process reads what any process wrote,
\* whatever options its program passes to open.
ReadableOnceSaved ==
  pc = "open" /\ optionsFile # EmptyFile =>
    \A k \in Keys : rows[k] # NoRow => Get(k) = kv[k]

\* Where the options are lost, rows of another hash type are refused and never
\* handed out, under any codec: the checksum stands before the decompression.
ForeignHashRefused ==
  pc = "open" => \A k \in Keys : rows[k] # NoRow /\ hashed[k] # opts.hashType => Get(k) = "Error"
=============================================================================
