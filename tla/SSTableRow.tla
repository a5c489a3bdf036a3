------------------------------ MODULE SSTableRow ------------------------------
(***************************************************************************)
(* Rows of the store and the conversions they go through: compression and   *)
(* checksum on the way in (StorageEngine::put), serialisation to a file,    *)
(* deserialisation of a whole, truncated or empty byte stream, checksum     *)
(* test and decompression on the way out (StorageEngine::get).              *)
(*                                                                         *)
(* A string of bytes is a pair <<encoding, value>>: the bytes that `value'  *)
(* becomes under that compression; the raw string itself under              *)
(* "NoCompression".  GarbageData stands for bytes that are no encoding of a *)
(* client's value.  Checksums are taken to be collision free.               *)
(***************************************************************************)
EXTENDS Integers

CONSTANTS
  Keys,            \* ids of the keys clients use
  NPos,            \* the largest key id, 2^64 - 1, which is std::string::npos
  ByteWidths,      \* 256^n for the n bytes of an id that a cut can leave, n < 8
  Values,          \* strings clients store
  EmptyValue,      \* the empty string "", a member of Values or not
  CompressionType, \* Options.compressionType
  HashType,        \* Options.hashType
  HeaderSize,      \* bytes of a row besides its data (35 in the code)
  ValueSize        \* bytes of a compressed value

ASSUME CodecAssumption ==
  /\ CompressionType \in {"NoCompression", "Snappy", "LZ4"}
  /\ HashType \in {"NoHash", "CityHash128", "MurmurHash3"}

ASSUME KeysAssumption == NPos \in Nat /\ Keys \subseteq 0 .. NPos

ASSUME WidthsAssumption == 1 \in ByteWidths /\ ByteWidths \subseteq Nat \ {0}

ASSUME SizesAssumption == HeaderSize \in Nat \ {0} /\ ValueSize \in Nat \ {0}

\* Key ids a row can carry.
KeyIds == 0 .. NPos

EntryTypes == {"Put", "Remove"}

\* The raw empty string, and bytes that encode no value.
EmptyData == <<"NoCompression", EmptyValue>>
GarbageData == <<"garbage">>

Data == ({CompressionType, "NoCompression"} \X (Values \cup {EmptyValue})) \cup {GarbageData}

ZeroSum == <<"zero">>

\* A checksum that no hasher gives.
GarbageSum == <<"garbage sum">>

Checksums == {ZeroSum, GarbageSum} \cup {<<HashType, d>> : d \in Data}

Row == [key : KeyIds, type : EntryTypes, data : Data, checksum : Checksums]

\* What StorageEngine::get can deliver: a value, or one of these.
NotFound == "NotFound"
Error == "Error"                 \* an exception left get
GarbageValue == "GarbageValue"   \* bytes nobody stored
Results == Values \cup {EmptyValue, NotFound, Error, GarbageValue}

-----------------------------------------------------------------------------
(* Compression and hashing                                                 *)

Compress(v) == <<CompressionType, v>>

\* Bytes that the codec in use did not make: NoCompression hands them on, LZ4's
\* adapter throws, snappy's failure is ignored and leaves the caller's bytes.
UncompressGarbage == IF CompressionType = "LZ4" THEN Error ELSE GarbageValue

\* LZ4_decompress_safe returns 0 for an empty value, which the adapter takes for
\* a failure.
Uncompress(d) ==
  IF d[1] # CompressionType THEN UncompressGarbage
  ELSE IF CompressionType = "LZ4" /\ d[2] = EmptyValue THEN Error
  ELSE d[2]

\* createHasher.  No two hashers give the same checksum.
Hash(d) == IF HashType = "NoHash" THEN ZeroSum ELSE <<HashType, d>>

-----------------------------------------------------------------------------
(* Rows                                                                    *)

PutRow(k, v) ==
  [key |-> k, type |-> "Put", data |-> Compress(v), checksum |-> Hash(Compress(v))]

RemoveRow(k) ==
  [key |-> k, type |-> "Remove", data |-> EmptyData, checksum |-> ZeroSum]

\* The rows that clients' operations make.
ClientRows == {PutRow(k, v) : k \in Keys, v \in Values} \cup {RemoveRow(k) : k \in Keys}

RowSize(row) == HeaderSize + (IF row.data = EmptyData THEN 0 ELSE ValueSize)

\* Mutant of Decode: the checksum is not compared.
DecodeUnchecked(row) == Uncompress(row.data)

\* What get returns once a row that is no tombstone has been found.
Decode(row) == IF Hash(row.data) # row.checksum THEN Error ELSE Uncompress(row.data)

-----------------------------------------------------------------------------
(* deserialize                                                             *)

\* From an empty stream: the key keeps its default, nothing is read, and the
\* entry type is an uninitialised byte (whatever is not Remove acts as Put).
RowsFromNothing ==
  {[key |-> 0, type |-> t, data |-> EmptyData, checksum |-> ZeroSum] : t \in EntryTypes}

\* The id that the first bytes of a key's id give: its low bytes, none of them
\* leaving the default 0.
CutIds(k) == {id \in KeyIds : \E w \in ByteWidths : id = k % w}

\* From a stream that ends inside the row: before or inside the key, before or
\* inside the value, or inside the checksum, whose first bytes count as none: they are
\* no more a hash than zero is.
RowsFromCut(row) ==
  {[row EXCEPT !.key = id, !.data = EmptyData, !.checksum = ZeroSum] : id \in CutIds(row.key)}
    \cup {[row EXCEPT !.data = d, !.checksum = ZeroSum] : d \in {EmptyData, GarbageData, row.data}}

\* From bytes that are not the start of a row: any key, any type, and a checksum that
\* is zero or that of nothing.  When the number of bytes is too large for resize, the
\* exception leaves get as that of a wrong checksum does; a size of the key beyond eight
\* writes over the stack, which at worst ends the process.
RowsFromGarbage ==
  [key : KeyIds, type : EntryTypes, data : {GarbageData}, checksum : {ZeroSum, GarbageSum}]
=============================================================================
