----------------------------- MODULE OptionsProofs -----------------------------
(***************************************************************************)
(* Options on disk, for any options that programs pass to open: which rows  *)
(* a process can read that others have written.                             *)
(***************************************************************************)
EXTENDS Options, TLAPS

-----------------------------------------------------------------------------
(* Codecs and hashers                                                      *)

\* The options o and a string that they can store and give back.
Decodable(o, v) == o.compressionType = "LZ4" => v # EmptyValue

\* A row is read as it was written when the options are the same.
LEMMA SameOptionsRead ==
  ASSUME NEW o \in OptionsRecord, NEW k, NEW v, Decodable(o, v)
  PROVE  Codec(o)!Decode(Codec(o)!PutRow(k, v)) = v
<1> DEFINE row == Codec(o)!PutRow(k, v)
<1>1. row.data = <<o.compressionType, v>> /\ row.checksum = Codec(o)!Hash(<<o.compressionType, v>>)
  BY DEF Codec!PutRow, Codec!Compress
<1>2. Codec(o)!Uncompress(<<o.compressionType, v>>) = v
  BY DEF Codec!Uncompress, Decodable
<1> HIDE DEF row
<1> QED
  BY <1>1, <1>2 DEF Codec!Decode, row

\* A row that another hasher has gone over is refused, whatever the codec.
LEMMA OtherHasherRefuses ==
  ASSUME NEW o \in OptionsRecord, NEW p \in OptionsRecord, o.hashType # p.hashType, NEW k, NEW v
  PROVE  Codec(p)!Decode(Codec(o)!PutRow(k, v)) = "Error"
<1> DEFINE row == Codec(o)!PutRow(k, v)
           d   == <<o.compressionType, v>>
<1>1. row.data = d /\ row.checksum = Codec(o)!Hash(d)
  BY DEF Codec!PutRow, Codec!Compress
<1> HIDE DEF row, d
<1>2. Codec(o)!Hash(d) = IF o.hashType = "NoHash" THEN <<"zero">> ELSE <<o.hashType, d>>
  BY DEF Codec!Hash, Codec!ZeroSum
<1>3. Codec(p)!Hash(d) = IF p.hashType = "NoHash" THEN <<"zero">> ELSE <<p.hashType, d>>
  BY DEF Codec!Hash, Codec!ZeroSum
<1>4. Codec(p)!Hash(d) # Codec(o)!Hash(d)
  BY <1>2, <1>3
<1>5. Codec(p)!Decode(row) = IF Codec(p)!Hash(row.data) # row.checksum THEN "Error" ELSE Codec(p)!Uncompress(row.data)
  BY DEF Codec!Decode, Codec!Error
<1> QED
  BY <1>1, <1>4, <1>5 DEF row

-----------------------------------------------------------------------------
(* The invariant                                                           *)

\* The row of key k was put with the options o.
PutWith(o, k) == kv[k] \in Values /\ hashed[k] = o.hashType /\ rows[k] = Codec(o)!PutRow(k, kv[k])

\* Before the options are saved nothing is put.  Options that were saved are those
\* of every row and of every process that has the database open.
OptionsInv ==
  /\ pc \in {"closed", "saving", "open"}
  /\ opts \in CallerOptions
  /\ optionsFile \in CallerOptions \cup {NoFile, EmptyFile}
  /\ DOMAIN rows = Keys /\ DOMAIN kv = Keys /\ DOMAIN hashed = Keys
  /\ session \in 0 .. MaxSessions
  /\ puts \in 0 .. MaxPuts
  /\ (session = 0) <=> (optionsFile = NoFile)
  /\ \A k \in Keys : rows[k] # NoRow => \E o \in CallerOptions : PutWith(o, k)
  /\ optionsFile = NoFile => pc = "closed"
  /\ pc = "saving" => optionsFile = EmptyFile
  /\ optionsFile = NoFile \/ pc = "saving" => \A k \in Keys : rows[k] = NoRow
  /\ optionsFile \in CallerOptions =>
       /\ pc = "open" => opts = optionsFile
       /\ \A k \in Keys : rows[k] # NoRow => PutWith(optionsFile, k)

\* The options of a program are no state of the file.
LEMMA CallersAreRecords ==
  CallerOptions \subseteq OptionsRecord /\ NoFile \notin CallerOptions /\ EmptyFile \notin CallerOptions
  /\ NoFile # EmptyFile /\ MaxSessions \in Nat /\ MaxPuts \in Nat
BY OptionsAssumption

LEMMA OptionsPut ==
  ASSUME OptionsInv, NEW k \in Keys, NEW v \in Values, Put(k, v)
  PROVE  OptionsInv'
<1>1. /\ pc = "open" /\ puts < MaxPuts /\ puts' = puts + 1
      /\ rows' = [rows EXCEPT ![k] = Codec(opts)!PutRow(k, v)]
      /\ kv' = [kv EXCEPT ![k] = v] /\ hashed' = [hashed EXCEPT ![k] = opts.hashType]
      /\ UNCHANGED <<pc, opts, optionsFile, session>>
  BY DEF Put
<1>2. rows'[k] = Codec(opts)!PutRow(k, kv'[k]) /\ kv'[k] = v /\ hashed'[k] = opts.hashType
  BY <1>1 DEF OptionsInv
<1>3. \A j \in Keys \ {k} : rows'[j] = rows[j] /\ kv'[j] = kv[j] /\ hashed'[j] = hashed[j]
  BY <1>1 DEF OptionsInv
<1>4. DOMAIN rows' = Keys /\ DOMAIN kv' = Keys /\ DOMAIN hashed' = Keys
  BY <1>1 DEF OptionsInv
<1>5. ASSUME NEW j \in Keys, rows'[j] # NoRow PROVE \E o \in CallerOptions : PutWith(o, j)'
  <2>1. CASE j = k
    BY <1>1, <1>2, <2>1 DEF OptionsInv, PutWith
  <2>2. CASE j # k
    BY <1>3, <1>5, <2>2 DEF OptionsInv, PutWith
  <2> QED
    BY <2>1, <2>2
<1>6. ASSUME optionsFile \in CallerOptions, NEW j \in Keys, rows'[j] # NoRow PROVE PutWith(optionsFile, j)'
  <2>1. opts = optionsFile /\ optionsFile' = optionsFile
    BY <1>1, <1>6 DEF OptionsInv
  <2>2. CASE j = k
    BY <1>2, <2>1, <2>2 DEF PutWith
  <2>3. CASE j # k
    BY <1>3, <1>6, <2>1, <2>3 DEF OptionsInv, PutWith
  <2> QED
    BY <2>2, <2>3
<1>7. puts' \in 0 .. MaxPuts
  BY <1>1, CallersAreRecords DEF OptionsInv
<1> QED
  BY <1>1, <1>4, <1>5, <1>6, <1>7 DEF OptionsInv

\* Every step keeps the invariant.
LEMMA OptionsStep ==
  ASSUME OptionsInv, [Next]_vars
  PROVE  OptionsInv'
<1>0. session \in 0 .. MaxSessions /\ MaxSessions \in Nat
  BY CallersAreRecords DEF OptionsInv
<1>1. ASSUME NEW given \in CallerOptions, OpenSave(given) PROVE OptionsInv'
  <2>1. session' \in 0 .. MaxSessions /\ session' # 0
    BY <1>0, <1>1 DEF OpenSave
  <2> QED
    BY <1>1, <2>1, CallersAreRecords DEF OpenSave, OptionsInv, PutWith
<1>2. ASSUME NEW given \in CallerOptions, OpenLoad(given) PROVE OptionsInv'
  <2>1. session' \in 0 .. MaxSessions /\ session' # 0
    BY <1>0, <1>2 DEF OpenLoad
  <2>2. opts' \in CallerOptions /\ (optionsFile \in CallerOptions => opts' = optionsFile)
    BY <1>2, CallersAreRecords DEF OpenLoad, LoadOptions, OptionsInv
  <2> QED
    BY <1>2, <2>1, <2>2, CallersAreRecords DEF OpenLoad, OptionsInv, PutWith
<1>3. CASE SaveOptions
  BY <1>3, CallersAreRecords DEF SaveOptions, OptionsInv, PutWith
<1>4. ASSUME NEW k \in Keys, NEW v \in Values, Put(k, v) PROVE OptionsInv'
  BY <1>4, OptionsPut
<1>5. CASE End
  BY <1>5 DEF End, OptionsInv, PutWith
<1>6. CASE UNCHANGED vars
  BY <1>6 DEF vars, OptionsInv, PutWith
<1> QED
  BY <1>1, <1>2, <1>3, <1>4, <1>5, <1>6 DEF Next, Open

\* What holds in all runs.
LEMMA OptionsAlways == Spec => []OptionsInv
<1>1. Init => OptionsInv
  BY CallersAreRecords DEF Init, OptionsInv
<1>2. OptionsInv /\ [Next]_vars => OptionsInv'
  BY OptionsStep
<1> QED
  BY <1>1, <1>2, PTL DEF Spec

-----------------------------------------------------------------------------
(* Theorems                                                                *)

\* The variables hold what saveOptions, loadOptions and put can leave there: rows
\* made by the codec and the hasher of some program's options.
THEOREM OptionsTypes == Spec => []TypeOK
<1>1. OptionsInv => TypeOK
  BY DEF OptionsInv, TypeOK, PutWith
<1> QED
  BY <1>1, OptionsAlways, PTL

\* Once options.bin is written, a process that passes other options to open reads
\* what any process wrote: loadOptions puts those of the file in their place.  LZ4's
\* adapter does not give the empty string back.
THEOREM ReadableOnceSavedHolds ==
  ASSUME \A o \in CallerOptions : o.compressionType = "LZ4" => EmptyValue \notin Values
  PROVE  Spec => []ReadableOnceSaved
<1>1. ASSUME OptionsInv, pc = "open", optionsFile # EmptyFile, NEW k \in Keys, rows[k] # NoRow
      PROVE  Get(k) = kv[k]
  <2>1. optionsFile \in CallerOptions /\ opts = optionsFile /\ PutWith(optionsFile, k)
    BY <1>1 DEF OptionsInv
  <2>2. Decodable(opts, kv[k]) /\ opts \in OptionsRecord
    BY <2>1, CallersAreRecords DEF Decodable, PutWith
  <2>3. rows[k] = Codec(opts)!PutRow(k, kv[k])
    BY <2>1 DEF PutWith
  <2> QED
    BY <2>2, <2>3, SameOptionsRead DEF Get
<1>2. OptionsInv => ReadableOnceSaved
  BY <1>1 DEF ReadableOnceSaved
<1> QED
  BY <1>2, OptionsAlways, PTL

\* Where a crash inside saveOptions has lost the options, a row of another hash type
\* is refused: the checksum is compared before the codec sees the bytes.
THEOREM ForeignHashRefusedHolds == Spec => []ForeignHashRefused
<1>1. ASSUME OptionsInv, NEW k \in Keys, rows[k] # NoRow, hashed[k] # opts.hashType
      PROVE  Get(k) = "Error"
  <2>1. PICK o \in CallerOptions : PutWith(o, k)
    BY <1>1 DEF OptionsInv
  <2>2. o \in OptionsRecord /\ opts \in OptionsRecord
    BY <1>1, CallersAreRecords DEF OptionsInv
  <2> QED
    BY <1>1, <2>1, <2>2, OtherHasherRefuses DEF Get, PutWith
<1>2. OptionsInv => ForeignHashRefused
  BY <1>1 DEF ForeignHashRefused
<1> QED
  BY <1>2, OptionsAlways, PTL
=============================================================================
