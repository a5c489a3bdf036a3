---------------------------- MODULE SSTableProofs ----------------------------
(***************************************************************************)
(* Facts about rows, tables, their files and the index that hold for every  *)
(* value of the constants.                                                  *)
(***************************************************************************)
EXTENDS Index, BloomFilter, FiniteSetTheorems, SequenceTheorems, WellFoundedInduction, TLAPS

-----------------------------------------------------------------------------
(* Numbers                                                                 *)

\* A set of naturals that is not empty has a least element.
LEMMA LeastNatural ==
  ASSUME NEW S, S \subseteq Nat, S # {}
  PROVE  \E n \in S : \A m \in S : n <= m
<1>1. PICK n \in S : \A m \in S : ~(<<m, n>> \in OpToRel(<, Nat))
  BY NatLessThanWellFounded, WFMin
<1>2. \A m \in S : ~(m < n)
  BY <1>1 DEF OpToRel
<1> QED
  BY <1>2

\* A set of naturals that is not empty and bounded has a greatest element.
LEMMA GreatestNatural ==
  ASSUME NEW S, S \subseteq Nat, S # {}, NEW b \in Nat, \A m \in S : m <= b
  PROVE  \E n \in S : \A m \in S : m <= n
<1> DEFINE U == {u \in Nat : \A m \in S : m <= u}
<1>1. PICK u \in U : \A w \in U : u <= w
  <2>1. U \subseteq Nat /\ b \in U
    OBVIOUS
  <2> HIDE DEF U
  <2> QED
    BY <2>1, LeastNatural
<1>2. u \in S
  <2>1. SUFFICES ASSUME u \notin S PROVE FALSE
    OBVIOUS
  <2>2. PICK m \in S : TRUE
    OBVIOUS
  <2>3. m <= u /\ m # u
    BY <1>1, <2>1, <2>2
  <2>4. u - 1 \in Nat
    BY <2>2, <2>3
  <2>5. \A x \in S : x <= u - 1
    BY <1>1, <2>1
  <2> QED
    BY <1>1, <2>4, <2>5
<1> QED
  BY <1>1, <1>2

-----------------------------------------------------------------------------
(* Rows                                                                    *)

\* A row takes between one byte and the most that a table's file allows.
LEMMA RowSizeType ==
  ASSUME NEW row
  PROVE  RowSize(row) \in 1 .. HeaderSize + ValueSize
BY SizesAssumption DEF RowSize

LEMMA HashInChecksums ==
  ASSUME NEW d \in Data
  PROVE  Hash(d) \in Checksums
BY DEF Hash, Checksums

LEMMA PutRowType ==
  ASSUME NEW k \in Keys, NEW v \in Values
  PROVE  /\ PutRow(k, v) \in Row
         /\ PutRow(k, v).key = k
         /\ PutRow(k, v).type = "Put"
         /\ PutRow(k, v).data = <<CompressionType, v>>
<1>1. <<CompressionType, v>> \in Data
  BY DEF Data
<1>2. Hash(<<CompressionType, v>>) \in Checksums
  BY <1>1, HashInChecksums
<1> QED
  BY <1>1, <1>2, KeysAssumption DEF PutRow, Compress, Row, KeyIds, EntryTypes

LEMMA RemoveRowType ==
  ASSUME NEW k \in KeyIds
  PROVE  /\ RemoveRow(k) \in Row
         /\ RemoveRow(k).key = k
         /\ RemoveRow(k).type = "Remove"
BY DEF RemoveRow, Row, EntryTypes, EmptyData, Data, Checksums

\* What get makes of a row is one of its results.
LEMMA RowResultType ==
  ASSUME NEW row \in Row
  PROVE  Decode(row) \in Results
<1>1. row.data \in Data
  BY DEF Row
<1>2. row.data[1] # CompressionType \/ row.data[2] \in Values \cup {EmptyValue}
  <2>1. CASE row.data = GarbageData
    BY <2>1, CodecAssumption DEF GarbageData
  <2>2. CASE row.data # GarbageData
    BY <2>2, <1>1 DEF Data
  <2> QED
    BY <2>1, <2>2
<1>3. Uncompress(row.data) \in Results
  BY <1>2 DEF Uncompress, UncompressGarbage, Results
<1> QED
  BY <1>3 DEF Decode, Results

\* Reading back what was put gives the value, unless the value is the empty
\* string and LZ4 is in use.
LEMMA PutRowDecodes ==
  ASSUME NEW k \in Keys, NEW v \in Values, CompressionType = "LZ4" => v # EmptyValue
  PROVE  Decode(PutRow(k, v)) = v
<1> DEFINE d == <<CompressionType, v>>
<1>1. d # GarbageData
  BY DEF GarbageData
<1>2. CompressionType = "LZ4" => d # EmptyData
  BY DEF EmptyData
<1>3. Uncompress(d) = v
  BY <1>1, <1>2 DEF Uncompress
<1>4. PutRow(k, v).data = d /\ PutRow(k, v).checksum = Hash(d)
  BY DEF PutRow, Compress
<1> HIDE DEF d
<1> QED
  BY <1>3, <1>4 DEF Decode

-----------------------------------------------------------------------------
(* Tables and their files                                                  *)

\* Finitely many rows take finitely many bytes.
LEMMA BytesOfFinite ==
  ASSUME NEW t, NEW ks, IsFiniteSet(ks)
  PROVE  IsFiniteSet(Bytes(t, ks)) /\ Cardinality(Bytes(t, ks)) \in Nat
<1>1. IsFiniteSet(1 .. HeaderSize + ValueSize)
  BY SizesAssumption, FS_Interval
<1>2. IsFiniteSet(ks \X (1 .. HeaderSize + ValueSize))
  BY <1>1, FS_Product
<1>3. Bytes(t, ks) \in SUBSET (ks \X (1 .. HeaderSize + ValueSize))
  BY DEF Bytes
<1>4. IsFiniteSet(Bytes(t, ks))
  BY <1>2, <1>3, FS_Subset
<1> QED
  BY <1>4, FS_CardinalityType

\* The rows of a set of keys take finitely many bytes.
LEMMA BytesFinite ==
  ASSUME NEW t, NEW ks, ks \subseteq KeyIds
  PROVE  IsFiniteSet(Bytes(t, ks)) /\ Cardinality(Bytes(t, ks)) \in Nat
<1>1. IsFiniteSet(KeyIds)
  BY KeysAssumption, FS_Interval DEF KeyIds
<1>2. IsFiniteSet(ks)
  BY <1>1, FS_Subset
<1> QED
  BY <1>2, BytesOfFinite

\* One row more makes a file longer by the size of the row.
LEMMA BytesOneMore ==
  ASSUME NEW t, NEW u, NEW ks, IsFiniteSet(ks), NEW k, k \notin ks, \A j \in ks : RowSize(u[j]) = RowSize(t[j])
  PROVE  Cardinality(Bytes(u, ks \cup {k})) = Cardinality(Bytes(t, ks)) + RowSize(u[k])
<1> DEFINE n == RowSize(u[k])
           A == Bytes(t, ks)
           B == {k} \X (1 .. n)
<1>1. n \in 1 .. HeaderSize + ValueSize /\ n \in Nat
  BY RowSizeType, SizesAssumption
<1>2. Bytes(u, ks \cup {k}) = A \cup B
  <2>1. ASSUME NEW b \in Bytes(u, ks \cup {k}) PROVE b \in A \cup B
    <3>1. b \in (ks \cup {k}) \X (1 .. HeaderSize + ValueSize) /\ b[2] <= RowSize(u[b[1]])
      BY <2>1 DEF Bytes
    <3>2. CASE b[1] \in ks
      BY <3>1, <3>2 DEF Bytes
    <3>3. CASE b[1] \notin ks
      BY <1>1, <3>1, <3>3
    <3> QED
      BY <3>2, <3>3
  <2>2. ASSUME NEW b \in A PROVE b \in Bytes(u, ks \cup {k})
    <3>1. b \in ks \X (1 .. HeaderSize + ValueSize) /\ b[2] <= RowSize(t[b[1]])
      BY <2>2 DEF Bytes
    <3>2. b[1] \in ks /\ RowSize(u[b[1]]) = RowSize(t[b[1]])
      BY <3>1
    <3> QED
      BY <3>1, <3>2 DEF Bytes
  <2>3. ASSUME NEW b \in B PROVE b \in Bytes(u, ks \cup {k})
    <3>1. b[1] = k /\ b[2] \in 1 .. n /\ b[2] \in 1 .. HeaderSize + ValueSize /\ b = <<b[1], b[2]>>
      BY <1>1, SizesAssumption
    <3> QED
      BY <3>1, <1>1 DEF Bytes
  <2> HIDE DEF A, B
  <2> QED
    BY <2>1, <2>2, <2>3
<1>3. IsFiniteSet(A) /\ Cardinality(A) \in Nat
  BY BytesOfFinite
<1>4. IsFiniteSet(B) /\ Cardinality(B) = n
  <2>1. IsFiniteSet(1 .. n) /\ Cardinality(1 .. n) = n
    <3>1. IsFiniteSet(1 .. n) /\ Cardinality(1 .. n) = IF 1 > n THEN 0 ELSE n - 1 + 1
      BY <1>1, FS_Interval
    <3> QED
      BY <1>1, <3>1
  <2>2. IsFiniteSet({k}) /\ Cardinality({k}) = 1
    BY FS_Singleton
  <2> DEFINE K == {k}
             I == 1 .. n
  <2>3. IsFiniteSet(K) /\ IsFiniteSet(I) /\ Cardinality(K) = 1 /\ Cardinality(I) = n
    BY <2>1, <2>2
  <2>4. B = K \X I
    OBVIOUS
  <2> HIDE DEF K, I, B, n
  <2>5. IsFiniteSet(K \X I) /\ Cardinality(K \X I) = Cardinality(K) * Cardinality(I)
    BY ONLY <2>3, FS_Product
  <2> QED
    BY ONLY <1>1, <2>3, <2>4, <2>5
<1>5. A \cap B = {}
  BY DEF Bytes
<1> HIDE DEF A, B, n
<1>6. Cardinality(A \cup B) = Cardinality(A) + Cardinality(B)
  <2>1. Cardinality(A \cup B) = Cardinality(A) + Cardinality(B) - Cardinality(A \cap B)
    BY <1>3, <1>4, FS_Union
  <2>2. Cardinality(A \cap B) = 0
    BY <1>5, FS_EmptySet
  <2> QED
    BY <1>1, <1>3, <1>4, <2>1, <2>2
<1> QED
  BY <1>2, <1>4, <1>6 DEF A, n

\* Leaving out a row makes a file shorter.
LEMMA BytesGrow ==
  ASSUME NEW t, NEW ks, ks \subseteq KeyIds, NEW js, js \subseteq ks, NEW k \in ks \ js
  PROVE  Cardinality(Bytes(t, js)) < Cardinality(Bytes(t, ks))
<1>1. Bytes(t, js) \in SUBSET Bytes(t, ks)
  BY DEF Bytes
<1>2. RowSize(t[k]) \in 1 .. HeaderSize + ValueSize
  BY RowSizeType
<1>3. <<k, 1>> \in Bytes(t, ks) /\ <<k, 1>> \notin Bytes(t, js)
  BY <1>2, SizesAssumption DEF Bytes
<1>4. IsFiniteSet(Bytes(t, ks)) /\ Cardinality(Bytes(t, ks)) \in Nat /\ Cardinality(Bytes(t, js)) \in Nat
  BY BytesFinite
<1>5. Cardinality(Bytes(t, js)) <= Cardinality(Bytes(t, ks))
  BY <1>1, <1>4, FS_Subset
<1>6. Cardinality(Bytes(t, ks)) # Cardinality(Bytes(t, js))
  BY <1>1, <1>3, <1>4, FS_Subset
<1> QED
  BY <1>4, <1>5, <1>6

LEMMA KeyIdsNat ==
  ASSUME NEW ks, ks \subseteq KeyIds
  PROVE  \A k \in ks : k \in Nat
BY KeysAssumption DEF KeyIds

\* Every row of a table starts inside its file.
LEMMA OffsetInFile ==
  ASSUME NEW t, DOMAIN t \subseteq KeyIds, NEW k \in DOMAIN t
  PROVE  Offset(t, k) \in Nat /\ FileSize(t) \in Nat /\ Offset(t, k) < FileSize(t)
<1> DEFINE js == {j \in DOMAIN t : j < k}
<1>0. k \in Nat
  BY KeyIdsNat
<1>1. js \subseteq DOMAIN t /\ k \notin js
  BY <1>0
<1>2. Cardinality(Bytes(t, js)) \in Nat /\ Cardinality(Bytes(t, DOMAIN t)) \in Nat
  BY <1>1, BytesFinite
<1>3. Cardinality(Bytes(t, js)) < Cardinality(Bytes(t, DOMAIN t))
  BY <1>1, BytesGrow
<1> QED
  BY <1>2, <1>3 DEF Offset, FileSize

\* Rows of different keys start at different offsets.
LEMMA OffsetInjective ==
  ASSUME NEW t, DOMAIN t \subseteq KeyIds, NEW j \in DOMAIN t, NEW k \in DOMAIN t, j < k
  PROVE  Offset(t, j) < Offset(t, k)
<1> DEFINE below(x) == {i \in DOMAIN t : i < x}
<1>0. \A i \in DOMAIN t : i \in Nat
  BY KeyIdsNat
<1>1. below(j) \subseteq below(k) /\ below(k) \subseteq KeyIds /\ j \in below(k) \ below(j)
  BY <1>0
<1> QED
  BY <1>1, BytesGrow DEF Offset

\* The entry that SSTableIndex makes for a key leads findOnDisk to the whole row
\* of that key and to nothing else, in a segment file whose offsets do not wrap.
THEOREM IndexedRowIsRead ==
  ASSUME NEW t, IsTable(t), Addressable(t), NEW k \in DOMAIN t
  PROVE  ReadRows(t, SSTableIndex(t)[k]) = {t[k]}
<1> DEFINE hint == SSTableIndex(t)[k]
<1> DEFINE start == {j \in DOMAIN t : Offset(t, j) = hint.offset}
<1>2. DOMAIN t \subseteq KeyIds
  BY DEF IsTable
<1>1. hint.offset = Offset(t, k) /\ hint.size = RowSize(t[k])
  <2>1. Offset(t, k) \in Nat /\ Offset(t, k) < OffsetRange
    BY <1>2, OffsetInFile DEF Addressable
  <2>2. Offset(t, k) % OffsetRange = Offset(t, k)
    BY <2>1, OffsetAssumption
  <2> QED
    BY <2>2 DEF SSTableIndex
<1>3. hint.size # 0 /\ hint.size \in Nat
  BY <1>1, RowSizeType, SizesAssumption
<1>4. ~(hint.offset >= FileSize(t))
  BY <1>1, <1>2, OffsetInFile
<1>5. start = {k}
  <2>1. ASSUME NEW j \in DOMAIN t, j # k
        PROVE  Offset(t, j) # Offset(t, k)
    <3>0. j \in Nat /\ k \in Nat
      BY <1>2, KeyIdsNat
    <3>1. j < k \/ k < j
      BY <2>1, <3>0
    <3>2. Offset(t, j) \in Nat /\ Offset(t, k) \in Nat
      BY <1>2, OffsetInFile
    <3>3. Offset(t, j) < Offset(t, k) \/ Offset(t, k) < Offset(t, j)
      BY <1>2, <3>1, OffsetInjective
    <3> QED
      BY <3>2, <3>3
  <2> QED
    BY <1>1, <2>1
<1> HIDE DEF hint
<1>6. ReadRows(t, hint) = UNION {RowsFromPrefix(t[j], hint.size) : j \in start}
  BY <1>3, <1>4, <1>5 DEF ReadRows
<1>7. RowsFromPrefix(t[k], hint.size) = {t[k]}
  <2>1. RowSize(t[k]) <= hint.size
    BY <1>1, <1>3
  <2> QED
    BY <2>1, Zenon DEF RowsFromPrefix
<1> HIDE DEF start
<1>8. ReadRows(t, hint) = {t[k]}
  BY <1>5, <1>6, <1>7
<1> QED
  BY <1>8 DEF hint

\* Only the place and the length of the bytes count.
LEMMA SameHint ==
  ASSUME NEW t, NEW g, NEW h, g.offset = h.offset, g.size = h.size
  PROVE  ReadRows(t, g) = ReadRows(t, h)
BY DEF ReadRows

LEMMA SSTableIndexType ==
  ASSUME NEW t, IsTable(t)
  PROVE  IsTableIndex(SSTableIndex(t)) /\ DOMAIN SSTableIndex(t) = DOMAIN t
<1>1. \A k \in DOMAIN t : Offset(t, k) % OffsetRange \in Nat
  <2>1. \A k \in DOMAIN t : Offset(t, k) \in Nat
    BY OffsetInFile DEF IsTable
  <2> QED
    BY <2>1, OffsetAssumption
<1>2. \A k \in DOMAIN t : RowSize(t[k]) \in Nat
  BY RowSizeType, SizesAssumption
<1>3. \A k \in DOMAIN t : [offset |-> Offset(t, k) % OffsetRange, size |-> RowSize(t[k])] \in Hints
  BY <1>1, <1>2 DEF Hints
<1>4. DOMAIN SSTableIndex(t) = DOMAIN t
  BY DEF SSTableIndex
<1>5. SSTableIndex(t) \in [DOMAIN t -> Hints]
  BY <1>3 DEF SSTableIndex
<1> QED
  BY <1>4, <1>5 DEF IsTable, IsTableIndex

\* Whatever bytes a hint names, the row made of them has the fields of a row.
LEMMA ReadRowsType ==
  ASSUME NEW t, IsTable(t), NEW hint, NEW row \in ReadRows(t, hint)
  PROVE  row \in Row
<1>1. RowsFromNothing \subseteq Row
  BY KeysAssumption DEF RowsFromNothing, Row, KeyIds, EmptyData, Data, Checksums
<1>2. RowsFromGarbage \subseteq Row
  BY KeysAssumption DEF RowsFromGarbage, Row, KeyIds, Data, Checksums
<1>3. ASSUME NEW k \in DOMAIN t, NEW d \in {GarbageData, t[k].data}
      PROVE  t[k] \in Row /\ [t[k] EXCEPT !.data = d, !.checksum = ZeroSum] \in Row
  <2>1. t[k] \in Row
    BY DEF IsTable
  <2>2. d \in Data /\ ZeroSum \in Checksums
    BY <2>1 DEF Row, Data, Checksums
  <2>3. [t[k] EXCEPT !.data = d] \in Row
    BY <2>1, <2>2 DEF Row
  <2>4. [[t[k] EXCEPT !.data = d] EXCEPT !.checksum = ZeroSum] \in Row
    BY <2>2, <2>3 DEF Row
  <2> QED
    BY <2>1, <2>4
<1>4. \/ row \in RowsFromNothing
      \/ row \in RowsFromGarbage
      \/ \E k \in DOMAIN t : row \in RowsFromPrefix(t[k], hint.size)
  BY DEF ReadRows
<1>5. ASSUME NEW k \in DOMAIN t, row \in RowsFromPrefix(t[k], hint.size)
      PROVE  row \in Row
  BY <1>3, <1>5, Zenon DEF RowsFromPrefix
<1> QED
  BY <1>1, <1>2, <1>4, <1>5

-----------------------------------------------------------------------------
(* Index and Bloom filter                                                  *)

\* Index::get finds the entry of the first table of the list that has the key.
LEMMA IndexGetFirst ==
  ASSUME NEW S, NEW list \in Seq(S), NEW k, TablesWith(list, k) # {}
  PROVE  \E i \in TablesWith(list, k) :
           /\ \A j \in TablesWith(list, k) : i <= j
           /\ IndexGet(list, k) = [fileId |-> list[i].fileId,
                                   offset |-> list[i].map[k].offset,
                                   size   |-> list[i].map[k].size]
<1> DEFINE T == TablesWith(list, k)
<1> DEFINE i == CHOOSE i \in T : \A j \in T : i <= j
<1>1. T \subseteq Nat
  BY LenProperties DEF TablesWith
<1> HIDE DEF T
<1>2. \E n \in T : \A m \in T : n <= m
  BY <1>1, LeastNatural DEF T
<1>3. i \in T /\ \A j \in T : i <= j
  BY <1>2
<1>4. IndexGet(list, k) = [fileId |-> list[i].fileId,
                           offset |-> list[i].map[k].offset,
                           size   |-> list[i].map[k].size]
  BY DEF IndexGet, T
<1> HIDE DEF i
<1> QED
  BY <1>3, <1>4 DEF T

LEMMA BloomBitsType ==
  ASSUME BloomHash \in [KeyIds -> Nat \X Nat], NEW k \in KeyIds
  PROVE  BloomBits(k) \subseteq Nat
<1>1. BloomHash[k][1] \in Nat /\ BloomHash[k][2] \in Nat
  OBVIOUS
<1>2. ASSUME NEW i \in 0 .. NumHashes - 1
      PROVE  Rehash(i, BloomHash[k]) \in Nat
  <2>1. i * BloomHash[k][2] \in Nat
    BY <1>1, BloomAssumption
  <2>2. BloomHash[k][1] + i * BloomHash[k][2] \in Nat
    BY <1>1, <2>1
  <2>3. (BloomHash[k][1] + i * BloomHash[k][2]) % HashRange \in Nat
    BY <2>2, BloomAssumption
  <2> QED
    BY <2>3, BloomAssumption DEF Rehash
<1> QED
  BY <1>2 DEF BloomBits

\* The filter never loses a key, and holds the keys that were added.
LEMMA BloomAddCovers ==
  ASSUME NEW bits, NEW keys, NEW k, ProbablyContains(bits, k) \/ k \in keys
  PROVE  ProbablyContains(BloomAdd(bits, keys), k)
BY DEF ProbablyContains, BloomAdd

LEMMA BloomAddType ==
  ASSUME BloomHash \in [KeyIds -> Nat \X Nat], NEW bits, bits \subseteq Nat, NEW keys, keys \subseteq KeyIds
  PROVE  BloomAdd(bits, keys) \subseteq Nat
<1>1. \A k \in keys : BloomBits(k) \subseteq Nat
  BY BloomBitsType
<1> QED
  BY <1>1 DEF BloomAdd

-----------------------------------------------------------------------------
(* Memtables                                                               *)

\* What deserialize makes of an empty stream is a row.
LEMMA FromNothingType == RowsFromNothing \subseteq Row
BY KeysAssumption DEF RowsFromNothing, Row, KeyIds, EmptyData, Data, Checksums

\* A table without rows is one.
LEMMA EmptyTableType == IsTable(EmptyTable)
BY DEF IsTable, EmptyTable

\* So is what is saved of a memtable.
LEMMA CreateType ==
  ASSUME NEW map, IsTable(map)
  PROVE  IsTable(CreateSortedStringsTable(map))
BY EmptyTableType DEF CreateSortedStringsTable

\* Inserting a row keeps a table a table.
LEMMA InsertType ==
  ASSUME NEW map, IsTable(map), NEW row \in Row
  PROVE  IsTable(Insert(map, row))
<1>1. row.key \in KeyIds
  BY DEF Row
<1>2. DOMAIN Insert(map, row) = DOMAIN map \cup {row.key}
  BY DEF Insert
<1>3. \A k \in DOMAIN map : map[k] \in Row
  BY DEF IsTable
<1>4. Insert(map, row) \in [DOMAIN map \cup {row.key} -> Row]
  BY <1>3 DEF Insert
<1> QED
  BY <1>1, <1>2, <1>4 DEF IsTable

\* The replay of a log finds the last row of every key of the log.
LEMMA ReplayLast ==
  ASSUME NEW rows \in Seq(Row), NEW k \in DOMAIN Replay(rows)
  PROVE  \E i \in DOMAIN rows :
           /\ rows[i].key = k
           /\ \A j \in DOMAIN rows : rows[j].key = k => j <= i
           /\ Replay(rows)[k] = rows[i]
<1> DEFINE I == {i \in DOMAIN rows : rows[i].key = k}
<1>1. DOMAIN rows = 1 .. Len(rows) /\ Len(rows) \in Nat
  BY LenProperties
<1>2. k \in {rows[i].key : i \in DOMAIN rows}
  BY DEF Replay
<1>3. I \subseteq Nat /\ I # {} /\ \A i \in I : i <= Len(rows)
  BY <1>1, <1>2
<1>4. PICK n \in I : \A m \in I : m <= n
  <2> HIDE DEF I
  <2> QED
    BY <1>1, <1>3, GreatestNatural
<1> DEFINE Last(i) == rows[i].key = k /\ \A j \in DOMAIN rows : rows[j].key = k => j <= i
<1>5. n \in DOMAIN rows /\ Last(n)
  BY <1>4
<1>6. Replay(rows)[k] = rows[CHOOSE i \in DOMAIN rows : Last(i)]
  BY <1>2 DEF Replay
<1> DEFINE c == CHOOSE i \in DOMAIN rows : Last(i)
<1>7. c \in DOMAIN rows /\ Last(c)
  <2> HIDE DEF Last
  <2> QED
    BY <1>5
<1> QED
  BY <1>6, <1>7

\* So the replay is a table.
LEMMA ReplayType ==
  ASSUME NEW rows \in Seq(Row)
  PROVE  IsTable(Replay(rows))
<1>1. DOMAIN Replay(rows) = {rows[i].key : i \in DOMAIN rows}
  BY DEF Replay
<1>2. \A i \in DOMAIN rows : rows[i] \in Row
  BY LenProperties
<1>3. DOMAIN Replay(rows) \subseteq KeyIds
  BY <1>1, <1>2 DEF Row
<1>4. \A k \in DOMAIN Replay(rows) : Replay(rows)[k] \in Row
  BY <1>2, ReplayLast
<1>5. Replay(rows) \in [DOMAIN Replay(rows) -> Row]
  <2>1. Replay(rows) = [k \in DOMAIN Replay(rows) |-> Replay(rows)[k]]
    BY DEF Replay
  <2> QED
    BY <1>4, <2>1
<1> QED
  BY <1>3, <1>5 DEF IsTable

\* Functions with the same domain and the same values are equal.
LEMMA SameFunction ==
  ASSUME NEW S, NEW f \in [S -> Row], NEW g \in [S -> Row], \A k \in S : f[k] = g[k]
  PROVE  f = g
OBVIOUS

\* Replaying a row more inserts it into what the others give.
LEMMA ReplayAppend ==
  ASSUME NEW rows \in Seq(Row), NEW row \in Row
  PROVE  Replay(Append(rows, row)) = Insert(Replay(rows), row)
<1> DEFINE log == Append(rows, row)
           f == Replay(log)
           g == Insert(Replay(rows), row)
<1>1. /\ DOMAIN rows = 1 .. Len(rows) /\ Len(rows) \in Nat
      /\ log \in Seq(Row) /\ DOMAIN log = 1 .. Len(rows) + 1
      /\ \A i \in DOMAIN rows : log[i] = rows[i]
      /\ log[Len(rows) + 1] = row
  BY LenProperties
<1> HIDE DEF log
<1>2. DOMAIN f = {log[i].key : i \in DOMAIN log} /\ DOMAIN Replay(rows) = {rows[i].key : i \in DOMAIN rows}
  BY DEF Replay
<1>3. DOMAIN g = DOMAIN Replay(rows) \cup {row.key}
  BY DEF Insert
<1>4. DOMAIN f = DOMAIN g
  <2>1. \A k \in DOMAIN f : k \in DOMAIN g
    BY <1>1, <1>2, <1>3
  <2>2. \A k \in DOMAIN g : k \in DOMAIN f
    BY <1>1, <1>2, <1>3
  <2> QED
    BY <2>1, <2>2
<1>5. f[row.key] = g[row.key]
  <2>1. PICK i \in DOMAIN log :
          /\ \A j \in DOMAIN log : log[j].key = row.key => j <= i
          /\ f[row.key] = log[i]
    BY <1>1, <1>3, <1>4, ReplayLast
  <2>2. i = Len(rows) + 1
    BY <1>1, <2>1
  <2> QED
    BY <1>1, <2>1, <2>2 DEF Insert
<1>6. ASSUME NEW k \in DOMAIN g, k # row.key PROVE f[k] = g[k]
  <2>1. k \in DOMAIN Replay(rows) /\ g[k] = Replay(rows)[k]
    BY <1>3, <1>6 DEF Insert
  <2>2. PICK i \in DOMAIN rows :
          /\ rows[i].key = k
          /\ \A j \in DOMAIN rows : rows[j].key = k => j <= i
          /\ Replay(rows)[k] = rows[i]
    BY <2>1, ReplayLast
  <2>3. PICK n \in DOMAIN log :
          /\ log[n].key = k
          /\ \A j \in DOMAIN log : log[j].key = k => j <= n
          /\ f[k] = log[n]
    BY <1>1, <1>4, ReplayLast
  <2>4. n \in DOMAIN rows
    <3>1. n # Len(rows) + 1
      BY <1>1, <1>6, <2>3
    <3> QED
      BY <1>1, <3>1
  <2>5. n = i
    BY <1>1, <2>2, <2>3, <2>4
  <2> QED
    BY <1>1, <2>1, <2>2, <2>3, <2>4, <2>5
<1>7. f \in [DOMAIN g -> Row] /\ g \in [DOMAIN g -> Row]
  <2>1. IsTable(f) /\ IsTable(g)
    BY <1>1, ReplayType, InsertType
  <2> QED
    BY <1>4, <2>1 DEF IsTable
<1>8. \A k \in DOMAIN g : f[k] = g[k]
  BY <1>5, <1>6
<1> HIDE DEF f, g
<1>9. f = g
  BY <1>7, <1>8, SameFunction
<1> QED
  BY <1>9 DEF f, g, log
=============================================================================
