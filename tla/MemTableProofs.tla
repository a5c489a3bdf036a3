----------------------------- MODULE MemTableProofs -----------------------------
(***************************************************************************)
(* The memtable for any rows and any number of puts: what find finds, what  *)
(* is saved, and what the log covers.                                       *)
(***************************************************************************)
EXTENDS MemTable, SSTableProofs

-----------------------------------------------------------------------------
(* The order of the map                                                    *)

\* Maps under insertion numbers below n.
IsMap(m, n) == n \in Nat /\ DOMAIN m \subseteq [id : 0 .. n - 1, key : KeyIds]

\* a is the newest element of its key.
NewestOfKey(m, a) == a \in DOMAIN m /\ \A b \in DOMAIN m : b.key = a.key => b.id <= a.id

\* An element of a map is an insertion key of two naturals.
LEMMA Element ==
  ASSUME NEW m, NEW n, IsMap(m, n), NEW a \in DOMAIN m
  PROVE  /\ a.id \in Nat /\ a.id < n /\ a.key \in KeyIds /\ a.key \in Nat
         /\ a = InsertKey(a.id, a.key)
<1>1. a \in [id : 0 .. n - 1, key : KeyIds]
  BY DEF IsMap
<1>2. a.id \in 0 .. n - 1 /\ a.key \in KeyIds /\ a = [id |-> a.id, key |-> a.key]
  BY <1>1
<1> QED
  BY <1>2, KeyIdsNat DEF IsMap, InsertKey

\* The first of a set is the element that comes before all others, and the last
\* is the one that comes after them.
LEMMA FirstIs ==
  ASSUME NEW m, NEW n, IsMap(m, n), NEW S, S \subseteq DOMAIN m, NEW a \in S
  PROVE  /\ (\A b \in S : a = b \/ Before(a, b)) => FirstOf(S) = a
         /\ (\A b \in S : a = b \/ Before(b, a)) => LastOf(S) = a
<1>1. \A x, y \in S : ~(Before(x, y) /\ Before(y, x))
  BY Element DEF Before
<1>2. ASSUME \A b \in S : a = b \/ Before(a, b) PROVE FirstOf(S) = a
  BY <1>1, <1>2 DEF FirstOf
<1>3. ASSUME \A b \in S : a = b \/ Before(b, a) PROVE LastOf(S) = a
  BY <1>1, <1>3 DEF LastOf
<1> QED
  BY <1>2, <1>3

\* Elements with the same key and number are the same.
LEMMA SameElement ==
  ASSUME NEW m, NEW n, IsMap(m, n), NEW a \in DOMAIN m, NEW b \in DOMAIN m, a.key = b.key, a.id = b.id
  PROVE  a = b
BY Element

\* A key that is there has a newest element.
LEMMA NewestExists ==
  ASSUME NEW m, NEW n, IsMap(m, n), NEW k, \E a \in DOMAIN m : a.key = k
  PROVE  \E a \in DOMAIN m : a.key = k /\ NewestOfKey(m, a)
<1> DEFINE I == {a.id : a \in {b \in DOMAIN m : b.key = k}}
<1>1. I \subseteq Nat /\ I # {} /\ \A i \in I : i <= n
  BY Element DEF IsMap
<1>2. PICK i \in I : \A j \in I : j <= i
  <2>1. n \in Nat
    BY DEF IsMap
  <2> HIDE DEF I
  <2> QED
    BY <1>1, <2>1, GreatestNatural
<1>3. PICK a \in DOMAIN m : a.key = k /\ a.id = i
  BY <1>2
<1> QED
  BY <1>2, <1>3 DEF NewestOfKey

\* find returns the newest element of a key.
LEMMA FindsNewest ==
  ASSUME NEW m, NEW n, IsMap(m, n), NEW a, NewestOfKey(m, a)
  PROVE  Found(m, a.key) /\ Find(m, a.key) = m[a]
<1> DEFINE S == NotBefore(m, a.key)
<1>1. a \in S /\ S \subseteq DOMAIN m
  BY Element DEF NotBefore, NewestOfKey
<1>2. ASSUME NEW b \in S PROVE a = b \/ Before(a, b)
  <2>1. b \in DOMAIN m /\ b.key >= a.key
    BY DEF NotBefore
  <2>2. CASE b.key = a.key
    <3>1. b.id <= a.id
      BY <2>1, <2>2 DEF NewestOfKey
    <3>2. a.id = b.id => a = b
      BY <1>1, <2>1, <2>2, SameElement
    <3> QED
      BY <1>1, <2>1, <2>2, <3>1, <3>2, Element DEF Before
  <2>3. CASE b.key # a.key
    BY <1>1, <2>1, <2>3, Element DEF Before
  <2> QED
    BY <2>2, <2>3
<1>3. FirstOf(S) = a
  BY <1>1, <1>2, FirstIs
<1> QED
  BY <1>1, <1>3 DEF Found, Find

\* Only a key that is there is found.
LEMMA FoundIsThere ==
  ASSUME NEW m, NEW n, IsMap(m, n), NEW k \in KeyIds, Found(m, k)
  PROVE  \E a \in DOMAIN m : a.key = k
<1> DEFINE S == NotBefore(m, k)
<1>1. S # {} /\ S \subseteq DOMAIN m /\ k \in Nat
  BY KeyIdsNat DEF Found, NotBefore
<1> DEFINE K == {a.key : a \in S}
<1>2. PICK l \in K : \A j \in K : l <= j
  <2>1. K \subseteq Nat /\ K # {}
    BY <1>1, Element
  <2> HIDE DEF K
  <2> QED
    BY <2>1, LeastNatural
<1>3. PICK a \in DOMAIN m : a.key = l /\ NewestOfKey(m, a)
  BY <1>1, <1>2, NewestExists
<1>4. a \in S
  <2>1. l >= k
    BY <1>2 DEF NotBefore
  <2> QED
    BY <1>3, <2>1 DEF NotBefore
<1>5. ASSUME NEW b \in S PROVE a = b \/ Before(a, b)
  <2>1. b \in DOMAIN m /\ a.key <= b.key
    BY <1>1, <1>2, <1>3
  <2>2. b.key = a.key => b.id <= a.id
    BY <1>3, <2>1 DEF NewestOfKey
  <2>3. b.key = a.key /\ a.id = b.id => a = b
    BY <2>1, <1>3, SameElement
  <2> QED
    BY <1>3, <2>1, <2>2, <2>3, Element DEF Before
<1>6. FirstOf(S) = a
  BY <1>1, <1>4, <1>5, FirstIs
<1> QED
  BY <1>6 DEF Found

\* What find makes of a map: the newest element of every key that is there.
LEMMA NewestIs ==
  ASSUME NEW m, NEW n, IsMap(m, n)
  PROVE  /\ \A k : k \in DOMAIN Newest(m) <=> \E a \in DOMAIN m : a.key = k
         /\ \A a : NewestOfKey(m, a) => Newest(m)[a.key] = m[a]
<1>1. ASSUME NEW k \in KeyIds PROVE Found(m, k) <=> \E a \in DOMAIN m : a.key = k
  <2>1. ASSUME \E a \in DOMAIN m : a.key = k PROVE Found(m, k)
    BY <2>1, NewestExists, FindsNewest
  <2> QED
    BY <2>1, FoundIsThere
<1>2. \A k : k \in DOMAIN Newest(m) <=> \E a \in DOMAIN m : a.key = k
  <2>1. DOMAIN Newest(m) = {k \in KeyIds : Found(m, k)}
    BY DEF Newest
  <2> QED
    BY <1>1, <2>1, Element
<1>3. ASSUME NEW a, NewestOfKey(m, a) PROVE Newest(m)[a.key] = m[a]
  BY <1>3, FindsNewest, Element DEF Newest, NewestOfKey
<1> QED
  BY <1>2, <1>3

-----------------------------------------------------------------------------
(* Types                                                                   *)

\* Every element of the map holds a row with the key it stands under.
HoldsRows(m) == \A a \in DOMAIN m : m[a] \in Row /\ m[a].key = a.key

\* An insertion adds the next number to the map.
LEMMA InsertedIsMap ==
  ASSUME TypeOK, NEW row \in Row
  PROVE  /\ IsMap(map, counter) /\ HoldsRows(map)
         /\ IsMap(Inserted(row), counter + 1) /\ HoldsRows(Inserted(row))
         /\ DOMAIN Inserted(row) = DOMAIN map \cup {InsertKey(counter, row.key)}
         /\ \A a \in DOMAIN map : a \in DOMAIN Inserted(row) /\ Inserted(row)[a] = map[a]
         /\ Inserted(row)[InsertKey(counter, row.key)] = row
<1> DEFINE new == InsertKey(counter, row.key)
<1>1. IsMap(map, counter) /\ HoldsRows(map)
  BY DEF TypeOK, IsMap, HoldsRows
<1>2. row.key \in KeyIds /\ counter \in Nat
  BY DEF TypeOK, Row
<1>3. new \in [id : 0 .. counter, key : KeyIds] /\ new.key = row.key /\ new.id = counter
  BY <1>2 DEF InsertKey
<1>4. \A a \in DOMAIN map : a \in [id : 0 .. counter, key : KeyIds] /\ a # new
  <2> SUFFICES ASSUME NEW a \in DOMAIN map PROVE a \in [id : 0 .. counter, key : KeyIds] /\ a # new
    OBVIOUS
  <2>1. a.id \in Nat /\ a.id < counter /\ a.key \in KeyIds /\ a = InsertKey(a.id, a.key)
    BY <1>1, Element
  <2> QED
    BY <1>2, <1>3, <2>1 DEF InsertKey
<1>5. DOMAIN Inserted(row) = DOMAIN map \cup {new}
  BY DEF Inserted
<1>6. \A a \in DOMAIN map : a \in DOMAIN Inserted(row) /\ Inserted(row)[a] = map[a]
  BY DEF Inserted
<1>7. Inserted(row)[new] = row
  BY <1>4 DEF Inserted
<1>8. counter + 1 \in Nat /\ (counter + 1) - 1 = counter
  BY <1>2
<1>9. IsMap(Inserted(row), counter + 1)
  BY <1>3, <1>4, <1>5, <1>8 DEF IsMap
<1>10. HoldsRows(Inserted(row))
  BY <1>1, <1>3, <1>5, <1>6, <1>7 DEF HoldsRows
<1> QED
  BY <1>1, <1>5, <1>6, <1>7, <1>9, <1>10

\* What is saved of a map is a table.
LEMMA TableOfType ==
  ASSUME NEW m, NEW n, IsMap(m, n), HoldsRows(m)
  PROVE  IsTable(TableOf(m))
<1>1. Kept(m) \subseteq DOMAIN m
  BY DEF Kept
<1>2. DOMAIN TableOf(m) = {a.key : a \in Kept(m)}
  BY DEF TableOf
<1>3. DOMAIN TableOf(m) \subseteq KeyIds
  BY <1>1, <1>2, Element
<1>4. ASSUME NEW k \in DOMAIN TableOf(m) PROVE TableOf(m)[k] \in Row
  <2>1. \E a \in Kept(m) : a.key = k
    BY <1>2
  <2>2. (CHOOSE a \in Kept(m) : a.key = k) \in Kept(m)
    BY <2>1
  <2> QED
    BY <1>1, <1>2, <2>2 DEF TableOf, HoldsRows
<1>5. TableOf(m) \in [DOMAIN TableOf(m) -> Row]
  BY <1>4 DEF TableOf
<1> QED
  BY <1>3, <1>5 DEF IsTable

\* The map of a fresh or cleared memtable has no element.
LEMMA EmptyMapIs == DOMAIN EmptyMap = {} /\ IsMap(EmptyMap, 0) /\ HoldsRows(EmptyMap)
BY DEF EmptyMap, IsMap, HoldsRows

\* No row is a sequence of rows.
LEMMA EmptySequence == <<>> \in Seq(Row)
OBVIOUS

\* Every step keeps the types.
LEMMA StepTypes ==
  ASSUME TypeOK, [Next]_vars
  PROVE  TypeOK'
<1>1. ASSUME NEW row \in InputRows, InsertRow(row) PROVE TypeOK'
  <2>1. row \in Row /\ RowSize(row) \in Nat
    BY InputAssumption, RowSizeType
  <2>2. IsMap(Inserted(row), counter + 1) /\ HoldsRows(Inserted(row))
    BY <2>1, InsertedIsMap
  <2>3. walBuf' \in Seq(Row) /\ early' \in Seq(Row)
    BY <1>1, <2>1 DEF InsertRow, Log, TypeOK
  <2>4. size' \in Nat /\ puts' \in Nat
    BY <1>1, <2>1 DEF InsertRow, Count, TypeOK
  <2> QED
    BY <1>1, <2>2, <2>3, <2>4 DEF InsertRow, TypeOK, IsMap, HoldsRows
<1>2. CASE BeginRestore
  BY <1>2 DEF BeginRestore, TypeOK
<1>3. CASE RestoreRow
  <2>1. PICK row \in IF stream = <<>> THEN RowsFromNothing ELSE {Head(stream)} :
          map' = Inserted(row) /\ restored' = Append(restored, row)
    BY <1>3 DEF RestoreRow
  <2>2. stream \in Seq(Row)
    BY <1>3 DEF RestoreRow, TypeOK
  <2>3. row \in Row
    BY <2>1, <2>2, FromNothingType
  <2>4. IsMap(Inserted(row), counter + 1) /\ HoldsRows(Inserted(row))
    BY <2>3, InsertedIsMap
  <2>5. restored' \in Seq(Row)
    BY <2>1, <2>3 DEF TypeOK
  <2>6. stream' = NoStream \/ stream' \in Seq(Row)
    BY <1>3, <2>2 DEF RestoreRow
  <2> QED
    BY <1>3, <2>1, <2>4, <2>5, <2>6 DEF RestoreRow, TypeOK, IsMap, HoldsRows
<1>4. CASE SetWriteAheadLog
  BY <1>4 DEF SetWriteAheadLog, TypeOK
<1>5. CASE Clear
  <2>1. IsTable(saved')
    BY <1>5, TableOfType DEF Clear, TypeOK, IsMap, HoldsRows
  <2>2. walFile' \in Seq(Row) /\ walBuf' \in Seq(Row)
    BY <1>5 DEF Clear, TypeOK
  <2> QED
    BY <1>5, <2>1, <2>2, EmptyMapIs DEF Clear, TypeOK
<1>6. CASE Renew
  <2>1. PICK n \in 0 .. Len(walBuf) : walFile' = walFile \o SubSeq(walBuf, 1, n)
    BY <1>6 DEF Renew
  <2>2. SubSeq(walBuf, 1, n) \in Seq(Row)
    <3>1. walBuf \in Seq(Row) /\ Len(walBuf) \in Nat
      BY LenProperties DEF TypeOK
    <3> QED
      BY <3>1, SubSeqProperties
  <2>3. walFile' \in Seq(Row)
    BY <2>1, <2>2 DEF TypeOK
  <2>4. walBuf' \in Seq(Row) /\ restored' \in Seq(Row) /\ early' \in Seq(Row)
    BY <1>6, EmptySequence DEF Renew
  <2>5. IsTable(saved')
    BY <1>6, EmptyTableType DEF Renew
  <2>6. DOMAIN map' = {}
    BY <1>6, EmptyMapIs DEF Renew
  <2>7. counter' \in Nat /\ size' \in Nat /\ puts' \in Nat /\ tables' \in Nat
    BY <1>6 DEF Renew, TypeOK
  <2>8. logOpen' \in BOOLEAN /\ stream' = NoStream
    BY <1>6 DEF Renew
  <2> QED
    BY <2>3, <2>4, <2>5, <2>6, <2>7, <2>8 DEF TypeOK
<1>7. CASE UNCHANGED vars
  BY <1>7 DEF vars, TypeOK
<1> QED
  BY <1>1, <1>2, <1>3, <1>4, <1>5, <1>6, <1>7 DEF Next

\* Every variable of the memtable keeps its type: insertion numbers stay below the
\* counter, and an element holds a row with its key.
THEOREM MemTableTypes == Spec => []TypeOK
<1>1. ASSUME Init PROVE TypeOK
  <2>1. /\ walBuf \in Seq(Row) /\ walFile \in Seq(Row)
        /\ restored \in Seq(Row) /\ early \in Seq(Row)
    BY <1>1, EmptySequence DEF Init
  <2>2. IsTable(saved)
    BY <1>1, EmptyTableType DEF Init
  <2>3. DOMAIN map = {}
    BY <1>1, EmptyMapIs DEF Init
  <2> QED
    BY <1>1, <2>1, <2>2, <2>3 DEF Init, TypeOK
<1>2. TypeOK /\ [Next]_vars => TypeOK'
  BY StepTypes
<1> QED
  BY <1>1, <1>2, PTL DEF Spec

-----------------------------------------------------------------------------
(* The memtable as a function from keys to their newest rows               *)

\* What find makes of a map is a table.
LEMMA NewestType ==
  ASSUME NEW m, NEW n, IsMap(m, n), HoldsRows(m)
  PROVE  IsTable(Newest(m)) /\ Newest(m) \in [DOMAIN Newest(m) -> Row]
<1>1. DOMAIN Newest(m) \subseteq KeyIds
  BY DEF Newest
<1>2. ASSUME NEW k \in DOMAIN Newest(m) PROVE Newest(m)[k] \in Row
  <2>1. PICK a \in DOMAIN m : a.key = k /\ NewestOfKey(m, a)
    <3>1. \E a \in DOMAIN m : a.key = k
      BY NewestIs
    <3> QED
      BY <3>1, NewestExists
  <2> QED
    BY <2>1, NewestIs DEF HoldsRows
<1>3. Newest(m) \in [DOMAIN Newest(m) -> Row]
  BY <1>2 DEF Newest
<1> QED
  BY <1>1, <1>3 DEF IsTable

\* After an insertion find finds the new row under its key, and what it found
\* before under the others.
LEMMA NewestInserted ==
  ASSUME TypeOK, NEW row \in Row
  PROVE  Newest(Inserted(row)) = Insert(Newest(map), row)
<1> DEFINE m == Inserted(row)
           new == InsertKey(counter, row.key)
           f == Newest(m)
           g == Insert(Newest(map), row)
<1>1. IsMap(map, counter) /\ HoldsRows(map) /\ IsMap(m, counter + 1) /\ HoldsRows(m)
  BY InsertedIsMap
<1>2. /\ DOMAIN m = DOMAIN map \cup {new} /\ m[new] = row
      /\ \A a \in DOMAIN map : a \in DOMAIN m /\ m[a] = map[a]
  BY InsertedIsMap
<1>3. new.key = row.key /\ new.id = counter /\ counter \in Nat
  BY DEF InsertKey, TypeOK
<1>4. DOMAIN g = DOMAIN Newest(map) \cup {row.key}
  BY DEF Insert
<1> HIDE DEF new, m
<1>5. DOMAIN f = DOMAIN g
  <2>1. \A k : k \in DOMAIN f <=> \E a \in DOMAIN m : a.key = k
    BY <1>1, NewestIs
  <2>2. \A k : k \in DOMAIN Newest(map) <=> \E a \in DOMAIN map : a.key = k
    BY <1>1, NewestIs
  <2>3. \A k : k \in DOMAIN f <=> k \in DOMAIN g
    BY <1>2, <1>3, <1>4, <2>1, <2>2
  <2> QED
    BY <2>3
<1>6. f[row.key] = g[row.key]
  <2>1. NewestOfKey(m, new)
    <3>1. \A b \in DOMAIN m : b.id <= new.id
      BY <1>1, <1>2, <1>3, Element
    <3> QED
      BY <1>2, <3>1 DEF NewestOfKey
  <2>2. f[row.key] = row
    <3>1. Newest(m)[new.key] = m[new]
      BY <1>1, <2>1, NewestIs
    <3> QED
      BY <1>2, <1>3, <3>1
  <2>3. g[row.key] = row
    BY DEF Insert
  <2> QED
    BY <2>2, <2>3
<1>7. ASSUME NEW k \in DOMAIN Newest(map), k # row.key PROVE f[k] = g[k]
  <2>1. PICK a \in DOMAIN map : a.key = k /\ NewestOfKey(map, a)
    <3>1. \E a \in DOMAIN map : a.key = k
      BY <1>1, NewestIs
    <3> QED
      BY <1>1, <3>1, NewestExists
  <2>2. NewestOfKey(m, a)
    BY <1>2, <1>3, <1>7, <2>1 DEF NewestOfKey
  <2>3. f[k] = map[a]
    <3>1. Newest(m)[a.key] = m[a]
      BY <1>1, <2>2, NewestIs
    <3> QED
      BY <1>2, <2>1, <3>1
  <2>4. Newest(map)[k] = map[a]
    BY <1>1, <2>1, NewestIs
  <2>5. g[k] = Newest(map)[k]
    BY <1>7 DEF Insert
  <2> QED
    BY <2>3, <2>4, <2>5
<1>8. f \in [DOMAIN g -> Row]
  BY <1>1, <1>5, NewestType
<1>9. g \in [DOMAIN g -> Row]
  <2>1. IsTable(g)
    BY <1>1, NewestType, InsertType
  <2> QED
    BY <2>1 DEF IsTable
<1>10. \A k \in DOMAIN g : f[k] = g[k]
  BY <1>4, <1>6, <1>7
<1> HIDE DEF f, g
<1>11. f = g
  BY <1>8, <1>9, <1>10, SameFunction
<1> QED
  BY <1>11 DEF f, g, m

\* Nothing is found in a map without elements.
LEMMA NewestEmpty == Newest(EmptyMap) = EmptyTable
<1>1. \A k \in KeyIds : ~Found(EmptyMap, k)
  BY EmptyMapIs DEF Found, NotBefore
<1>2. {j \in KeyIds : Found(EmptyMap, j)} = {}
  BY <1>1
<1>3. Newest(EmptyMap) = [k \in {} |-> Find(EmptyMap, k)]
  BY <1>2 DEF Newest
<1> QED
  BY <1>3 DEF EmptyTable

\* Both modules mean the same rows and tables.
LEMMA SameRows ==
  /\ Abstract!EmptyTable = EmptyTable
  /\ Abstract!Row = Row
  /\ \A f, row : Abstract!Insert(f, row) = Insert(f, row)
  /\ \A row : Abstract!RowSize(row) = RowSize(row)
<1>1. Abstract!EmptyTable = EmptyTable
  BY DEF Abstract!EmptyTable, EmptyTable
<1>2. Abstract!Row = Row
  BY DEF Abstract!Row, Abstract!KeyIds, Abstract!EntryTypes, Abstract!Data, Abstract!Checksums,
         Abstract!GarbageData, Abstract!ZeroSum, Abstract!GarbageSum,
         Row, KeyIds, EntryTypes, Data, Checksums, GarbageData, ZeroSum, GarbageSum
<1>3. \A f, row : Abstract!Insert(f, row) = Insert(f, row)
  BY DEF Abstract!Insert, Insert
<1>4. \A row : Abstract!RowSize(row) = RowSize(row)
  BY DEF Abstract!RowSize, Abstract!EmptyData, RowSize, EmptyData
<1> QED
  BY <1>1, <1>2, <1>3, <1>4

\* The ordered map with its insertion numbers implements the memtable that
\* StorageEngine has: puts, rows from the log and clears are steps of NewestRows, and
\* opening the log changes nothing that find sees.
THEOREM NewestRowsImplemented == Spec => ImplementsNewestRows
<1>1. Init => Abstract!Init
  BY NewestEmpty, SameRows DEF Init, Abstract!Init
<1>2. ASSUME TypeOK, [Next]_vars PROVE [Abstract!Next]_<<Newest(map), size>>
  <2>1. ASSUME NEW row \in InputRows, InsertRow(row) PROVE [Abstract!Next]_<<Newest(map), size>>
    <3>1. row \in Row
      BY InputAssumption
    <3>2. map' = Inserted(row) /\ size' = size + RowSize(row)
      BY <2>1 DEF InsertRow, Count
    <3>3. Newest(map)' = Insert(Newest(map), row)
      BY <1>2, <3>1, <3>2, NewestInserted
    <3> QED
      BY <3>1, <3>2, <3>3, SameRows DEF Abstract!Next, Abstract!Put
  <2>2. CASE RestoreRow
    <3>1. PICK row \in IF stream = <<>> THEN RowsFromNothing ELSE {Head(stream)} : map' = Inserted(row)
      BY <2>2 DEF RestoreRow
    <3>2. row \in Row
      <4>1. stream \in Seq(Row)
        BY <1>2, <2>2 DEF RestoreRow, TypeOK
      <4> QED
        BY <3>1, <4>1, FromNothingType
    <3>3. Newest(map)' = Insert(Newest(map), row)
      BY <1>2, <3>1, <3>2, NewestInserted
    <3>4. size' = size
      BY <2>2 DEF RestoreRow
    <3> QED
      BY <3>2, <3>3, <3>4, SameRows DEF Abstract!Next, Abstract!Restore
  <2>3. CASE Clear \/ Renew
    <3>1. map' = EmptyMap /\ size' = 0
      BY <2>3 DEF Clear, Renew
    <3>2. Newest(map)' = EmptyTable
      BY <3>1, NewestEmpty
    <3> QED
      BY <3>1, <3>2, SameRows DEF Abstract!Next, Abstract!Clear
  <2>4. CASE BeginRestore \/ SetWriteAheadLog \/ UNCHANGED vars
    <3>1. map' = map /\ size' = size
      BY <2>4 DEF BeginRestore, SetWriteAheadLog, vars
    <3> QED
      BY <3>1
  <2> QED
    BY <1>2, <2>1, <2>2, <2>3, <2>4 DEF Next
<1> QED
  BY <1>1, <1>2, MemTableTypes, PTL DEF Spec, ImplementsNewestRows, Abstract!Spec

-----------------------------------------------------------------------------
(* What is saved                                                           *)

\* A set of elements that is not empty has a last one.
LEMMA LastExists ==
  ASSUME NEW m, NEW n, IsMap(m, n), NEW S, S \subseteq DOMAIN m, S # {}
  PROVE  LastOf(S) \in S /\ \A b \in S : LastOf(S) = b \/ Before(b, LastOf(S))
<1> DEFINE K == {a.key : a \in S}
<1>1. PICK k \in K : \A j \in K : j <= k
  <2>1. K \subseteq Nat /\ K # {} /\ (\A j \in K : j <= NPos) /\ NPos \in Nat
    BY Element, KeysAssumption DEF KeyIds
  <2> HIDE DEF K
  <2> QED
    BY <2>1, GreatestNatural
<1> DEFINE I == {a.id : a \in {b \in S : b.key = k}}
<1>2. PICK i \in I : \A j \in I : i <= j
  <2>1. I \subseteq Nat /\ I # {}
    BY <1>1, Element
  <2> HIDE DEF I
  <2> QED
    BY <2>1, LeastNatural
<1>3. PICK a \in S : a.key = k /\ a.id = i
  BY <1>2
<1>4. ASSUME NEW b \in S PROVE a = b \/ Before(b, a)
  <2>1. b.key <= a.key /\ a \in DOMAIN m /\ b \in DOMAIN m
    BY <1>1, <1>3
  <2>2. b.key = a.key => a.id <= b.id
    BY <1>2, <1>3
  <2>3. b.key = a.key /\ a.id = b.id => a = b
    BY <2>1, SameElement
  <2> QED
    BY <2>1, <2>2, <2>3, Element DEF Before
<1>5. LastOf(S) = a
  BY <1>4, FirstIs
<1> QED
  BY <1>4, <1>5

\* Unless npos is the only key, the elements kept are the newest of their keys.
LEMMA KeptNewest ==
  ASSUME NEW m, NEW n, IsMap(m, n), NEW a \in DOMAIN m, \E b \in DOMAIN m : b.key # NPos
  PROVE  a \in Kept(m) <=> NewestOfKey(m, a)
<1> DEFINE prior == {b \in DOMAIN m : Before(b, a)}
<1>1. a \in Kept(m) <=> IF prior = {} THEN a.key # NPos ELSE LastOf(prior).key # a.key
  BY DEF Kept
<1>2. prior \subseteq DOMAIN m
  OBVIOUS
<1>3. ASSUME NewestOfKey(m, a), prior = {} PROVE a.key # NPos
  <2>1. PICK b \in DOMAIN m : b.key # NPos
    OBVIOUS
  <2>2. b.key < NPos
    <3>1. b.key \in 0 .. NPos
      BY <2>1, Element DEF KeyIds
    <3> QED
      BY <2>1, <3>1, KeysAssumption
  <2>3. ~Before(b, a)
    BY <1>3
  <2> QED
    BY <2>2, <2>3, Element DEF Before
<1>4. ASSUME NewestOfKey(m, a), prior # {} PROVE LastOf(prior).key # a.key
  <2>1. LastOf(prior) \in prior
    BY <1>2, <1>4, LastExists
  <2> QED
    BY <1>4, <2>1, Element DEF NewestOfKey, Before
<1>5. ASSUME ~NewestOfKey(m, a) PROVE prior # {} /\ LastOf(prior).key = a.key
  <2>1. PICK c \in DOMAIN m : c.key = a.key /\ ~(c.id <= a.id)
    BY <1>5 DEF NewestOfKey
  <2>2. c \in prior
    BY <2>1, Element DEF Before
  <2>3. LastOf(prior) \in prior /\ (LastOf(prior) = c \/ Before(c, LastOf(prior)))
    BY <1>2, <2>2, LastExists
  <2> HIDE DEF prior
  <2>4. LastOf(prior) \in DOMAIN m /\ Before(LastOf(prior), a)
    BY <2>3 DEF prior
  <2> QED
    BY <2>1, <2>2, <2>3, <2>4, Element DEF Before
<1> HIDE DEF prior
<1> QED
  BY <1>1, <1>3, <1>4, <1>5

\* Nothing is kept of a map whose only key is npos.
LEMMA KeptNPos ==
  ASSUME NEW m, NEW n, IsMap(m, n), \A b \in DOMAIN m : b.key = NPos
  PROVE  Kept(m) = {}
<1> SUFFICES ASSUME NEW a \in Kept(m) PROVE FALSE
  OBVIOUS
<1> DEFINE prior == {b \in DOMAIN m : Before(b, a)}
<1>1. a \in DOMAIN m /\ a.key = NPos
  BY DEF Kept
<1>2. IF prior = {} THEN a.key # NPos ELSE LastOf(prior).key # a.key
  BY DEF Kept
<1>3. prior # {} => LastOf(prior) \in DOMAIN m
  BY LastExists
<1> HIDE DEF prior
<1> QED
  BY <1>1, <1>2, <1>3

\* The loop that saves a memtable saves what find finds.
LEMMA SavedIsFound ==
  ASSUME NEW m, NEW n, IsMap(m, n), HoldsRows(m)
  PROVE  TableOf(m) = CreateSortedStringsTable(Newest(m))
<1>1. \A k : k \in DOMAIN Newest(m) <=> \E a \in DOMAIN m : a.key = k
  BY NewestIs
<1>2. ASSUME \A b \in DOMAIN m : b.key = NPos PROVE TableOf(m) = CreateSortedStringsTable(Newest(m))
  <2>1. TableOf(m) = EmptyTable
    <3>1. {a.key : a \in Kept(m)} = {}
      BY <1>2, KeptNPos
    <3> QED
      BY <3>1 DEF TableOf, EmptyTable
  <2>2. DOMAIN Newest(m) = {NPos} \/ DOMAIN Newest(m) = {}
    <3>1. ASSUME NEW k \in DOMAIN Newest(m) PROVE k = NPos
      <4>1. PICK a \in DOMAIN m : a.key = k
        BY <1>1
      <4> QED
        BY ONLY <1>2, <4>1
    <3> QED
      BY ONLY <3>1
  <2>3. DOMAIN Newest(m) = {} => Newest(m) = EmptyTable
    BY DEF Newest, EmptyTable
  <2> QED
    BY <2>1, <2>2, <2>3 DEF CreateSortedStringsTable
<1>3. ASSUME \E b \in DOMAIN m : b.key # NPos PROVE TableOf(m) = CreateSortedStringsTable(Newest(m))
  <2>1. \A a \in DOMAIN m : a \in Kept(m) <=> NewestOfKey(m, a)
    BY <1>3, KeptNewest
  <2>2. Kept(m) \subseteq DOMAIN m
    BY DEF Kept
  <2>3. DOMAIN TableOf(m) = {a.key : a \in Kept(m)}
    BY DEF TableOf
  <2>4. DOMAIN TableOf(m) = DOMAIN Newest(m)
    <3>1. ASSUME NEW k \in DOMAIN Newest(m) PROVE k \in DOMAIN TableOf(m)
      <4>1. \E a \in DOMAIN m : a.key = k /\ NewestOfKey(m, a)
        BY <1>1, NewestExists
      <4> QED
        BY <2>1, <2>3, <4>1
    <3> QED
      BY <1>1, <2>2, <2>3, <3>1
  <2>5. ASSUME NEW k \in DOMAIN Newest(m) PROVE TableOf(m)[k] = Newest(m)[k]
    <3> DEFINE c == CHOOSE a \in Kept(m) : a.key = k
    <3>1. c \in Kept(m) /\ c.key = k
      BY <2>3, <2>4, <2>5
    <3>2. TableOf(m)[k] = m[c]
      BY <2>3, <2>4, <2>5 DEF TableOf
    <3> HIDE DEF c
    <3>3. Newest(m)[c.key] = m[c]
      <4>1. NewestOfKey(m, c)
        BY <2>1, <2>2, <3>1
      <4> QED
        BY <4>1, NewestIs
    <3> QED
      BY <3>1, <3>2, <3>3
  <2>6. TableOf(m) \in [DOMAIN Newest(m) -> Row] /\ Newest(m) \in [DOMAIN Newest(m) -> Row]
    <3>1. IsTable(TableOf(m))
      BY TableOfType
    <3>2. Newest(m) \in [DOMAIN Newest(m) -> Row]
      BY NewestType
    <3> QED
      BY <2>4, <3>1, <3>2 DEF IsTable
  <2>7. TableOf(m) = Newest(m)
    BY <2>5, <2>6, SameFunction
  <2>8. DOMAIN Newest(m) # {NPos}
    BY <1>1, <1>3
  <2> QED
    BY <2>7, <2>8 DEF CreateSortedStringsTable
<1> QED
  BY <1>2, <1>3

\* dump, createSortedStringsTable and createSortedStringsTableIndex, which compare
\* the key of a row with that of the row before it, save exactly the rows that find
\* finds; only a memtable whose one key is npos is saved as nothing.
THEOREM SavedAsFoundHolds == Spec => []SavedAsFound
<1>1. TypeOK => SavedAsFound
  <2> SUFFICES ASSUME TypeOK PROVE SavedAsFound
    OBVIOUS
  <2>1. IsMap(map, counter) /\ HoldsRows(map)
    BY DEF TypeOK, IsMap, HoldsRows
  <2> QED
    BY <2>1, SavedIsFound DEF SavedAsFound
<1> QED
  BY <1>1, MemTableTypes, PTL

-----------------------------------------------------------------------------
(* What the log covers                                                     *)

\* Appending to the second of two logs appends to both.
LEMMA ConcatAppend ==
  ASSUME NEW s \in Seq(Row), NEW t \in Seq(Row), NEW row \in Row
  PROVE  s \o Append(t, row) = Append(s \o t, row)
<1>1. s \o t \in Seq(Row) /\ Len(s \o t) = Len(s) + Len(t)
  BY ConcatProperties
<1>2. /\ Append(t, row) \in Seq(Row) /\ Len(Append(t, row)) = Len(t) + 1
      /\ \A i \in 1 .. Len(t) : Append(t, row)[i] = t[i]
      /\ Append(t, row)[Len(t) + 1] = row
  BY LenProperties
<1>3. /\ Append(s \o t, row) \in Seq(Row) /\ Len(Append(s \o t, row)) = Len(s) + Len(t) + 1
      /\ \A i \in 1 .. Len(s) + Len(t) : Append(s \o t, row)[i] = (s \o t)[i]
      /\ Append(s \o t, row)[Len(s) + Len(t) + 1] = row
  BY <1>1, LenProperties
<1>4. /\ s \o Append(t, row) \in Seq(Row) /\ Len(s \o Append(t, row)) = Len(s) + Len(t) + 1
      /\ \A i \in 1 .. Len(s) + Len(t) + 1 : (s \o Append(t, row))[i] =
                     IF i <= Len(s) THEN s[i] ELSE Append(t, row)[i - Len(s)]
  <2>1. Len(s) \in Nat /\ Len(t) \in Nat
    BY LenProperties
  <2> QED
    BY <1>2, <2>1, ConcatProperties
<1>5. ASSUME NEW i \in 1 .. Len(s) + Len(t) + 1 PROVE (s \o Append(t, row))[i] = Append(s \o t, row)[i]
  <2>1. Len(s) \in Nat /\ Len(t) \in Nat
    BY LenProperties
  <2>2. CASE i <= Len(s)
    BY <1>3, <1>4, <2>1, <2>2, ConcatProperties
  <2>3. CASE i > Len(s) /\ i <= Len(s) + Len(t)
    <3>1. i - Len(s) \in 1 .. Len(t)
      BY <2>1, <2>3
    <3>2. (s \o t)[i] = t[i - Len(s)]
      BY <2>1, <2>3, ConcatProperties
    <3> QED
      BY <1>2, <1>3, <1>4, <2>1, <2>3, <3>1, <3>2
  <2>4. CASE i = Len(s) + Len(t) + 1
    <3>1. i - Len(s) = Len(t) + 1 /\ ~(i <= Len(s))
      BY <2>1, <2>4
    <3> QED
      BY <1>2, <1>3, <1>4, <2>4, <3>1
  <2> QED
    BY <2>1, <2>2, <2>3, <2>4
<1> QED
  BY <1>3, <1>4, <1>5, SeqEqual

\* Replaying the rows finds, for each key of table t, the row that t has.
Covers(rows, t) == \A k \in DOMAIN t : k \in DOMAIN Replay(rows) /\ Replay(rows)[k] = t[k]

\* A log that covers a memtable covers it after the same row went to both.
LEMMA CoversAppend ==
  ASSUME NEW rows \in Seq(Row), NEW t, Covers(rows, t), NEW row \in Row
  PROVE  Covers(Append(rows, row), Insert(t, row))
<1>1. Replay(Append(rows, row)) = Insert(Replay(rows), row)
  BY ReplayAppend
<1> QED
  BY <1>1 DEF Covers, Insert

\* The rows that are in the logs of the memtable's life, in their order.
Logs == restored \o early \o (IF logOpen THEN walFile \o walBuf ELSE <<>>)

\* The inductive invariant of LogCoversMap.  Nothing is buffered without a log; while
\* a log is restored nothing has been put, for a restore begins with a memtable that
\* has no row.
LogInvariant ==
  /\ ~logOpen => walBuf = <<>>
  /\ stream # NoStream => ~logOpen /\ early = <<>>
  /\ ~logOpen /\ counter = 0 => early = <<>>
  /\ Covers(Logs, Newest(map))

\* A row that is put goes to the end of the logs, and so does a row restored.
LEMMA PutLogs ==
  ASSUME TypeOK, LogInvariant, NEW row \in Row, InsertRow(row)
  PROVE  Logs' = Append(Logs, row)
<1>1. /\ restored \in Seq(Row) /\ early \in Seq(Row) /\ walFile \in Seq(Row) /\ walBuf \in Seq(Row)
      /\ restored' = restored /\ walFile' = walFile /\ logOpen' = logOpen /\ logOpen \in BOOLEAN
      /\ restored \o early \in Seq(Row)
  BY ConcatProperties DEF TypeOK, InsertRow
<1>2. CASE logOpen
  <2>1. early' = early /\ walBuf' = Append(walBuf, row)
    BY <1>2 DEF InsertRow, Log
  <2>2. walFile \o Append(walBuf, row) = Append(walFile \o walBuf, row)
    BY <1>1, ConcatAppend
  <2>3. (restored \o early) \o Append(walFile \o walBuf, row)
          = Append((restored \o early) \o (walFile \o walBuf), row)
    <3>1. walFile \o walBuf \in Seq(Row)
      BY <1>1, ConcatProperties
    <3> QED
      BY <1>1, <3>1, ConcatAppend
  <2>4. Logs' = (restored \o early) \o (walFile \o Append(walBuf, row))
    BY <1>1, <1>2, <2>1 DEF Logs
  <2>5. Logs = (restored \o early) \o (walFile \o walBuf)
    BY <1>2 DEF Logs
  <2> QED
    BY <2>2, <2>3, <2>4, <2>5
<1>3. CASE ~logOpen
  <2>1. early' = Append(early, row) /\ early' \in Seq(Row)
    BY <1>1, <1>3 DEF InsertRow
  <2>2. Logs' = (restored \o early') \o <<>>
    BY <1>1, <1>3 DEF Logs
  <2>3. Logs = (restored \o early) \o <<>>
    BY <1>3 DEF Logs
  <2>4. Logs = restored \o early
    BY <1>1, <2>3, ConcatEmptySeq
  <2>5. Logs' = restored \o early'
    <3>1. restored \o early' \in Seq(Row)
      BY <1>1, <2>1, ConcatProperties
    <3> QED
      BY <2>2, <3>1, ConcatEmptySeq
  <2>6. restored \o Append(early, row) = Append(restored \o early, row)
    BY <1>1, ConcatAppend
  <2> QED
    BY <2>1, <2>4, <2>5, <2>6
<1> QED
  BY <1>1, <1>2, <1>3

\* A step of the memtable keeps the invariant.
LEMMA StepLogInvariant ==
  ASSUME TypeOK, LogInvariant, [Next]_vars
  PROVE  LogInvariant'
<1>1. ASSUME NEW row \in InputRows, InsertRow(row) PROVE LogInvariant'
  <2>1. row \in Row /\ map' = Inserted(row)
    BY <1>1, InputAssumption DEF InsertRow
  <2>2. Logs' = Append(Logs, row) /\ Logs \in Seq(Row)
    <3>1. Logs \in Seq(Row)
      BY ConcatProperties, EmptySequence DEF Logs, TypeOK
    <3> QED
      BY <1>1, <2>1, <3>1, PutLogs
  <2>3. Newest(map)' = Insert(Newest(map), row)
    BY <2>1, NewestInserted
  <2>4. Covers(Logs, Newest(map))'
    <3>1. Covers(Append(Logs, row), Insert(Newest(map), row))
      BY <2>1, <2>2, CoversAppend DEF LogInvariant
    <3> QED
      BY <2>2, <2>3, <3>1 DEF Covers
  <2>5. ~logOpen' => walBuf' = <<>>
    BY <1>1 DEF InsertRow, Log, LogInvariant
  <2>6. stream' = NoStream /\ counter' # 0
    BY <1>1 DEF InsertRow, TypeOK
  <2> QED
    BY <2>4, <2>5, <2>6 DEF LogInvariant
<1>2. CASE BeginRestore
  <2>1. early = <<>> /\ ~logOpen
    BY <1>2 DEF BeginRestore, LogInvariant
  <2>2. UNCHANGED <<map, counter, restored, early, logOpen, walBuf>>
    BY <1>2 DEF BeginRestore
  <2>3. Logs' = Logs
    BY <2>1, <2>2 DEF Logs
  <2> QED
    BY <2>1, <2>2, <2>3 DEF LogInvariant, Covers
<1>3. CASE RestoreRow
  <2>1. PICK row \in IF stream = <<>> THEN RowsFromNothing ELSE {Head(stream)} :
          map' = Inserted(row) /\ restored' = Append(restored, row)
    BY <1>3 DEF RestoreRow
  <2>2. row \in Row
    <3>1. stream \in Seq(Row)
      BY <1>3 DEF RestoreRow, TypeOK
    <3> QED
      BY <2>1, <3>1, FromNothingType
  <2>3. /\ ~logOpen /\ early = <<>> /\ walBuf = <<>> /\ restored \in Seq(Row)
        /\ UNCHANGED <<logOpen, early, walBuf>>
    BY <1>3 DEF RestoreRow, LogInvariant, TypeOK
  <2>4. Logs = restored /\ Logs' = Append(restored, row)
    <3>1. \A s \in Seq(Row) : (s \o <<>>) \o <<>> = s
      BY ConcatEmptySeq
    <3>2. Logs = (restored \o <<>>) \o <<>> /\ Logs' = (Append(restored, row) \o <<>>) \o <<>>
      BY <2>1, <2>3 DEF Logs
    <3>3. Append(restored, row) \in Seq(Row)
      BY <2>2, <2>3
    <3> QED
      BY <2>3, <3>1, <3>2, <3>3
  <2>5. Newest(map)' = Insert(Newest(map), row)
    BY <2>1, <2>2, NewestInserted
  <2>6. Covers(Logs, Newest(map))'
    <3>1. Covers(Append(restored, row), Insert(Newest(map), row))
      BY <2>2, <2>3, <2>4, CoversAppend DEF LogInvariant
    <3> QED
      BY <2>4, <2>5, <3>1 DEF Covers
  <2> QED
    BY <2>3, <2>6 DEF LogInvariant
<1>4. CASE SetWriteAheadLog
  <2>1. walBuf = <<>> /\ ~logOpen /\ stream = NoStream
    BY <1>4 DEF SetWriteAheadLog, LogInvariant
  <2>2. /\ logOpen' /\ walFile' = <<>>
        /\ UNCHANGED <<map, restored, early, walBuf, stream>>
    BY <1>4 DEF SetWriteAheadLog
  <2>3. <<>> \o <<>> = <<>>
    BY EmptySequence, ConcatEmptySeq
  <2>4. Logs' = Logs
    BY <2>1, <2>2, <2>3 DEF Logs
  <2> QED
    BY <2>1, <2>2, <2>4 DEF LogInvariant, Covers
<1>5. CASE Clear \/ Renew
  <2>1. /\ map' = EmptyMap /\ walBuf' = <<>> /\ stream' = NoStream
        /\ logOpen' \/ early' = <<>>
    BY <1>5 DEF Clear, Renew
  <2>2. DOMAIN Newest(map)' = {}
    <3>1. DOMAIN EmptyTable = {}
      BY DEF EmptyTable
    <3> QED
      BY <2>1, <3>1, NewestEmpty
  <2>3. Covers(Logs, Newest(map))'
    BY <2>2 DEF Covers
  <2> QED
    BY <2>1, <2>3 DEF LogInvariant
<1>6. CASE UNCHANGED vars
  BY <1>6 DEF vars, LogInvariant, Logs, Covers
<1> QED
  BY <1>1, <1>2, <1>3, <1>4, <1>5, <1>6 DEF Next

\* The rows restored and the log hold, for every key, the row that the memtable
\* holds: a put that the log missed, or a log truncated after a put that it held,
\* would leave a key that only the memory has.
THEOREM LogCoversMapHolds == Spec => []LogCoversMap
<1>1. ASSUME Init PROVE LogInvariant
  <2>1. map = EmptyMap /\ walBuf = <<>> /\ early = <<>> /\ stream = NoStream
    BY <1>1 DEF Init
  <2>2. DOMAIN Newest(map) = {}
    <3>1. DOMAIN EmptyTable = {}
      BY DEF EmptyTable
    <3> QED
      BY <2>1, <3>1, NewestEmpty
  <2> QED
    BY <2>1, <2>2 DEF LogInvariant, Covers
<1>2. TypeOK /\ LogInvariant /\ [Next]_vars => LogInvariant'
  BY StepLogInvariant
<1>3. LogInvariant => LogCoversMap
  BY DEF LogInvariant, Covers, Logs, LogCoversMap
<1> QED
  BY <1>1, <1>2, <1>3, MemTableTypes, PTL DEF Spec

-----------------------------------------------------------------------------
(* What a segment takes                                                    *)

\* The domain of a table is finite.
LEMMA TableFinite ==
  ASSUME NEW t, IsTable(t)
  PROVE  IsFiniteSet(DOMAIN t) /\ FileSize(t) \in Nat
<1>1. DOMAIN t \subseteq KeyIds /\ IsFiniteSet(KeyIds)
  BY KeysAssumption, FS_Interval DEF KeyIds, IsTable
<1>2. IsFiniteSet(DOMAIN t)
  BY <1>1, FS_Subset
<1> QED
  BY <1>2, BytesOfFinite DEF FileSize

\* A row inserted makes the file of a table longer by its size at most: the older row
\* of its key goes.
LEMMA FileSizeInsert ==
  ASSUME NEW t, IsTable(t), NEW row \in Row
  PROVE  FileSize(Insert(t, row)) <= FileSize(t) + RowSize(row)
<1> DEFINE u == Insert(t, row)
           k == row.key
           ks == DOMAIN t \ {k}
<1>1. DOMAIN u = ks \cup {k} /\ u[k] = row /\ \A j \in ks : u[j] = t[j]
  BY DEF Insert
<1>2. IsFiniteSet(DOMAIN t) /\ FileSize(t) \in Nat /\ IsFiniteSet(ks)
  BY TableFinite, FS_Subset
<1>3. k \notin ks /\ ks \subseteq DOMAIN t
  OBVIOUS
<1> HIDE DEF u, k, ks
<1>4. Cardinality(Bytes(u, ks \cup {k})) = Cardinality(Bytes(t, ks)) + RowSize(u[k])
  BY <1>1, <1>2, <1>3, BytesOneMore
<1>5. Cardinality(Bytes(t, ks)) <= FileSize(t) /\ Cardinality(Bytes(t, ks)) \in Nat
  <2>1. Bytes(t, ks) \in SUBSET Bytes(t, DOMAIN t)
    BY <1>3 DEF Bytes
  <2>2. IsFiniteSet(Bytes(t, DOMAIN t)) /\ Cardinality(Bytes(t, ks)) \in Nat
    BY <1>2, BytesOfFinite
  <2> QED
    BY <2>1, <2>2, FS_Subset DEF FileSize
<1>6. FileSize(u) = Cardinality(Bytes(t, ks)) + RowSize(row)
  BY <1>1, <1>4 DEF FileSize
<1>7. RowSize(row) \in Nat
  BY RowSizeType, SizesAssumption
<1> QED
  BY <1>2, <1>5, <1>6, <1>7 DEF u

\* A row appended makes a log longer by its size.
LEMMA FileSizeAppend ==
  ASSUME NEW rows \in Seq(Row), NEW row \in Row
  PROVE  /\ FileSize(rows) \in Nat
         /\ FileSize(Append(rows, row)) = FileSize(rows) + RowSize(row)
<1> DEFINE u == Append(rows, row)
           n == Len(rows)
<1>1. /\ n \in Nat /\ DOMAIN rows = 1 .. n /\ DOMAIN u = 1 .. n + 1
      /\ u[n + 1] = row /\ \A j \in 1 .. n : u[j] = rows[j]
  BY LenProperties
<1> HIDE DEF u, n
<1> DEFINE js == 1 .. n
           last == n + 1
<1>2. IsFiniteSet(js)
  BY <1>1, FS_Interval
<1>3. last \notin js /\ DOMAIN u = js \cup {last} /\ DOMAIN rows = js
  BY <1>1
<1>4. u[last] = row /\ \A j \in js : RowSize(u[j]) = RowSize(rows[j])
  BY <1>1
<1> HIDE DEF js, last
<1>5. Cardinality(Bytes(u, js \cup {last})) = Cardinality(Bytes(rows, js)) + RowSize(u[last])
  BY <1>2, <1>3, <1>4, BytesOneMore
<1>6. Cardinality(Bytes(rows, js)) \in Nat
  BY <1>2, BytesOfFinite
<1> QED
  BY <1>3, <1>4, <1>5, <1>6 DEF FileSize, u

\* A table without rows takes no byte.
LEMMA FileSizeEmpty == FileSize(EmptyTable) = 0 /\ FileSize(<<>>) = 0
<1>1. DOMAIN EmptyTable = {} /\ DOMAIN <<>> = {}
  BY DEF EmptyTable
<1>2. \A t : Bytes(t, {}) = {}
  BY DEF Bytes
<1> QED
  BY <1>1, <1>2, FS_EmptySet DEF FileSize

\* The inductive invariant: what find finds would take no more than what was counted
\* and restored.
SizeCovers == FileSize(Newest(map)) <= size + FileSize(restored)

LEMMA SizeInserted ==
  ASSUME TypeOK, SizeCovers, NEW row \in Row, map' = Inserted(row),
         \/ size' = size + RowSize(row) /\ restored' = restored
         \/ size' = size /\ restored' = Append(restored, row)
  PROVE  SizeCovers'
<1>1. IsTable(Newest(map)) /\ restored \in Seq(Row) /\ size \in Nat
  <2>1. IsMap(map, counter) /\ HoldsRows(map)
    BY DEF TypeOK, IsMap, HoldsRows
  <2> QED
    BY <2>1, NewestType DEF TypeOK
<1>2. Newest(map)' = Insert(Newest(map), row)
  BY NewestInserted
<1>3. FileSize(Newest(map)') <= FileSize(Newest(map)) + RowSize(row)
  BY <1>1, <1>2, FileSizeInsert
<1>4. FileSize(restored) \in Nat /\ FileSize(Append(restored, row)) = FileSize(restored) + RowSize(row)
  BY <1>1, FileSizeAppend
<1>5. RowSize(row) \in Nat
  BY RowSizeType, SizesAssumption
<1>6. FileSize(Newest(map)) \in Nat /\ FileSize(Newest(map)') \in Nat
  <2>1. IsTable(Newest(map)')
    BY <1>1, <1>2, InsertType
  <2> QED
    BY <1>1, <2>1, TableFinite
<1>7. FileSize(Newest(map)) <= size + FileSize(restored)
  BY DEF SizeCovers
<1>8. FileSize(Newest(map)') <= size' + FileSize(restored')
  <2>1. CASE size' = size + RowSize(row) /\ restored' = restored
    <3>1. FileSize(restored') = FileSize(restored)
      BY <2>1
    <3> QED
      BY <1>1, <1>3, <1>4, <1>5, <1>6, <1>7, <2>1, <3>1
  <2>2. CASE size' = size /\ restored' = Append(restored, row)
    <3>1. FileSize(restored') = FileSize(Append(restored, row))
      BY <2>2
    <3> QED
      BY <1>1, <1>3, <1>4, <1>5, <1>6, <1>7, <2>2, <3>1
  <2> QED
    BY <2>1, <2>2
<1> QED
  BY <1>8 DEF SizeCovers

LEMMA StepSizeCovers ==
  ASSUME TypeOK, SizeCovers, [Next]_vars
  PROVE  SizeCovers'
<1>1. ASSUME NEW row \in InputRows, InsertRow(row) PROVE SizeCovers'
  BY <1>1, InputAssumption, SizeInserted DEF InsertRow, Count
<1>2. CASE RestoreRow
  <2>1. PICK row \in IF stream = <<>> THEN RowsFromNothing ELSE {Head(stream)} :
          map' = Inserted(row) /\ restored' = Append(restored, row)
    BY <1>2 DEF RestoreRow
  <2>2. row \in Row
    <3>1. stream \in Seq(Row)
      BY <1>2 DEF RestoreRow, TypeOK
    <3> QED
      BY <2>1, <3>1, FromNothingType
  <2>3. size' = size
    BY <1>2 DEF RestoreRow
  <2> QED
    BY <2>1, <2>2, <2>3, SizeInserted
<1>3. CASE BeginRestore \/ SetWriteAheadLog \/ UNCHANGED vars
  BY <1>3 DEF BeginRestore, SetWriteAheadLog, vars, SizeCovers
<1>4. CASE Clear \/ Renew
  <2>1. Newest(map)' = EmptyTable /\ size' = 0 /\ (restored' = restored \/ restored' = <<>>)
    BY <1>4, NewestEmpty DEF Clear, Renew
  <2>2. FileSize(restored) \in Nat
    <3>1. restored \in Seq(Row) /\ RemoveRow(0) \in Row
      BY RemoveRowType, KeysAssumption DEF TypeOK, KeyIds
    <3> QED
      BY <3>1, FileSizeAppend
  <2> QED
    BY <2>1, <2>2, FileSizeEmpty DEF SizeCovers
<1> QED
  BY <1>1, <1>2, <1>3, <1>4 DEF Next

\* The file of a snapshot takes no more bytes than put and remove counted and a restart
\* brought back: overwritten rows are counted and not saved, no row is saved uncounted.
THEOREM SizeCoversSegmentHolds == Spec => []SizeCoversSegment
<1>1. Init => SizeCovers
  BY NewestEmpty, FileSizeEmpty DEF Init, SizeCovers
<1>2. TypeOK /\ SizeCovers /\ [Next]_vars => SizeCovers'
  BY StepSizeCovers
<1>3. TypeOK /\ SizeCovers => SizeCoversSegment
  <2> SUFFICES ASSUME TypeOK, SizeCovers PROVE SizeCoversSegment
    OBVIOUS
  <2>1. IsMap(map, counter) /\ HoldsRows(map)
    BY DEF TypeOK, IsMap, HoldsRows
  <2>2. TableOf(map) = CreateSortedStringsTable(Newest(map))
    BY <2>1, SavedIsFound
  <2>3. TableOf(map) = Newest(map) \/ TableOf(map) = EmptyTable
    BY <2>2 DEF CreateSortedStringsTable
  <2>4. FileSize(Newest(map)) \in Nat
    BY <2>1, NewestType, TableFinite
  <2>5. size + FileSize(restored) >= 0
    <3>1. restored \in Seq(Row) /\ RemoveRow(0) \in Row /\ size \in Nat
      BY RemoveRowType, KeysAssumption DEF TypeOK, KeyIds
    <3>2. FileSize(restored) \in Nat
      BY <3>1, FileSizeAppend
    <3> QED
      BY <3>1, <3>2
  <2> QED
    BY <2>3, <2>5, FileSizeEmpty DEF SizeCovers, SizeCoversSegment
<1> QED
  BY <1>1, <1>2, <1>3, MemTableTypes, PTL DEF Spec

-----------------------------------------------------------------------------
(* The index of what is saved                                              *)

\* Sets between which there is a bijection have as many elements.
LEMMA SameCount ==
  ASSUME NEW S, NEW T, IsFiniteSet(S), NEW f \in [S -> T],
         \A a, b \in S : f[a] = f[b] => a = b,
         \A b \in T : \E a \in S : f[a] = b
  PROVE  Cardinality(S) = Cardinality(T)
<1>1. f \in Bijection(S, T)
  BY DEF Bijection, Injection, Surjection, IsInjective
<1> QED
  BY <1>1, FS_Bijection DEF ExistsBijection

\* No two elements kept have the same key, and a table has their rows.
LEMMA KeptOnce ==
  ASSUME NEW m, NEW n, IsMap(m, n)
  PROVE  /\ Kept(m) \subseteq DOMAIN m
         /\ \A a, b \in Kept(m) : a.key = b.key => a = b
         /\ DOMAIN TableOf(m) = {a.key : a \in Kept(m)}
         /\ \A a \in Kept(m) : TableOf(m)[a.key] = m[a]
<1>1. Kept(m) \subseteq DOMAIN m
  BY DEF Kept
<1>2. ASSUME NEW a \in Kept(m), NEW b \in Kept(m), a.key = b.key PROVE a = b
  <2>1. \E c \in DOMAIN m : c.key # NPos
    BY <1>2, KeptNPos
  <2>2. NewestOfKey(m, a) /\ NewestOfKey(m, b)
    BY <1>1, <2>1, KeptNewest
  <2>3. a.id <= b.id /\ b.id <= a.id /\ a.id \in Nat /\ b.id \in Nat
    BY <1>1, <1>2, <2>2, Element DEF NewestOfKey
  <2> QED
    BY <1>1, <1>2, <2>3, SameElement
<1>3. ASSUME NEW a \in Kept(m) PROVE TableOf(m)[a.key] = m[a]
  <2> DEFINE c == CHOOSE b \in Kept(m) : b.key = a.key
  <2>1. c \in Kept(m) /\ c.key = a.key
    OBVIOUS
  <2>2. TableOf(m)[a.key] = m[c]
    BY DEF TableOf
  <2> HIDE DEF c
  <2> QED
    BY <1>2, <2>1, <2>2
<1>4. DOMAIN TableOf(m) = {a.key : a \in Kept(m)}
  BY DEF TableOf
<1> QED
  BY <1>1, <1>2, <1>3, <1>4

\* The loop that makes the index adds up what stands before the row in the file.
LEMMA KeptOffset ==
  ASSUME NEW m, NEW n, IsMap(m, n), HoldsRows(m), NEW k
  PROVE  Cardinality(Bytes(m, {a \in Kept(m) : a.key < k})) = Offset(TableOf(m), k)
<1> DEFINE t == TableOf(m)
           ks == {j \in DOMAIN t : j < k}
           as == {a \in Kept(m) : a.key < k}
           element(j) == CHOOSE a \in Kept(m) : a.key = j
           f == [b \in Bytes(t, ks) |-> <<element(b[1]), b[2]>>]
<1>1. /\ \A a, b \in Kept(m) : a.key = b.key => a = b
      /\ DOMAIN t = {a.key : a \in Kept(m)}
      /\ \A a \in Kept(m) : t[a.key] = m[a]
  BY KeptOnce
<1>2. ks \subseteq KeyIds
  <2>1. IsTable(t)
    BY TableOfType
  <2> QED
    BY <2>1 DEF IsTable
<1>3. IsFiniteSet(Bytes(t, ks))
  BY <1>2, BytesFinite
<1>4. \A j \in ks : element(j) \in Kept(m) /\ element(j).key = j /\ j < k
  BY <1>1
<1> HIDE DEF t, ks, element
<1>5. \A j \in ks : element(j) \in as /\ m[element(j)] = t[j] /\ element(j).key = j
  BY <1>1, <1>4
<1>6. f \in [Bytes(t, ks) -> Bytes(m, as)]
  <2> SUFFICES ASSUME NEW b \in Bytes(t, ks) PROVE <<element(b[1]), b[2]>> \in Bytes(m, as)
    OBVIOUS
  <2>1. b[1] \in ks /\ b[2] \in 1 .. HeaderSize + ValueSize /\ b[2] <= RowSize(t[b[1]])
    BY DEF Bytes
  <2>2. element(b[1]) \in as /\ RowSize(m[element(b[1])]) = RowSize(t[b[1]])
    BY <1>5, <2>1
  <2> QED
    BY <2>1, <2>2 DEF Bytes
<1>7. ASSUME NEW b \in Bytes(t, ks), NEW c \in Bytes(t, ks), f[b] = f[c] PROVE b = c
  <2>1. b[1] \in ks /\ c[1] \in ks /\ b = <<b[1], b[2]>> /\ c = <<c[1], c[2]>>
    BY DEF Bytes
  <2>2. element(b[1]) = element(c[1]) /\ b[2] = c[2]
    BY <1>7
  <2> QED
    BY <1>5, <2>1, <2>2
<1>8. ASSUME NEW c \in Bytes(m, as) PROVE \E b \in Bytes(t, ks) : f[b] = c
  <2>1. c[1] \in as /\ c[2] \in 1 .. HeaderSize + ValueSize /\ c[2] <= RowSize(m[c[1]]) /\ c = <<c[1], c[2]>>
    BY DEF Bytes
  <2>2. c[1].key \in ks /\ t[c[1].key] = m[c[1]]
    BY <1>1, <2>1 DEF ks
  <2>3. element(c[1].key) = c[1]
    BY <1>1, <1>5, <2>1, <2>2
  <2>4. <<c[1].key, c[2]>> \in Bytes(t, ks)
    BY <2>1, <2>2 DEF Bytes
  <2> QED
    BY <2>1, <2>3, <2>4
<1> HIDE DEF f
<1>9. Cardinality(Bytes(t, ks)) = Cardinality(Bytes(m, as))
  BY <1>3, <1>6, <1>7, <1>8, SameCount
<1> QED
  BY <1>9 DEF Offset, t, ks

\* createSortedStringsTableIndex makes the index of what createSortedStringsTable
\* makes.
LEMMA IndexOfSaved ==
  ASSUME NEW m, NEW n, IsMap(m, n), HoldsRows(m)
  PROVE  TableIndexOf(m) = SSTableIndex(TableOf(m))
<1>1. DOMAIN TableOf(m) = {a.key : a \in Kept(m)}
  BY KeptOnce
<1>2. ASSUME NEW k \in DOMAIN TableOf(m)
      PROVE  Cardinality(Bytes(m, {a \in Kept(m) : a.key < k})) % OffsetRange = Offset(TableOf(m), k) % OffsetRange
  BY KeptOffset
<1>3. ASSUME NEW k \in DOMAIN TableOf(m)
      PROVE  TableOf(m)[k] = m[CHOOSE a \in Kept(m) : a.key = k]
  BY <1>1 DEF TableOf
<1> QED
  BY <1>1, <1>2, <1>3 DEF TableIndexOf, SSTableIndex

\* A list with a table in front.
LEMMA InFront ==
  ASSUME NEW R, NEW list \in Seq(R), NEW table \in R
  PROVE  /\ <<table>> \o list \in Seq(R)
         /\ DOMAIN (<<table>> \o list) = 1 .. Len(list) + 1
         /\ (<<table>> \o list)[1] = table
         /\ \A i \in 1 .. Len(list) : (<<table>> \o list)[i + 1] = list[i]
<1>1. <<table>> \in Seq(R) /\ Len(<<table>>) = 1 /\ <<table>>[1] = table
  OBVIOUS
<1>2. Len(list) \in Nat /\ DOMAIN list = 1 .. Len(list)
  BY LenProperties
<1>3. /\ <<table>> \o list \in Seq(R) /\ Len(<<table>> \o list) = 1 + Len(list)
      /\ \A i \in 1 .. 1 + Len(list) :
           (<<table>> \o list)[i] = IF i <= 1 THEN <<table>>[i] ELSE list[i - 1]
  BY <1>1, ConcatProperties
<1>4. DOMAIN (<<table>> \o list) = 1 .. Len(list) + 1
  BY <1>2, <1>3, LenProperties
<1> QED
  BY <1>1, <1>2, <1>3, <1>4

\* The table index that the first n hints give.
Known(hints, order, n) == [k \in {order[i] : i \in 1 .. n} |-> hints[k]]

\* The list after the first n hints of a table that it did not have.
Built(list, fileId, hints, order, n) ==
  IF n = 0 THEN list ELSE <<[fileId |-> fileId, map |-> Known(hints, order, n)]>> \o list

\* Index::insert of one hint more.
LEMMA BuiltStep ==
  ASSUME NEW R, NEW list \in Seq(R), NEW fileId, ~Indexed(list, fileId),
         NEW hints, NEW order, NEW n \in Nat
  PROVE  Built(list, fileId, hints, order, n + 1)
           = IndexInsert(Built(list, fileId, hints, order, n), fileId, order[n + 1], hints[order[n + 1]])
<1> DEFINE k == order[n + 1]
           more == [fileId |-> fileId, map |-> Known(hints, order, n + 1)]
           some == [fileId |-> fileId, map |-> Known(hints, order, n)]
<1>1. Built(list, fileId, hints, order, n + 1) = <<more>> \o list
  BY DEF Built
<1>2. CASE n = 0
  <2>1. {order[i] : i \in 1 .. n + 1} = {k}
    BY <1>2
  <2>2. Known(hints, order, n + 1) = [j \in {k} |-> hints[k]]
    BY <2>1 DEF Known
  <2>3. Built(list, fileId, hints, order, n) = list
    BY <1>2 DEF Built
  <2> QED
    BY <1>1, <2>2, <2>3 DEF IndexInsert, IndexUpdate
<1>3. CASE n # 0
  <2> DEFINE Q == R \cup {more, some}
             front == <<some>> \o list
             back == <<more>> \o list
             put(t) == [t EXCEPT !.map = [j \in DOMAIN @ \cup {k} |-> IF j = k THEN hints[k] ELSE @[j]]]
  <2>1. list \in Seq(Q) /\ more \in Q /\ some \in Q /\ Len(list) \in Nat /\ DOMAIN list = 1 .. Len(list)
    BY LenProperties
  <2> HIDE DEF Q
  <2>2. /\ back \in Seq(Q) /\ DOMAIN back = 1 .. Len(list) + 1 /\ back[1] = more
        /\ \A i \in 1 .. Len(list) : back[i + 1] = list[i]
    <3> HIDE DEF more
    <3> QED
      BY <2>1, InFront
  <2>3. /\ front \in Seq(Q) /\ DOMAIN front = 1 .. Len(list) + 1 /\ front[1] = some
        /\ \A i \in 1 .. Len(list) : front[i + 1] = list[i]
    <3> HIDE DEF some
    <3> QED
      BY <2>1, InFront
  <2>4. Built(list, fileId, hints, order, n) = front
    BY <1>3 DEF Built
  <2>5. put(some) = more
    <3>1. {order[i] : i \in 1 .. n + 1} = {order[i] : i \in 1 .. n} \cup {k}
      OBVIOUS
    <3>2. Known(hints, order, n + 1)
            = [j \in DOMAIN Known(hints, order, n) \cup {k} |-> IF j = k THEN hints[k] ELSE Known(hints, order, n)[j]]
      BY <3>1 DEF Known
    <3> QED
      BY <3>2
  <2>6. some.fileId = fileId
    OBVIOUS
  <2> HIDE DEF front, back, some, more, k
  <2>7. Indexed(front, fileId)
    BY <2>1, <2>3, <2>6 DEF Indexed
  <2>8. \A i \in 1 .. Len(list) : list[i].fileId # fileId
    BY <2>1 DEF Indexed
  <2>9. IndexInsert(front, fileId, k, hints[k])
          = [i \in DOMAIN front |-> IF front[i].fileId # fileId THEN front[i] ELSE put(front[i])]
    BY <2>7 DEF IndexInsert
  <2> HIDE DEF put
  <2>10. ASSUME NEW i \in DOMAIN front
         PROVE  (IF front[i].fileId # fileId THEN front[i] ELSE put(front[i])) = back[i]
    <3>1. CASE i = 1
      BY <2>2, <2>3, <2>5, <2>6, <3>1
    <3>2. CASE i # 1
      <4>1. i - 1 \in 1 .. Len(list) /\ i - 1 + 1 = i
        BY <2>1, <2>3, <3>2
      <4>2. front[i] = list[i - 1] /\ back[i] = list[i - 1] /\ list[i - 1].fileId # fileId
        BY <2>2, <2>3, <2>8, <4>1
      <4> QED
        BY <4>2
    <3> QED
      BY <3>1, <3>2
  <2>11. back = [i \in DOMAIN front |-> back[i]]
    <3>1. back = [i \in 1 .. Len(back) |-> back[i]] /\ DOMAIN back = 1 .. Len(back)
      BY <2>2, LenProperties
    <3> QED
      BY <2>2, <2>3, <3>1
  <2>12. IndexInsert(front, fileId, k, hints[k]) = back
    BY <2>9, <2>10, <2>11
  <2> QED
    BY <1>1, <2>4, <2>12 DEF k, back
<1> QED
  BY <1>2, <1>3

\* Index::insert of the hints one after the other.
LEMMA InsertionBuilds ==
  ASSUME NEW R, NEW list \in Seq(R), NEW fileId, ~Indexed(list, fileId),
         NEW hints, NEW K, NEW order \in Seq(K)
  PROVE  IndexByInsertion(list, fileId, hints, order) = Built(list, fileId, hints, order, Len(order))
<1> DEFINE S == 0 .. Len(order)
           turn(g, n) == IF n = 0 THEN list
                         ELSE IndexInsert(g[n - 1], fileId, order[n], hints[order[n]])
           f == [n \in S |-> Built(list, fileId, hints, order, n)]
           g == CHOOSE h : h = [n \in S |-> turn(h, n)]
<1>0. ASSUME NEW n \in Nat
      PROVE  Built(list, fileId, hints, order, n + 1)
               = IndexInsert(Built(list, fileId, hints, order, n), fileId, order[n + 1], hints[order[n + 1]])
  BY BuiltStep
<1>1. Len(order) \in Nat
  BY LenProperties
<1>2. ASSUME NEW n \in S PROVE f[n] = turn(f, n)
  <2>1. CASE n = 0
    BY <2>1 DEF Built
  <2>2. CASE n # 0
    <3>1. n - 1 \in Nat /\ n - 1 \in S /\ n - 1 + 1 = n
      BY <1>1, <2>2
    <3>2. Built(list, fileId, hints, order, n - 1 + 1)
            = IndexInsert(Built(list, fileId, hints, order, n - 1), fileId, order[n - 1 + 1], hints[order[n - 1 + 1]])
      BY <1>0, <3>1
    <3>3. f[n] = Built(list, fileId, hints, order, n) /\ f[n - 1] = Built(list, fileId, hints, order, n - 1)
      BY <3>1
    <3> HIDE DEF f
    <3> QED
      BY <2>2, <3>1, <3>2, <3>3
  <2> QED
    BY <2>1, <2>2
<1>3. g = [n \in S |-> turn(g, n)]
  <2>1. f = [n \in S |-> turn(f, n)]
    <3>1. f = [n \in S |-> f[n]]
      OBVIOUS
    <3> HIDE DEF f, turn
    <3> QED
      BY <1>2, <3>1
  <2> HIDE DEF f, turn
  <2> QED
    BY <2>1
<1>4. IndexByInsertion(list, fileId, hints, order) = g[Len(order)]
  BY DEF IndexByInsertion
<1> HIDE DEF g
<1>5. g[Len(order)] = f[Len(order)]
  <2> DEFINE wrong == {n \in S : g[n] # f[n]}
  <2> SUFFICES ASSUME wrong # {} PROVE FALSE
    BY <1>1
  <2>1. wrong \subseteq Nat
    BY <1>1
  <2>2. PICK n \in wrong : \A m \in wrong : n <= m
    <3> HIDE DEF wrong
    <3> QED
      BY <2>1, LeastNatural
  <2>3. n \in S /\ g[n] # f[n] /\ g[n] = turn(g, n) /\ f[n] = turn(f, n)
    BY <1>2, <1>3
  <2>4. n # 0
    BY <2>3
  <2>5. n - 1 \in S /\ n - 1 \notin wrong
    BY <1>1, <2>2, <2>3, <2>4
  <2>6. g[n - 1] = f[n - 1]
    BY <2>5
  <2> HIDE DEF f
  <2> QED
    BY <2>3, <2>4, <2>6
<1> QED
  BY <1>1, <1>4, <1>5

\* A list built of the hints in any order is the one that update makes of the table's
\* whole index; without a hint it stays as it was.
LEMMA InsertionIsUpdate ==
  ASSUME NEW R, NEW list \in Seq(R), NEW fileId, ~Indexed(list, fileId),
         NEW hints, hints = [k \in DOMAIN hints |-> hints[k]], IsFiniteSet(DOMAIN hints),
         NEW order \in Orders(DOMAIN hints)
  PROVE  IndexByInsertion(list, fileId, hints, order)
           = IF DOMAIN hints = {} THEN list ELSE IndexUpdate(list, [fileId |-> fileId, map |-> hints])
<1> DEFINE ks == DOMAIN hints
           n == Cardinality(ks)
<1>1. n \in Nat /\ order \in [1 .. n -> ks] /\ \A k \in ks : \E i \in 1 .. n : order[i] = k
  BY FS_CardinalityType DEF Orders
<1>2. order \in Seq(ks) /\ Len(order) = n
  BY <1>1
<1>3. n = 0 <=> ks = {}
  BY FS_EmptySet
<1> HIDE DEF n, ks
<1>4. {order[i] : i \in 1 .. n} = ks
  <2>1. \A i \in 1 .. n : order[i] \in ks
    BY <1>1
  <2> QED
    BY <1>1, <2>1
<1>5. Known(hints, order, n) = hints
  BY <1>4 DEF Known, ks
<1>6. IndexByInsertion(list, fileId, hints, order) = Built(list, fileId, hints, order, n)
  BY <1>2, InsertionBuilds
<1> QED
  BY <1>3, <1>5, <1>6 DEF Built, IndexUpdate, ks

\* The index of a snapshot, written as Index::insert builds it, leads every get to the
\* row that the memtable held, and past it to the rows of the snapshot before.
THEOREM InsertedHintsReadHolds == Spec => []InsertedHintsRead
<1>1. TypeOK => InsertedHintsRead
  <2> DEFINE newer == TableOf(map)
             older == IF saved = EmptyTable THEN <<>> ELSE IndexUpdate(<<>>, [fileId |-> 0, map |-> SSTableIndex(saved)])
             list(order) == IndexByInsertion(older, 1, TableIndexOf(map), order)
             hint(order, k) == IndexGet(list(order), k)
  <2> SUFFICES ASSUME TypeOK, Addressable(newer), Addressable(saved),
                      NEW order \in Orders(DOMAIN newer), NEW k \in DOMAIN newer \cup DOMAIN saved
               PROVE  /\ k \in DOMAIN newer => hint(order, k).fileId = 1 /\ ReadRows(newer, hint(order, k)) = {newer[k]}
                      /\ k \notin DOMAIN newer => hint(order, k).fileId = 0 /\ ReadRows(saved, hint(order, k)) = {saved[k]}
    BY DEF InsertedHintsRead
  <2> DEFINE hints == SSTableIndex(newer)
             table == [fileId |-> 1, map |-> hints]
             below == [fileId |-> 0, map |-> SSTableIndex(saved)]
             R == {table, below}
  <2>1. IsTable(newer) /\ IsTable(saved) /\ TableIndexOf(map) = hints
    <3>1. IsMap(map, counter) /\ HoldsRows(map)
      BY DEF TypeOK, IsMap, HoldsRows
    <3> QED
      BY <3>1, TableOfType, IndexOfSaved DEF TypeOK
  <2>2. /\ DOMAIN hints = DOMAIN newer /\ hints = [j \in DOMAIN hints |-> hints[j]]
        /\ IsFiniteSet(DOMAIN hints)
    BY <2>1, TableFinite DEF SSTableIndex
  <2>3. DOMAIN SSTableIndex(saved) = DOMAIN saved
    BY DEF SSTableIndex
  <2>4. /\ older \in Seq(R) /\ ~Indexed(older, 1)
        /\ older = <<>> \/ older = <<below>>
        /\ older = <<>> => DOMAIN saved = {}
    <3>1. CASE saved = EmptyTable
      BY <3>1 DEF Indexed, EmptyTable
    <3>2. CASE saved # EmptyTable
      <4>1. older = <<below>>
        BY <3>2 DEF IndexUpdate
      <4>2. \A i \in DOMAIN <<below>> : <<below>>[i].fileId = 0
        OBVIOUS
      <4> HIDE DEF older
      <4> QED
        BY <4>1, <4>2 DEF Indexed
    <3> QED
      BY <3>1, <3>2
  <2> HIDE DEF older
  <2>5. list(order) = IF DOMAIN newer = {} THEN older ELSE <<table>> \o older
    <3> HIDE DEF hints, R, newer
    <3>1. IndexByInsertion(older, 1, hints, order)
            = IF DOMAIN hints = {} THEN older ELSE IndexUpdate(older, table)
      BY <2>2, <2>4, InsertionIsUpdate
    <3> QED
      BY <2>1, <2>2, <3>1 DEF IndexUpdate
  <2> HIDE DEF list
  <2> DEFINE l == list(order)
  <2>6. /\ l \in Seq(R)
        /\ \A i \in DOMAIN l : l[i] \in {table, below}
        /\ k \in DOMAIN newer => 1 \in DOMAIN l /\ l[1] = table
        /\ k \notin DOMAIN newer => \E i \in DOMAIN l : l[i] = below
    <3>1. table \in R
      OBVIOUS
    <3>2. older = <<below>> => Len(older) = 1 /\ older[1] = below
      OBVIOUS
    <3> HIDE DEF table, below, hints, newer
    <3>3. CASE DOMAIN newer = {}
      BY <2>4, <2>5, <3>2, <3>3 DEF R
    <3>4. CASE DOMAIN newer # {}
      <4> HIDE DEF R
      <4>1. /\ <<table>> \o older \in Seq(R)
            /\ DOMAIN (<<table>> \o older) = 1 .. Len(older) + 1
            /\ (<<table>> \o older)[1] = table
            /\ \A i \in 1 .. Len(older) : (<<table>> \o older)[i + 1] = older[i]
        BY <2>4, <3>1, InFront
      <4>2. Len(older) \in Nat /\ l = <<table>> \o older
        BY <2>4, <2>5, <3>4, LenProperties
      <4> HIDE DEF l
      <4>3. k \notin DOMAIN newer => \E i \in DOMAIN l : l[i] = below
        <5> SUFFICES ASSUME k \notin DOMAIN newer PROVE l[2] = below /\ 2 \in DOMAIN l
          OBVIOUS
        <5>1. Len(older) = 1 /\ older[1] = below
          BY <2>4, <3>2
        <5> QED
          BY <4>1, <4>2, <5>1
      <4>4. \A i \in DOMAIN l : l[i] \in R
        BY <4>1, <4>2, SeqDef
      <4> QED
        BY <4>1, <4>2, <4>3, <4>4 DEF R
    <3> QED
      BY <3>3, <3>4
  <2> HIDE DEF l
  <2>7. /\ DOMAIN table.map = DOMAIN newer /\ DOMAIN below.map = DOMAIN saved
        /\ table.fileId = 1 /\ below.fileId = 0
        /\ table.map[k] = hints[k] /\ below.map[k] = SSTableIndex(saved)[k]
    BY <2>2, <2>3
  <2> HIDE DEF table, below, hints, newer
  <2>8. CASE k \in DOMAIN newer
    <3>1. 1 \in TablesWith(l, k)
      BY <2>6, <2>7, <2>8 DEF TablesWith
    <3>2. PICK i \in TablesWith(l, k) :
            /\ \A j \in TablesWith(l, k) : i <= j
            /\ IndexGet(l, k) = [fileId |-> l[i].fileId, offset |-> l[i].map[k].offset, size |-> l[i].map[k].size]
      BY <2>6, <3>1, IndexGetFirst
    <3>3. i = 1
      BY <2>6, <3>1, <3>2, LenProperties DEF TablesWith
    <3>4. /\ hint(order, k).fileId = 1
          /\ hint(order, k).offset = hints[k].offset /\ hint(order, k).size = hints[k].size
      BY <2>6, <2>7, <2>8, <3>2, <3>3 DEF l
    <3> HIDE DEF hint
    <3>5. ReadRows(newer, hints[k]) = {newer[k]}
      BY <2>1, <2>8, IndexedRowIsRead DEF hints
    <3> QED
      BY <2>8, <3>4, <3>5, SameHint
  <2>9. CASE k \notin DOMAIN newer
    <3>1. \E i \in DOMAIN l : i \in TablesWith(l, k)
      BY <2>6, <2>7, <2>9 DEF TablesWith
    <3>2. PICK i \in TablesWith(l, k) :
            IndexGet(l, k) = [fileId |-> l[i].fileId, offset |-> l[i].map[k].offset, size |-> l[i].map[k].size]
      BY <2>6, <3>1, IndexGetFirst
    <3>3. l[i] = below
      BY <2>6, <2>7, <2>9 DEF TablesWith
    <3>4. /\ hint(order, k).fileId = 0
          /\ hint(order, k).offset = SSTableIndex(saved)[k].offset
          /\ hint(order, k).size = SSTableIndex(saved)[k].size
      BY <2>7, <3>2, <3>3 DEF l
    <3> HIDE DEF hint
    <3>5. ReadRows(saved, SSTableIndex(saved)[k]) = {saved[k]}
      BY <2>1, <2>9, IndexedRowIsRead
    <3> QED
      BY <2>9, <3>4, <3>5, SameHint
  <2> QED
    BY <2>8, <2>9
<1> QED
  BY <1>1, MemTableTypes, PTL

-----------------------------------------------------------------------------
(* Tables as lists                                                         *)

\* How many elements of ks come before k.
Rank(ks, k) == Cardinality({j \in ks : j < k})

\* Ranks rise with the elements, from 0 to one less than their number.
LEMMA RankGrows ==
  ASSUME NEW ks, ks \subseteq Nat, IsFiniteSet(ks), NEW k \in ks
  PROVE  /\ Rank(ks, k) \in Nat /\ Rank(ks, k) \in 0 .. Cardinality(ks) - 1
         /\ \A j \in ks : j < k => Rank(ks, j) < Rank(ks, k)
<1> DEFINE below(i) == {j \in ks : j < i}
<1>1. \A i : below(i) \in SUBSET ks /\ IsFiniteSet(below(i)) /\ Cardinality(below(i)) \in Nat
  <2>1. \A i : below(i) \in SUBSET ks
    OBVIOUS
  <2> HIDE DEF below
  <2> QED
    BY <2>1, FS_Subset, FS_CardinalityType
<1>2. Cardinality(ks) \in Nat
  BY FS_CardinalityType
<1>3. Cardinality(below(k)) < Cardinality(ks)
  <2>1. k \notin below(k)
    OBVIOUS
  <2> HIDE DEF below
  <2>2. Cardinality(below(k)) <= Cardinality(ks) /\ Cardinality(below(k)) # Cardinality(ks)
    BY <1>1, <2>1, FS_Subset
  <2> QED
    BY <1>1, <1>2, <2>2
<1>4. ASSUME NEW j \in ks, j < k PROVE Cardinality(below(j)) < Cardinality(below(k))
  <2>1. below(j) \in SUBSET below(k) /\ j \in below(k) /\ j \notin below(j)
    <3>1. j \in Nat /\ k \in Nat /\ \A i \in ks : i \in Nat
      OBVIOUS
    <3>2. \A i \in ks : i < j => i < k
      BY <1>4, <3>1
    <3>3. below(j) \subseteq below(k)
      BY <3>2
    <3>4. j \in below(k) /\ j \notin below(j)
      BY <1>4, <3>1
    <3> QED
      BY <3>3, <3>4
  <2> HIDE DEF below
  <2>2. Cardinality(below(j)) <= Cardinality(below(k)) /\ Cardinality(below(j)) # Cardinality(below(k))
    BY <1>1, <2>1, FS_Subset
  <2> QED
    BY <1>1, <2>2
<1>5. \A i : Rank(ks, i) = Cardinality(below(i))
  BY DEF Rank
<1> HIDE DEF below
<1> QED
  BY <1>1, <1>2, <1>3, <1>4, <1>5

\* The element of a rank.
LEMMA NthKeyOfRank ==
  ASSUME NEW ks, ks \subseteq Nat, IsFiniteSet(ks), NEW k \in ks, NEW n, Rank(ks, k) = n - 1
  PROVE  NthKey(ks, n) = k
<1>1. \A j \in ks : Rank(ks, j) = n - 1 => j = k
  <2> SUFFICES ASSUME NEW j \in ks, Rank(ks, j) = Rank(ks, k) PROVE j = k
    OBVIOUS
  <2>1. j \in Nat /\ k \in Nat
    OBVIOUS
  <2>2. ~(j < k) /\ ~(k < j)
    <3>1. Rank(ks, j) \in Nat
      BY RankGrows
    <3>2. (j < k => Rank(ks, j) < Rank(ks, k)) /\ (k < j => Rank(ks, k) < Rank(ks, j))
      BY RankGrows
    <3> QED
      BY <3>1, <3>2
  <2> QED
    BY <2>1, <2>2
<1>2. NthKey(ks, n) = CHOOSE j \in ks : Rank(ks, j) = n - 1
  BY DEF NthKey, Rank
<1> QED
  BY <1>1, <1>2

\* There is one for each number.
LEMMA NthKeyIs ==
  ASSUME NEW ks, ks \subseteq Nat, IsFiniteSet(ks), NEW n \in 1 .. Cardinality(ks)
  PROVE  NthKey(ks, n) \in ks /\ Rank(ks, NthKey(ks, n)) = n - 1
<1> DEFINE T == 0 .. Cardinality(ks) - 1
           f == [k \in ks |-> Rank(ks, k)]
<1>1. Cardinality(ks) \in Nat
  BY FS_CardinalityType
<1>2. f \in Injection(ks, T)
  <2>1. f \in [ks -> T]
    BY RankGrows
  <2>2. ASSUME NEW j \in ks, NEW k \in ks, f[j] = f[k] PROVE j = k
    <3>1. j \in Nat /\ k \in Nat
      OBVIOUS
    <3>2. ~(j < k) /\ ~(k < j)
      <4>1. Rank(ks, j) \in Nat /\ Rank(ks, j) = Rank(ks, k)
        BY <2>2, RankGrows
      <4>2. (j < k => Rank(ks, j) < Rank(ks, k)) /\ (k < j => Rank(ks, k) < Rank(ks, j))
        BY RankGrows
      <4> QED
        BY <4>1, <4>2
    <3> QED
      BY <3>1, <3>2
  <2> QED
    BY <2>1, <2>2 DEF Injection, IsInjective
<1>3. IsFiniteSet(T) /\ Cardinality(T) = Cardinality(ks)
  <2> DEFINE b == Cardinality(ks) - 1
  <2>1. b \in Int /\ Cardinality(ks) = b + 1 /\ b >= -1
    BY <1>1
  <2> HIDE DEF b
  <2>2. IsFiniteSet(0 .. b) /\ Cardinality(0 .. b) = IF 0 > b THEN 0 ELSE b - 0 + 1
    BY <2>1, FS_Interval
  <2>3. Cardinality(0 .. b) = Cardinality(ks)
    BY <2>1, <2>2
  <2> QED
    BY <2>2, <2>3 DEF b
<1>4. f \in Surjection(ks, T)
  <2> HIDE DEF f, T
  <2> QED
    BY <1>2, <1>3, FS_Injection
<1>5. PICK k \in ks : Rank(ks, k) = n - 1
  <2>1. n - 1 \in T
    BY <1>1
  <2> QED
    BY <1>4, <2>1 DEF Surjection
<1>6. NthKey(ks, n) = k
  BY <1>5, NthKeyOfRank
<1> QED
  BY <1>5, <1>6

\* They rise with the numbers.
LEMMA NthKeyGrows ==
  ASSUME NEW ks, ks \subseteq Nat, IsFiniteSet(ks),
         NEW n \in 1 .. Cardinality(ks), NEW m \in 1 .. Cardinality(ks), n < m
  PROVE  NthKey(ks, n) < NthKey(ks, m)
<1> DEFINE j == NthKey(ks, n)
           k == NthKey(ks, m)
<1>1. j \in ks /\ k \in ks /\ Rank(ks, j) = n - 1 /\ Rank(ks, k) = m - 1
  BY NthKeyIs
<1>2. Cardinality(ks) \in Nat
  BY FS_CardinalityType
<1> HIDE DEF j, k
<1>3. ~(k < j) /\ j # k /\ j \in Nat /\ k \in Nat
  <2>1. k < j => Rank(ks, k) < Rank(ks, j)
    BY <1>1, RankGrows
  <2> QED
    BY <1>1, <1>2, <2>1
<1>4. j < k
  BY <1>3
<1> QED
  BY <1>4 DEF j, k

\* s enumerates ks in order.
Enumerates(s, N, ks) ==
  /\ s \in [1 .. N -> ks]
  /\ \A i, j \in 1 .. N : i < j => s[i] < s[j]
  /\ \A k \in ks : \E i \in 1 .. N : s[i] = k

\* And a rising enumeration is that one.
LEMMA RisingIsNth ==
  ASSUME NEW ks, ks \subseteq Nat, NEW N \in Nat, NEW s, Enumerates(s, N, ks)
  PROVE  /\ IsFiniteSet(ks) /\ Cardinality(ks) = N
         /\ \A n \in 1 .. N : NthKey(ks, n) = s[n]
<1>0. /\ s \in [1 .. N -> ks]
      /\ \A i, j \in 1 .. N : i < j => s[i] < s[j]
      /\ \A k \in ks : \E i \in 1 .. N : s[i] = k
  BY DEF Enumerates
<1>1. \A i, j \in 1 .. N : s[i] = s[j] => i = j
  <2> SUFFICES ASSUME NEW i \in 1 .. N, NEW j \in 1 .. N, s[i] = s[j], i # j PROVE FALSE
    OBVIOUS
  <2>1. s[i] \in Nat /\ s[j] \in Nat
    BY <1>0
  <2>2. i < j \/ j < i
    OBVIOUS
  <2> QED
    BY <1>0, <2>1, <2>2
<1>2. IsFiniteSet(1 .. N) /\ Cardinality(1 .. N) = N
  <2>1. IsFiniteSet(1 .. N) /\ Cardinality(1 .. N) = IF 1 > N THEN 0 ELSE N - 1 + 1
    BY FS_Interval
  <2> QED
    BY <2>1
<1>3. IsFiniteSet(ks) /\ Cardinality(ks) = N
  <2>1. s \in Surjection(1 .. N, ks)
    BY <1>0 DEF Surjection
  <2>2. IsFiniteSet(ks)
    BY <1>2, <2>1, FS_Surjection
  <2> QED
    BY <1>0, <1>1, <1>2, <2>2, SameCount
<1>4. ASSUME NEW n \in 1 .. N PROVE NthKey(ks, n) = s[n]
  <2> DEFINE S == 1 .. n - 1
             T == {j \in ks : j < s[n]}
             f == [i \in S |-> s[i]]
  <2>1. f \in [S -> T]
    BY <1>0
  <2>2. \A i, j \in S : f[i] = f[j] => i = j
    BY <1>1
  <2>3. ASSUME NEW k \in T PROVE \E i \in S : f[i] = k
    <3>1. PICK i \in 1 .. N : s[i] = k
      BY <1>0
    <3>2. s[n] \in Nat /\ k \in Nat /\ k < s[n]
      BY <1>0
    <3>3. ~(n < i) /\ i # n
      BY <1>0, <3>1, <3>2
    <3>4. i \in S
      BY <3>3
    <3> QED
      BY <3>1, <3>4
  <2>4. IsFiniteSet(S) /\ Cardinality(S) = n - 1
    <3>1. IsFiniteSet(S) /\ Cardinality(S) = IF 1 > n - 1 THEN 0 ELSE n - 1 - 1 + 1
      BY FS_Interval
    <3> QED
      BY <3>1
  <2>5. Cardinality(S) = Cardinality(T)
    <3> HIDE DEF S, T, f
    <3> QED
      BY <2>1, <2>2, <2>3, <2>4, SameCount
  <2> DEFINE k == s[n]
  <2>6. Rank(ks, k) = n - 1 /\ k \in ks
    BY <1>0, <2>4, <2>5 DEF Rank
  <2> HIDE DEF S, T, f, k
  <2>7. NthKey(ks, n) = k
    BY <1>3, <2>6, NthKeyOfRank
  <2> QED
    BY <2>7 DEF k
<1> QED
  BY <1>3, <1>4

\* The keys of a list of rows.
ListKeys(rows) == {rows[i].key : i \in DOMAIN rows}

\* The keys rise, as they do in the file of a table.
Ascending(rows) == \A i, j \in DOMAIN rows : i < j => rows[i].key < rows[j].key

\* Every row of a table has its key.
OwnKeys(t) == \A k \in DOMAIN t : t[k].key = k

\* A list of rows has natural keys.
LEMMA ListTypes ==
  ASSUME NEW rows \in Seq(Row)
  PROVE  /\ Len(rows) \in Nat /\ DOMAIN rows = 1 .. Len(rows)
         /\ \A i \in 1 .. Len(rows) : rows[i] \in Row /\ rows[i].key \in KeyIds /\ rows[i].key \in Nat
         /\ ListKeys(rows) \subseteq KeyIds /\ ListKeys(rows) \subseteq Nat
<1>1. \A row \in Row : row.key \in KeyIds /\ row.key \in Nat
  BY KeysAssumption DEF Row, KeyIds
<1>2. Len(rows) \in Nat /\ DOMAIN rows = 1 .. Len(rows) /\ \A i \in 1 .. Len(rows) : rows[i] \in Row
  BY LenProperties
<1> QED
  BY <1>1, <1>2 DEF ListKeys

\* The vector of a table has its rows in the order of their keys.
LEMMA RowListIs ==
  ASSUME NEW t, IsTable(t), OwnKeys(t)
  PROVE  /\ RowList(t) \in Seq(Row) /\ Ascending(RowList(t)) /\ ListKeys(RowList(t)) = DOMAIN t
         /\ \A i \in DOMAIN RowList(t) : RowList(t)[i] = t[RowList(t)[i].key]
<1> DEFINE ks == DOMAIN t
           N == Cardinality(ks)
           rows == RowList(t)
<1>1. ks \subseteq Nat /\ IsFiniteSet(ks) /\ N \in Nat
  BY TableFinite, FS_CardinalityType, KeysAssumption DEF IsTable, KeyIds
<1>2. /\ rows = [n \in 1 .. N |-> t[NthKey(ks, n)]]
      /\ DOMAIN rows = 1 .. N
      /\ \A n \in 1 .. N : rows[n] = t[NthKey(ks, n)]
  BY DEF RowList
<1>3. \A n \in 1 .. N : NthKey(ks, n) \in ks
  BY <1>1, NthKeyIs
<1>4. \A k \in ks : t[k] \in Row /\ t[k].key = k
  BY DEF IsTable, OwnKeys
<1> HIDE DEF rows, ks
<1>5. \A n \in 1 .. N : rows[n] \in Row /\ rows[n].key = NthKey(ks, n)
  BY <1>2, <1>3, <1>4
<1>6. rows \in Seq(Row)
  BY <1>1, <1>2, <1>5
<1>7. Ascending(rows)
  <2>1. \A n, m \in 1 .. N : n < m => NthKey(ks, n) < NthKey(ks, m)
    BY <1>1, NthKeyGrows
  <2> QED
    BY <1>2, <1>5, <2>1 DEF Ascending
<1>8. ListKeys(rows) = ks
  <2>1. ASSUME NEW k \in ks PROVE \E n \in 1 .. N : NthKey(ks, n) = k
    <3> DEFINE n == Rank(ks, k) + 1
    <3>1. Rank(ks, k) \in 0 .. N - 1
      BY <1>1, RankGrows
    <3>2. n \in 1 .. N /\ Rank(ks, k) = n - 1
      BY <1>1, <3>1
    <3> HIDE DEF n
    <3>3. NthKey(ks, n) = k
      BY <1>1, <3>2, NthKeyOfRank
    <3> QED
      BY <3>2, <3>3
  <2>2. \A k \in ks : k \in ListKeys(rows)
    BY <1>2, <1>5, <2>1 DEF ListKeys
  <2>3. \A k \in ListKeys(rows) : k \in ks
    BY <1>2, <1>3, <1>5 DEF ListKeys
  <2> QED
    BY <2>2, <2>3
<1>9. \A i \in DOMAIN rows : rows[i] = t[rows[i].key]
  BY <1>2, <1>5
<1> QED
  BY <1>6, <1>7, <1>8, <1>9 DEF rows, ks

\* And a list with rising keys is the vector of the table of its rows.
LEMMA AscendingIsRowList ==
  ASSUME NEW rows \in Seq(Row), Ascending(rows), NEW t, DOMAIN t = ListKeys(rows),
         \A i \in DOMAIN rows : rows[i] = t[rows[i].key]
  PROVE  rows = RowList(t)
<1> DEFINE N == Len(rows)
           ks == ListKeys(rows)
           s == [n \in 1 .. N |-> rows[n].key]
<1>1. N \in Nat /\ DOMAIN rows = 1 .. N /\ ks \subseteq Nat /\ rows = [n \in 1 .. N |-> rows[n]]
  BY ListTypes, LenProperties
<1>2. s \in [1 .. N -> ks] /\ \A k \in ks : \E i \in 1 .. N : s[i] = k
  BY <1>1 DEF ListKeys
<1>3. \A i, j \in 1 .. N : i < j => s[i] < s[j]
  BY <1>1 DEF Ascending
<1>4. \A n \in 1 .. N : s[n] = rows[n].key
  OBVIOUS
<1> HIDE DEF s, N, ks
<1>5. Cardinality(ks) = N /\ \A n \in 1 .. N : NthKey(ks, n) = s[n]
  <2>1. Enumerates(s, N, ks)
    BY <1>2, <1>3 DEF Enumerates
  <2> QED
    BY <1>1, <2>1, RisingIsNth
<1>6. \A n \in 1 .. N : rows[n] = t[NthKey(ks, n)]
  BY <1>1, <1>4, <1>5
<1>7. DOMAIN t = ks
  BY DEF ks
<1>8. RowList(t) = [n \in 1 .. N |-> t[NthKey(ks, n)]]
  BY <1>5, <1>7 DEF RowList
<1> QED
  BY <1>1, <1>6, <1>8

-----------------------------------------------------------------------------
(* std::unique                                                             *)

\* The elements that std::unique keeps.
Firsts(rows) == {n \in DOMAIN rows : n = 1 \/ rows[n - 1].key # rows[n].key}

\* Their numbers rise, and none is left out.
LEMMA UniqueIs ==
  ASSUME NEW rows \in Seq(Row)
  PROVE  /\ Unique(rows) \in Seq(Row)
         /\ DOMAIN Unique(rows) = 1 .. Cardinality(Firsts(rows))
         /\ \A n \in DOMAIN Unique(rows) :
              NthKey(Firsts(rows), n) \in Firsts(rows) /\ Unique(rows)[n] = rows[NthKey(Firsts(rows), n)]
         /\ \A i \in Firsts(rows) : \E n \in DOMAIN Unique(rows) : Unique(rows)[n] = rows[i]
         /\ \A n, m \in DOMAIN Unique(rows) : n < m => NthKey(Firsts(rows), n) < NthKey(Firsts(rows), m)
<1> DEFINE F == Firsts(rows)
           C == Cardinality(F)
           u == Unique(rows)
<1>1. F \subseteq 1 .. Len(rows) /\ Len(rows) \in Nat /\ \A i \in F : rows[i] \in Row
  BY ListTypes DEF Firsts
<1>2. IsFiniteSet(F) /\ C \in Nat /\ F \subseteq Nat
  <2>1. IsFiniteSet(1 .. Len(rows))
    BY <1>1, FS_Interval
  <2>2. F \in SUBSET (1 .. Len(rows)) /\ F \subseteq Nat
    BY <1>1
  <2> HIDE DEF F
  <2>3. IsFiniteSet(F)
    BY <2>1, <2>2, FS_Subset
  <2> QED
    BY <2>2, <2>3, FS_CardinalityType
<1>3. u = [n \in 1 .. C |-> rows[NthKey(F, n)]]
  BY DEF Unique, Firsts
<1> HIDE DEF F, u
<1>4. DOMAIN u = 1 .. C /\ \A n \in 1 .. C : NthKey(F, n) \in F /\ u[n] = rows[NthKey(F, n)]
  <2>1. ASSUME NEW n \in 1 .. C PROVE NthKey(F, n) \in F
    BY <1>2, NthKeyIs
  <2> QED
    BY <1>3, <2>1
<1>5. u \in Seq(Row)
  <2>1. \A n \in 1 .. C : rows[NthKey(F, n)] \in Row
    BY <1>1, <1>4
  <2> QED
    BY <1>2, <1>3, <2>1
<1>6. \A n, m \in 1 .. C : n < m => NthKey(F, n) < NthKey(F, m)
  BY <1>2, NthKeyGrows
<1>7. ASSUME NEW i \in F PROVE \E n \in 1 .. C : u[n] = rows[i]
  <2> DEFINE n == Rank(F, i) + 1
  <2>1. Rank(F, i) \in 0 .. C - 1
    BY <1>2, RankGrows
  <2>2. n \in 1 .. C /\ Rank(F, i) = n - 1
    BY <1>2, <2>1
  <2> HIDE DEF n
  <2>3. NthKey(F, n) = i
    BY <1>2, <2>2, NthKeyOfRank
  <2> QED
    BY <1>4, <2>2, <2>3
<1> QED
  BY <1>4, <1>5, <1>6, <1>7 DEF F, u

\* No key goes.
LEMMA UniqueKeepsKeys ==
  ASSUME NEW rows \in Seq(Row)
  PROVE  ListKeys(Unique(rows)) = ListKeys(rows)
<1> DEFINE u == Unique(rows)
<1>1. Firsts(rows) \subseteq DOMAIN rows
  BY DEF Firsts
<1>2. ASSUME NEW k \in ListKeys(u) PROVE k \in ListKeys(rows)
  <2>1. PICK n \in DOMAIN u : k = u[n].key
    BY <1>2 DEF ListKeys
  <2> HIDE DEF u
  <2>2. NthKey(Firsts(rows), n) \in DOMAIN rows /\ u[n] = rows[NthKey(Firsts(rows), n)]
    BY <1>1, <2>1, UniqueIs DEF u
  <2> QED
    BY <2>1, <2>2 DEF ListKeys
<1>3. ASSUME NEW k \in ListKeys(rows) PROVE k \in ListKeys(u)
  <2> DEFINE S == {i \in DOMAIN rows : rows[i].key = k}
  <2>1. S # {} /\ S \subseteq Nat /\ DOMAIN rows = 1 .. Len(rows) /\ Len(rows) \in Nat
    BY <1>3, ListTypes DEF ListKeys
  <2>2. PICK i \in S : \A j \in S : i <= j
    <3> HIDE DEF S
    <3> QED
      BY <2>1, LeastNatural
  <2>3. i = 1 \/ (i - 1 \in DOMAIN rows /\ i - 1 \notin S)
    BY <2>1, <2>2
  <2>4. i \in Firsts(rows)
    BY <2>2, <2>3 DEF Firsts
  <2>5. \E n \in DOMAIN u : u[n] = rows[i]
    BY <2>4, UniqueIs
  <2> HIDE DEF u
  <2> QED
    BY <2>2, <2>5 DEF ListKeys
<1> QED
  BY <1>2, <1>3 DEF u

\* Of a list whose keys do not fall, the first row of each key stays, in key order.
LEMMA UniqueOfSorted ==
  ASSUME NEW rows \in Seq(Row), \A i, j \in DOMAIN rows : i < j => rows[i].key <= rows[j].key
  PROVE  /\ Ascending(Unique(rows))
         /\ \A n \in DOMAIN Unique(rows) : \E i \in DOMAIN rows :
              Unique(rows)[n] = rows[i] /\ \A j \in DOMAIN rows : j < i => rows[j].key # rows[i].key
<1> DEFINE u == Unique(rows)
           F == Firsts(rows)
<1>1. /\ Len(rows) \in Nat /\ DOMAIN rows = 1 .. Len(rows)
      /\ \A i \in DOMAIN rows : rows[i].key \in Nat
  BY ListTypes
<1>2. ASSUME NEW i \in F, NEW j \in DOMAIN rows, j < i PROVE rows[j].key < rows[i].key
  <2>1. i \in DOMAIN rows /\ i # 1 /\ rows[i - 1].key # rows[i].key /\ i - 1 \in DOMAIN rows /\ j <= i - 1
    BY <1>1, <1>2 DEF Firsts
  <2>2. rows[i - 1].key <= rows[i].key
    BY <1>1, <2>1
  <2>3. rows[j].key <= rows[i - 1].key
    BY <1>1, <2>1
  <2> QED
    BY <1>1, <2>1, <2>2, <2>3
<1>3. F \subseteq DOMAIN rows
  BY DEF Firsts
<1>4. /\ \A n \in DOMAIN u : NthKey(F, n) \in F /\ u[n] = rows[NthKey(F, n)]
      /\ \A n, m \in DOMAIN u : n < m => NthKey(F, n) < NthKey(F, m)
  BY UniqueIs
<1> HIDE DEF u, F
<1>5. Ascending(u)
  BY <1>2, <1>3, <1>4 DEF Ascending
<1>6. ASSUME NEW n \in DOMAIN u
      PROVE  \E i \in DOMAIN rows : u[n] = rows[i] /\ \A j \in DOMAIN rows : j < i => rows[j].key # rows[i].key
  <2> DEFINE i == NthKey(F, n)
  <2>1. i \in F /\ i \in DOMAIN rows /\ u[n] = rows[i]
    BY <1>3, <1>4
  <2> HIDE DEF i
  <2>2. \A j \in DOMAIN rows : j < i => rows[j].key # rows[i].key
    <3>1. \A j \in DOMAIN rows : j < i => rows[j].key < rows[i].key
      BY <1>2, <2>1
    <3> QED
      BY <1>1, <2>1, <3>1
  <2> QED
    BY <2>1, <2>2
<1> QED
  BY <1>5, <1>6 DEF u

-----------------------------------------------------------------------------
(* std::merge                                                              *)

\* The values of a variable in a loop of N turns over a set T.
Looped(T, N, start, next, f) ==
  /\ f \in [0 .. N -> T] /\ f[0] = start
  /\ \A n \in 1 .. N : f[n] = next[<<n, f[n - 1]>>]

LEMMA LoopExists ==
  ASSUME NEW T, NEW N, N \in Nat, NEW start, start \in T, NEW next, next \in [(1 .. N) \X T -> T]
  PROVE  \E f : Looped(T, N, start, next, f)
<1> DEFINE Loop(m, f) == f \in [0 .. m -> T] /\ f[0] = start /\ \A n \in 1 .. m : f[n] = next[<<n, f[n - 1]>>]
           S == {m \in 0 .. N : ~\E f : Loop(m, f)}
<1>0. ASSUME S = {} PROVE \E f : Looped(T, N, start, next, f)
  <2>1. N \in 0 .. N /\ N \notin S
    BY <1>0
  <2>2. PICK f : Loop(N, f)
    <3> HIDE DEF Loop
    <3> QED
      BY <2>1
  <2>3. Looped(T, N, start, next, f)
    BY ONLY <2>2 DEF Looped
  <2> QED
    BY <2>3
<1>1. SUFFICES ASSUME S # {} PROVE FALSE
  <2> HIDE DEF S
  <2> QED
    BY <1>0
<1>2. PICK m \in S : \A i \in S : m <= i
  <2>1. S \subseteq Nat
    OBVIOUS
  <2> HIDE DEF S
  <2> QED
    BY <1>1, <2>1, LeastNatural
<1>3. CASE m = 0
  <2>1. Loop(0, [n \in 0 .. 0 |-> start])
    OBVIOUS
  <2> QED
    BY <1>2, <1>3, <2>1
<1>4. CASE m # 0
  <2>1. m \in 1 .. N /\ m - 1 \in 0 .. N /\ m - 1 \notin S
    BY <1>2, <1>4
  <2>2. PICK f : Loop(m - 1, f)
    BY <2>1
  <2> DEFINE g == [n \in 0 .. m |-> IF n = m THEN next[<<m, f[m - 1]>>] ELSE f[n]]
  <2>3. f[m - 1] \in T /\ next[<<m, f[m - 1]>>] \in T
    BY <2>1, <2>2
  <2>4. g \in [0 .. m -> T] /\ g[0] = start
    BY <2>1, <2>2, <2>3
  <2>5. ASSUME NEW n \in 1 .. m PROVE g[n] = next[<<n, g[n - 1]>>]
    <3>1. n - 1 \in 0 .. m /\ n - 1 # m /\ g[n - 1] = f[n - 1]
      BY <2>1
    <3>2. CASE n = m
      BY <3>1, <3>2
    <3>3. CASE n # m
      <4>1. n \in 1 .. m - 1 /\ g[n] = f[n]
        BY <2>1, <3>3
      <4> HIDE DEF g
      <4> QED
        BY <2>2, <3>1, <4>1
    <3> QED
      BY <3>2, <3>3
  <2> HIDE DEF g
  <2>6. Loop(m, g)
    BY <2>4, <2>5
  <2> HIDE DEF Loop
  <2> QED
    BY <1>2, <2>6
<1> QED
  BY <1>3, <1>4

\* A count that rises by one at most meets every number.
Counts(N, f) ==
  /\ \A n \in 0 .. N : f[n] \in Nat
  /\ f[0] = 0
  /\ \A n \in 1 .. N : f[n] = f[n - 1] \/ f[n] = f[n - 1] + 1

Meets(N, f) == \A i \in 1 .. f[N] : \E n \in 1 .. N : f[n] = i /\ f[n - 1] = i - 1

LEMMA CountMeets ==
  ASSUME NEW N, N \in Nat, NEW f, Counts(N, f)
  PROVE  Meets(N, f)
<1> SUFFICES ASSUME NEW i \in 1 .. f[N]
             PROVE  \E n \in 1 .. N : f[n] = i /\ f[n - 1] = i - 1
  BY DEF Meets
<1> DEFINE S == {n \in 0 .. N : f[n] >= i}
<1>1. S \subseteq Nat /\ N \in S /\ i \in Nat
  BY DEF Counts
<1>2. PICK n \in S : \A m \in S : n <= m
  <2> HIDE DEF S
  <2> QED
    BY <1>1, LeastNatural
<1>3. n \in 1 .. N /\ n - 1 \in 0 .. N /\ n - 1 \notin S
  BY <1>2 DEF Counts
<1>4. f[n] \in Nat /\ f[n - 1] \in Nat /\ f[n] >= i /\ ~(f[n - 1] >= i)
  BY <1>2, <1>3 DEF Counts
<1> QED
  BY <1>1, <1>3, <1>4 DEF Counts

\* The test of the loop: does the next row come from lhs, of which i is the next and j the
\* next of rhs?
FromLeft(lhs, rhs, left, right, i, j) == i <= Len(lhs) /\ (j <= Len(rhs) => ~(right[j] < left[i]))

\* How many rows of lhs are among the first n rows of the result.
IsTaken(lhs, rhs, left, right, taken) ==
  /\ taken \in [0 .. Len(lhs) + Len(rhs) -> Nat]
  /\ taken[0] = 0
  /\ \A n \in 1 .. Len(lhs) + Len(rhs) :
       taken[n] = IF FromLeft(lhs, rhs, left, right, taken[n - 1] + 1, n - taken[n - 1])
                  THEN taken[n - 1] + 1 ELSE taken[n - 1]

\* What the loop puts out.
Merged(lhs, rhs, taken) ==
  [n \in 1 .. Len(lhs) + Len(rhs) |->
     IF taken[n] = taken[n - 1] THEN rhs[n - taken[n]] ELSE lhs[taken[n]]]

LEMMA MergeLoop ==
  ASSUME NEW lhs \in Seq(Row), NEW rhs \in Seq(Row), NEW left, NEW right
  PROVE  \E taken : /\ IsTaken(lhs, rhs, left, right, taken)
                    /\ MergeRows(lhs, rhs, left, right) = Unique(Merged(lhs, rhs, taken))
<1> DEFINE N == Len(lhs) + Len(rhs)
           S == 0 .. N
           step(n, i) == IF FromLeft(lhs, rhs, left, right, i + 1, n - i) THEN i + 1 ELSE i
           next == [p \in (1 .. N) \X Nat |-> step(p[1], p[2])]
           turn(h, n) == IF n = 0 THEN 0 ELSE step(n, h[n - 1])
           g == CHOOSE h : h = [n \in S |-> turn(h, n)]
<1>1. N \in Nat
  BY LenProperties
<1>2. next \in [(1 .. N) \X Nat -> Nat]
  <2>1. \A n : \A i \in Nat : step(n, i) \in Nat
    OBVIOUS
  <2> HIDE DEF step, N
  <2> QED
    BY ONLY <2>1
<1>3. PICK f \in [0 .. N -> Nat] : f[0] = 0 /\ \A n \in 1 .. N : f[n] = next[<<n, f[n - 1]>>]
  <2> HIDE DEF next, N
  <2>1. 0 \in Nat
    OBVIOUS
  <2>2. PICK f : Looped(Nat, N, 0, next, f)
    BY <1>1, <1>2, <2>1, LoopExists
  <2> QED
    BY <2>2 DEF Looped
<1>4. \A n \in 1 .. N : f[n] = step(n, f[n - 1])
  <2> SUFFICES ASSUME NEW n \in 1 .. N PROVE next[<<n, f[n - 1]>>] = step(n, f[n - 1])
    BY <1>3
  <2> HIDE DEF step, next, N
  <2>1. n - 1 \in 0 .. N
    BY ONLY <1>1, n \in 1 .. N
  <2>2. f[n - 1] \in Nat
    BY ONLY <2>1, f \in [0 .. N -> Nat]
  <2> QED
    BY <2>2 DEF next
<1> HIDE DEF next
<1>5. f = [n \in S |-> turn(f, n)]
  <2>1. ASSUME NEW n \in S PROVE f[n] = turn(f, n)
    <3>1. n = 0 \/ n \in 1 .. N
      BY <1>1
    <3> HIDE DEF step
    <3> QED
      BY <1>3, <1>4, <3>1
  <2>2. f = [n \in S |-> f[n]]
    BY <1>3
  <2> HIDE DEF turn
  <2> QED
    BY <2>1, <2>2
<1>6. g = [n \in S |-> turn(g, n)]
  <2> HIDE DEF turn
  <2> QED
    BY <1>5
<1>7. MergeRows(lhs, rhs, left, right) = Unique(Merged(lhs, rhs, g))
  BY DEF MergeRows, Merged, FromLeft
<1> HIDE DEF g
<1>8. \A n \in S : g[n] = f[n]
  <2> DEFINE wrong == {n \in S : g[n] # f[n]}
  <2> SUFFICES ASSUME wrong # {} PROVE FALSE
    OBVIOUS
  <2>1. wrong \subseteq Nat
    OBVIOUS
  <2>2. PICK n \in wrong : \A m \in wrong : n <= m
    <3> HIDE DEF wrong
    <3> QED
      BY <2>1, LeastNatural
  <2>3. n \in S /\ g[n] # f[n] /\ g[n] = turn(g, n) /\ f[n] = turn(f, n)
    <3> HIDE DEF turn
    <3> QED
      BY <1>5, <1>6, <2>2
  <2>4. n # 0
    BY <2>3
  <2>5. n - 1 \in S /\ n - 1 \notin wrong
    BY <1>1, <2>2, <2>3, <2>4
  <2>6. g[n - 1] = f[n - 1]
    BY <2>5
  <2> HIDE DEF step
  <2> QED
    BY <2>3, <2>4, <2>6
<1>9. g = f
  <2> HIDE DEF turn
  <2>1. g = [n \in S |-> g[n]] /\ f = [n \in S |-> f[n]]
    BY <1>5, <1>6
  <2> QED
    BY <1>8, <2>1
<1>10. IsTaken(lhs, rhs, left, right, f)
  BY <1>3, <1>4 DEF IsTaken
<1> QED
  BY <1>7, <1>9, <1>10

\* The loop never reads beyond the end of a list, and reads both to their ends.
LEMMA TakenBounds ==
  ASSUME NEW lhs \in Seq(Row), NEW rhs \in Seq(Row), NEW left, NEW right,
         NEW taken, IsTaken(lhs, rhs, left, right, taken)
  PROVE  /\ \A n \in 0 .. Len(lhs) + Len(rhs) :
              taken[n] \in 0 .. Len(lhs) /\ n - taken[n] \in 0 .. Len(rhs)
         /\ taken[Len(lhs) + Len(rhs)] = Len(lhs)
<1> DEFINE L == Len(lhs)
           R == Len(rhs)
           N == Len(lhs) + Len(rhs)
           Good(n) == taken[n] \in 0 .. L /\ n - taken[n] \in 0 .. R
           bad == {n \in 0 .. N : ~Good(n)}
<1>1. L \in Nat /\ R \in Nat
  BY LenProperties
<1>2. /\ taken[0] = 0 /\ \A n \in 0 .. N : taken[n] \in Nat
      /\ \A n \in 1 .. N :
           taken[n] = IF FromLeft(lhs, rhs, left, right, taken[n - 1] + 1, n - taken[n - 1])
                      THEN taken[n - 1] + 1 ELSE taken[n - 1]
  BY DEF IsTaken
<1>3. bad = {}
  <2> SUFFICES ASSUME bad # {} PROVE FALSE
    OBVIOUS
  <2>1. bad \subseteq Nat
    OBVIOUS
  <2>2. PICK n \in bad : \A m \in bad : n <= m
    <3> HIDE DEF bad
    <3> QED
      BY <2>1, LeastNatural
  <2>3. n # 0
    BY <1>1, <1>2, <2>2
  <2>4. n \in 1 .. N /\ n - 1 \in 0 .. N /\ n - 1 \notin bad
    BY <1>1, <2>2, <2>3
  <2> DEFINE i == taken[n - 1]
  <2>5. i \in 0 .. L /\ n - 1 - i \in 0 .. R
    BY <2>4
  <2>6. taken[n] = IF FromLeft(lhs, rhs, left, right, i + 1, n - i) THEN i + 1 ELSE i
    BY <1>2, <2>4
  <2> HIDE DEF i
  <2>7. CASE FromLeft(lhs, rhs, left, right, i + 1, n - i)
    <3>1. taken[n] = i + 1 /\ i + 1 <= L
      BY <2>6, <2>7 DEF FromLeft
    <3>2. Good(n)
      BY <1>1, <2>4, <2>5, <3>1
    <3> QED
      BY <2>2, <3>2
  <2>8. CASE ~FromLeft(lhs, rhs, left, right, i + 1, n - i)
    <3>1. taken[n] = i /\ (~(i + 1 <= L) \/ n - i <= R)
      BY <2>6, <2>8 DEF FromLeft
    <3>2. Good(n)
      BY <1>1, <2>4, <2>5, <3>1
    <3> QED
      BY <2>2, <3>2
  <2> QED
    BY <2>7, <2>8
<1>4. Good(N)
  BY <1>1, <1>3
<1> QED
  BY <1>1, <1>3, <1>4

\* Every row put out is the next of one list.
LEMMA MergedRow ==
  ASSUME NEW lhs \in Seq(Row), NEW rhs \in Seq(Row), NEW left, NEW right,
         NEW taken, IsTaken(lhs, rhs, left, right, taken),
         NEW n \in 1 .. Len(lhs) + Len(rhs)
  PROVE  \/ /\ taken[n] = taken[n - 1] + 1
            /\ taken[n] \in 1 .. Len(lhs)
            /\ Merged(lhs, rhs, taken)[n] = lhs[taken[n]]
            /\ FromLeft(lhs, rhs, left, right, taken[n], n - taken[n] + 1)
         \/ /\ taken[n] = taken[n - 1]
            /\ n - taken[n] \in 1 .. Len(rhs)
            /\ Merged(lhs, rhs, taken)[n] = rhs[n - taken[n]]
            /\ ~FromLeft(lhs, rhs, left, right, taken[n] + 1, n - taken[n])
<1> DEFINE i == taken[n - 1]
<1>1. /\ Len(lhs) \in Nat /\ Len(rhs) \in Nat
      /\ taken[n] \in 0 .. Len(lhs) /\ n - taken[n] \in 0 .. Len(rhs)
      /\ i \in 0 .. Len(lhs) /\ n - 1 - i \in 0 .. Len(rhs)
  <2>1. Len(lhs) \in Nat /\ Len(rhs) \in Nat
    BY LenProperties
  <2>2. n - 1 \in 0 .. Len(lhs) + Len(rhs) /\ n \in 0 .. Len(lhs) + Len(rhs)
    BY <2>1
  <2> QED
    BY <2>1, <2>2, TakenBounds
<1>2. taken[n] = IF FromLeft(lhs, rhs, left, right, i + 1, n - i) THEN i + 1 ELSE i
  BY DEF IsTaken
<1>3. Merged(lhs, rhs, taken)[n] = IF taken[n] = i THEN rhs[n - taken[n]] ELSE lhs[taken[n]]
  BY DEF Merged
<1> HIDE DEF i
<1>4. CASE FromLeft(lhs, rhs, left, right, i + 1, n - i)
  <2>1. taken[n] = i + 1 /\ taken[n] # i /\ n - taken[n] + 1 = n - i
    BY <1>1, <1>2, <1>4
  <2>2. FromLeft(lhs, rhs, left, right, taken[n], n - taken[n] + 1)
    BY <1>4, <2>1
  <2>3. taken[n] \in 1 .. Len(lhs)
    BY <1>1, <2>1
  <2> QED
    BY <1>3, <2>1, <2>2, <2>3 DEF i
<1>5. CASE ~FromLeft(lhs, rhs, left, right, i + 1, n - i)
  <2>1. taken[n] = i
    BY <1>2, <1>5
  <2>2. n - taken[n] \in 1 .. Len(rhs)
    BY <1>1, <2>1
  <2> QED
    BY <1>3, <1>5, <2>1, <2>2 DEF i
<1> QED
  BY <1>4, <1>5

\* And every row is put out.
LEMMA MergedAll ==
  ASSUME NEW lhs \in Seq(Row), NEW rhs \in Seq(Row), NEW left, NEW right,
         NEW taken, IsTaken(lhs, rhs, left, right, taken)
  PROVE  /\ \A i \in 1 .. Len(lhs) : \E n \in 1 .. Len(lhs) + Len(rhs) : taken[n] = i /\ taken[n - 1] = i - 1
         /\ \A j \in 1 .. Len(rhs) : \E n \in 1 .. Len(lhs) + Len(rhs) : n - taken[n] = j /\ taken[n] = taken[n - 1]
<1> DEFINE N == Len(lhs) + Len(rhs)
           f == [n \in 0 .. N |-> n - taken[n]]
<1>1. Len(lhs) \in Nat /\ Len(rhs) \in Nat /\ N \in Nat
  BY LenProperties
<1>2. /\ \A n \in 0 .. N : taken[n] \in 0 .. Len(lhs) /\ n - taken[n] \in 0 .. Len(rhs)
      /\ taken[N] = Len(lhs)
  BY TakenBounds
<1>3. taken[0] = 0 /\ taken \in [0 .. N -> Nat]
  BY DEF IsTaken
<1>4. \A n \in 1 .. N : taken[n] = taken[n - 1] \/ taken[n] = taken[n - 1] + 1
  BY MergedRow
<1>5. ASSUME NEW i \in 1 .. Len(lhs) PROVE \E n \in 1 .. N : taken[n] = i /\ taken[n - 1] = i - 1
  <2>1. Counts(N, taken)
    BY <1>3, <1>4 DEF Counts
  <2> HIDE DEF N
  <2>2. \A k \in 1 .. taken[N] : \E n \in 1 .. N : taken[n] = k /\ taken[n - 1] = k - 1
    <3>1. Meets(N, taken)
      BY <1>1, <2>1, CountMeets
    <3> QED
      BY <3>1 DEF Meets
  <2> QED
    BY <1>2, <2>2
<1>6. ASSUME NEW j \in 1 .. Len(rhs) PROVE \E n \in 1 .. N : n - taken[n] = j /\ taken[n] = taken[n - 1]
  <2>1. f[N] = Len(rhs) /\ f[0] = 0
    BY <1>1, <1>2, <1>3
  <2>2. \A n \in 0 .. N : f[n] = n - taken[n]
    OBVIOUS
  <2>3. \A n \in 1 .. N : n \in 0 .. N /\ n - 1 \in 0 .. N /\ taken[n] \in Nat /\ taken[n - 1] \in Nat
    <3> HIDE DEF N
    <3>1. ASSUME NEW n \in 1 .. N PROVE n \in 0 .. N /\ n - 1 \in 0 .. N
      BY ONLY <1>1
    <3>2. taken \in [0 .. N -> Nat]
      BY ONLY <1>3 DEF N
    <3> QED
      BY ONLY <3>1, <3>2
  <2>4. f \in [0 .. N -> Nat]
    BY <1>1, <1>2
  <2> HIDE DEF N, f
  <2>5. ASSUME NEW n \in 1 .. N
        PROVE  /\ f[n] = f[n - 1] \/ f[n] = f[n - 1] + 1
               /\ f[n] # f[n - 1] => taken[n] = taken[n - 1]
    <3>1. f[n] = n - taken[n] /\ f[n - 1] = n - 1 - taken[n - 1] /\ n \in Int
      BY <1>1, <2>2, <2>3
    <3>2. taken[n] = taken[n - 1] \/ taken[n] = taken[n - 1] + 1
      BY <1>4
    <3> QED
      BY <2>3, <3>1, <3>2
  <2>6. Counts(N, f)
    BY <2>1, <2>4, <2>5 DEF Counts
  <2>7. \A k \in 1 .. f[N] : \E n \in 1 .. N : f[n] = k /\ f[n - 1] = k - 1
    <3>1. Meets(N, f)
      BY <1>1, <2>6, CountMeets
    <3> QED
      BY <3>1 DEF Meets
  <2>8. PICK n \in 1 .. N : f[n] = j /\ f[n - 1] = j - 1
    BY <2>1, <2>7
  <2>9. taken[n] = taken[n - 1]
    BY <1>1, <2>5, <2>8
  <2> QED
    BY <2>2, <2>3, <2>8, <2>9
<1> QED
  BY <1>5, <1>6

\* So the keys of both lists, and no other, are in the result.
LEMMA MergedKeys ==
  ASSUME NEW lhs \in Seq(Row), NEW rhs \in Seq(Row), NEW left, NEW right,
         NEW taken, IsTaken(lhs, rhs, left, right, taken)
  PROVE  /\ Merged(lhs, rhs, taken) \in Seq(Row)
         /\ DOMAIN Merged(lhs, rhs, taken) = 1 .. Len(lhs) + Len(rhs)
         /\ ListKeys(Merged(lhs, rhs, taken)) = ListKeys(lhs) \cup ListKeys(rhs)
<1> DEFINE N == Len(lhs) + Len(rhs)
           m == Merged(lhs, rhs, taken)
<1>1. /\ Len(lhs) \in Nat /\ DOMAIN lhs = 1 .. Len(lhs) /\ \A i \in 1 .. Len(lhs) : lhs[i] \in Row
      /\ Len(rhs) \in Nat /\ DOMAIN rhs = 1 .. Len(rhs) /\ \A i \in 1 .. Len(rhs) : rhs[i] \in Row
  BY ListTypes
<1>2. N \in Nat
  BY <1>1
<1>3. /\ m = [n \in 1 .. N |-> IF taken[n] = taken[n - 1] THEN rhs[n - taken[n]] ELSE lhs[taken[n]]]
      /\ DOMAIN m = 1 .. N /\ m = [n \in 1 .. N |-> m[n]]
  BY DEF Merged
<1>4. \A n \in 1 .. N : \/ taken[n] \in 1 .. Len(lhs) /\ m[n] = lhs[taken[n]]
                        \/ n - taken[n] \in 1 .. Len(rhs) /\ m[n] = rhs[n - taken[n]]
  BY MergedRow
<1>5. /\ \A i \in 1 .. Len(lhs) : \E n \in 1 .. N : taken[n] = i /\ taken[n - 1] = i - 1
      /\ \A j \in 1 .. Len(rhs) : \E n \in 1 .. N : n - taken[n] = j /\ taken[n] = taken[n - 1]
  BY MergedAll
<1>6. \A i \in 1 .. Len(lhs) : \E n \in 1 .. N : m[n] = lhs[i]
  <2> SUFFICES ASSUME NEW i \in 1 .. Len(lhs) PROVE \E n \in 1 .. N : m[n] = lhs[i]
    OBVIOUS
  <2>1. PICK n \in 1 .. N : taken[n] = i /\ taken[n - 1] = i - 1
    BY <1>5
  <2>2. taken[n] # taken[n - 1]
    BY <1>1, <2>1
  <2> HIDE DEF m, N
  <2> QED
    BY <1>3, <2>1, <2>2
<1>7. \A j \in 1 .. Len(rhs) : \E n \in 1 .. N : m[n] = rhs[j]
  <2> HIDE DEF m, N
  <2> QED
    BY <1>3, <1>5
<1> HIDE DEF m, N
<1>8. m \in Seq(Row)
  <2>1. \A n \in 1 .. N : m[n] \in Row
    BY <1>1, <1>4
  <2> QED
    BY <1>2, <1>3, <2>1
<1>9. \A k : k \in ListKeys(m) <=> k \in ListKeys(lhs) \cup ListKeys(rhs)
  <2>1. ASSUME NEW n \in 1 .. N PROVE m[n].key \in ListKeys(lhs) \cup ListKeys(rhs)
    <3>1. CASE taken[n] \in 1 .. Len(lhs) /\ m[n] = lhs[taken[n]]
      BY <1>1, <3>1 DEF ListKeys
    <3>2. CASE n - taken[n] \in 1 .. Len(rhs) /\ m[n] = rhs[n - taken[n]]
      BY <1>1, <3>2 DEF ListKeys
    <3> QED
      BY <1>4, <3>1, <3>2
  <2>2. ASSUME NEW i \in 1 .. Len(lhs) PROVE lhs[i].key \in ListKeys(m)
    BY <1>3, <1>6 DEF ListKeys
  <2>3. ASSUME NEW j \in 1 .. Len(rhs) PROVE rhs[j].key \in ListKeys(m)
    BY <1>3, <1>7 DEF ListKeys
  <2>4. \A k \in ListKeys(m) : k \in ListKeys(lhs) \cup ListKeys(rhs)
    BY <1>3, <2>1 DEF ListKeys
  <2>5. \A k \in ListKeys(lhs) : k \in ListKeys(m)
    BY <1>1, <2>2 DEF ListKeys
  <2>6. \A k \in ListKeys(rhs) : k \in ListKeys(m)
    BY <1>1, <2>3 DEF ListKeys
  <2> QED
    BY <2>4, <2>5, <2>6
<1>10. ListKeys(m) = ListKeys(lhs) \cup ListKeys(rhs)
  BY <1>9
<1> QED
  BY <1>3, <1>8, <1>10 DEF m, N

\* Where rows lie when their addresses rise with the keys, and for a key from lhs to rhs.
Addressed(lhs, rhs, left, right) ==
  /\ \A i \in 1 .. Len(lhs) : left[i] \in Nat
  /\ \A j \in 1 .. Len(rhs) : right[j] \in Nat
  /\ \A i \in 1 .. Len(lhs), j \in 1 .. Len(rhs) :
       /\ lhs[i].key <= rhs[j].key => left[i] < right[j]
       /\ rhs[j].key < lhs[i].key => right[j] < left[i]

\* The comparison of addresses is one of keys then.
LEMMA TestByKey ==
  ASSUME NEW lhs \in Seq(Row), NEW rhs \in Seq(Row), NEW left, NEW right,
         Addressed(lhs, rhs, left, right),
         NEW i \in Nat \ {0}, NEW j \in Nat \ {0}
  PROVE  /\ FromLeft(lhs, rhs, left, right, i, j) /\ i \in 1 .. Len(lhs) /\ j \in 1 .. Len(rhs)
              => lhs[i].key <= rhs[j].key
         /\ ~FromLeft(lhs, rhs, left, right, i, j) /\ i \in 1 .. Len(lhs)
              => j \in 1 .. Len(rhs) /\ rhs[j].key < lhs[i].key
<1>1. /\ Len(lhs) \in Nat /\ \A n \in 1 .. Len(lhs) : lhs[n].key \in Nat
      /\ Len(rhs) \in Nat /\ \A n \in 1 .. Len(rhs) : rhs[n].key \in Nat
  BY ListTypes
<1>2. ASSUME i \in 1 .. Len(lhs), j \in 1 .. Len(rhs)
      PROVE  FromLeft(lhs, rhs, left, right, i, j) <=> lhs[i].key <= rhs[j].key
  <2>1. /\ left[i] \in Nat /\ right[j] \in Nat
        /\ lhs[i].key <= rhs[j].key => left[i] < right[j]
        /\ rhs[j].key < lhs[i].key => right[j] < left[i]
    BY <1>2 DEF Addressed
  <2>2. FromLeft(lhs, rhs, left, right, i, j) <=> ~(right[j] < left[i])
    BY <1>1, <1>2 DEF FromLeft
  <2>3. lhs[i].key \in Nat /\ rhs[j].key \in Nat
    BY <1>1, <1>2
  <2>4. CASE lhs[i].key <= rhs[j].key
    <3>1. ~(right[j] < left[i])
      BY <2>1, <2>4
    <3> QED
      BY <2>2, <2>4, <3>1
  <2>5. CASE ~(lhs[i].key <= rhs[j].key)
    <3>1. right[j] < left[i]
      BY <2>1, <2>3, <2>5
    <3> QED
      BY <2>2, <2>5, <3>1
  <2> QED
    BY <2>4, <2>5
<1>3. ASSUME ~FromLeft(lhs, rhs, left, right, i, j), i \in 1 .. Len(lhs) PROVE j \in 1 .. Len(rhs)
  BY <1>1, <1>3 DEF FromLeft
<1>4. ASSUME ~FromLeft(lhs, rhs, left, right, i, j), i \in 1 .. Len(lhs) PROVE rhs[j].key < lhs[i].key
  <2>1. j \in 1 .. Len(rhs)
    BY <1>3, <1>4
  <2>2. ~(lhs[i].key <= rhs[j].key)
    BY <1>2, <1>4, <2>1
  <2> QED
    BY <1>1, <1>4, <2>1, <2>2
<1> QED
  BY <1>2, <1>3, <1>4

\* Keys that do not fall from one row to the next fall nowhere.
LEMMA NeverFalls ==
  ASSUME NEW rows \in Seq(Row), \A n \in 1 .. Len(rows) - 1 : rows[n].key <= rows[n + 1].key
  PROVE  \A i, j \in DOMAIN rows : i < j => rows[i].key <= rows[j].key
<1>1. /\ Len(rows) \in Nat /\ DOMAIN rows = 1 .. Len(rows)
      /\ \A n \in 1 .. Len(rows) : rows[n].key \in Nat
  BY ListTypes
<1> SUFFICES ASSUME NEW i \in 1 .. Len(rows)
             PROVE  \A j \in 1 .. Len(rows) : i < j => rows[i].key <= rows[j].key
  BY <1>1
<1> DEFINE S == {j \in 1 .. Len(rows) : i < j /\ ~(rows[i].key <= rows[j].key)}
<1>2. SUFFICES ASSUME S # {} PROVE FALSE
  OBVIOUS
<1>3. S \subseteq Nat
  OBVIOUS
<1>4. PICK j \in S : \A n \in S : j <= n
  <2> HIDE DEF S
  <2> QED
    BY <1>2, <1>3, LeastNatural
<1>5. j - 1 \in 1 .. Len(rows) - 1 /\ j - 1 + 1 = j /\ j - 1 \notin S /\ i <= j - 1
  BY <1>1, <1>4
<1>6. rows[i].key <= rows[j - 1].key
  <2>1. CASE i = j - 1
    BY <1>1, <2>1
  <2>2. CASE i < j - 1
    BY <1>1, <1>5, <2>2
  <2> QED
    BY <1>1, <1>5, <2>1, <2>2
<1>7. rows[j - 1].key <= rows[j].key
  BY <1>5
<1>8. rows[i].key <= rows[j].key
  BY <1>1, <1>4, <1>5, <1>6, <1>7
<1> QED
  BY <1>4, <1>8

\* The merge of two tables with their rows so addressed is in key order ...
LEMMA MergedSorted ==
  ASSUME NEW lhs \in Seq(Row), NEW rhs \in Seq(Row), NEW left, NEW right,
         NEW taken, IsTaken(lhs, rhs, left, right, taken),
         Addressed(lhs, rhs, left, right), Ascending(lhs), Ascending(rhs),
         NEW n \in 1 .. Len(lhs) + Len(rhs) - 1
  PROVE  Merged(lhs, rhs, taken)[n].key <= Merged(lhs, rhs, taken)[n + 1].key
<1> DEFINE m == Merged(lhs, rhs, taken)
           a == taken[n]
           b == taken[n + 1]
<1>1. /\ Len(lhs) \in Nat /\ DOMAIN lhs = 1 .. Len(lhs) /\ \A i \in 1 .. Len(lhs) : lhs[i].key \in Nat
      /\ Len(rhs) \in Nat /\ DOMAIN rhs = 1 .. Len(rhs) /\ \A i \in 1 .. Len(rhs) : rhs[i].key \in Nat
  BY ListTypes
<1>2. n \in 1 .. Len(lhs) + Len(rhs) /\ n + 1 \in 1 .. Len(lhs) + Len(rhs) /\ n + 1 - 1 = n
  BY <1>1
<1>3. a \in 0 .. Len(lhs) /\ n - a \in 0 .. Len(rhs)
  <2>1. n \in 0 .. Len(lhs) + Len(rhs)
    BY <1>1
  <2> QED
    BY <2>1, TakenBounds
<1>4. \/ /\ a \in 1 .. Len(lhs)
         /\ m[n] = lhs[a]
         /\ FromLeft(lhs, rhs, left, right, a, n - a + 1)
      \/ /\ n - a \in 1 .. Len(rhs)
         /\ m[n] = rhs[n - a]
         /\ ~FromLeft(lhs, rhs, left, right, a + 1, n - a)
  BY <1>2, MergedRow
<1>5. \/ /\ b = a + 1
         /\ b \in 1 .. Len(lhs)
         /\ m[n + 1] = lhs[b]
      \/ /\ b = a
         /\ n + 1 - b \in 1 .. Len(rhs)
         /\ m[n + 1] = rhs[n + 1 - b]
  <2> DEFINE k == n + 1
  <2>1. k \in 1 .. Len(lhs) + Len(rhs) /\ k - 1 = n
    BY <1>2
  <2> HIDE DEF k
  <2>2. \/ /\ taken[k] = taken[k - 1] + 1
           /\ taken[k] \in 1 .. Len(lhs)
           /\ Merged(lhs, rhs, taken)[k] = lhs[taken[k]]
        \/ /\ taken[k] = taken[k - 1]
           /\ k - taken[k] \in 1 .. Len(rhs)
           /\ Merged(lhs, rhs, taken)[k] = rhs[k - taken[k]]
    BY <2>1, MergedRow
  <2>3. \/ /\ taken[k] = taken[n] + 1
           /\ taken[k] \in 1 .. Len(lhs)
           /\ Merged(lhs, rhs, taken)[k] = lhs[taken[k]]
        \/ /\ taken[k] = taken[n]
           /\ k - taken[k] \in 1 .. Len(rhs)
           /\ Merged(lhs, rhs, taken)[k] = rhs[k - taken[k]]
    BY <2>1, <2>2
  <2>4. b = taken[k] /\ m[n + 1] = Merged(lhs, rhs, taken)[k] /\ k = n + 1
    BY DEF k
  <2>5. n + 1 - b = k - taken[k]
    <3>1. taken[k] \in Int
      BY <1>1, <1>3, <2>3
    <3> HIDE DEF b, m
    <3>2. b = taken[k] /\ b \in Int
      BY <2>4, <3>1
    <3>3. n \in Int /\ k = n + 1
      BY <1>1, <2>4
    <3>4. n + 1 - b = k - b
      BY <3>2, <3>3
    <3> QED
      BY <3>2, <3>4
  <2> HIDE DEF m, b
  <2> QED
    BY <2>3, <2>4, <2>5
<1> HIDE DEF m, a, b
<1>6. CASE /\ a \in 1 .. Len(lhs) /\ m[n] = lhs[a]
           /\ FromLeft(lhs, rhs, left, right, a, n - a + 1)
  <2>1. CASE b = a + 1 /\ b \in 1 .. Len(lhs) /\ m[n + 1] = lhs[b]
    <3>1. lhs[a].key < lhs[b].key
      <4>1. a \in DOMAIN lhs /\ b \in DOMAIN lhs /\ a < b
        BY <1>1, <1>6, <2>1
      <4> QED
        BY <4>1 DEF Ascending
    <3>2. m[n].key <= m[n + 1].key
      BY <1>1, <1>6, <2>1, <3>1
    <3> QED
      BY <3>2 DEF m
  <2>2. CASE b = a /\ n + 1 - b \in 1 .. Len(rhs) /\ m[n + 1] = rhs[n + 1 - b]
    <3> DEFINE j == n - a + 1
    <3>1. j = n + 1 - b /\ j \in 1 .. Len(rhs) /\ j \in Nat \ {0} /\ a \in Nat \ {0}
      BY <1>1, <1>3, <1>6, <2>2
    <3> HIDE DEF j
    <3>2. FromLeft(lhs, rhs, left, right, a, j)
      BY <1>6 DEF j
    <3>3. lhs[a].key <= rhs[j].key
      BY <1>6, <3>1, <3>2, TestByKey
    <3>4. m[n].key <= m[n + 1].key
      BY <1>6, <2>2, <3>1, <3>3
    <3> QED
      BY <3>4 DEF m
  <2> QED
    BY <1>5, <2>1, <2>2
<1>7. CASE /\ n - a \in 1 .. Len(rhs) /\ m[n] = rhs[n - a]
           /\ ~FromLeft(lhs, rhs, left, right, a + 1, n - a)
  <2> DEFINE j == n - a
             i == a + 1
  <2>1. CASE b = a + 1 /\ b \in 1 .. Len(lhs) /\ m[n + 1] = lhs[b]
    <3>1. j \in 1 .. Len(rhs) /\ j \in Nat \ {0} /\ i \in Nat \ {0} /\ i = b
      BY <1>1, <1>3, <1>7, <2>1
    <3>2. ~FromLeft(lhs, rhs, left, right, i, j) /\ m[n] = rhs[j]
      BY <1>7
    <3> HIDE DEF i, j
    <3>3. rhs[j].key < lhs[i].key
      BY <2>1, <3>1, <3>2, TestByKey
    <3>4. rhs[j].key \in Nat /\ lhs[i].key \in Nat
      BY <1>1, <2>1, <3>1
    <3>5. m[n].key <= m[n + 1].key
      BY <2>1, <3>1, <3>2, <3>3, <3>4
    <3> QED
      BY <3>5 DEF m
  <2>2. CASE b = a /\ n + 1 - b \in 1 .. Len(rhs) /\ m[n + 1] = rhs[n + 1 - b]
    <3>1. j \in 1 .. Len(rhs) /\ j + 1 \in 1 .. Len(rhs) /\ j < j + 1 /\ n + 1 - b = j + 1
      BY <1>1, <1>3, <1>7, <2>2
    <3>2. m[n] = rhs[j] /\ m[n + 1] = rhs[j + 1]
      BY <1>7, <2>2, <3>1
    <3> HIDE DEF j
    <3>3. rhs[j].key < rhs[j + 1].key
      BY <1>1, <3>1 DEF Ascending
    <3>4. m[n].key <= m[n + 1].key
      BY <1>1, <3>1, <3>2, <3>3
    <3> QED
      BY <3>4 DEF m
  <2> QED
    BY <1>5, <2>1, <2>2
<1> QED
  BY <1>4, <1>6, <1>7

\* No row before the n-th has its key.
FirstOfKey(rows, n) == \A k \in DOMAIN rows : k < n => rows[k].key # rows[n].key

\* ... and the first row of a key that lhs has is the one of lhs.
LEMMA MergedFirst ==
  ASSUME NEW lhs \in Seq(Row), NEW rhs \in Seq(Row), NEW left, NEW right,
         NEW taken, IsTaken(lhs, rhs, left, right, taken),
         Addressed(lhs, rhs, left, right), Ascending(lhs),
         NEW n \in 1 .. Len(lhs) + Len(rhs), FirstOfKey(Merged(lhs, rhs, taken), n),
         NEW i \in 1 .. Len(lhs), lhs[i].key = Merged(lhs, rhs, taken)[n].key
  PROVE  Merged(lhs, rhs, taken)[n] = lhs[i]
<1> DEFINE m == Merged(lhs, rhs, taken)
           a == taken[n]
<1>1. /\ Len(lhs) \in Nat /\ DOMAIN lhs = 1 .. Len(lhs) /\ \A k \in 1 .. Len(lhs) : lhs[k].key \in Nat
      /\ Len(rhs) \in Nat /\ DOMAIN rhs = 1 .. Len(rhs) /\ \A k \in 1 .. Len(rhs) : rhs[k].key \in Nat
  BY ListTypes
<1>2. \A k \in 1 .. Len(lhs) + Len(rhs) :
        \/ /\ taken[k] = taken[k - 1] + 1
           /\ taken[k] \in 1 .. Len(lhs)
           /\ m[k] = lhs[taken[k]]
        \/ /\ taken[k] = taken[k - 1]
           /\ k - taken[k] \in 1 .. Len(rhs)
           /\ m[k] = rhs[k - taken[k]]
           /\ ~FromLeft(lhs, rhs, left, right, taken[k] + 1, k - taken[k])
  BY MergedRow
<1>3. a \in 0 .. Len(lhs)
  <2>1. n \in 0 .. Len(lhs) + Len(rhs)
    BY <1>1
  <2> QED
    BY <2>1, TakenBounds
<1>4. \A k \in 1 .. Len(lhs) + Len(rhs) : k < n => m[k].key # m[n].key
  BY DEF FirstOfKey, Merged
<1>5. lhs[i].key = m[n].key
  OBVIOUS
<1>6. \A k \in 1 .. Len(lhs) : lhs[k].key = lhs[i].key => k = i
  <2> SUFFICES ASSUME NEW k \in 1 .. Len(lhs), lhs[k].key = lhs[i].key, k # i PROVE FALSE
    OBVIOUS
  <2>1. (k < i => lhs[k].key < lhs[i].key) /\ (i < k => lhs[i].key < lhs[k].key)
    BY <1>1 DEF Ascending
  <2> QED
    BY <1>1, <2>1
<1> HIDE DEF m
<1>7. CASE a \in 1 .. Len(lhs) /\ m[n] = lhs[a]
  <2>1. m[n] = lhs[i]
    BY <1>5, <1>6, <1>7
  <2> QED
    BY <2>1 DEF m
<1>8. CASE /\ a = taken[n - 1] /\ n - a \in 1 .. Len(rhs) /\ m[n] = rhs[n - a]
           /\ ~FromLeft(lhs, rhs, left, right, a + 1, n - a)
  <2>1. CASE i <= a
    <3>1. Counts(n, taken)
      <4>1. \A k \in 0 .. n : k \in 0 .. Len(lhs) + Len(rhs)
        BY <1>1
      <4>2. \A k \in 0 .. n : taken[k] \in Nat
        BY <4>1 DEF IsTaken
      <4>3. taken[0] = 0
        BY DEF IsTaken
      <4>4. \A k \in 1 .. n : taken[k] = taken[k - 1] \/ taken[k] = taken[k - 1] + 1
        <5>1. \A k \in 1 .. n : k \in 1 .. Len(lhs) + Len(rhs)
          BY <1>1
        <5> QED
          BY <1>2, <5>1
      <4> QED
        BY <4>2, <4>3, <4>4 DEF Counts
    <3>2. Meets(n, taken)
      <4>1. n \in Nat
        BY <1>1
      <4> QED
        BY <3>1, <4>1, CountMeets
    <3>3. i \in 1 .. taken[n]
      BY <1>1, <1>3, <2>1
    <3>4. PICK k \in 1 .. n : taken[k] = i /\ taken[k - 1] = i - 1
      BY <3>2, <3>3 DEF Meets
    <3>5. taken[k] # taken[k - 1]
      BY <3>4
    <3>6. k # n
      BY <1>8, <3>5
    <3>7. k \in 1 .. Len(lhs) + Len(rhs) /\ k < n
      BY <1>1, <3>6
    <3>8. m[k] = lhs[i]
      BY <1>2, <3>4, <3>5, <3>7
    <3> QED
      BY <1>4, <1>5, <3>7, <3>8
  <2>2. CASE ~(i <= a)
    <3> DEFINE j == n - a
               b == a + 1
    <3>1. b \in 1 .. Len(lhs) /\ b \in Nat \ {0} /\ j \in Nat \ {0} /\ b <= i /\ j \in 1 .. Len(rhs)
      BY <1>1, <1>3, <1>8, <2>2
    <3>2. ~FromLeft(lhs, rhs, left, right, b, j) /\ m[n] = rhs[j]
      BY <1>8
    <3> HIDE DEF a, b, j
    <3>3. rhs[j].key < lhs[b].key
      BY <3>1, <3>2, TestByKey
    <3>4. lhs[b].key <= lhs[i].key
      <4>1. CASE b = i
        BY <1>1, <4>1
      <4>2. CASE b # i
        <5>1. b < i
          BY <3>1, <4>2
        <5>2. lhs[b].key < lhs[i].key
          BY <1>1, <3>1, <5>1 DEF Ascending
        <5> QED
          BY <1>1, <3>1, <5>2
      <4> QED
        BY <4>1, <4>2
    <3>5. lhs[i].key = rhs[j].key
      BY <1>5, <3>2
    <3> QED
      BY <1>1, <3>1, <3>3, <3>4, <3>5
  <2> QED
    BY <2>1, <2>2
<1> QED
  BY <1>2, <1>7, <1>8

\* A merge loses no key, wherever the rows lie.
LEMMA MergeKeepsKeys ==
  ASSUME NEW lhs \in Seq(Row), NEW rhs \in Seq(Row), NEW left, NEW right
  PROVE  ListKeys(MergeRows(lhs, rhs, left, right)) = ListKeys(lhs) \cup ListKeys(rhs)
<1>1. PICK taken : /\ IsTaken(lhs, rhs, left, right, taken)
                   /\ MergeRows(lhs, rhs, left, right) = Unique(Merged(lhs, rhs, taken))
  BY MergeLoop
<1> DEFINE m == Merged(lhs, rhs, taken)
<1>2. m \in Seq(Row) /\ ListKeys(m) = ListKeys(lhs) \cup ListKeys(rhs)
  BY <1>1, MergedKeys
<1> HIDE DEF m
<1>3. ListKeys(Unique(m)) = ListKeys(m)
  BY <1>2, UniqueKeepsKeys
<1> QED
  BY <1>1, <1>2, <1>3 DEF m

\* The rows that a merge is to keep.
NewestOf(t, lhs, rhs) ==
  [k \in ListKeys(lhs) \cup ListKeys(rhs) |->
     IF k \in ListKeys(lhs) THEN t[k] ELSE rhs[CHOOSE j \in DOMAIN rhs : rhs[j].key = k]]

\* With the rows so addressed, it gives the table of the newest rows.
LEMMA MergeIsNewest ==
  ASSUME NEW lhs \in Seq(Row), NEW rhs \in Seq(Row), NEW left, NEW right,
         Ascending(lhs), Ascending(rhs), Addressed(lhs, rhs, left, right),
         NEW t, \A i \in DOMAIN lhs : lhs[i] = t[lhs[i].key]
  PROVE  MergeRows(lhs, rhs, left, right) = RowList(NewestOf(t, lhs, rhs))
<1>1. PICK taken : /\ IsTaken(lhs, rhs, left, right, taken)
                   /\ MergeRows(lhs, rhs, left, right) = Unique(Merged(lhs, rhs, taken))
  <2>1. \E taken : /\ IsTaken(lhs, rhs, left, right, taken)
                   /\ MergeRows(lhs, rhs, left, right) = Unique(Merged(lhs, rhs, taken))
    BY ONLY lhs \in Seq(Row), rhs \in Seq(Row), MergeLoop
  <2> QED
    BY ONLY <2>1
<1> DEFINE m == Merged(lhs, rhs, taken)
           N == Len(lhs) + Len(rhs)
           F == NewestOf(t, lhs, rhs)
<1>2. m \in Seq(Row) /\ DOMAIN m = 1 .. N /\ ListKeys(m) = ListKeys(lhs) \cup ListKeys(rhs)
  BY <1>1, MergedKeys
<1>3. /\ Len(lhs) \in Nat /\ DOMAIN lhs = 1 .. Len(lhs)
      /\ Len(rhs) \in Nat /\ DOMAIN rhs = 1 .. Len(rhs) /\ \A j \in 1 .. Len(rhs) : rhs[j].key \in Nat
  BY ListTypes
<1>4. \A n \in 1 .. N - 1 : m[n].key <= m[n + 1].key
  BY <1>1, MergedSorted
<1>5. \A n \in 1 .. N : \/ taken[n] \in 1 .. Len(lhs) /\ m[n] = lhs[taken[n]]
                        \/ n - taken[n] \in 1 .. Len(rhs) /\ m[n] = rhs[n - taken[n]]
  BY <1>1, MergedRow
<1>6. ASSUME NEW n \in 1 .. N, FirstOfKey(m, n), NEW i \in 1 .. Len(lhs), lhs[i].key = m[n].key
      PROVE  m[n] = lhs[i]
  BY <1>1, <1>6, MergedFirst
<1>7. Len(m) = N
  BY <1>2, <1>3, LenProperties
<1> HIDE DEF m
<1>8. \A i, j \in DOMAIN m : i < j => m[i].key <= m[j].key
  BY <1>2, <1>4, <1>7, NeverFalls
<1> DEFINE u == Unique(m)
<1>9. u \in Seq(Row) /\ ListKeys(u) = ListKeys(m)
  BY <1>2, UniqueIs, UniqueKeepsKeys
<1>10. /\ Ascending(u)
       /\ \A n \in DOMAIN u : \E i \in DOMAIN m :
            u[n] = m[i] /\ \A j \in DOMAIN m : j < i => m[j].key # m[i].key
  BY <1>2, <1>8, UniqueOfSorted
<1>11. DOMAIN F = ListKeys(u)
  BY <1>2, <1>9 DEF NewestOf
<1>12. \A k \in ListKeys(lhs) \cup ListKeys(rhs) :
         F[k] = IF k \in ListKeys(lhs) THEN t[k] ELSE rhs[CHOOSE j \in DOMAIN rhs : rhs[j].key = k]
  BY DEF NewestOf
<1> HIDE DEF u, F, N
<1>13. ASSUME NEW n \in DOMAIN u PROVE u[n] = F[u[n].key]
  <2>1. PICK i \in 1 .. N : u[n] = m[i] /\ \A j \in 1 .. N : j < i => m[j].key # m[i].key
    BY <1>2, <1>10
  <2> DEFINE k == m[i].key
  <2>2. k \in ListKeys(lhs) \cup ListKeys(rhs)
    BY <1>2, <2>1 DEF ListKeys
  <2>3. CASE k \in ListKeys(lhs)
    <3>1. PICK l \in 1 .. Len(lhs) : lhs[l].key = m[i].key
      BY <1>3, <2>3 DEF ListKeys
    <3>2. m[i] = lhs[l]
      <4>1. FirstOfKey(m, i)
        BY <1>2, <2>1 DEF FirstOfKey
      <4> QED
        BY <1>6, <3>1, <4>1
    <3>3. lhs[l] = t[k]
      BY <1>3, <3>1
    <3> QED
      BY <1>12, <2>1, <2>2, <2>3, <3>2, <3>3
  <2>4. CASE k \notin ListKeys(lhs)
    <3>1. ~(taken[i] \in 1 .. Len(lhs) /\ m[i] = lhs[taken[i]])
      BY <1>3, <2>4 DEF ListKeys
    <3>2. i - taken[i] \in 1 .. Len(rhs) /\ m[i] = rhs[i - taken[i]]
      BY <1>5, <3>1
    <3> DEFINE j == i - taken[i]
    <3>3. j \in DOMAIN rhs /\ m[i] = rhs[j] /\ rhs[j].key = k
      BY <1>3, <3>2
    <3> HIDE DEF j
    <3>4. ASSUME NEW l \in DOMAIN rhs, rhs[l].key = k PROVE l = j
      <4>1. (l < j => rhs[l].key < rhs[j].key) /\ (j < l => rhs[j].key < rhs[l].key)
        BY <3>3 DEF Ascending
      <4>2. rhs[l].key \in Nat /\ rhs[l].key = rhs[j].key /\ l \in Nat /\ j \in Nat
        BY <1>3, <3>3, <3>4
      <4> QED
        BY <4>1, <4>2
    <3> HIDE DEF k
    <3>5. (CHOOSE l \in DOMAIN rhs : rhs[l].key = k) = j
      BY <3>3, <3>4
    <3>6. F[k] = rhs[j]
      BY <1>12, <2>2, <2>4, <3>5
    <3> QED
      BY <2>1, <3>3, <3>6 DEF k
  <2> QED
    BY <2>3, <2>4
<1>14. u = RowList(F)
  BY <1>9, <1>10, <1>11, <1>13, AscendingIsRowList
<1> QED
  BY <1>1, <1>14 DEF u, m, F

-----------------------------------------------------------------------------
(* A merge keeps the newest rows                                           *)

\* A table made of the map has its rows under their keys.
LEMMA TableOwnsKeys ==
  ASSUME NEW m, NEW n, IsMap(m, n), HoldsRows(m)
  PROVE  OwnKeys(TableOf(m))
<1> SUFFICES ASSUME NEW k \in DOMAIN TableOf(m) PROVE TableOf(m)[k].key = k
  BY DEF OwnKeys
<1>1. PICK a \in Kept(m) : k = a.key
  BY DEF TableOf
<1>2. a \in DOMAIN m /\ TableOf(m)[k] = m[a]
  BY <1>1, KeptOnce
<1> QED
  BY <1>1, <1>2 DEF HoldsRows

\* So has the table saved last.
LEMMA StepOwnKeys ==
  ASSUME TypeOK, OwnKeys(saved), [Next]_vars
  PROVE  OwnKeys(saved')
<1>0. OwnKeys(EmptyTable)
  BY DEF OwnKeys, EmptyTable
<1>1. CASE \E row \in InputRows : InsertRow(row)
  BY <1>1 DEF InsertRow
<1>2. CASE BeginRestore
  BY <1>2 DEF BeginRestore
<1>3. CASE RestoreRow
  BY <1>3 DEF RestoreRow
<1>4. CASE SetWriteAheadLog
  BY <1>4 DEF SetWriteAheadLog
<1>5. CASE Clear
  <2>1. IsMap(map, counter) /\ HoldsRows(map)
    BY DEF TypeOK, IsMap, HoldsRows
  <2>2. saved' = TableOf(map)
    BY <1>5 DEF Clear
  <2> QED
    BY <2>1, <2>2, TableOwnsKeys
<1>6. CASE Renew
  BY <1>0, <1>6 DEF Renew
<1>7. CASE UNCHANGED vars
  BY <1>7 DEF vars
<1> QED
  BY <1>1, <1>2, <1>3, <1>4, <1>5, <1>6, <1>7 DEF Next

\* What load may give for the file of a table: its vector, or the one row that an
\* empty file gives.
LEMMA LoadedRows ==
  ASSUME NEW t, IsTable(t), OwnKeys(t), NEW rhs \in LoadRows(RowList(t))
  PROVE  rhs \in Seq(Row) /\ Ascending(rhs)
<1>1. CASE RowList(t) = <<>>
  <2>1. PICK row \in Row : rhs = <<row>>
    BY <1>1, FromNothingType DEF LoadRows
  <2>2. <<row>> \in Seq(Row) /\ DOMAIN <<row>> = {1}
    OBVIOUS
  <2> QED
    BY <2>1, <2>2 DEF Ascending
<1>2. CASE RowList(t) # <<>>
  <2>1. rhs = RowList(t)
    BY <1>2 DEF LoadRows
  <2> QED
    BY <2>1, RowListIs
<1> QED
  BY <1>1, <1>2

\* The elements of two lists one after the other.
LEMMA Joined ==
  ASSUME NEW lhs \in Seq(Row), NEW rhs \in Seq(Row)
  PROVE  /\ DOMAIN (lhs \o rhs) = 1 .. Len(lhs) + Len(rhs)
         /\ \A i \in 1 .. Len(lhs) : i \in DOMAIN (lhs \o rhs) /\ (lhs \o rhs)[i] = lhs[i]
         /\ \A j \in 1 .. Len(rhs) :
              Len(lhs) + j \in DOMAIN (lhs \o rhs) /\ (lhs \o rhs)[Len(lhs) + j] = rhs[j]
         /\ ListKeys(lhs \o rhs) = ListKeys(lhs) \cup ListKeys(rhs)
<1> DEFINE both == lhs \o rhs
<1>1. Len(lhs) \in Nat /\ DOMAIN lhs = 1 .. Len(lhs) /\ Len(rhs) \in Nat /\ DOMAIN rhs = 1 .. Len(rhs)
  BY LenProperties
<1>2. DOMAIN both = 1 .. Len(lhs) + Len(rhs)
  BY ConcatProperties, LenProperties
<1>3. \A i \in 1 .. Len(lhs) : i \in DOMAIN both /\ both[i] = lhs[i]
  BY <1>1
<1>4. \A j \in 1 .. Len(rhs) : Len(lhs) + j \in DOMAIN both /\ both[Len(lhs) + j] = rhs[j]
  <2> SUFFICES ASSUME NEW j \in 1 .. Len(rhs)
               PROVE  Len(lhs) + j \in DOMAIN both /\ both[Len(lhs) + j] = rhs[j]
    OBVIOUS
  <2>1. Len(lhs) + j \in 1 .. Len(lhs) + Len(rhs) /\ Len(lhs) + j > Len(lhs) /\ Len(lhs) + j - Len(lhs) = j
    BY <1>1
  <2> QED
    BY <1>1, <1>2, <2>1, ConcatProperties
<1> HIDE DEF both
<1>5. ASSUME NEW k \in ListKeys(both) PROVE k \in ListKeys(lhs) \cup ListKeys(rhs)
  <2>1. PICK i \in 1 .. Len(lhs) + Len(rhs) : k = both[i].key
    BY <1>2, <1>5 DEF ListKeys
  <2>2. CASE i \in 1 .. Len(lhs)
    BY <1>1, <1>3, <2>1, <2>2 DEF ListKeys
  <2>3. CASE i \notin 1 .. Len(lhs)
    <3> DEFINE j == i - Len(lhs)
    <3>1. j \in 1 .. Len(rhs) /\ Len(lhs) + j = i
      BY <1>1, <2>3
    <3> HIDE DEF j
    <3>2. both[i] = rhs[j]
      BY <1>4, <3>1
    <3> QED
      BY <1>1, <2>1, <3>1, <3>2 DEF ListKeys
  <2> QED
    BY <2>2, <2>3
<1>6. ASSUME NEW k \in ListKeys(lhs) PROVE k \in ListKeys(both)
  BY <1>1, <1>3, <1>6 DEF ListKeys
<1>7. ASSUME NEW k \in ListKeys(rhs) PROVE k \in ListKeys(both)
  <2>1. PICK j \in 1 .. Len(rhs) : k = rhs[j].key
    BY <1>1, <1>7 DEF ListKeys
  <2>2. \E i \in DOMAIN both : both[i] = rhs[j]
    BY <1>4
  <2> QED
    BY <2>1, <2>2 DEF ListKeys
<1>8. ListKeys(both) = ListKeys(lhs) \cup ListKeys(rhs)
  BY <1>5, <1>6, <1>7
<1> QED
  BY <1>2, <1>3, <1>4, <1>8 DEF both

\* Do the addresses rise with the keys, and for a key with the place in the list?
InOrder(both, addr) ==
  \A i, j \in DOMAIN both :
    \/ both[i].key < both[j].key
    \/ both[i].key = both[j].key /\ i < j
    => addr[i] < addr[j]

LEMMA OrderedAddresses ==
  ASSUME NEW lhs \in Seq(Row), NEW rhs \in Seq(Row),
         NEW addr \in [DOMAIN (lhs \o rhs) -> DOMAIN (lhs \o rhs)], InOrder(lhs \o rhs, addr)
  PROVE  Addressed(lhs, rhs, addr, [j \in DOMAIN rhs |-> addr[Len(lhs) + j]])
<1> DEFINE both == lhs \o rhs
           right == [j \in DOMAIN rhs |-> addr[Len(lhs) + j]]
<1>1. /\ Len(lhs) \in Nat /\ \A i \in 1 .. Len(lhs) : lhs[i].key \in Nat
      /\ Len(rhs) \in Nat /\ DOMAIN rhs = 1 .. Len(rhs) /\ \A j \in 1 .. Len(rhs) : rhs[j].key \in Nat
  BY ListTypes
<1>2. /\ DOMAIN both = 1 .. Len(lhs) + Len(rhs)
      /\ \A i \in 1 .. Len(lhs) : i \in DOMAIN both /\ both[i] = lhs[i]
      /\ \A j \in 1 .. Len(rhs) : Len(lhs) + j \in DOMAIN both /\ both[Len(lhs) + j] = rhs[j]
  BY Joined
<1>3. \A j \in 1 .. Len(rhs) : right[j] = addr[Len(lhs) + j]
  BY <1>1
<1>4. addr \in [DOMAIN both -> DOMAIN both] /\ InOrder(both, addr)
  OBVIOUS
<1> HIDE DEF both, right
<1>5. \A i \in DOMAIN both : addr[i] \in Nat
  BY <1>1, <1>2, <1>4
<1>6. ASSUME NEW i \in 1 .. Len(lhs), NEW j \in 1 .. Len(rhs)
      PROVE  /\ lhs[i].key <= rhs[j].key => addr[i] < right[j]
             /\ rhs[j].key < lhs[i].key => right[j] < addr[i]
  <2> DEFINE p == Len(lhs) + j
  <2>1. i \in DOMAIN both /\ p \in DOMAIN both /\ both[i] = lhs[i] /\ both[p] = rhs[j] /\ right[j] = addr[p]
    BY <1>2, <1>3
  <2>2. i < p /\ lhs[i].key \in Nat /\ rhs[j].key \in Nat
    BY <1>1
  <2> HIDE DEF p
  <2>3. (both[i].key < both[p].key \/ both[i].key = both[p].key) => addr[i] < addr[p]
    BY <1>4, <2>1, <2>2 DEF InOrder
  <2>4. both[p].key < both[i].key => addr[p] < addr[i]
    BY <1>4, <2>1 DEF InOrder
  <2> QED
    BY <2>1, <2>2, <2>3, <2>4
<1>7. Addressed(lhs, rhs, addr, right)
  <2>1. \A j \in 1 .. Len(rhs) : right[j] \in Nat
    BY <1>2, <1>3, <1>5
  <2>2. \A i \in 1 .. Len(lhs) : addr[i] \in Nat
    BY <1>2, <1>5
  <2> QED
    BY <1>6, <2>1, <2>2 DEF Addressed
<1> QED
  BY <1>7 DEF right

\* SSTable::merge, on the vectors of the table made now and of the one saved before,
\* keeps every key whatever the allocator did, and the newest rows in key order when the
\* addresses of the rows happen to rise as it needs them to.
THEOREM MergeKeepsNewestHolds == Spec => []MergeKeepsNewest
<1>1. TypeOK /\ OwnKeys(saved) => MergeKeepsNewest
  <2> DEFINE t == TableOf(map)
             lhs == RowList(t)
  <2> SUFFICES ASSUME TypeOK, OwnKeys(saved), NEW rhs \in LoadRows(RowList(saved)),
                      NEW addr \in [DOMAIN (lhs \o rhs) -> DOMAIN (lhs \o rhs)]
               PROVE  LET merged == MergeRows(lhs, rhs, addr, [j \in DOMAIN rhs |-> addr[Len(lhs) + j]])
                      IN  /\ ListKeys(merged) = ListKeys(lhs \o rhs)
                          /\ InOrder(lhs \o rhs, addr) =>
                               merged = RowList([k \in ListKeys(lhs \o rhs) |->
                                           IF k \in ListKeys(lhs) THEN t[k]
                                           ELSE rhs[CHOOSE j \in DOMAIN rhs : rhs[j].key = k]])
    BY DEF MergeKeepsNewest, ListKeys, InOrder
  <2> DEFINE right == [j \in DOMAIN rhs |-> addr[Len(lhs) + j]]
  <2>1. IsTable(t) /\ OwnKeys(t)
    <3>1. IsMap(map, counter) /\ HoldsRows(map)
      BY DEF TypeOK, IsMap, HoldsRows
    <3> QED
      BY <3>1, TableOfType, TableOwnsKeys
  <2>2. rhs \in Seq(Row) /\ Ascending(rhs)
    BY LoadedRows DEF TypeOK
  <2> HIDE DEF t
  <2>3. lhs \in Seq(Row) /\ Ascending(lhs) /\ \A i \in DOMAIN lhs : lhs[i] = t[lhs[i].key]
    BY <2>1, RowListIs
  <2> HIDE DEF lhs
  <2>4. ListKeys(lhs \o rhs) = ListKeys(lhs) \cup ListKeys(rhs)
    BY <2>2, <2>3, Joined
  <2>5. ListKeys(MergeRows(lhs, rhs, addr, right)) = ListKeys(lhs \o rhs)
    <3> HIDE DEF right
    <3> QED
      BY <2>2, <2>3, <2>4, MergeKeepsKeys
  <2>6. ASSUME InOrder(lhs \o rhs, addr)
        PROVE  MergeRows(lhs, rhs, addr, right) = RowList(NewestOf(t, lhs, rhs))
    <3>1. Addressed(lhs, rhs, addr, right)
      BY <2>2, <2>3, <2>6, OrderedAddresses
    <3> HIDE DEF right
    <3> QED
      BY <2>2, <2>3, <3>1, MergeIsNewest
  <2> QED
    BY <2>4, <2>5, <2>6 DEF NewestOf
<1>2. Init => OwnKeys(saved)
  BY DEF Init, OwnKeys, EmptyTable
<1>3. TypeOK /\ OwnKeys(saved) /\ [Next]_vars => OwnKeys(saved)'
  BY StepOwnKeys
<1> QED
  BY <1>1, <1>2, <1>3, MemTableTypes, PTL DEF Spec
=============================================================================
