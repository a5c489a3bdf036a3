------------------------------ MODULE NewestRows ------------------------------
(***************************************************************************)
(* What StorageEngine needs of its memtable: the newest row of each key and *)
(* the number of bytes put since the last clear.                            *)
(***************************************************************************)
EXTENDS SSTable

VARIABLES
  rows,   \* the newest row of each key
  bytes   \* getApproximateSize

Init ==
  /\ rows = EmptyTable
  /\ bytes = 0

\* put and remove.
Put(row) ==
  /\ rows' = Insert(rows, row)
  /\ bytes' = bytes + RowSize(row)

\* One row of restoreFromLog, which does not count.
Restore(row) ==
  /\ rows' = Insert(rows, row)
  /\ UNCHANGED bytes

Clear ==
  /\ rows' = EmptyTable
  /\ bytes' = 0

Next == Clear \/ \E row \in Row : Put(row) \/ Restore(row)

Spec == Init /\ [][Next]_<<rows, bytes>>
=============================================================================
