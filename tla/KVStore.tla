------------------------------- MODULE KVStore -------------------------------
(***************************************************************************)
(* What the database promises its clients (include/omx/Database.h): a map   *)
(* from keys to values that put and remove change one entry at a time.      *)
(***************************************************************************)
EXTENDS Integers

CONSTANTS Keys, Values, Missing

VARIABLES
  store,    \* the value of each key
  writes    \* number of puts and removes so far

Init ==
  /\ store = [k \in Keys |-> Missing]
  /\ writes = 0

Put(k, v) ==
  /\ writes' = writes + 1
  /\ store' = [store EXCEPT ![k] = v]

Remove(k) ==
  /\ writes' = writes + 1
  /\ store' = [store EXCEPT ![k] = Missing]

Next == \E k \in Keys : Remove(k) \/ \E v \in Values : Put(k, v)

Spec == Init /\ [][Next]_<<store, writes>>
=============================================================================
