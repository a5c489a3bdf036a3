---------------------------- MODULE MCNetworking ----------------------------
(***************************************************************************)
(* Values of the constants of Networking for the model checker.             *)
(***************************************************************************)
EXTENDS Networking

\* A value is longer than the empty string.
MCSize == [v \in Values \cup {Empty} |-> IF v = Empty THEN 0 ELSE 2]

CONSTANT Reader   \* the client that reads

ForKeys(t, vs) == {[type |-> t, key |-> k, value |-> v] : k \in Keys, v \in vs}

\* A get meets every other kind of request.
MCRequests ==
  [c \in Clients |-> IF c = Reader THEN ForKeys("Get", {Empty})
                     ELSE ForKeys("Put", Values) \cup ForKeys("Delete", {Empty}) \cup ForKeys("Other", {Empty})]
=============================================================================
