------------------------------ MODULE MCMemTable ------------------------------
(***************************************************************************)
(* Values of the constants of MemTable for the model checker.               *)
(***************************************************************************)
EXTENDS MemTable

\* Rows as the engine puts them, and one as the form of put without a checksum
\* makes it; the key npos too.
MCInputRows ==
  {PutRow(k, v) : k \in Keys, v \in Values} \cup {RemoveRow(k) : k \in Keys}
    \cup {[PutRow(k, v) EXCEPT !.checksum = ZeroSum] : k \in Keys \ {NPos}, v \in Values}
=============================================================================
