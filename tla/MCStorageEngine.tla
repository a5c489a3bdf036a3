--------------------------- MODULE MCStorageEngine ---------------------------
(***************************************************************************)
(* Values of the constants of StorageEngine for the model checker, and what *)
(* makes the runs small.                                                    *)
(***************************************************************************)
EXTENDS StorageEngine, TLC

\* With FilterSize = NumHashes = 2: odd keys have both bits, even ones only bit 1,
\* so that an odd key makes an even one a false positive and not the reverse.
MCBloomHash == [k \in KeyIds |-> <<1, k>>]

\* Nothing depends on which value or which reader is which.
Symmetry == Permutations(Values) \cup Permutations(Readers)

\* Within one session nobody reads the log, so it does not tell states apart.
SessionView == <<pc, memoryVars, diskVars, kv, localVars, readers, boundVars>>
=============================================================================
