------------------------------ MODULE MCOptions ------------------------------
(***************************************************************************)
(* Values of the constants of Options for the model checker: every pair of  *)
(* a codec and a hasher.                                                    *)
(***************************************************************************)
EXTENDS Options

MCCallerOptions ==
  {[maxMemTableSize |-> 1, compressionType |-> c, hashType |-> h] :
     c \in CompressionTypes, h \in HashTypes}
=============================================================================
