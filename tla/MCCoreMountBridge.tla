------------------------- MODULE MCCoreMountBridge --------------------------
(* A full mount of three batches, one of a lone batch on another surface,  *)
(* and an incremental one that meets the first.                            *)
EXTENDS CoreMountBridge, TLC

CONSTANTS s1, s2, long, short, update

MCTransactions ==
  (long   :> [surface |-> s1, full |-> TRUE,  batches |-> 3]) @@
  (short  :> [surface |-> s2, full |-> TRUE,  batches |-> 1]) @@
  (update :> [surface |-> s1, full |-> FALSE, batches |-> 1])
=============================================================================
