------------------------- MODULE MCBackendLifecycle -------------------------
(* BackendLifecycle with the model values of its configurations.  No       *)
(* symmetry: the run that passes checks liveness.                          *)
EXTENDS BackendLifecycle
=============================================================================
