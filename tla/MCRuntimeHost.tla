--------------------------- MODULE MCRuntimeHost ----------------------------
(* RuntimeHost with the model values of its configurations.  No symmetry:  *)
(* the runs that pass check liveness.                                      *)
EXTENDS RuntimeHost
=============================================================================
