--------------------------- MODULE MCSurfaceHost ----------------------------
(* Two surfaces and two requests over every interleaving of post, the     *)
(* owner's service and the stop.                                            *)
EXTENDS SurfaceHost
=============================================================================
