-------------------------- MODULE MCOwnerTaskQueue --------------------------
(* Two producers post three tasks to a queue of two while the owner pumps  *)
(* and stops: the third post may meet a full ring, and the ring wraps.     *)
EXTENDS OwnerTaskQueue
=============================================================================
