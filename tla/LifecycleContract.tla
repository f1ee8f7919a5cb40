------------------------- MODULE LifecycleContract --------------------------
(***************************************************************************)
(* What BackendLifecycleCoordinator promises the host that drives it: its  *)
(* state moves one way, a stop is prepared (queue and input drained) before *)
(* it can finish, and only a prepared stop or a failed open closes it.     *)
(***************************************************************************)
VARIABLES lifecycle, prepared

contractVars == <<lifecycle, prepared>>

Init == lifecycle = "Constructed" /\ prepared = FALSE

Open == lifecycle = "Constructed" /\ lifecycle' = "Running" /\ UNCHANGED prepared

OpenFails == lifecycle = "Constructed" /\ lifecycle' = "Closed" /\ UNCHANGED prepared

Begin == lifecycle = "Running" /\ lifecycle' = "Stopping" /\ UNCHANGED prepared

Prepare == lifecycle = "Stopping" /\ prepared' = TRUE /\ UNCHANGED lifecycle

Finish == lifecycle = "Stopping" /\ prepared /\ lifecycle' = "Closed" /\ UNCHANGED prepared

Next == Open \/ OpenFails \/ Begin \/ Prepare \/ Finish

Spec == Init /\ [][Next]_contractVars
=============================================================================
