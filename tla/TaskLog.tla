------------------------------ MODULE TaskLog -------------------------------
(***************************************************************************)
(* What the owner task queue promises its callers: tasks are admitted one  *)
(* at a time while it is open, each admitted task is ended exactly once    *)
(* and in the order of admission, the backlog is bounded, nothing is       *)
(* admitted once a stop has begun, and it closes only with nothing left.   *)
(***************************************************************************)
EXTENDS Integers, Sequences

CONSTANTS Tasks, Backlog

VARIABLES phase, admitted, done

logVars == <<phase, admitted, done>>

Init == phase = "Constructed" /\ admitted = <<>> /\ done = <<>>

Open == phase = "Constructed" /\ phase' = "Running" /\ UNCHANGED <<admitted, done>>

Admit ==
  /\ phase = "Running"
  /\ Len(admitted) - Len(done) < Backlog
  /\ \E t \in Tasks : /\ \A i \in 1..Len(admitted) : admitted[i] # t
                      /\ admitted' = Append(admitted, t)
  /\ UNCHANGED <<phase, done>>

End ==
  /\ Len(done) < Len(admitted)
  /\ done' = Append(done, admitted[Len(done) + 1])
  /\ UNCHANGED <<phase, admitted>>

Stop == phase = "Running" /\ phase' = "Stopping" /\ UNCHANGED <<admitted, done>>

Close ==
  /\ phase = "Stopping" /\ Len(done) = Len(admitted)
  /\ phase' = "Closed"
  /\ UNCHANGED <<admitted, done>>

Next == Open \/ Admit \/ End \/ Stop \/ Close

Spec == Init /\ [][Next]_logVars
=============================================================================
