-------------------------- MODULE BackendLifecycle --------------------------
(***************************************************************************)
(* BackendLifecycleCoordinator (src/backend_lifecycle.cpp) opens the       *)
(* owner queue, the display and the input backend of one runtime, and      *)
(* stops and closes them and the wakeup port in order.  Every close may    *)
(* answer kBusy and is then tried again by calling the same operation.     *)
(*                                                                         *)
(* The queue is OwnerTaskQueue itself: producers post while the            *)
(* coordinator stops it, so its try-lock really is contended.  The ports   *)
(* are those of src/backends/embedded_backends.cpp over device callbacks   *)
(* (external), which answer ok, busy or failed.                            *)
(***************************************************************************)
EXTENDS Integers, Sequences, FiniteSets

CONSTANTS Producers, Owner, Tasks, Capacity, MaxTasksPerPump, MaxAttempts, NoTask, NoThread,
          MaxDeviceBusy,  \* bound: how many times device callbacks answer kBusy
          MaxDeviceFail   \* bound: how many times they fail

(* What the queue assumes of its own constants.                            *)
ASSUME QueueAssumption ==
  /\ Capacity \in Nat \ {0} /\ MaxTasksPerPump \in Nat \ {0} /\ MaxAttempts \in Nat
  /\ Owner \notin Producers /\ NoThread \notin Producers \cup {Owner} /\ NoTask \notin Tasks

ASSUME DeviceAssumption == MaxDeviceBusy \in Nat /\ MaxDeviceFail \in Nat

VARIABLES lock, state, stopPolicy, head, size, peak, storage, signal, pc, hand, result,
          call, attempts, accepted, ended, cancelled

VARIABLES
  lifecycle,       \* state_ of the coordinator
  policy,          \* its stop_policy_
  displayOpen,     \* display_open_
  inputOpen,       \* input_open_
  inputDiscarded,  \* input_discarded_
  stopPrepared,    \* stop_prepared_
  stopError,       \* stop_error_
  display,         \* state_ of the display backend
  input,           \* state_ of the input backend
  wakeup,          \* "Running" or "Closed": closed_ of the loop backend
  step,            \* where the coordinator's operation in progress is
  asked,           \* the policy that operation was called with
  pass,            \* drain passes made by this beginStop
  mark,            \* how many tasks had ended when the drain pass began
  reply,           \* what the last operation returned
  deviceBusy, deviceFail  \* how often the devices may still be busy, or fail

queueVars == <<lock, state, stopPolicy, head, size, peak, storage, signal, pc, hand,
               result, call, attempts, accepted, ended, cancelled>>
flags     == <<lifecycle, policy, displayOpen, inputOpen, inputDiscarded, stopPrepared,
               stopError>>
ports     == <<display, input, wakeup>>
device    == <<deviceBusy, deviceFail>>
control   == <<step, asked, pass, mark, reply>>
vars      == <<queueVars, flags, ports, control, device>>

Q == INSTANCE OwnerTaskQueue

LifecycleStates == {"Constructed", "Running", "Stopping", "Closed"}
Steps == {"idle", "bindReturns", "openDisplay", "openInput",
          "undoDisplay", "undoStop", "undoFinish", "undoWakeup",
          "stopReturns", "stopInput", "drain", "drainReturns", "discard",
          "finishInput", "finishDisplay", "finishWakeup", "finishQueue", "finishReturns"}

Init ==
  /\ Q!Init
  /\ lifecycle = "Constructed" /\ policy = "Cancel"
  /\ displayOpen = FALSE /\ inputOpen = FALSE
  /\ inputDiscarded = FALSE /\ stopPrepared = FALSE /\ stopError = "none"
  /\ display = "Constructed" /\ input = "Constructed" /\ wakeup = "Running"
  /\ step = "idle" /\ asked = "Cancel" /\ pass = 0 /\ mark = 0 /\ reply = "none"
  /\ deviceBusy = MaxDeviceBusy /\ deviceFail = MaxDeviceFail

(* The owner thread is at this step, and no queue call is in progress.     *)
At(s) == step = s /\ pc[Owner] = "idle"

Goto(s) == step' = s /\ UNCHANGED <<asked, pass, mark, reply>>

Reply(r) == step' = "idle" /\ reply' = r /\ UNCHANGED <<asked, pass, mark>>

(* The outcome r of a device callback (external).                          *)
Device(r) ==
  \/ r = "ok" /\ UNCHANGED device
  \/ r = "busy" /\ deviceBusy > 0 /\ deviceBusy' = deviceBusy - 1 /\ UNCHANGED deviceFail
  \/ r = "failed" /\ deviceFail > 0 /\ deviceFail' = deviceFail - 1 /\ UNCHANGED deviceBusy

Outcomes == {"ok", "busy", "failed"}

(* close of a port: a callback that is busy leaves it open to be tried     *)
(* again, any other answer closes it; a closed port answers ok.            *)
Closes(port, r) == r # "busy" \/ port = "Closed"

CloseAnswer(port, r) == IF port = "Closed" THEN r = "ok" /\ UNCHANGED device ELSE Device(r)

(* rememberError keeps the first error.                                    *)
Remember(r) == stopError' = IF stopError = "none" /\ r # "ok" THEN r ELSE stopError

(* A call of the queue that meets a held try-lock returns kBusy at once.   *)
CallQueue(enter) == enter \/ Q!OwnerBusy

(***************************************************************************)
(* open                                                                    *)
(***************************************************************************)
Open ==
  /\ At("idle") /\ lifecycle = "Constructed"
  /\ CallQueue(Q!BindEnter)
  /\ Goto("bindReturns")
  /\ UNCHANGED <<flags, ports, device>>

BindReturns ==
  /\ At("bindReturns")
  /\ IF result[Owner] = "busy"
     THEN lifecycle' = "Closed" /\ Reply("busy")
     ELSE Goto("openDisplay") /\ UNCHANGED lifecycle
  /\ UNCHANGED <<queueVars, ports, device>>
  /\ UNCHANGED <<policy, displayOpen, inputOpen, inputDiscarded, stopPrepared, stopError>>

OpenDisplay(r) ==
  /\ At("openDisplay") /\ Device(r)
  /\ display' = IF r = "ok" THEN "Running" ELSE "Closed"
  /\ displayOpen' = (r = "ok")
  /\ Goto(IF r = "ok" THEN "openInput" ELSE "undoDisplay")
  /\ UNCHANGED <<queueVars, input, wakeup>>
  /\ UNCHANGED <<lifecycle, policy, inputOpen, inputDiscarded, stopPrepared, stopError>>

OpenInput(r) ==
  /\ At("openInput") /\ Device(r)
  /\ input' = IF r = "ok" THEN "Running" ELSE "Closed"
  /\ inputOpen' = (r = "ok")
  /\ IF r = "ok"
     THEN lifecycle' = "Running" /\ Reply("ok")
     ELSE UNCHANGED lifecycle /\ Goto("undoDisplay")
  /\ UNCHANGED <<queueVars, display, wakeup>>
  /\ UNCHANGED <<policy, displayOpen, inputDiscarded, stopPrepared, stopError>>

(* closeAfterOpenFailure ignores every answer, kBusy among them.  It never *)
(* meets an open input: opening it is the last thing that can fail.        *)
UndoDisplay(r) ==
  /\ At("undoDisplay")
  /\ IF displayOpen THEN CloseAnswer(display, r) ELSE r = "ok" /\ UNCHANGED device
  /\ display' = IF displayOpen /\ Closes(display, r) THEN "Closed" ELSE display
  /\ displayOpen' = FALSE
  /\ Goto("undoStop")
  /\ UNCHANGED <<queueVars, input, wakeup>>
  /\ UNCHANGED <<lifecycle, policy, inputOpen, inputDiscarded, stopPrepared, stopError>>

UndoStop ==
  /\ At("undoStop")
  /\ CallQueue(Q!BeginStopEnter("Cancel"))
  /\ Goto("undoFinish")
  /\ UNCHANGED <<flags, ports, device>>

UndoFinish ==
  /\ At("undoFinish")
  /\ CallQueue(Q!FinishStopEnter)
  /\ Goto("undoWakeup")
  /\ UNCHANGED <<flags, ports, device>>

UndoWakeup(r) ==
  /\ At("undoWakeup") /\ CloseAnswer(wakeup, r)
  /\ wakeup' = IF Closes(wakeup, r) THEN "Closed" ELSE wakeup
  /\ lifecycle' = "Closed"
  /\ Reply("failed")
  /\ UNCHANGED <<queueVars, display, input>>
  /\ UNCHANGED <<policy, displayOpen, inputOpen, inputDiscarded, stopPrepared, stopError>>

(***************************************************************************)
(* The host pumps the queue between the coordinator's operations.          *)
(***************************************************************************)
HostPump ==
  /\ At("idle") /\ lifecycle \in {"Running", "Stopping"}
  /\ Q!PumpBegin(0)
  /\ UNCHANGED <<flags, ports, control, device>>

(***************************************************************************)
(* beginStop                                                               *)
(***************************************************************************)
(* Mistake: a stop that has begun cannot be begun again.                   *)
BeginStopOnce(p) ==
  /\ At("idle") /\ lifecycle = "Running"
  /\ CallQueue(Q!BeginStopEnter(p))
  /\ step' = "stopReturns" /\ asked' = p /\ pass' = 0
  /\ UNCHANGED <<mark, reply, flags, ports, device>>

BeginStop(p) ==
  /\ At("idle") /\ lifecycle \in {"Running", "Stopping"}
  /\ lifecycle = "Stopping" => policy = p
  /\ CallQueue(Q!BeginStopEnter(p))
  /\ step' = "stopReturns" /\ asked' = p /\ pass' = 0
  /\ UNCHANGED <<mark, reply, flags, ports, device>>

StopReturns ==
  /\ At("stopReturns")
  /\ IF result[Owner] = "ok"
     THEN lifecycle' = "Stopping" /\ policy' = asked /\ Goto("stopInput")
     ELSE UNCHANGED <<lifecycle, policy>> /\ Reply(result[Owner])
  /\ UNCHANGED <<queueVars, ports, device>>
  /\ UNCHANGED <<displayOpen, inputOpen, inputDiscarded, stopPrepared, stopError>>

(* input_.beginStop, then wakeup_.requestStop.                             *)
StopInput(r) ==
  /\ At("stopInput")
  /\ IF inputOpen /\ input = "Running" THEN Device(r) ELSE r = "ok" /\ UNCHANGED device
  /\ IF r = "busy"
     THEN Reply("busy") /\ UNCHANGED <<stopError, input, signal>>
     ELSE /\ Remember(r)
          /\ input' = IF r = "ok" /\ input = "Running" THEN "Stopping" ELSE input
          /\ signal' = TRUE
          /\ Goto(IF asked = "Drain" THEN "drain" ELSE "discard")
  /\ UNCHANGED <<lock, state, stopPolicy, head, size, peak, storage, pc, hand, result, call,
                 attempts, accepted, ended, cancelled>>
  /\ UNCHANGED <<lifecycle, policy, displayOpen, inputOpen, inputDiscarded, stopPrepared,
                 display, wakeup>>

DrainPass ==
  /\ At("drain") /\ pass < Capacity /\ size # 0
  /\ Q!PumpBegin(0)
  /\ step' = "drainReturns" /\ pass' = pass + 1 /\ mark' = Len(ended)
  /\ UNCHANGED <<asked, reply, flags, ports, device>>

(* A pass that ran nothing is an error that ends the stop; kBusy is not.   *)
DrainReturns ==
  /\ At("drainReturns")
  /\ IF result[Owner] = "busy"
     THEN Reply("busy") /\ UNCHANGED stopError
     ELSE IF Len(ended) = mark
     THEN Remember("failed") /\ Reply("failed")
     ELSE Goto("drain") /\ UNCHANGED stopError
  /\ UNCHANGED <<queueVars, ports, device>>
  /\ UNCHANGED <<lifecycle, policy, displayOpen, inputOpen, inputDiscarded, stopPrepared>>

DrainEnds ==
  /\ At("drain") /\ (pass = Capacity \/ size = 0)
  /\ IF size = 0 THEN Goto("discard") ELSE Reply("busy")
  /\ UNCHANGED <<queueVars, flags, ports, device>>

Discard(r) ==
  /\ At("discard")
  /\ IF inputOpen /\ ~inputDiscarded THEN Device(r) ELSE r = "ok" /\ UNCHANGED device
  /\ IF r = "busy"
     THEN Reply("busy") /\ UNCHANGED <<inputDiscarded, stopPrepared, stopError>>
     ELSE /\ inputDiscarded' = (inputDiscarded \/ (inputOpen /\ r = "ok"))
          /\ Remember(r)
          /\ stopPrepared' = TRUE
          /\ Reply(IF stopError' = "none" THEN "ok" ELSE "failed")
  /\ UNCHANGED <<queueVars, lifecycle, policy, displayOpen, inputOpen, ports>>

(***************************************************************************)
(* finishStop                                                              *)
(***************************************************************************)
(* Mistake: an unprepared stop is finished.                                *)
FinishStopUnprepared ==
  /\ At("idle") /\ lifecycle = "Stopping"
  /\ Goto("finishInput")
  /\ UNCHANGED <<queueVars, flags, ports, device>>

FinishStop ==
  /\ At("idle") /\ lifecycle = "Stopping"
  /\ IF stopPrepared THEN Goto("finishInput") ELSE Reply("invalidState")
  /\ UNCHANGED <<queueVars, flags, ports, device>>

(* Mistake: kBusy does not stop the sequence.                              *)
FinishInputBusyGoesOn(r) ==
  /\ At("finishInput")
  /\ IF inputOpen THEN CloseAnswer(input, r) ELSE r = "ok" /\ UNCHANGED device
  /\ input' = IF inputOpen /\ r # "busy" THEN "Closed" ELSE input
  /\ inputOpen' = (inputOpen /\ r = "busy")
  /\ Goto("finishDisplay")
  /\ UNCHANGED <<queueVars, display, wakeup, stopError>>
  /\ UNCHANGED <<lifecycle, policy, displayOpen, inputDiscarded, stopPrepared>>

FinishInput(r) ==
  /\ At("finishInput")
  /\ IF inputOpen THEN CloseAnswer(input, r) ELSE r = "ok" /\ UNCHANGED device
  /\ IF r = "busy"
     THEN Reply("busy") /\ UNCHANGED <<input, inputOpen, stopError>>
     ELSE /\ input' = IF inputOpen THEN "Closed" ELSE input
          /\ inputOpen' = FALSE
          /\ Remember(r)
          /\ Goto("finishDisplay")
  /\ UNCHANGED <<queueVars, display, wakeup>>
  /\ UNCHANGED <<lifecycle, policy, displayOpen, inputDiscarded, stopPrepared>>

(* Mistake: kBusy is taken for closed.                                     *)
FinishDisplayBusyIsClosed(r) ==
  /\ At("finishDisplay")
  /\ IF displayOpen THEN CloseAnswer(display, r) ELSE r = "ok" /\ UNCHANGED device
  /\ display' = IF displayOpen /\ r # "busy" THEN "Closed" ELSE display
  /\ displayOpen' = FALSE
  /\ Remember(r)
  /\ Goto("finishWakeup")
  /\ UNCHANGED <<queueVars, input, wakeup>>
  /\ UNCHANGED <<lifecycle, policy, inputOpen, inputDiscarded, stopPrepared>>

FinishDisplay(r) ==
  /\ At("finishDisplay")
  /\ IF displayOpen THEN CloseAnswer(display, r) ELSE r = "ok" /\ UNCHANGED device
  /\ IF r = "busy"
     THEN Reply("busy") /\ UNCHANGED <<display, displayOpen, stopError>>
     ELSE /\ display' = IF displayOpen THEN "Closed" ELSE display
          /\ displayOpen' = FALSE
          /\ Remember(r)
          /\ Goto("finishWakeup")
  /\ UNCHANGED <<queueVars, input, wakeup>>
  /\ UNCHANGED <<lifecycle, policy, inputOpen, inputDiscarded, stopPrepared>>

FinishWakeup(r) ==
  /\ At("finishWakeup") /\ CloseAnswer(wakeup, r)
  /\ IF r = "busy"
     THEN Reply("busy") /\ UNCHANGED <<wakeup, stopError>>
     ELSE wakeup' = "Closed" /\ Remember(r) /\ Goto("finishQueue")
  /\ UNCHANGED <<queueVars, display, input>>
  /\ UNCHANGED <<lifecycle, policy, displayOpen, inputOpen, inputDiscarded, stopPrepared>>

FinishQueue ==
  /\ At("finishQueue")
  /\ CallQueue(Q!FinishStopEnter)
  /\ Goto("finishReturns")
  /\ UNCHANGED <<flags, ports, device>>

FinishReturns ==
  /\ At("finishReturns")
  /\ IF result[Owner] = "ok"
     THEN /\ lifecycle' = "Closed"
          /\ Reply(IF stopError = "none" THEN "ok" ELSE "failed")
          /\ UNCHANGED stopError
     ELSE /\ IF result[Owner] = "busy" THEN UNCHANGED stopError ELSE Remember("failed")
          /\ Reply(result[Owner])
          /\ UNCHANGED lifecycle
  /\ UNCHANGED <<queueVars, ports, device>>
  /\ UNCHANGED <<policy, displayOpen, inputOpen, inputDiscarded, stopPrepared>>

(***************************************************************************)
(* The composed system                                                     *)
(***************************************************************************)
QueueStep ==
  /\ \/ \E p \in Producers : Q!ProducerStep(p)
     \/ \E p \in Producers, t \in Tasks : Q!PostEnter(p, t) \/ Q!PostBusy(p, t)
     \/ Q!OwnerInCall
  /\ UNCHANGED <<flags, ports, control, device>>

InOperation ==
  \/ BindReturns \/ UndoStop \/ UndoFinish
  \/ StopReturns \/ DrainPass \/ DrainReturns \/ DrainEnds \/ FinishQueue \/ FinishReturns
  \/ \E r \in Outcomes :
       \/ OpenDisplay(r) \/ OpenInput(r) \/ UndoDisplay(r) \/ UndoWakeup(r)
       \/ StopInput(r) \/ Discard(r)
       \/ FinishInput(r) \/ FinishDisplay(r) \/ FinishWakeup(r)

Next ==
  \/ QueueStep \/ InOperation
  \/ Open \/ HostPump \/ FinishStop
  \/ \E p \in {"Drain", "Cancel"} : BeginStop(p)

Spec == Init /\ [][Next]_vars

(***************************************************************************)
(* Threads keep running inside a call, and a client that has begun to stop *)
(* repeats beginStop with its policy until the stop is prepared, and then  *)
(* finishStop, as the contention test of lv_s01_contract_tests.cpp does.   *)
(***************************************************************************)
RetryBeginStop == lifecycle = "Stopping" /\ ~stopPrepared /\ BeginStop(policy)
RetryFinishStop == stopPrepared /\ FinishStop

Fairness ==
  /\ WF_vars(QueueStep) /\ WF_vars(InOperation)
  /\ \A p \in Producers : WF_vars(Q!ProducerStep(p) /\ UNCHANGED <<flags, ports, control, device>>)
  /\ SF_vars(RetryBeginStop) /\ SF_vars(RetryFinishStop)

FairSpec == Spec /\ Fairness

(***************************************************************************)
(* Properties                                                              *)
(***************************************************************************)
TypeOK ==
  /\ Q!TypeOK
  /\ lifecycle \in LifecycleStates /\ policy \in {"Drain", "Cancel"}
  /\ {displayOpen, inputOpen, inputDiscarded, stopPrepared} \subseteq BOOLEAN
  /\ stopError \in {"none", "failed", "busy"}
  /\ display \in LifecycleStates /\ input \in LifecycleStates
  /\ wakeup \in {"Running", "Closed"}
  /\ step \in Steps /\ asked \in {"Drain", "Cancel"}
  /\ pass \in 0..Capacity /\ mark \in 0..Len(ended)
  /\ deviceBusy \in 0..MaxDeviceBusy /\ deviceFail \in 0..MaxDeviceFail

Released ==
  /\ state = "Closed" /\ size = 0 /\ Len(ended) = Len(accepted)
  /\ display = "Closed" /\ input = "Closed" /\ wakeup = "Closed"

(* A stop that ended has released everything, whichever answers were busy  *)
(* or failed on the way and wherever it was resumed (finishStop 114-168,   *)
(* lv_s01 testCloseFailureStillReleasesEverything).                        *)
StopReleasesEverything ==
  /\ TypeOK
  /\ lifecycle = "Closed" /\ stopPrepared => Released

(* Tasks run only between the opening and the closing of the display and   *)
(* input they draw on: the drain ends before the first close, and nothing  *)
(* posted during the stop gets in after it.                                *)
NothingRunsOnClosedBackends ==
  [][(\E i \in 1..Len(ended') : i > Len(ended) /\ ended'[i] \notin cancelled')
       => display = "Running" /\ input # "Closed"]_vars

(* Once a stop is prepared nothing is left to run, a stop under Drain has  *)
(* cancelled nothing even when kBusy interrupted it, and the backends close*)
(* in one order: input, then display, then the wakeup port, then the queue *)
(* that reports to it (finishStop 129-164).                                *)
PreparedStopIsOrderly ==
  stopPrepared =>
    /\ size = 0 /\ (policy = "Drain" => cancelled = {})
    /\ display = "Closed" => input = "Closed"
    /\ wakeup = "Closed" => display = "Closed"
    /\ state = "Closed" => wakeup = "Closed"

(* The coordinator keeps the contract its host relies on.                  *)
Contract == INSTANCE LifecycleContract WITH prepared <- stopPrepared

ImplementsContract == Contract!Spec

(* A client that retries on kBusy gets the coordinator to Closed.          *)
StopConverges == lifecycle = "Stopping" ~> lifecycle = "Closed"

=============================================================================
