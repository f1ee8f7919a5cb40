---------------------------- MODULE RuntimeHost -----------------------------
(***************************************************************************)
(* RuntimeHost (src/runtime_host.cpp): starts an application, passes       *)
(* lifecycle controls and raw host signals to Core, and tears everything   *)
(* down in order.  It runs on the owner thread, one pumpOnce at a time;    *)
(* Core answers from any thread at any time, other threads post signals,   *)
(* and nothing blocks: whatever is kBusy is tried again by the next pump.  *)
(*                                                                         *)
(* Core, the JavaScript services and the package source are external.  The *)
(* backend lifecycle is seen through LifecycleContract, which              *)
(* BackendLifecycle implements; the task queue is its TaskLog.             *)
(* Every call carries a completion of its own, so a call names both.       *)
(***************************************************************************)
EXTENDS Integers, Sequences, FiniteSets

CONSTANTS
  Calls,             \* controls, destroys and posted signals, each used once
  StartCall,         \* the call of start
  NoCall,            \* a HostCompletion without a callback
  MaxPendingControls,\* kMaxPendingControls
  TaskCapacity,      \* owner_task_capacity of the profile
  TasksPerPump,      \* max_tasks_per_pump of the queue
  MaxBusy,           \* bound: kBusy answers that leave nothing half done
  MaxInterrupts      \* bound: kBusy answers of beginStop once it is kStopping

ASSUME HostAssumption ==
  /\ StartCall \notin Calls /\ NoCall \notin Calls \cup {StartCall}
  /\ {MaxPendingControls, TaskCapacity, TasksPerPump} \subseteq Nat \ {0}
  /\ {MaxBusy, MaxInterrupts} \subseteq Nat

VARIABLES
  hostState,        \* state_
  startOwed,        \* start_completion_ is set
  destroyCall,      \* destroy_completion_
  lastSignal,       \* last_raw_signal_
  slot,             \* pending_controls_
  teardownStarted, startPending, stopBegun,  \* teardown_started_, start_callback_pending_,
                                             \* backend_stop_begun_
  teardownResult,   \* teardown_result_
  startReady,       \* start_ready_
  startResult,      \* start_presented_ and start_result_*
  inbox,            \* the signals posted and not yet run
  package,          \* package_source_: "none" or "open"
  services,         \* liveServices() of the JavaScript factory is not 0
  lifecycle, prepared,  \* the backend lifecycle: its state, stop_prepared_
  admits,           \* the queue takes tasks: it is bound and not stopping
  at, cursor,       \* where start or pumpOnce is: the stage, the task or slot within it
  busy, interrupts, \* how many kBusy answers are left
  status,           \* what became of each call: "unused", "posted", "accepted", "refused",
                    \* or "cancelled" with its task
  answers,          \* history: the results each completion was called with
  failed            \* history: something of the teardown has failed

control == <<hostState, destroyCall, slot>>
flags   == <<teardownStarted, startPending, stopBegun>>
backend == <<lifecycle, prepared, admits>>
world   == <<package, services>>
limits  == <<busy, interrupts>>
vars    == <<hostState, startOwed, destroyCall, lastSignal, slot, teardownStarted,
             startPending, stopBegun, teardownResult, startReady, startResult, inbox,
             package, services, lifecycle, prepared, admits, at, cursor, busy, interrupts,
             status, answers, failed>>

Signals  == {"resume", "suspend", "shutdown"}
Slots    == 1..MaxPendingControls
Free     == [call |-> NoCall, action |-> "none", ready |-> FALSE, ok |-> FALSE]
Controls == [call : Calls, action : Signals, ready : BOOLEAN, ok : BOOLEAN]
Stages   == {"idle", "opening", "undo", "tasks", "startResult", "slots", "services", "package",
             "begin", "drain", "finish", "end"}

Active(i) == slot[i] # Free

Init ==
  /\ hostState = "New" /\ startOwed = FALSE /\ destroyCall = NoCall /\ lastSignal = "none"
  /\ slot = [i \in Slots |-> Free]
  /\ teardownStarted = FALSE /\ startPending = FALSE /\ stopBegun = FALSE
  /\ teardownResult = "ok" /\ startReady = FALSE /\ startResult = "failed"
  /\ inbox = <<>> /\ package = "none" /\ services = FALSE
  /\ lifecycle = "Constructed" /\ prepared = FALSE /\ admits = FALSE
  /\ at = "idle" /\ cursor = 0 /\ busy = MaxBusy /\ interrupts = MaxInterrupts
  /\ status = [c \in Calls \cup {StartCall} |-> "unused"]
  /\ answers = [c \in Calls \cup {StartCall} |-> <<>>]
  /\ failed = FALSE

Answer(calls, r) ==
  answers' = [c \in DOMAIN answers |->
                IF c \in calls THEN Append(answers[c], r) ELSE answers[c]]

Mark(c, s) == status' = [status EXCEPT ![c] = s]

Goto(stage) == at' = stage /\ cursor' = 0

AnsweredBusy == busy > 0 /\ busy' = busy - 1 /\ UNCHANGED interrupts

(* Mistake: the last answer replaces an earlier failure.                   *)
KeepLast(ok) ==
  /\ teardownResult' = IF ok THEN "ok" ELSE "failed"
  /\ failed' = (failed \/ ~ok)

(* A failure of the teardown is kept unless there is one already.          *)
Keep(ok) ==
  /\ teardownResult' = IF ok THEN teardownResult ELSE "failed"
  /\ failed' = (failed \/ ~ok)

(***************************************************************************)
(* Controls and signals                                                    *)
(***************************************************************************)
FreeSlots == {i \in Slots : ~Active(i)}

CanControl(action) ==
  /\ FreeSlots # {}
  /\ hostState = "Running" \/ (action = "shutdown" /\ hostState = "Starting")

(* control, destroy and beginControl when Core takes the message.  When it *)
(* does not, or CanControl fails, nothing stays changed: destroy puts the  *)
(* state back.                                                             *)
BeginControl(c, action) ==
  /\ CanControl(action)
  /\ LET i == CHOOSE j \in FreeSlots : \A k \in FreeSlots : j <= k
     IN  slot' = [slot EXCEPT ![i] = [call |-> c, action |-> action,
                                      ready |-> FALSE, ok |-> FALSE]]
  /\ IF action = "shutdown"
     THEN hostState' = "Destroying" /\ destroyCall' = c
     ELSE UNCHANGED <<hostState, destroyCall>>

(* A typed call of the owner between two pumps.                            *)
Control(c, action) ==
  /\ at = "idle" /\ status[c] = "unused"
  /\ \/ BeginControl(c, action) /\ Mark(c, "accepted")
     \/ UNCHANGED control /\ Mark(c, "refused")
  /\ UNCHANGED <<startOwed, lastSignal, flags, teardownResult, startReady, startResult,
                 inbox, world, backend, at, cursor, limits, answers, failed>>

(* Any thread posts a signal, also while start opens the backends.         *)
Post(c, signal) ==
  /\ status[c] = "unused" /\ admits /\ Len(inbox) < TaskCapacity
  /\ inbox' = Append(inbox, [call |-> c, signal |-> signal])
  /\ Mark(c, "posted")
  /\ UNCHANGED <<control, startOwed, lastSignal, flags, teardownResult, startReady,
                 startResult, world, backend, at, cursor, limits, answers, failed>>

(* Mistakes: an accepted signal is answered at once; a refused one never.  *)
HandleRawSignalAtOnce(signal, c) ==
  /\ Answer({c}, "ok")
  /\ \/ UNCHANGED <<control, lastSignal>>
     \/ BeginControl(c, signal) /\ lastSignal' = signal

HandleRawSignalSilently(signal, c) ==
  /\ UNCHANGED answers
  /\ \/ UNCHANGED <<control, lastSignal>>
     \/ BeginControl(c, signal) /\ lastSignal' = signal

(* handleRawSignal: a repeated signal is answered at once, a refused one   *)
(* with its error, an accepted one when Core has answered.                 *)
HandleRawSignal(signal, c) ==
  \/ /\ lastSignal = signal
     /\ Answer({c}, "ok")
     /\ UNCHANGED <<control, lastSignal>>
  \/ /\ lastSignal # signal
     /\ BeginControl(c, signal)
     /\ lastSignal' = signal
     /\ UNCHANGED answers
  \/ /\ lastSignal # signal
     /\ Answer({c}, "failed")
     /\ UNCHANGED <<control, lastSignal>>

(* The queue runs its oldest task: in pumpOnce, or in the drain of         *)
(* BackendLifecycleCoordinator::beginStop.                                 *)
RunTask ==
  /\ inbox # <<>>
  /\ \/ at = "tasks" /\ cursor < TasksPerPump /\ cursor' = cursor + 1
     \/ at = "drain" /\ UNCHANGED cursor
  /\ HandleRawSignal(Head(inbox).signal, Head(inbox).call)
  /\ inbox' = Tail(inbox)
  /\ Mark(Head(inbox).call, "accepted")
  /\ UNCHANGED <<startOwed, flags, teardownResult, startReady, startResult, world, backend,
                 at, limits, failed>>

(***************************************************************************)
(* start                                                                   *)
(***************************************************************************)
(* open binds the queue, which takes tasks from then on, before it opens   *)
(* the display and the input; a contended queue is not bound.              *)
StartOpens ==
  /\ at = "idle" /\ hostState = "New"
  /\ admits' = TRUE /\ Goto("opening")
  /\ UNCHANGED <<control, startOwed, lastSignal, flags, teardownResult, startReady, startResult,
                 inbox, world, lifecycle, prepared, limits, status, answers, failed>>

CloseUnopened ==
  /\ hostState' = "Destroyed" /\ lifecycle' = "Closed"
  /\ Mark(StartCall, "refused")
  /\ Goto("idle")
  /\ UNCHANGED <<startOwed, destroyCall, slot, lastSignal, flags, teardownResult, startReady,
                 startResult, inbox, world, prepared, admits, limits, answers, failed>>

BindFails == at = "idle" /\ hostState = "New" /\ CloseUnopened

(* The display or the input fails to open: closeAfterOpenFailure stops the *)
(* queue under kCancel, unless its lock is held just then.                 *)
StartOpenFails ==
  /\ at = "opening"
  /\ admits' \in BOOLEAN /\ Goto("undo")
  /\ UNCHANGED <<control, startOwed, lastSignal, flags, teardownResult, startReady, startResult,
                 inbox, world, lifecycle, prepared, limits, status, answers, failed>>

(* cancelPending destroys a signal unrun: its completion is never called.  *)
CancelTask ==
  /\ at = "undo" /\ ~admits /\ inbox # <<>>
  /\ inbox' = Tail(inbox)
  /\ Mark(Head(inbox).call, "cancelled")
  /\ UNCHANGED <<control, startOwed, lastSignal, flags, teardownResult, startReady, startResult,
                 world, backend, at, cursor, limits, answers, failed>>

(* kBusy of the queue is ignored, so some signals may stay in it, and one  *)
(* that could not be stopped takes more; nothing pumps it any longer.      *)
OpenUndone == at = "undo" /\ CloseUnopened

(* No package source, or Core refuses: the teardown begins within start.   *)
StartFails(source) ==
  /\ at = "opening"
  /\ hostState' = "Failed" /\ lifecycle' = "Running"
  /\ package' = source
  /\ services' \in (IF source = "open" THEN BOOLEAN ELSE {FALSE})
  /\ teardownStarted' = TRUE /\ teardownResult' = "failed"
  /\ Mark(StartCall, "refused")
  /\ Goto("services")
  /\ failed' = TRUE
  /\ UNCHANGED <<startOwed, destroyCall, slot, lastSignal, startPending, stopBegun,
                 startReady, startResult, inbox, prepared, admits, limits, answers>>

Start ==
  /\ at = "opening"
  /\ hostState' = "Starting" /\ lifecycle' = "Running"
  /\ package' = "open" /\ services' = TRUE
  /\ startOwed' = TRUE /\ startPending' = TRUE
  /\ Mark(StartCall, "accepted")
  /\ Goto("idle")
  /\ UNCHANGED <<destroyCall, slot, lastSignal, teardownStarted, stopBegun, teardownResult,
                 startReady, startResult, inbox, prepared, admits, limits, answers, failed>>

(***************************************************************************)
(* Core (external) answers each accepted request once, from any thread.    *)
(***************************************************************************)
OnCoreStart(r) ==
  /\ startPending /\ ~startReady
  /\ startResult' = r /\ startReady' = TRUE
  /\ UNCHANGED <<control, startOwed, lastSignal, flags, teardownResult, inbox, world,
                 backend, at, cursor, limits, status, answers, failed>>

OnCoreLifecycle(i, ok) ==
  /\ Active(i) /\ ~slot[i].ready
  /\ slot' = [slot EXCEPT ![i].ready = TRUE, ![i].ok = ok]
  /\ UNCHANGED <<hostState, destroyCall, startOwed, lastSignal, flags, teardownResult,
                 startReady, startResult, inbox, world, backend, at, cursor, limits, status,
                 answers, failed>>

(***************************************************************************)
(* pumpOnce                                                                *)
(***************************************************************************)
PumpOnce ==
  /\ at = "idle" /\ hostState \notin {"New", "Destroyed"}
  /\ Goto("tasks")
  /\ UNCHANGED <<control, startOwed, lastSignal, flags, teardownResult, startReady,
                 startResult, inbox, world, backend, limits, status, answers, failed>>

(* A contended queue ends this pumpOnce; the loop turn changes nothing.    *)
TasksEnd ==
  /\ at = "tasks"
  /\ \/ (inbox = <<>> \/ cursor = TasksPerPump) /\ Goto("startResult") /\ UNCHANGED limits
     \/ AnsweredBusy /\ Goto("idle")
  /\ UNCHANGED <<control, startOwed, lastSignal, flags, teardownResult, startReady,
                 startResult, inbox, world, backend, status, answers, failed>>

Presented == startResult = "presented" /\ hostState = "Starting"

StartCompletes ==
  /\ at = "startResult"
  /\ IF startReady
     THEN /\ startReady' = FALSE /\ startPending' = FALSE
          /\ hostState' = IF Presented THEN "Running"
                          ELSE IF hostState = "Destroying" THEN hostState ELSE "Failed"
          /\ IF Presented
             THEN Answer({StartCall}, "ok") /\ startOwed' = FALSE
             ELSE UNCHANGED <<answers, startOwed>>
          /\ IF ~Presented /\ hostState # "Destroying"
             THEN teardownStarted' = TRUE /\ teardownResult' = "failed" /\ failed' = TRUE
             ELSE UNCHANGED <<teardownStarted, teardownResult, failed>>
     ELSE UNCHANGED <<startReady, startPending, hostState, answers, startOwed,
                      teardownStarted, teardownResult, failed>>
  /\ at' = "slots" /\ cursor' = 1
  /\ UNCHANGED <<destroyCall, slot, lastSignal, stopBegun, startResult, inbox, world,
                 backend, limits, status>>

(* One slot of the loop over pending_controls_.                            *)
SlotCompletes ==
  /\ at = "slots" /\ cursor \in Slots
  /\ LET done == slot[cursor]
     IN  IF ~done.ready
         THEN UNCHANGED <<slot, answers, destroyCall, teardownStarted, teardownResult, failed>>
         ELSE /\ slot' = [slot EXCEPT ![cursor] = Free]
              /\ IF done.action = "shutdown"
                 THEN /\ destroyCall' = done.call
                      /\ teardownResult' = IF done.ok THEN "ok" ELSE "failed"
                      /\ failed' = (failed \/ ~done.ok)
                      /\ teardownStarted' = TRUE
                      /\ UNCHANGED answers
                 ELSE /\ Answer({done.call}, IF done.ok THEN "ok" ELSE "failed")
                      /\ UNCHANGED <<destroyCall, teardownStarted, teardownResult, failed>>
  /\ cursor' = cursor + 1
  /\ UNCHANGED <<hostState, startOwed, lastSignal, startPending, stopBegun, startReady,
                 startResult, inbox, world, backend, at, limits, status>>

SlotsEnd ==
  /\ at = "slots" /\ cursor > MaxPendingControls
  /\ Goto("services")
  /\ UNCHANGED <<control, startOwed, lastSignal, flags, teardownResult, startReady,
                 startResult, inbox, world, backend, limits, status, answers, failed>>

(***************************************************************************)
(* progressTeardown: nothing is torn down while Core still holds the       *)
(* context of a callback.                                                  *)
(***************************************************************************)
(* Mistake: only the slots are looked at.                                  *)
SlotsPending == \E i \in Slots : Active(i)

CallbacksPending == startPending \/ \E i \in Slots : Active(i)

MayTearDown == teardownStarted /\ hostState # "Destroyed" /\ ~CallbacksPending

NoTeardown ==
  /\ at = "services" /\ ~MayTearDown
  /\ Goto("idle")
  /\ UNCHANGED <<control, startOwed, lastSignal, flags, teardownResult, startReady,
                 startResult, inbox, world, backend, limits, status, answers, failed>>

StopServices(ok) ==
  /\ at = "services" /\ MayTearDown
  /\ IF services THEN Keep(ok) ELSE ok /\ UNCHANGED <<teardownResult, failed>>
  /\ \/ services' = FALSE /\ Goto("package") /\ UNCHANGED limits
     \/ services /\ UNCHANGED services /\ AnsweredBusy /\ Goto("idle")
  /\ UNCHANGED <<control, startOwed, lastSignal, flags, startReady, startResult, inbox,
                 package, backend, status, answers>>

ClosePackage(ok) ==
  /\ at = "package"
  /\ \/ /\ IF package = "open" THEN Keep(ok) ELSE ok /\ UNCHANGED <<teardownResult, failed>>
        /\ package' = "none" /\ Goto("begin") /\ UNCHANGED limits
     \/ /\ package = "open" /\ ok /\ AnsweredBusy /\ Goto("idle")
        /\ UNCHANGED <<package, teardownResult, failed>>
  /\ UNCHANGED <<control, startOwed, lastSignal, flags, startReady, startResult, inbox,
                 services, backend, status, answers>>

(* Mistake: the flag is not negated.                                       *)
MustBeginStopAgain == lifecycle = "Running" /\ stopBegun

MustBeginStop == lifecycle = "Running" /\ ~stopBegun

BeginStop ==
  /\ at = "begin"
  /\ \/ ~MustBeginStop /\ Goto("finish") /\ UNCHANGED <<lifecycle, admits, limits>>
     \/ /\ MustBeginStop /\ lifecycle' = "Stopping" /\ admits' = FALSE
        /\ Goto("drain") /\ UNCHANGED limits
     \/ MustBeginStop /\ AnsweredBusy /\ Goto("idle") /\ UNCHANGED <<lifecycle, admits>>
  /\ UNCHANGED <<control, startOwed, lastSignal, flags, teardownResult, startReady,
                 startResult, inbox, world, prepared, status, answers, failed>>

(* The coordinator's beginStop returns: kBusy at 69, 83 or 99, when it is  *)
(* kStopping already, or with the stop prepared.                           *)
StopInterrupted ==
  /\ at = "drain"
  /\ interrupts > 0 /\ interrupts' = interrupts - 1
  /\ Goto("idle")
  /\ UNCHANGED <<control, startOwed, lastSignal, flags, teardownResult, startReady,
                 startResult, inbox, world, backend, busy, status, answers, failed>>

StopPrepared(ok) ==
  /\ at = "drain" /\ inbox = <<>>
  /\ prepared' = TRUE /\ stopBegun' = TRUE
  /\ Keep(ok)
  /\ Goto("finish")
  /\ UNCHANGED <<control, startOwed, lastSignal, teardownStarted, startPending, startReady,
                 startResult, inbox, world, lifecycle, admits, limits, status, answers>>

(* Mistake: an unprepared stop is finished.                                *)
FinishStopUnprepared(ok) ==
  /\ at = "finish" /\ lifecycle = "Stopping"
  /\ Keep(ok) /\ lifecycle' = "Closed" /\ Goto("end")
  /\ UNCHANGED <<control, startOwed, lastSignal, flags, startReady, startResult, inbox,
                 world, prepared, admits, limits, status, answers>>

(* finishStop refuses a stop that is not prepared.                         *)
FinishStop(ok) ==
  /\ at = "finish"
  /\ \/ /\ lifecycle = "Stopping" /\ ~prepared /\ ~ok
        /\ Keep(ok) /\ Goto("idle") /\ UNCHANGED <<lifecycle, limits>>
     \/ /\ lifecycle = "Stopping" /\ prepared
        /\ Keep(ok) /\ lifecycle' = "Closed" /\ Goto("end") /\ UNCHANGED limits
     \/ /\ lifecycle = "Stopping" /\ prepared /\ ok
        /\ AnsweredBusy /\ Goto("idle") /\ UNCHANGED <<lifecycle, teardownResult, failed>>
  /\ UNCHANGED <<control, startOwed, lastSignal, flags, startReady, startResult, inbox,
                 world, prepared, admits, status, answers>>

Destroyed ==
  /\ at = "end"
  /\ hostState' = "Destroyed" /\ teardownStarted' = FALSE
  /\ Answer((IF startOwed THEN {StartCall} ELSE {}) \cup ({destroyCall} \ {NoCall}),
            teardownResult)
  /\ startOwed' = FALSE /\ destroyCall' = NoCall
  /\ Goto("idle")
  /\ UNCHANGED <<slot, lastSignal, startPending, stopBegun, teardownResult, startReady,
                 startResult, inbox, world, backend, limits, status, failed>>

PumpStep ==
  \/ RunTask \/ TasksEnd \/ StartCompletes \/ SlotCompletes \/ SlotsEnd \/ NoTeardown
  \/ BeginStop \/ StopInterrupted \/ Destroyed
  \/ \E ok \in BOOLEAN :
       StopServices(ok) \/ ClosePackage(ok) \/ StopPrepared(ok) \/ FinishStop(ok)

CoreStep ==
  \/ \E r \in {"presented", "unpresented", "failed"} : OnCoreStart(r)
  \/ \E i \in Slots, ok \in BOOLEAN : OnCoreLifecycle(i, ok)

StartStep ==
  \/ Start \/ StartOpenFails \/ CancelTask \/ OpenUndone
  \/ \E source \in {"none", "open"} : StartFails(source)

Next ==
  \/ StartOpens \/ BindFails \/ StartStep
  \/ \E c \in Calls, s \in Signals : Control(c, s) \/ Post(c, s)
  \/ PumpOnce \/ PumpStep \/ CoreStep

Spec == Init /\ [][Next]_vars

(***************************************************************************)
(* The embedder pumps for ever, a start or a pump that has begun ends, and *)
(* Core answers what it accepted.                                          *)
(***************************************************************************)
Fairness ==
  WF_vars(StartStep) /\ WF_vars(PumpOnce) /\ WF_vars(PumpStep) /\ WF_vars(CoreStep)

FairSpec == Spec /\ Fairness

(***************************************************************************)
(* Properties                                                              *)
(***************************************************************************)
TypeOK ==
  /\ hostState \in {"New", "Starting", "Running", "Destroying", "Failed", "Destroyed"}
  /\ {startOwed, teardownStarted, startPending, stopBegun, startReady, services, prepared,
      admits, failed} \subseteq BOOLEAN
  /\ destroyCall \in Calls \cup {NoCall}
  /\ lastSignal \in Signals \cup {"none"}
  /\ slot \in [Slots -> Controls \cup {Free}]
  /\ teardownResult \in {"ok", "failed"}
  /\ startResult \in {"presented", "unpresented", "failed"}
  /\ inbox \in Seq([call : Calls, signal : Signals]) /\ Len(inbox) <= TaskCapacity
  /\ package \in {"none", "open"}
  /\ lifecycle \in {"Constructed", "Running", "Stopping", "Closed"}
  /\ at \in Stages /\ cursor \in 0..(MaxPendingControls + TasksPerPump + 1)
  /\ busy \in 0..MaxBusy /\ interrupts \in 0..MaxInterrupts
  /\ status \in [Calls \cup {StartCall} -> {"unused", "posted", "accepted", "refused", "cancelled"}]
  /\ answers \in [Calls \cup {StartCall} -> Seq({"ok", "failed"})]

(* lv_s02 N12: Core's callbacks write into the host's slots, so the host   *)
(* is not destroyed while Core may still call back, nor is anything torn   *)
(* down under it; no signal drained by the stop may reopen a slot.         *)
NoCallbackIntoDestroyedHost ==
  (hostState = "Destroyed" \/ stopBegun \/ lifecycle = "Stopping")
    => ~startPending /\ \A i \in Slots : ~Active(i)

(* start could not open the backends: what it closed was never stopped.    *)
NeverOpened == lifecycle = "Closed" /\ ~prepared

(* No completion is called twice, and none of a call that was refused.  A  *)
(* host that was open and is destroyed owes nobody an answer: the start,   *)
(* every control and every signal the queue took, one posted while start   *)
(* was still opening among them, has been answered, and its stop cancelled *)
(* none.  A host whose open failed has run nothing: whatever the queue had *)
(* taken is left without an answer (closeAfterOpenFailure 188-192).        *)
AnsweredExactlyOnce ==
  /\ TypeOK
  /\ \A c \in DOMAIN answers :
       /\ Len(answers[c]) <= 1
       /\ status[c] # "accepted" => answers[c] = <<>>
  /\ hostState = "Destroyed" =>
       /\ package = "none" /\ ~services /\ lifecycle = "Closed"
       /\ IF NeverOpened
          THEN \A c \in DOMAIN answers : status[c] # "accepted"
          ELSE /\ inbox = <<>>
               /\ \A c \in DOMAIN answers :
                    /\ status[c] \notin {"posted", "cancelled"}
                    /\ status[c] = "accepted" => Len(answers[c]) = 1

(* lv_s02 N11: a failure met while tearing down is what the destroy call   *)
(* (and a start still owed) is answered with, whatever succeeded later,    *)
(* and without one it is answered ok.                                      *)
TeardownFailureIsReported ==
  [][at = "end" =>
       \A c \in DOMAIN answers :
         answers'[c] # answers[c] => answers'[c] = <<IF failed THEN "failed" ELSE "ok">>]_vars

(* The host drives the backend lifecycle as its contract allows.           *)
Contract == INSTANCE LifecycleContract

FollowsContract == Contract!Spec

(* A teardown that has begun ends, whatever is busy on the way.            *)
TeardownConverges == teardownStarted ~> hostState = "Destroyed"

(* It does unless beginStop is interrupted once the backends are stopping; *)
(* and every call Core or the queue has accepted is answered, unless the   *)
(* queue took it for a start that then failed to open.                     *)
Interrupted == interrupts < MaxInterrupts

UninterruptedTeardownConverges ==
  teardownStarted ~> (hostState = "Destroyed" \/ Interrupted)

EveryCallIsAnswered ==
  \A c \in Calls \cup {StartCall} :
    status[c] \in {"posted", "accepted"} ~> (answers[c] # <<>> \/ Interrupted \/ NeverOpened)

=============================================================================
