-------------------------- MODULE OwnerTaskQueue ---------------------------
(***************************************************************************)
(* The bounded multi-producer queue of tasks for the owner thread          *)
(* (src/owner_task_queue.cpp).  Any thread may post; only the owner pumps  *)
(* and stops.  Nothing blocks: every operation makes ONE attempt on the    *)
(* try-lock of try_critical_section.h and returns kBusy when it is held.   *)
(*                                                                         *)
(* A critical section is entered in one step and left in a later one, so   *)
(* other threads meet a held lock.  The fields it protects are read only   *)
(* under it; depth_snapshot_ and state_ are atomics written inside it and  *)
(* read outside.  depth_snapshot_ always stores the size_ just written, so *)
(* both are the variable size, whose value changes when it is published.   *)
(*                                                                         *)
(* accepted, ended and cancelled are history: nothing in the code reads    *)
(* them.  attempts bounds the retries of a caller.                         *)
(***************************************************************************)
EXTENDS Integers, Sequences, FiniteSets

CONSTANTS
  Producers,          \* the threads that post
  Owner,              \* the thread the queue is bound to
  Tasks,              \* the callables; each is moved into the queue at most once
  Capacity,           \* capacity_
  MaxTasksPerPump,    \* max_tasks_per_pump_
  MaxAttempts,        \* bound: how often a caller retries the post of one task
  NoTask,             \* a moved-from OwnerTask
  NoThread            \* the try-lock is free

ASSUME CapacityAssumption == Capacity \in Nat \ {0}
ASSUME BudgetAssumption == MaxTasksPerPump \in Nat \ {0}
ASSUME ThreadAssumption == Owner \notin Producers /\ NoThread \notin Producers \cup {Owner}
ASSUME TaskAssumption == NoTask \notin Tasks
ASSUME AttemptsAssumption == MaxAttempts \in Nat

VARIABLES
  lock,        \* critical_section_: the thread inside, or NoThread
  state,       \* state_
  stopPolicy,  \* stop_policy_
  head,        \* head_
  size,        \* size_ and depth_snapshot_
  peak,        \* peak_depth_ and peak_depth_snapshot_
  storage,     \* storage_
  signal,      \* the wakeup port holds a notification the owner has not consumed
  pc,          \* where each thread is
  hand,        \* the task a thread is posting, or the owner is about to end
  result,      \* what the thread's last call returned
  call,        \* the owner's call in progress: its name, policy and remaining budget
  attempts,    \* how often the post of each task has been tried
  accepted,    \* history: the tasks accepted, in order
  ended,       \* history: the tasks run or destroyed by the owner, in order
  cancelled    \* history: those of ended that were destroyed without running

ring    == <<head, size, peak, storage>>
history == <<accepted, ended, cancelled>>
vars    == <<lock, state, stopPolicy, head, size, peak, storage, signal, pc, hand,
             result, call, attempts, accepted, ended, cancelled>>

Threads  == Producers \cup {Owner}
Slots    == 0..(Capacity - 1)
States   == {"Constructed", "Running", "Stopping", "Closed"}
Policies == {"Drain", "Cancel"}
Results  == {"none", "ok", "more", "busy", "invalidState", "accepted", "full", "stopping",
             "invalid"}
ProducerPlaces == {"idle", "critical", "leave", "leaveAndWake", "notify"}
OwnerPlaces    == {"idle", "bind", "tryPop", "pop", "run", "stop", "requestStop", "finish",
                   "asleep"}
Calls == [op : {"none", "pump", "beginStop"}, policy : Policies, left : Nat]

NoCall == [op |-> "none", policy |-> "Cancel", left |-> 0]

Init ==
  /\ lock = NoThread
  /\ state = "Constructed" /\ stopPolicy = "Cancel"
  /\ head = 0 /\ size = 0 /\ peak = 0
  /\ storage = [s \in Slots |-> NoTask]
  /\ signal = FALSE
  /\ pc = [t \in Threads |-> "idle"]
  /\ hand = [t \in Threads |-> NoTask]
  /\ result = [t \in Threads |-> "none"]
  /\ call = NoCall
  /\ attempts = [t \in Tasks |-> 0]
  /\ accepted = <<>> /\ ended = <<>> /\ cancelled = {}

(* Mistake: acquired() is not looked at.                                   *)
EnterUnguarded(t, place) ==
  /\ lock' = t
  /\ pc' = [pc EXCEPT ![t] = place]

(* TryCriticalSectionGuard: one attempt, never a wait.                     *)
Enter(t, place) ==
  /\ lock = NoThread
  /\ lock' = t
  /\ pc' = [pc EXCEPT ![t] = place]

Leave(t, place) ==
  /\ lock' = NoThread
  /\ pc' = [pc EXCEPT ![t] = place]

Return(t, r) == result' = [result EXCEPT ![t] = r]

(* The owner returns to its caller from outside the critical section.      *)
OwnerReturns(r) ==
  /\ pc' = [pc EXCEPT ![Owner] = "idle"]
  /\ Return(Owner, r)
  /\ call' = NoCall

(***************************************************************************)
(* post                                                                    *)
(***************************************************************************)

(* A task still owned by a caller that no thread is posting right now.     *)
Postable(t) ==
  /\ attempts[t] < MaxAttempts
  /\ \A i \in 1..Len(accepted) : accepted[i] # t
  /\ \A p \in Producers : hand[p] # t

PostEnter(p, t) ==
  /\ pc[p] = "idle" /\ Postable(t)
  /\ Enter(p, "critical")
  /\ hand' = [hand EXCEPT ![p] = t]
  /\ attempts' = [attempts EXCEPT ![t] = @ + 1]
  /\ UNCHANGED <<state, stopPolicy, signal, result, call>>
  /\ UNCHANGED ring /\ UNCHANGED history

PostBusy(p, t) ==
  /\ pc[p] = "idle" /\ Postable(t)
  /\ lock # NoThread
  /\ Return(p, "busy")
  /\ attempts' = [attempts EXCEPT ![t] = @ + 1]
  /\ UNCHANGED <<lock, state, stopPolicy, signal, pc, hand, call>>
  /\ UNCHANGED ring /\ UNCHANGED history

(* The checks post makes under the lock, in the order of the code.         *)
Verdict ==
  CASE state \in {"Stopping", "Closed"} -> "stopping"
    [] state = "Constructed"            -> "invalid"
    [] size = Capacity                  -> "full"
    [] OTHER                            -> "accepted"

PostReject(p) ==
  /\ pc[p] = "critical" /\ Verdict # "accepted"
  /\ pc' = [pc EXCEPT ![p] = "leave"]
  /\ hand' = [hand EXCEPT ![p] = NoTask]
  /\ Return(p, Verdict)
  /\ UNCHANGED <<lock, state, stopPolicy, signal, call, attempts>>
  /\ UNCHANGED ring /\ UNCHANGED history

(* Mistakes: the test is inverted; the tail is counted from slot 0.        *)
WakesWhenNotEmpty == size # 0

TailFromZero == size % Capacity

(* should_wake is decided before the task is stored.                       *)
ShouldWake == size = 0

TailSlot == (head + size) % Capacity

PostAccept(p) ==
  /\ pc[p] = "critical" /\ Verdict = "accepted"
  /\ storage' = [storage EXCEPT ![TailSlot] = hand[p]]
  /\ size' = size + 1
  /\ peak' = IF peak < size + 1 THEN size + 1 ELSE peak
  /\ hand' = [hand EXCEPT ![p] = NoTask]
  /\ pc' = [pc EXCEPT ![p] = IF ShouldWake THEN "leaveAndWake" ELSE "leave"]
  /\ Return(p, "accepted")
  /\ accepted' = Append(accepted, hand[p])
  /\ UNCHANGED <<lock, state, stopPolicy, head, signal, call, attempts, ended, cancelled>>

PostLeave(p) ==
  /\ pc[p] \in {"leave", "leaveAndWake"}
  /\ Leave(p, IF pc[p] = "leave" THEN "idle" ELSE "notify")
  /\ UNCHANGED <<state, stopPolicy, signal, hand, result, call, attempts>>
  /\ UNCHANGED ring /\ UNCHANGED history

(* wakeup_->notify() is called after the lock is released.                 *)
PostNotify(p) ==
  /\ pc[p] = "notify"
  /\ signal' = TRUE
  /\ pc' = [pc EXCEPT ![p] = "idle"]
  /\ UNCHANGED <<lock, state, stopPolicy, hand, result, call, attempts>>
  /\ UNCHANGED ring /\ UNCHANGED history

(***************************************************************************)
(* bindOwner.  owner_ is valid exactly when state is not Constructed, so   *)
(* isOwner fails the other calls before this one.                          *)
(***************************************************************************)
BindEnter ==
  /\ pc[Owner] = "idle" /\ state = "Constructed"
  /\ Enter(Owner, "bind")
  /\ UNCHANGED <<state, stopPolicy, signal, hand, result, call, attempts>>
  /\ UNCHANGED ring /\ UNCHANGED history

Bind ==
  /\ pc[Owner] = "bind"
  /\ Leave(Owner, "idle")
  /\ state' = "Running"
  /\ Return(Owner, "none")
  /\ UNCHANGED <<stopPolicy, signal, hand, call, attempts>>
  /\ UNCHANGED ring /\ UNCHANGED history

(***************************************************************************)
(* pump and tryPop                                                         *)
(***************************************************************************)

(* Mistake: a draining queue is not pumped.                                *)
PumpsOnlyRunning == state = "Running"

(* The state is read once, outside the lock.                               *)
PumpAllowed == state = "Running" \/ (state = "Stopping" /\ stopPolicy = "Drain")

PumpBegin(requested) ==
  /\ pc[Owner] = "idle" /\ state # "Constructed"
  /\ PumpAllowed
  /\ call' = [op |-> "pump", policy |-> stopPolicy,
              left |-> IF requested = 0 \/ requested > MaxTasksPerPump
                       THEN MaxTasksPerPump ELSE requested]
  /\ pc' = [pc EXCEPT ![Owner] = "tryPop"]
  /\ UNCHANGED <<lock, state, stopPolicy, signal, hand, result, attempts>>
  /\ UNCHANGED ring /\ UNCHANGED history

PumpRefused ==
  /\ pc[Owner] = "idle" /\ state # "Constructed"
  /\ ~PumpAllowed
  /\ Return(Owner, "invalidState")
  /\ UNCHANGED <<lock, state, stopPolicy, signal, pc, hand, call, attempts>>
  /\ UNCHANGED ring /\ UNCHANGED history

PopEnter ==
  /\ pc[Owner] = "tryPop" /\ call.left > 0
  /\ Enter(Owner, "pop")
  /\ UNCHANGED <<state, stopPolicy, signal, hand, result, call, attempts>>
  /\ UNCHANGED ring /\ UNCHANGED history

(* A pump or a cancel returns kBusy with what it has done so far done.     *)
PopBusy ==
  /\ pc[Owner] = "tryPop" /\ call.left > 0
  /\ lock # NoThread
  /\ OwnerReturns("busy")
  /\ UNCHANGED <<lock, state, stopPolicy, signal, hand, attempts>>
  /\ UNCHANGED ring /\ UNCHANGED history

(* The lock is released with the effect: no thread reads the ring outside. *)
PopTake ==
  /\ pc[Owner] = "pop" /\ size # 0
  /\ Leave(Owner, "run")
  /\ hand' = [hand EXCEPT ![Owner] = storage[head]]
  /\ storage' = [storage EXCEPT ![head] = NoTask]
  /\ head' = (head + 1) % Capacity
  /\ size' = size - 1
  /\ UNCHANGED <<state, stopPolicy, peak, signal, result, call, attempts>>
  /\ UNCHANGED history

PopEmpty ==
  /\ pc[Owner] = "pop" /\ size = 0
  /\ lock' = NoThread
  /\ OwnerReturns("ok")
  /\ UNCHANGED <<state, stopPolicy, signal, hand, attempts>>
  /\ UNCHANGED ring /\ UNCHANGED history

(* task.run() in pump, task.reset() in cancelPending, outside the lock.    *)
EndTask ==
  /\ pc[Owner] = "run"
  /\ ended' = Append(ended, hand[Owner])
  /\ cancelled' = IF call.op = "pump" THEN cancelled ELSE cancelled \cup {hand[Owner]}
  /\ hand' = [hand EXCEPT ![Owner] = NoTask]
  /\ call' = [call EXCEPT !.left = @ - 1]
  /\ pc' = [pc EXCEPT ![Owner] = "tryPop"]
  /\ UNCHANGED <<lock, state, stopPolicy, signal, result, attempts, accepted>>
  /\ UNCHANGED ring

(* The budget is spent; pump reports depth(), cancelPending tests it.      *)
BudgetSpent ==
  /\ pc[Owner] = "tryPop" /\ call.left = 0
  /\ OwnerReturns(IF size = 0 THEN "ok" ELSE IF call.op = "pump" THEN "more" ELSE "busy")
  /\ UNCHANGED <<lock, state, stopPolicy, signal, hand, attempts>>
  /\ UNCHANGED ring /\ UNCHANGED history

(***************************************************************************)
(* beginStop, with cancelPending for Cancel, and finishStop                *)
(***************************************************************************)
BeginStopEnter(policy) ==
  /\ pc[Owner] = "idle" /\ state # "Constructed"
  /\ Enter(Owner, "stop")
  /\ call' = [op |-> "beginStop", policy |-> policy, left |-> Capacity]
  /\ UNCHANGED <<state, stopPolicy, signal, hand, result, attempts>>
  /\ UNCHANGED ring /\ UNCHANGED history

(* Already Closed is a success, another policy while Stopping is refused.  *)
BeginStopReturns ==
  /\ pc[Owner] = "stop"
  /\ \/ state = "Closed" /\ OwnerReturns("ok")
     \/ /\ state = "Stopping" /\ stopPolicy # call.policy
        /\ OwnerReturns("invalidState")
  /\ lock' = NoThread
  /\ UNCHANGED <<state, stopPolicy, signal, hand, attempts>>
  /\ UNCHANGED ring /\ UNCHANGED history

(* Mistake: another policy is not refused while Stopping.                  *)
BeginStopAnyPolicy ==
  /\ pc[Owner] = "stop" /\ state \in {"Running", "Stopping"}
  /\ Leave(Owner, "requestStop")
  /\ state' = "Stopping"
  /\ stopPolicy' = IF state = "Running" THEN call.policy ELSE stopPolicy
  /\ UNCHANGED <<signal, hand, result, call, attempts>>
  /\ UNCHANGED ring /\ UNCHANGED history

BeginStop ==
  /\ pc[Owner] = "stop"
  /\ state = "Running" \/ (state = "Stopping" /\ stopPolicy = call.policy)
  /\ Leave(Owner, "requestStop")
  /\ state' = "Stopping"
  /\ stopPolicy' = call.policy
  /\ UNCHANGED <<signal, hand, result, call, attempts>>
  /\ UNCHANGED ring /\ UNCHANGED history

(* wakeup_->requestStop() wakes a sleeping owner; Drain ends here, Cancel  *)
(* goes on to pop and destroy at most capacity_ tasks.                     *)
RequestStop ==
  /\ pc[Owner] = "requestStop"
  /\ signal' = TRUE
  /\ IF call.policy = "Cancel"
     THEN pc' = [pc EXCEPT ![Owner] = "tryPop"] /\ UNCHANGED <<result, call>>
     ELSE OwnerReturns("ok")
  /\ UNCHANGED <<lock, state, stopPolicy, hand, attempts>>
  /\ UNCHANGED ring /\ UNCHANGED history

FinishStopEnter ==
  /\ pc[Owner] = "idle" /\ state # "Constructed"
  /\ Enter(Owner, "finish")
  /\ UNCHANGED <<state, stopPolicy, signal, hand, result, call, attempts>>
  /\ UNCHANGED ring /\ UNCHANGED history

(* Mistake: the depth is not looked at.                                    *)
FinishableWithWork == state = "Stopping"

Finishable == state = "Stopping" /\ size = 0

FinishStop ==
  /\ pc[Owner] = "finish"
  /\ Leave(Owner, "idle")
  /\ state' = IF Finishable THEN "Closed" ELSE state
  /\ Return(Owner, IF Finishable \/ state = "Closed" THEN "ok" ELSE "invalidState")
  /\ UNCHANGED <<stopPolicy, signal, hand, call, attempts>>
  /\ UNCHANGED ring /\ UNCHANGED history

(* bindOwner, beginStop and finishStop find the lock held: nothing moves.  *)
OwnerBusy ==
  /\ pc[Owner] = "idle" /\ lock # NoThread
  /\ Return(Owner, "busy")
  /\ UNCHANGED <<lock, state, stopPolicy, signal, pc, hand, call, attempts>>
  /\ UNCHANGED ring /\ UNCHANGED history

(***************************************************************************)
(* The embedder's wait (external): WakeupPort::waitUntil, called when a    *)
(* pump reported no error and nothing remaining.                           *)
(***************************************************************************)
Sleep ==
  /\ pc[Owner] = "idle" /\ state = "Running" /\ result[Owner] = "ok"
  /\ pc' = [pc EXCEPT ![Owner] = "asleep"]
  /\ UNCHANGED <<lock, state, stopPolicy, signal, hand, result, call, attempts>>
  /\ UNCHANGED ring /\ UNCHANGED history

Wake ==
  /\ pc[Owner] = "asleep" /\ signal
  /\ signal' = FALSE
  /\ pc' = [pc EXCEPT ![Owner] = "idle"]
  /\ Return(Owner, "none")
  /\ UNCHANGED <<lock, state, stopPolicy, hand, call, attempts>>
  /\ UNCHANGED ring /\ UNCHANGED history

ProducerStep(p) ==
  PostReject(p) \/ PostAccept(p) \/ PostLeave(p) \/ PostNotify(p)

OwnerInCall ==
  \/ Bind \/ PopEnter \/ PopBusy \/ PopTake \/ PopEmpty \/ EndTask \/ BudgetSpent
  \/ BeginStopReturns \/ BeginStop \/ RequestStop \/ FinishStop

OwnerCalls ==
  \/ BindEnter \/ PumpRefused \/ FinishStopEnter \/ OwnerBusy \/ Sleep \/ Wake
  \/ \E n \in 0..MaxTasksPerPump : PumpBegin(n)
  \/ \E policy \in Policies : BeginStopEnter(policy)

Next ==
  \/ \E p \in Producers : ProducerStep(p)
  \/ \E p \in Producers, t \in Tasks : PostEnter(p, t) \/ PostBusy(p, t)
  \/ OwnerInCall
  \/ OwnerCalls

Spec == Init /\ [][Next]_vars

(***************************************************************************)
(* Fairness.  Threads keep running inside a call.  The owner's client is   *)
(* an event loop: it pumps again and again unless it is asleep, is woken   *)
(* by a signal, and once it has begun to stop repeats beginStop with the   *)
(* same policy and finishStop until they succeed.  Its calls compete for   *)
(* the try-lock and are not continuously possible: strong fairness.  No    *)
(* fairness on posting, binding or beginning to stop.                      *)
(***************************************************************************)
RetryStop == state = "Stopping" /\ BeginStopEnter(stopPolicy)

Fairness ==
  /\ \A p \in Producers : WF_vars(ProducerStep(p))
  /\ WF_vars(OwnerInCall)
  /\ WF_vars(Wake)
  /\ SF_vars(PumpBegin(0))
  /\ SF_vars(RetryStop)
  /\ SF_vars(state = "Stopping" /\ FinishStopEnter)

FairSpec == Spec /\ Fairness

(***************************************************************************)
(* Properties                                                              *)
(***************************************************************************)
TypeOK ==
  /\ lock \in Threads \cup {NoThread}
  /\ state \in States /\ stopPolicy \in Policies
  /\ head \in Slots /\ size \in 0..Capacity /\ peak \in size..Capacity
  /\ storage \in [Slots -> Tasks \cup {NoTask}]
  /\ signal \in BOOLEAN
  /\ pc \in [Threads -> ProducerPlaces \cup OwnerPlaces]
  /\ hand \in [Threads -> Tasks \cup {NoTask}]
  /\ result \in [Threads -> Results]
  /\ call \in Calls
  /\ attempts \in [Tasks -> 0..MaxAttempts]
  /\ accepted \in Seq(Tasks) /\ ended \in Seq(Tasks) /\ cancelled \subseteq Tasks

(* The ring read from head_, oldest task first.                            *)
Contents == [i \in 1..size |-> storage[(head + i - 1) % Capacity]]

InHand == IF hand[Owner] = NoTask THEN <<>> ELSE <<hand[Owner]>>

(* Every accepted task is ended exactly once and in order, whatever the    *)
(* interleaving of posts, pumps and stops: what was accepted is what was   *)
(* ended, then the task the owner holds, then the ring (post 61-66, tryPop *)
(* 195-198; head_ and size_ wrap around the storage).                      *)
ExactlyOnceInOrder ==
  /\ TypeOK
  /\ accepted = ended \o InHand \o Contents

(* No two threads are inside the critical section, and a thread inside has *)
(* the try-lock: a path that returns without leaving it, or leaves it      *)
(* twice, breaks this (TryCriticalSectionGuard, every early return).       *)
Inside(t) == IF t = Owner THEN pc[t] \in {"bind", "pop", "stop", "finish"}
                          ELSE pc[t] \in {"critical", "leave", "leaveAndWake"}

MutualExclusion == \A t \in Threads : Inside(t) <=> lock = t

(* The owner never sleeps on a queue that holds work without a             *)
(* notification on its way: only the post that finds the queue empty       *)
(* notifies, after it has left the lock (61, 71-73).                       *)
NoLostWakeup ==
  (pc[Owner] = "asleep" /\ size > 0)
    => signal \/ \E p \in Producers : pc[p] \in {"leaveAndWake", "notify"}

(* A drain destroys no task unrun, whatever was tried before it: a stop    *)
(* under another policy must not reach cancelPending (beginStop 123-126).  *)
DrainRunsEverything ==
  (state \in {"Stopping", "Closed"} /\ stopPolicy = "Drain") => cancelled = {}

(* Closed means nothing is left: destructionInvariantHolds, and the owner  *)
(* holds no task either (finishStop 159-162).                              *)
ClosedIsEmpty == state = "Closed" => size = 0 /\ Len(accepted) = Len(ended)

(* No task is admitted once a stop has begun, though the poster decided to *)
(* post before it: the state is tested under the lock beginStop takes.     *)
NoAdmissionAfterStop ==
  [][(state \in {"Stopping", "Closed"}) => (accepted' = accepted)]_vars

(* The queue implements its abstract specification.                        *)
Log == INSTANCE TaskLog WITH
  phase <- state, admitted <- accepted, done <- ended, Backlog <- Capacity + 1

ImplementsTaskLog == Log!Spec

(* A task the queue has accepted is eventually run or destroyed, even      *)
(* though its post may have been the only thing to wake the owner.         *)
EveryAcceptedTaskEnds ==
  \A i \in 1..Cardinality(Tasks) : Len(accepted) >= i ~> Len(ended) >= i
=============================================================================
