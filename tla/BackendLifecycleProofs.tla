----------------------- MODULE BackendLifecycleProofs -----------------------
(***************************************************************************)
(* Proofs about BackendLifecycle for every number of producers, tasks,     *)
(* busy and failing devices.  The queue's own invariant is not proved      *)
(* again: every step of the coordinator is a step of the queue, a step     *)
(* that leaves it alone or the wakeup of StopInput, so IInv of             *)
(* OwnerTaskQueueProofs holds here too.  What is added says where the      *)
(* queue, its owner and the ports are at each step of the coordinator.     *)
(***************************************************************************)
EXTENDS BackendLifecycle, TLAPS

QP == INSTANCE OwnerTaskQueueProofs

(***************************************************************************)
(* The inductive invariant                                                 *)
(***************************************************************************)

(* Where the owner is in its queue call, and what its last call returned.  *)
Place  == pc[Owner]
Answer == result[Owner]

Flags ==
  /\ displayOpen \in BOOLEAN /\ inputOpen \in BOOLEAN
  /\ inputDiscarded \in BOOLEAN /\ stopPrepared \in BOOLEAN

Types ==
  /\ lifecycle \in LifecycleStates /\ policy \in {"Drain", "Cancel"}
  /\ stopError \in {"none", "failed", "busy"}
  /\ display \in LifecycleStates /\ input \in LifecycleStates
  /\ wakeup \in {"Running", "Closed"}
  /\ step \in Steps /\ asked \in {"Drain", "Cancel"}
  /\ pass \in 0..Capacity
  /\ deviceBusy \in 0..MaxDeviceBusy /\ deviceFail \in 0..MaxDeviceFail

(* The mark of a drain pass is a length the log of ended tasks has had.    *)
MarkIsPast == mark \in 0..Len(ended)

OpenSteps   == {"bindReturns", "openDisplay", "openInput", "undoDisplay", "undoStop",
                "undoFinish", "undoWakeup"}
StopSteps   == {"stopInput", "drain", "drainReturns", "discard"}
FinishSteps == {"finishInput", "finishDisplay", "finishWakeup", "finishQueue",
                "finishReturns"}

(* What the coordinator's own state is at each step.                       *)
Phases ==
  /\ step \in OpenSteps => lifecycle = "Constructed"
  /\ step = "stopReturns" =>
       \/ lifecycle = "Running"
       \/ lifecycle = "Stopping" /\ policy = asked
  /\ step \in StopSteps => lifecycle = "Stopping"
  /\ step \in FinishSteps => lifecycle = "Stopping" /\ stopPrepared
  /\ stopPrepared => lifecycle \in {"Stopping", "Closed"}

InStop == {"stop", "requestStop", "tryPop", "pop", "run"}
InPump == {"tryPop", "pop", "run"}

(* The queue call the owner may be in at each step.                        *)
OwnerFollows ==
  /\ Place = "idle" \/ step \in {"idle", "bindReturns", "undoFinish", "undoWakeup",
                                 "stopReturns", "drainReturns", "finishReturns"}
  /\ step = "bindReturns" => Place \in {"idle", "bind"}
  /\ step \in {"undoWakeup", "finishReturns"} => Place \in {"idle", "finish"}
  /\ step \in {"undoFinish", "stopReturns"} =>
       Place = "idle" \/ (Place \in InStop /\ call.op = "beginStop")
  /\ step \in {"idle", "drainReturns"} =>
       Place = "idle" \/ (Place \in InPump /\ call.op = "pump")
  /\ step = "idle" /\ Place # "idle" => lifecycle \in {"Running", "Stopping"}

(* The queue was bound before anything is opened, and stops no later than  *)
(* the coordinator.                                                        *)
QueueFollows ==
  /\ step = "bindReturns" /\ Place = "idle" /\ Answer # "busy" => state = "Running"
  /\ step \in {"openDisplay", "openInput"} => state = "Running"
  /\ lifecycle = "Running" => state \in {"Running", "Stopping"}
  /\ lifecycle = "Stopping" =>
       /\ stopPolicy = policy
       /\ \/ state = "Stopping"
          \/ state = "Closed" /\ step = "finishReturns" /\ Place = "idle" /\ Answer = "ok"
  /\ step = "finishReturns" /\ Place = "idle" /\ Answer = "ok" => state = "Closed"
  /\ lifecycle = "Closed" /\ stopPrepared => state = "Closed" /\ stopPolicy = policy

(* A beginStop under way is the queue's stop under the same policy.        *)
StopUnderWay ==
  step = "stopReturns" =>
    /\ Place # "idle" => call.policy = asked
    /\ Place \in {"requestStop", "tryPop", "pop", "run"} =>
         state = "Stopping" /\ stopPolicy = asked
    /\ Place = "idle" /\ Answer = "ok" =>
         /\ state = "Stopping" /\ stopPolicy = asked
         /\ asked = "Cancel" => size = 0

(* What the stop has emptied stays empty.                                  *)
Emptied ==
  /\ step = "stopInput" /\ asked = "Cancel" => size = 0
  /\ step = "discard" => size = 0
  /\ stopPrepared => size = 0 /\ Place # "run"

(* Which ports are open.                                                   *)
Ports ==
  /\ lifecycle = "Constructed" => wakeup = "Running"
  /\ step = "openInput" => displayOpen /\ display = "Running"
  /\ lifecycle \in {"Running", "Stopping"} =>
       /\ inputOpen <=> input # "Closed"
       /\ displayOpen <=> display # "Closed"
       /\ display \in {"Running", "Closed"}
       /\ input = "Closed" => stopPrepared
       /\ display = "Closed" => input = "Closed"
       /\ wakeup = "Closed" => display = "Closed"
  /\ step \in {"finishDisplay", "finishWakeup", "finishQueue", "finishReturns"}
       => input = "Closed"
  /\ step \in {"finishWakeup", "finishQueue", "finishReturns"} => display = "Closed"
  /\ step \in {"finishQueue", "finishReturns"} => wakeup = "Closed"
  /\ lifecycle = "Closed" /\ stopPrepared =>
       input = "Closed" /\ display = "Closed" /\ wakeup = "Closed"

Own == Flags /\ Types /\ Phases /\ OwnerFollows /\ QueueFollows /\ StopUnderWay /\ Emptied /\ Ports

IInv == QP!IInv /\ MarkIsPast /\ Own

(***************************************************************************)
(* The queue below                                                         *)
(***************************************************************************)
(* The steps the coordinator's system shares with the queue.               *)
QueueAction ==
  \/ \E p \in Producers : Q!ProducerStep(p)
  \/ \E p \in Producers, t \in Tasks : Q!PostEnter(p, t) \/ Q!PostBusy(p, t)
  \/ Q!OwnerInCall
  \/ Q!BindEnter \/ Q!FinishStopEnter \/ Q!OwnerBusy \/ Q!PumpBegin(0)
  \/ \E p \in {"Drain", "Cancel"} : Q!BeginStopEnter(p)

(* Each of them is a step of the queue that was proved correct.            *)
LEMMA QueueActionsAreSteps == QueueAction => QP!Next
<1> USE DEF Q!ring, QP!ring, Q!history, QP!history, Q!Enter, QP!Enter, Q!Leave, QP!Leave,
            Q!Return, QP!Return, Q!OwnerReturns, QP!OwnerReturns, Q!NoCall, QP!NoCall
<1>1. ASSUME NEW p \in Producers, Q!ProducerStep(p) PROVE QP!ProducerStep(p)
  <2>1. Q!Verdict = QP!Verdict /\ Q!TailSlot = QP!TailSlot /\ Q!ShouldWake = QP!ShouldWake
    BY DEF Q!Verdict, QP!Verdict, Q!TailSlot, QP!TailSlot, Q!ShouldWake, QP!ShouldWake
  <2>2. Q!PostReject(p) => QP!PostReject(p)
    BY <2>1 DEF Q!PostReject, QP!PostReject
  <2>3. Q!PostAccept(p) => QP!PostAccept(p)
    BY <2>1 DEF Q!PostAccept, QP!PostAccept
  <2>4. Q!PostLeave(p) => QP!PostLeave(p)
    BY DEF Q!PostLeave, QP!PostLeave
  <2>5. Q!PostNotify(p) => QP!PostNotify(p)
    BY DEF Q!PostNotify, QP!PostNotify
  <2> QED BY <1>1, <2>2, <2>3, <2>4, <2>5 DEF Q!ProducerStep, QP!ProducerStep
<1>2. ASSUME NEW p \in Producers, NEW t \in Tasks, Q!PostEnter(p, t) \/ Q!PostBusy(p, t)
      PROVE  QP!PostEnter(p, t) \/ QP!PostBusy(p, t)
  <2>1. Q!PostEnter(p, t) => QP!PostEnter(p, t)
    BY DEF Q!PostEnter, QP!PostEnter, Q!Postable, QP!Postable
  <2>2. Q!PostBusy(p, t) => QP!PostBusy(p, t)
    BY DEF Q!PostBusy, QP!PostBusy, Q!Postable, QP!Postable
  <2> QED BY <1>2, <2>1, <2>2
<1>3. Q!OwnerInCall => QP!OwnerInCall
  <2>1. Q!Bind => QP!Bind
    BY DEF Q!Bind, QP!Bind
  <2>2. Q!PopEnter => QP!PopEnter
    BY DEF Q!PopEnter, QP!PopEnter
  <2>3. Q!PopBusy => QP!PopBusy
    BY DEF Q!PopBusy, QP!PopBusy
  <2>4. Q!PopTake => QP!PopTake
    BY DEF Q!PopTake, QP!PopTake
  <2>5. Q!PopEmpty => QP!PopEmpty
    BY DEF Q!PopEmpty, QP!PopEmpty
  <2>6. Q!EndTask => QP!EndTask
    BY DEF Q!EndTask, QP!EndTask
  <2>7. Q!BudgetSpent => QP!BudgetSpent
    BY DEF Q!BudgetSpent, QP!BudgetSpent
  <2>8. Q!BeginStopReturns => QP!BeginStopReturns
    BY DEF Q!BeginStopReturns, QP!BeginStopReturns
  <2>9. Q!BeginStop => QP!BeginStop
    BY DEF Q!BeginStop, QP!BeginStop
  <2>10. Q!RequestStop => QP!RequestStop
    BY DEF Q!RequestStop, QP!RequestStop
  <2>11. Q!FinishStop => QP!FinishStop
    BY DEF Q!FinishStop, QP!FinishStop, Q!Finishable, QP!Finishable
  <2> QED BY <2>1, <2>2, <2>3, <2>4, <2>5, <2>6, <2>7, <2>8, <2>9, <2>10, <2>11
          DEF Q!OwnerInCall, QP!OwnerInCall
<1>4. Q!BindEnter => QP!BindEnter
  BY DEF Q!BindEnter, QP!BindEnter
<1>5. Q!FinishStopEnter => QP!FinishStopEnter
  BY DEF Q!FinishStopEnter, QP!FinishStopEnter
<1>6. Q!OwnerBusy => QP!OwnerBusy
  BY DEF Q!OwnerBusy, QP!OwnerBusy
<1>7. Q!PumpBegin(0) => QP!PumpBegin(0)
  BY DEF Q!PumpBegin, QP!PumpBegin, Q!PumpAllowed, QP!PumpAllowed
<1>8. ASSUME NEW p \in {"Drain", "Cancel"}, Q!BeginStopEnter(p) PROVE QP!BeginStopEnter(p)
  BY <1>8 DEF Q!BeginStopEnter, QP!BeginStopEnter
<1>9. 0 \in 0..MaxTasksPerPump /\ {"Drain", "Cancel"} = QP!Policies
  BY QueueAssumption DEF QP!Policies
<1> QED BY <1>1, <1>2, <1>3, <1>4, <1>5, <1>6, <1>7, <1>8, <1>9
        DEF QueueAction, QP!Next, QP!OwnerCalls

(* So it keeps the queue's invariant.                                      *)
LEMMA QueueKeeps == ASSUME QP!IInv, QueueAction PROVE QP!IInv'
BY QueueActionsAreSteps, QueueAssumption, QP!Inductive

(* And so does a step that leaves the queue alone,                         *)
LEMMA QueueAlone == ASSUME QP!IInv, UNCHANGED queueVars PROVE QP!IInv'
<1>1. UNCHANGED QP!vars
  BY DEF queueVars, QP!vars
<1> QED BY <1>1, QueueAssumption, QP!Inductive

(* or only notifies the wakeup port.                                       *)
LEMMA QueueNotified ==
  ASSUME QP!IInv, signal' = TRUE,
         UNCHANGED <<lock, state, stopPolicy, head, size, peak, storage, pc, hand, result, call,
                     attempts, accepted, ended, cancelled>>
  PROVE  QP!IInv'
BY DEF QP!IInv, QP!TypeOK, QP!MutualExclusion, QP!Inside, QP!Hands, QP!RingHoldsBacklog, QP!Taken,
       QP!Fresh, QP!OwnerPhases, QP!ClosedStaysEmpty, QP!WorkIsAnnounced, QP!NotificationDue

(***************************************************************************)
(* What a queue step changes of what the coordinator sees                  *)
(***************************************************************************)
(* The facts about the queue used below.                                   *)
LEMMA QueueFacts ==
  ASSUME QP!IInv
  PROVE  /\ size \in Nat /\ ended \in Seq(Tasks) /\ Len(ended) \in Nat
         /\ pc \in [Q!Threads -> QP!ProducerPlaces \cup QP!OwnerPlaces]
         /\ result \in [Q!Threads -> QP!Results]
         /\ call \in QP!Calls
         /\ Place = "bind" => state = "Constructed"
         /\ Place = "requestStop" => state = "Stopping" /\ stopPolicy = call.policy
         /\ Place \in InPump /\ call.op # "pump" => state = "Stopping" /\ stopPolicy = "Cancel"
         /\ cancelled # {} => state \in {"Stopping", "Closed"} /\ stopPolicy = "Cancel"
         /\ state = "Closed" => size = 0 /\ Len(accepted) = Len(ended)
<1>1. QP!TypeOK /\ QP!OwnerPhases /\ QP!ClosedStaysEmpty /\ QP!RingHoldsBacklog
  BY DEF QP!IInv
<1>2. /\ size \in Nat /\ ended \in Seq(Tasks) /\ Len(ended) \in Nat
      /\ pc \in [Q!Threads -> QP!ProducerPlaces \cup QP!OwnerPlaces]
      /\ result \in [Q!Threads -> QP!Results]
      /\ call \in QP!Calls
  <2>1. QP!Threads = Q!Threads
    BY DEF QP!Threads, Q!Threads
  <2> QED BY <1>1, <2>1, QueueAssumption DEF QP!TypeOK
<1>3. state = "Closed" => size = 0 /\ Len(accepted) = Len(ended)
  BY <1>1, <1>2 DEF QP!ClosedStaysEmpty, QP!RingHoldsBacklog, QP!Taken
<1> QED BY <1>1, <1>2, <1>3 DEF QP!OwnerPhases, Place, InPump

(* The owner's place and answer after it has moved.                        *)
LEMMA OwnerMoves ==
  ASSUME QP!IInv, NEW place, NEW answer
  PROVE  /\ pc' = [pc EXCEPT ![Owner] = place] => Place' = place
         /\ result' = [result EXCEPT ![Owner] = answer] => Answer' = answer
BY QueueFacts DEF Place, Answer, Q!Threads

(* The producers move neither the owner nor its queue, but for the tasks   *)
(* they post while it runs.                                                *)
ProducersMove ==
  /\ UNCHANGED <<state, stopPolicy, call, ended, cancelled, Place, Answer>>
  /\ size' = size \/ state = "Running"

(* Every step of a producer is such a move.                                *)
LEMMA ProducersLeaveTheOwner ==
  ASSUME QP!IInv,
         \/ \E p \in Producers : Q!ProducerStep(p)
         \/ \E p \in Producers, t \in Tasks : Q!PostEnter(p, t) \/ Q!PostBusy(p, t)
  PROVE  ProducersMove
<1> USE QueueAssumption, QueueFacts
    DEF Q!ring, Q!history, Q!Enter, Q!Leave, Q!Return, Place, Answer, Q!Threads, ProducersMove
<1>1. ASSUME NEW p \in Producers, Q!PostReject(p) PROVE ProducersMove
  BY <1>1 DEF Q!PostReject
<1>2. ASSUME NEW p \in Producers, Q!PostAccept(p) PROVE ProducersMove
  <2>1. state = "Running"
    BY <1>2, QueueFacts DEF Q!PostAccept, Q!Verdict, QP!IInv, QP!TypeOK, QP!States
  <2>2. UNCHANGED <<state, stopPolicy, call, ended, cancelled>>
    BY <1>2 DEF Q!PostAccept
  <2>3. UNCHANGED <<Place, Answer>>
    BY <1>2 DEF Q!PostAccept
  <2> QED BY <2>1, <2>2, <2>3
<1>3. ASSUME NEW p \in Producers, Q!PostLeave(p) PROVE ProducersMove
  BY <1>3 DEF Q!PostLeave
<1>4. ASSUME NEW p \in Producers, Q!PostNotify(p) PROVE ProducersMove
  BY <1>4 DEF Q!PostNotify
<1>5. ASSUME NEW p \in Producers, NEW t \in Tasks, Q!PostEnter(p, t) PROVE ProducersMove
  BY <1>5 DEF Q!PostEnter
<1>6. ASSUME NEW p \in Producers, NEW t \in Tasks, Q!PostBusy(p, t) PROVE ProducersMove
  BY <1>6 DEF Q!PostBusy
<1> QED BY <1>1, <1>2, <1>3, <1>4, <1>5, <1>6 DEF Q!ProducerStep

Return(answer) == Place' = "idle" /\ Answer' = answer

(* The steps of a call of the owner, one disjunct for each of the queue.   *)
OwnerMove ==
  \/ /\ Place = "bind" /\ Return("none") /\ state' = "Running"
     /\ UNCHANGED <<stopPolicy, size, ended, cancelled>>
  \/ /\ Place = "tryPop" /\ Place' = "pop"
     /\ UNCHANGED <<state, stopPolicy, size, call, ended, cancelled>>
  \/ /\ Place = "tryPop" /\ Return("busy")
     /\ UNCHANGED <<state, stopPolicy, size, ended, cancelled>>
  \/ /\ Place = "pop" /\ size # 0 /\ Place' = "run"
     /\ UNCHANGED <<state, stopPolicy, call, ended, cancelled>>
  \/ /\ Place = "pop" /\ size = 0 /\ Return("ok")
     /\ UNCHANGED <<state, stopPolicy, size, ended, cancelled>>
  \/ /\ Place = "run" /\ Place' = "tryPop"
     /\ Len(ended') = Len(ended) + 1
     /\ call'.op = call.op /\ call'.policy = call.policy
     /\ UNCHANGED <<state, stopPolicy, size>>
  \/ /\ Place = "tryPop" /\ Place' = "idle"
     /\ size = 0 \/ Answer' \in {"more", "busy"}
     /\ UNCHANGED <<state, stopPolicy, size, ended, cancelled>>
  \/ /\ Place = "stop" /\ Place' = "idle"
     /\ state = "Closed" \/ Answer' = "invalidState"
     /\ UNCHANGED <<state, stopPolicy, size, ended, cancelled>>
  \/ /\ Place = "stop" /\ Place' = "requestStop"
     /\ state \in {"Running", "Stopping"} /\ state' = "Stopping" /\ stopPolicy' = call.policy
     /\ UNCHANGED <<size, call, ended, cancelled>>
  \/ /\ Place = "requestStop" /\ call.policy = "Cancel" /\ Place' = "tryPop"
     /\ UNCHANGED <<state, stopPolicy, size, call, ended, cancelled>>
  \/ /\ Place = "requestStop" /\ call.policy # "Cancel" /\ Return("ok")
     /\ UNCHANGED <<state, stopPolicy, size, ended, cancelled>>
  \/ /\ Place = "finish" /\ Place' = "idle"
     /\ \/ state = "Stopping" /\ state' = "Closed" /\ Answer' = "ok"
        \/ UNCHANGED state /\ (state # "Stopping" \/ size # 0)
     /\ UNCHANGED <<stopPolicy, size, ended, cancelled>>

(* Every step of a call is one of them.                                    *)
LEMMA OwnerStepsAreMoves == ASSUME QP!IInv, Q!OwnerInCall PROVE OwnerMove
<1> USE OwnerMoves
    DEF Q!ring, Q!history, Q!Enter, Q!Leave, Q!Return, Q!OwnerReturns, Return
<1>0. \A place, answer : /\ pc' = [pc EXCEPT ![Owner] = place] => Place' = place
                         /\ result' = [result EXCEPT ![Owner] = answer] => Answer' = answer
  BY OwnerMoves
<1>p. Place = pc[Owner]
  BY DEF Place
<1>1. CASE Q!Bind
  BY <1>0, <1>p, <1>1, Zenon DEF Q!Bind, OwnerMove
<1>2. CASE Q!PopEnter
  BY <1>0, <1>p, <1>2, Zenon DEF Q!PopEnter, OwnerMove
<1>3. CASE Q!PopBusy
  BY <1>0, <1>p, <1>3, Zenon DEF Q!PopBusy, OwnerMove
<1>4. CASE Q!PopTake
  BY <1>0, <1>p, <1>4, Zenon DEF Q!PopTake, OwnerMove
<1>5. CASE Q!PopEmpty
  BY <1>0, <1>p, <1>5, Zenon DEF Q!PopEmpty, OwnerMove
<1>6. CASE Q!EndTask
  <2>1. hand[Owner] \in Tasks
    BY <1>6, <1>p, QueueAssumption DEF Q!EndTask, QP!IInv, QP!TypeOK, QP!Hands, QP!Threads
  <2>2. Len(ended') = Len(ended) + 1
    BY <1>6, <2>1, QueueFacts DEF Q!EndTask
  <2>3. call'.op = call.op /\ call'.policy = call.policy
    BY <1>6, QueueFacts DEF Q!EndTask, QP!Calls
  <2> QED BY <1>0, <1>p, <1>6, <2>2, <2>3, Zenon DEF Q!EndTask, OwnerMove
<1>7. CASE Q!BudgetSpent
  <2>1. size = 0 \/ Answer' \in {"more", "busy"}
    BY <1>7, QueueFacts DEF Q!BudgetSpent, Answer, Q!Threads
  <2> QED BY <1>0, <1>p, <1>7, <2>1, Zenon DEF Q!BudgetSpent, OwnerMove
<1>8. CASE Q!BeginStopReturns
  BY <1>0, <1>p, <1>8, Zenon DEF Q!BeginStopReturns, OwnerMove
<1>9. CASE Q!BeginStop
  BY <1>0, <1>p, <1>9, Zenon DEF Q!BeginStop, OwnerMove
<1>10. CASE Q!RequestStop
  BY <1>0, <1>p, <1>10, Zenon DEF Q!RequestStop, OwnerMove
<1>11. CASE Q!FinishStop
  <2>1. \/ state = "Stopping" /\ state' = "Closed" /\ Answer' = "ok"
        \/ UNCHANGED state /\ (state # "Stopping" \/ size # 0)
    BY <1>11, QueueFacts DEF Q!FinishStop, Q!Finishable, Answer, Q!Threads
  <2> QED BY <1>0, <1>p, <1>11, <2>1, Zenon DEF Q!FinishStop, OwnerMove
<1> QED BY <1>1, <1>2, <1>3, <1>4, <1>5, <1>6, <1>7, <1>8, <1>9, <1>10, <1>11
        DEF Q!OwnerInCall

(* What the owner's calls do when they are entered, or find the lock held. *)
LEMMA CallsEnter ==
  ASSUME QP!IInv, Place = "idle"
  PROVE  /\ CallQueue(Q!BindEnter) =>
              /\ Place' = "bind" \/ Return("busy")
              /\ UNCHANGED <<state, stopPolicy, size, ended, cancelled>>
         /\ CallQueue(Q!FinishStopEnter) =>
              /\ Place' = "finish" \/ Return("busy")
              /\ UNCHANGED <<state, stopPolicy, size, ended, cancelled>>
         /\ \A p : CallQueue(Q!BeginStopEnter(p)) =>
              /\ \/ Place' = "stop" /\ call'.op = "beginStop" /\ call'.policy = p
                 \/ Return("busy")
              /\ UNCHANGED <<state, stopPolicy, size, ended, cancelled>>
         /\ Q!PumpBegin(0) =>
              /\ Place' = "tryPop" /\ call'.op = "pump"
              /\ UNCHANGED <<state, stopPolicy, size, ended, cancelled>>
<1> USE DEF Q!ring, Q!history, Q!Enter, Q!Return, Return, CallQueue
<1>0. \A place, answer : /\ pc' = [pc EXCEPT ![Owner] = place] => Place' = place
                         /\ result' = [result EXCEPT ![Owner] = answer] => Answer' = answer
  BY OwnerMoves
<1>1. ASSUME Q!OwnerBusy
      PROVE  Return("busy") /\ UNCHANGED <<state, stopPolicy, size, ended, cancelled>>
  <2>1. Place' = Place
    BY <1>1 DEF Q!OwnerBusy, Place
  <2> QED BY <1>0, <1>1, <2>1, Zenon DEF Q!OwnerBusy
<1>2. CallQueue(Q!BindEnter) =>
        /\ Place' = "bind" \/ Return("busy")
        /\ UNCHANGED <<state, stopPolicy, size, ended, cancelled>>
  BY <1>0, <1>1, Zenon DEF Q!BindEnter
<1>3. CallQueue(Q!FinishStopEnter) =>
        /\ Place' = "finish" \/ Return("busy")
        /\ UNCHANGED <<state, stopPolicy, size, ended, cancelled>>
  BY <1>0, <1>1, Zenon DEF Q!FinishStopEnter
<1>4. ASSUME NEW p, CallQueue(Q!BeginStopEnter(p))
      PROVE  /\ \/ Place' = "stop" /\ call'.op = "beginStop" /\ call'.policy = p
                \/ Return("busy")
             /\ UNCHANGED <<state, stopPolicy, size, ended, cancelled>>
  <2>1. Q!BeginStopEnter(p) => call'.op = "beginStop" /\ call'.policy = p
    BY DEF Q!BeginStopEnter
  <2>2. Q!BeginStopEnter(p) =>
          Place' = "stop" /\ UNCHANGED <<state, stopPolicy, size, ended, cancelled>>
    BY <1>0, Zenon DEF Q!BeginStopEnter
  <2>3. Q!BeginStopEnter(p) \/ Q!OwnerBusy
    BY <1>4
  <2> QED BY <1>1, <2>1, <2>2, <2>3, Zenon
<1>5. ASSUME Q!PumpBegin(0)
      PROVE  /\ Place' = "tryPop" /\ call'.op = "pump"
             /\ UNCHANGED <<state, stopPolicy, size, ended, cancelled>>
  <2>1. call'.op = "pump"
    BY <1>5 DEF Q!PumpBegin
  <2> QED BY <1>0, <1>5, <2>1, Zenon DEF Q!PumpBegin
<1> QED BY <1>2, <1>3, <1>4, <1>5, Zenon

(* What a coordinator sees of a queue it leaves alone.                     *)
QueueSeen == <<state, stopPolicy, size, call, ended, cancelled, Place, Answer>>

LEMMA QueueSeenAlone == UNCHANGED queueVars => UNCHANGED QueueSeen
BY DEF queueVars, QueueSeen, Place, Answer

(***************************************************************************)
(* The coordinator's own state                                             *)
(***************************************************************************)
(* Every step of the coordinator's operations goes to the step, and leaves *)
(* the lifecycle, that Phases says.                                        *)
LEMMA PhasesStep == ASSUME Flags, Types, Phases, [Next]_vars PROVE Phases'
<1> USE DEF Phases, OpenSteps, StopSteps, FinishSteps, At, Goto, Reply, flags, control
<1>1. CASE QueueStep
  BY <1>1, Zenon DEF QueueStep
<1>2. CASE Open
  BY <1>2, Zenon DEF Open
<1>3. CASE HostPump
  BY <1>3, Zenon DEF HostPump
<1>4. CASE FinishStop
  BY <1>4, Zenon DEF FinishStop
<1>5. ASSUME NEW p \in {"Drain", "Cancel"}, BeginStop(p) PROVE Phases'
  BY <1>5, Zenon DEF BeginStop
<1>6. CASE BindReturns
  BY <1>6, Zenon DEF BindReturns
<1>7. CASE UndoStop
  BY <1>7, Zenon DEF UndoStop
<1>24. CASE UndoFinish
  BY <1>24, Zenon DEF UndoFinish
<1>8. CASE StopReturns
  BY <1>8, Zenon DEF StopReturns
<1>9. CASE DrainPass
  BY <1>9, Zenon DEF DrainPass
<1>10. CASE DrainReturns
  BY <1>10, Zenon DEF DrainReturns
<1>11. CASE DrainEnds
  BY <1>11, Zenon DEF DrainEnds
<1>12. CASE FinishQueue
  BY <1>12, Zenon DEF FinishQueue
<1>13. CASE FinishReturns
  BY <1>13, Zenon DEF FinishReturns
<1>14. ASSUME NEW r \in Outcomes, OpenDisplay(r) PROVE Phases'
  BY <1>14, Zenon DEF OpenDisplay
<1>15. ASSUME NEW r \in Outcomes, OpenInput(r) PROVE Phases'
  BY <1>15, Zenon DEF OpenInput
<1>16. ASSUME NEW r \in Outcomes, UndoDisplay(r) PROVE Phases'
  BY <1>16, Zenon DEF UndoDisplay
<1>17. ASSUME NEW r \in Outcomes, UndoWakeup(r) PROVE Phases'
  BY <1>17, Zenon DEF UndoWakeup
<1>18. ASSUME NEW r \in Outcomes, StopInput(r) PROVE Phases'
  BY <1>18, Zenon DEF StopInput
<1>19. ASSUME NEW r \in Outcomes, Discard(r) PROVE Phases'
  BY <1>19, Zenon DEF Discard
<1>20. ASSUME NEW r \in Outcomes, FinishInput(r) PROVE Phases'
  BY <1>20, Zenon DEF FinishInput
<1>21. ASSUME NEW r \in Outcomes, FinishDisplay(r) PROVE Phases'
  BY <1>21, Zenon DEF FinishDisplay
<1>22. ASSUME NEW r \in Outcomes, FinishWakeup(r) PROVE Phases'
  BY <1>22, Zenon DEF FinishWakeup
<1>23. CASE UNCHANGED vars
  BY <1>23, Zenon DEF vars
<1> QED BY <1>1, <1>2, <1>3, <1>4, <1>5, <1>6, <1>7, <1>8, <1>9, <1>10, <1>11, <1>12, <1>13,
           <1>14, <1>15, <1>16, <1>17, <1>18, <1>19, <1>20, <1>21, <1>22, <1>23, <1>24, Zenon
        DEF Next, InOperation

(* The flags stay Booleans.                                                *)
LEMMA FlagsStep == ASSUME Flags, [Next]_vars PROVE Flags'
<1> USE DEF Flags, At, Goto, Reply, flags
<1>1. CASE QueueStep
  BY <1>1, Zenon DEF QueueStep
<1>2. CASE Open
  BY <1>2, Zenon DEF Open
<1>3. CASE HostPump
  BY <1>3, Zenon DEF HostPump
<1>4. CASE FinishStop
  BY <1>4, Zenon DEF FinishStop
<1>5. ASSUME NEW p \in {"Drain", "Cancel"}, BeginStop(p) PROVE Flags'
  BY <1>5, Zenon DEF BeginStop
<1>6. CASE BindReturns
  BY <1>6, Zenon DEF BindReturns
<1>7. CASE UndoStop
  BY <1>7, Zenon DEF UndoStop
<1>8. CASE UndoFinish
  BY <1>8, Zenon DEF UndoFinish
<1>9. CASE StopReturns
  BY <1>9, Zenon DEF StopReturns
<1>10. CASE DrainPass
  BY <1>10, Zenon DEF DrainPass
<1>11. CASE DrainReturns
  BY <1>11, Zenon DEF DrainReturns
<1>12. CASE DrainEnds
  BY <1>12, Zenon DEF DrainEnds
<1>13. CASE FinishQueue
  BY <1>13, Zenon DEF FinishQueue
<1>14. CASE FinishReturns
  BY <1>14, Zenon DEF FinishReturns
<1>15. ASSUME NEW r \in Outcomes, OpenDisplay(r) PROVE Flags'
  BY <1>15, Zenon DEF OpenDisplay
<1>16. ASSUME NEW r \in Outcomes, OpenInput(r) PROVE Flags'
  BY <1>16, Zenon DEF OpenInput
<1>17. ASSUME NEW r \in Outcomes, UndoDisplay(r) PROVE Flags'
  BY <1>17, Zenon DEF UndoDisplay
<1>18. ASSUME NEW r \in Outcomes, UndoWakeup(r) PROVE Flags'
  BY <1>18, Zenon DEF UndoWakeup
<1>19. ASSUME NEW r \in Outcomes, StopInput(r) PROVE Flags'
  BY <1>19, Zenon DEF StopInput
<1>20. ASSUME NEW r \in Outcomes, Discard(r) PROVE Flags'
  BY <1>20, Zenon DEF Discard
<1>21. ASSUME NEW r \in Outcomes, FinishInput(r) PROVE Flags'
  BY <1>21, Zenon DEF FinishInput
<1>22. ASSUME NEW r \in Outcomes, FinishDisplay(r) PROVE Flags'
  BY <1>22, Zenon DEF FinishDisplay
<1>23. ASSUME NEW r \in Outcomes, FinishWakeup(r) PROVE Flags'
  BY <1>23, Zenon DEF FinishWakeup
<1>24. CASE UNCHANGED vars
  BY <1>24, Zenon DEF vars
<1> QED BY <1>1, <1>2, <1>3, <1>4, <1>5, <1>6, <1>7, <1>8, <1>9, <1>10, <1>11, <1>12,
           <1>13, <1>14, <1>15, <1>16, <1>17, <1>18, <1>19, <1>20, <1>21, <1>22, <1>23,
           <1>24, Zenon
        DEF Next, InOperation

(* Every variable of the coordinator keeps its type.                       *)
LEMMA TypesStep == ASSUME Types, [Next]_vars PROVE Types'
<1> USE DeviceAssumption, QueueAssumption
    DEF Types, Flags, LifecycleStates, Steps, At, Goto, Reply, Device, CloseAnswer, Outcomes,
         Closes,
        Remember, flags, ports, control, device
<1>1. CASE QueueStep
  BY <1>1 DEF QueueStep
<1>2. CASE Open
  BY <1>2 DEF Open
<1>3. CASE HostPump
  BY <1>3 DEF HostPump
<1>4. CASE FinishStop
  BY <1>4 DEF FinishStop
<1>5. ASSUME NEW p \in {"Drain", "Cancel"}, BeginStop(p) PROVE Types'
  BY <1>5 DEF BeginStop
<1>6. CASE BindReturns
  BY <1>6 DEF BindReturns
<1>7. CASE UndoStop
  BY <1>7 DEF UndoStop
<1>8. CASE UndoFinish
  BY <1>8 DEF UndoFinish
<1>9. CASE StopReturns
  BY <1>9 DEF StopReturns
<1>10. CASE DrainPass
  BY <1>10 DEF DrainPass
<1>11. CASE DrainReturns
  BY <1>11 DEF DrainReturns
<1>12. CASE DrainEnds
  BY <1>12 DEF DrainEnds
<1>13. CASE FinishQueue
  BY <1>13 DEF FinishQueue
<1>14. CASE FinishReturns
  BY <1>14 DEF FinishReturns
<1>15. ASSUME NEW r \in Outcomes, OpenDisplay(r) PROVE Types'
  BY <1>15 DEF OpenDisplay
<1>16. ASSUME NEW r \in Outcomes, OpenInput(r) PROVE Types'
  BY <1>16 DEF OpenInput
<1>17. ASSUME NEW r \in Outcomes, UndoDisplay(r) PROVE Types'
  BY <1>17 DEF UndoDisplay
<1>18. ASSUME NEW r \in Outcomes, UndoWakeup(r) PROVE Types'
  BY <1>18 DEF UndoWakeup
<1>19. ASSUME NEW r \in Outcomes, StopInput(r) PROVE Types'
  BY <1>19 DEF StopInput
<1>20. ASSUME NEW r \in Outcomes, Discard(r) PROVE Types'
  BY <1>20 DEF Discard
<1>21. ASSUME NEW r \in Outcomes, FinishInput(r) PROVE Types'
  BY <1>21 DEF FinishInput
<1>22. ASSUME NEW r \in Outcomes, FinishDisplay(r) PROVE Types'
  BY <1>22 DEF FinishDisplay
<1>23. ASSUME NEW r \in Outcomes, FinishWakeup(r) PROVE Types'
  BY <1>23 DEF FinishWakeup
<1>24. CASE UNCHANGED vars
  BY <1>24 DEF vars
<1> QED BY <1>1, <1>2, <1>3, <1>4, <1>5, <1>6, <1>7, <1>8, <1>9, <1>10, <1>11, <1>12,
           <1>13, <1>14, <1>15, <1>16, <1>17, <1>18, <1>19, <1>20, <1>21, <1>22, <1>23,
           <1>24, Zenon
        DEF Next, InOperation

(* The owner is in the call the coordinator made, or in none.              *)
LEMMA OwnerFollowsStep == ASSUME QP!IInv, Flags, Types, Phases, OwnerFollows,
         [Next]_vars
   PROVE OwnerFollows'
<1> USE DEF OwnerFollows, InStop, InPump, At, Goto, Reply, flags, control, QueueSeen, Place
<1>1. CASE QueueStep
  <2>1. CASE Q!OwnerInCall
    <3>1. OwnerMove
      BY <2>1, OwnerStepsAreMoves
    <3>2. UNCHANGED <<step, lifecycle>>
      BY <1>1 DEF QueueStep
    <3> QED BY <3>1, <3>2, Zenon DEF OwnerMove, Return
  <2>2. CASE ~Q!OwnerInCall
    <3>1. ProducersMove
      BY <1>1, <2>2, ProducersLeaveTheOwner DEF QueueStep
    <3>2. UNCHANGED <<step, lifecycle>>
      BY <1>1 DEF QueueStep
    <3> QED BY <3>1, <3>2, Zenon DEF ProducersMove
  <2> QED BY <2>1, <2>2
<1>2. CASE Open
  BY <1>2, CallsEnter, Zenon DEF Open, Return
<1>3. CASE HostPump
  BY <1>3, CallsEnter, Zenon DEF HostPump, Return
<1>4. CASE FinishStop
  BY <1>4, QueueSeenAlone, Zenon DEF FinishStop
<1>5. ASSUME NEW p \in {"Drain", "Cancel"}, BeginStop(p) PROVE OwnerFollows'
  BY <1>5, CallsEnter, Zenon DEF BeginStop, Return
<1>6. CASE BindReturns
  BY <1>6, QueueSeenAlone, Zenon DEF BindReturns
<1>7. CASE UndoStop
  BY <1>7, CallsEnter, Zenon DEF UndoStop, Return
<1>8. CASE UndoFinish
  BY <1>8, CallsEnter, Zenon DEF UndoFinish, Return
<1>9. CASE StopReturns
  BY <1>9, QueueSeenAlone, Zenon DEF StopReturns
<1>10. CASE DrainPass
  BY <1>10, CallsEnter, Zenon DEF DrainPass, Return
<1>11. CASE DrainReturns
  BY <1>11, QueueSeenAlone, Zenon DEF DrainReturns
<1>12. CASE DrainEnds
  BY <1>12, QueueSeenAlone, Zenon DEF DrainEnds
<1>13. CASE FinishQueue
  BY <1>13, CallsEnter, Zenon DEF FinishQueue, Return
<1>14. CASE FinishReturns
  BY <1>14, QueueSeenAlone, Zenon DEF FinishReturns
<1>15. ASSUME NEW r \in Outcomes, OpenDisplay(r) PROVE OwnerFollows'
  BY <1>15, QueueSeenAlone, Zenon DEF OpenDisplay
<1>16. ASSUME NEW r \in Outcomes, OpenInput(r) PROVE OwnerFollows'
  BY <1>16, QueueSeenAlone, Zenon DEF OpenInput
<1>17. ASSUME NEW r \in Outcomes, UndoDisplay(r) PROVE OwnerFollows'
  BY <1>17, QueueSeenAlone, Zenon DEF UndoDisplay
<1>18. ASSUME NEW r \in Outcomes, UndoWakeup(r) PROVE OwnerFollows'
  BY <1>18, QueueSeenAlone, Zenon DEF UndoWakeup
<1>19. ASSUME NEW r \in Outcomes, StopInput(r) PROVE OwnerFollows'
  BY <1>19, Zenon DEF StopInput, Place, Answer
<1>20. ASSUME NEW r \in Outcomes, Discard(r) PROVE OwnerFollows'
  BY <1>20, QueueSeenAlone, Zenon DEF Discard
<1>21. ASSUME NEW r \in Outcomes, FinishInput(r) PROVE OwnerFollows'
  BY <1>21, QueueSeenAlone, Zenon DEF FinishInput
<1>22. ASSUME NEW r \in Outcomes, FinishDisplay(r) PROVE OwnerFollows'
  BY <1>22, QueueSeenAlone, Zenon DEF FinishDisplay
<1>23. ASSUME NEW r \in Outcomes, FinishWakeup(r) PROVE OwnerFollows'
  BY <1>23, QueueSeenAlone, Zenon DEF FinishWakeup
<1>24. CASE UNCHANGED vars
  BY <1>24, QueueSeenAlone, Zenon DEF vars
<1> QED BY <1>1, <1>2, <1>3, <1>4, <1>5, <1>6, <1>7, <1>8, <1>9, <1>10, <1>11, <1>12,
           <1>13, <1>14, <1>15, <1>16, <1>17, <1>18, <1>19, <1>20, <1>21, <1>22, <1>23,
           <1>24, Zenon
        DEF Next, InOperation

(* The queue runs and stops with the coordinator.                          *)
LEMMA QueueFollowsStep ==
  ASSUME QP!IInv, Flags, Types, Phases, OwnerFollows, QueueFollows, StopUnderWay, Emptied, Ports,
         [Next]_vars
   PROVE QueueFollows'
<1> USE DEF Types, Phases, OwnerFollows, QueueFollows, StopUnderWay, Emptied, OpenSteps, StopSteps,
        FinishSteps, InStop, InPump, At, Goto, Reply, flags, control, ports, QueueSeen, Place
<1>1. CASE QueueStep
  <2>0. UNCHANGED <<step, lifecycle, policy, stopPrepared>>
    BY <1>1 DEF QueueStep, flags, ports, control
  <2>1. CASE Q!OwnerInCall
    <3>1. OwnerMove
      BY <2>1, OwnerStepsAreMoves
    <3> QED BY <2>0, <3>1, QueueFacts, Zenon DEF OwnerMove, Return
  <2>2. CASE ~Q!OwnerInCall
    <3>1. ProducersMove
      BY <1>1, <2>2, ProducersLeaveTheOwner DEF QueueStep
    <3> QED BY <2>0, <3>1, Zenon DEF ProducersMove
  <2> QED BY <2>1, <2>2
<1>2. CASE Open
  BY <1>2, CallsEnter, Zenon DEF Open, Return
<1>3. CASE HostPump
  BY <1>3, CallsEnter, Zenon DEF HostPump, Return
<1>4. CASE FinishStop
  BY <1>4, QueueSeenAlone, Zenon DEF FinishStop
<1>5. ASSUME NEW p \in {"Drain", "Cancel"}, BeginStop(p) PROVE QueueFollows'
  BY <1>5, CallsEnter, Zenon DEF BeginStop, Return
<1>6. CASE BindReturns
  BY <1>6, QueueSeenAlone, Zenon DEF BindReturns, Answer
<1>7. CASE UndoStop
  BY <1>7, CallsEnter, Zenon DEF UndoStop, Return
<1>8. CASE UndoFinish
  BY <1>8, CallsEnter, Zenon DEF UndoFinish, Return
<1>9. CASE StopReturns
  BY <1>9, QueueSeenAlone, Zenon DEF StopReturns, Answer
<1>10. CASE DrainPass
  BY <1>10, CallsEnter, Zenon DEF DrainPass, Return
<1>11. CASE DrainReturns
  BY <1>11, QueueSeenAlone, Zenon DEF DrainReturns, Answer
<1>12. CASE DrainEnds
  BY <1>12, QueueSeenAlone, Zenon DEF DrainEnds
<1>13. CASE FinishQueue
  BY <1>13, CallsEnter, Zenon DEF FinishQueue, Return
<1>14. CASE FinishReturns
  BY <1>14, QueueSeenAlone, Zenon DEF FinishReturns, Answer
<1>15. ASSUME NEW r \in Outcomes, OpenDisplay(r) PROVE QueueFollows'
  BY <1>15, QueueSeenAlone, Zenon DEF OpenDisplay
<1>16. ASSUME NEW r \in Outcomes, OpenInput(r) PROVE QueueFollows'
  BY <1>16, QueueSeenAlone, Zenon DEF OpenInput
<1>17. ASSUME NEW r \in Outcomes, UndoDisplay(r) PROVE QueueFollows'
  BY <1>17, QueueSeenAlone, Zenon DEF UndoDisplay
<1>18. ASSUME NEW r \in Outcomes, UndoWakeup(r) PROVE QueueFollows'
  BY <1>18, QueueSeenAlone, Zenon DEF UndoWakeup
<1>19. ASSUME NEW r \in Outcomes, StopInput(r) PROVE QueueFollows'
  BY <1>19, Zenon DEF StopInput, Place, Answer
<1>20. ASSUME NEW r \in Outcomes, Discard(r) PROVE QueueFollows'
  BY <1>20, QueueSeenAlone, Zenon DEF Discard
<1>21. ASSUME NEW r \in Outcomes, FinishInput(r) PROVE QueueFollows'
  BY <1>21, QueueSeenAlone, Zenon DEF FinishInput
<1>22. ASSUME NEW r \in Outcomes, FinishDisplay(r) PROVE QueueFollows'
  BY <1>22, QueueSeenAlone, Zenon DEF FinishDisplay
<1>23. ASSUME NEW r \in Outcomes, FinishWakeup(r) PROVE QueueFollows'
  BY <1>23, QueueSeenAlone, Zenon DEF FinishWakeup
<1>24. CASE UNCHANGED vars
  BY <1>24, QueueSeenAlone, Zenon DEF vars
<1> QED BY <1>1, <1>2, <1>3, <1>4, <1>5, <1>6, <1>7, <1>8, <1>9, <1>10, <1>11, <1>12,
           <1>13, <1>14, <1>15, <1>16, <1>17, <1>18, <1>19, <1>20, <1>21, <1>22, <1>23,
           <1>24, Zenon
        DEF Next, InOperation

(* The stop of the queue is the stop the coordinator asked for.            *)
LEMMA StopUnderWayStep ==
  ASSUME QP!IInv, Flags, Types, Phases, OwnerFollows, QueueFollows, StopUnderWay, Emptied, Ports,
         [Next]_vars
   PROVE StopUnderWay'
<1> USE DEF Types, Phases, OwnerFollows, QueueFollows, StopUnderWay, Emptied, OpenSteps, StopSteps,
        FinishSteps, InStop, InPump, At, Goto, Reply, flags, control, ports, QueueSeen, Place
<1>1. CASE QueueStep
  <2>0. UNCHANGED <<step, asked, lifecycle>>
    BY <1>1 DEF QueueStep, flags, ports, control
  <2>1. CASE Q!OwnerInCall
    <3>1. OwnerMove
      BY <2>1, OwnerStepsAreMoves
    <3> QED BY <2>0, <3>1, QueueFacts, Zenon DEF OwnerMove, Return
  <2>2. CASE ~Q!OwnerInCall
    <3>1. ProducersMove
      BY <1>1, <2>2, ProducersLeaveTheOwner DEF QueueStep
    <3> QED BY <2>0, <3>1, Zenon DEF ProducersMove
  <2> QED BY <2>1, <2>2
<1>2. CASE Open
  BY <1>2, CallsEnter, Zenon DEF Open, Return
<1>3. CASE HostPump
  BY <1>3, CallsEnter, Zenon DEF HostPump, Return
<1>4. CASE FinishStop
  BY <1>4, QueueSeenAlone, Zenon DEF FinishStop
<1>5. ASSUME NEW p \in {"Drain", "Cancel"}, BeginStop(p) PROVE StopUnderWay'
  BY <1>5, CallsEnter, Zenon DEF BeginStop, Return
<1>6. CASE BindReturns
  BY <1>6, QueueSeenAlone, Zenon DEF BindReturns, Answer
<1>7. CASE UndoStop
  BY <1>7, CallsEnter, Zenon DEF UndoStop, Return
<1>8. CASE UndoFinish
  BY <1>8, CallsEnter, Zenon DEF UndoFinish, Return
<1>9. CASE StopReturns
  BY <1>9, QueueSeenAlone, Zenon DEF StopReturns, Answer
<1>10. CASE DrainPass
  BY <1>10, CallsEnter, Zenon DEF DrainPass, Return
<1>11. CASE DrainReturns
  BY <1>11, QueueSeenAlone, Zenon DEF DrainReturns, Answer
<1>12. CASE DrainEnds
  BY <1>12, QueueSeenAlone, Zenon DEF DrainEnds
<1>13. CASE FinishQueue
  BY <1>13, CallsEnter, Zenon DEF FinishQueue, Return
<1>14. CASE FinishReturns
  BY <1>14, QueueSeenAlone, Zenon DEF FinishReturns, Answer
<1>15. ASSUME NEW r \in Outcomes, OpenDisplay(r) PROVE StopUnderWay'
  BY <1>15, QueueSeenAlone, Zenon DEF OpenDisplay
<1>16. ASSUME NEW r \in Outcomes, OpenInput(r) PROVE StopUnderWay'
  BY <1>16, QueueSeenAlone, Zenon DEF OpenInput
<1>17. ASSUME NEW r \in Outcomes, UndoDisplay(r) PROVE StopUnderWay'
  BY <1>17, QueueSeenAlone, Zenon DEF UndoDisplay
<1>18. ASSUME NEW r \in Outcomes, UndoWakeup(r) PROVE StopUnderWay'
  BY <1>18, QueueSeenAlone, Zenon DEF UndoWakeup
<1>19. ASSUME NEW r \in Outcomes, StopInput(r) PROVE StopUnderWay'
  BY <1>19, Zenon DEF StopInput, Place, Answer
<1>20. ASSUME NEW r \in Outcomes, Discard(r) PROVE StopUnderWay'
  BY <1>20, QueueSeenAlone, Zenon DEF Discard
<1>21. ASSUME NEW r \in Outcomes, FinishInput(r) PROVE StopUnderWay'
  BY <1>21, QueueSeenAlone, Zenon DEF FinishInput
<1>22. ASSUME NEW r \in Outcomes, FinishDisplay(r) PROVE StopUnderWay'
  BY <1>22, QueueSeenAlone, Zenon DEF FinishDisplay
<1>23. ASSUME NEW r \in Outcomes, FinishWakeup(r) PROVE StopUnderWay'
  BY <1>23, QueueSeenAlone, Zenon DEF FinishWakeup
<1>24. CASE UNCHANGED vars
  BY <1>24, QueueSeenAlone, Zenon DEF vars
<1> QED BY <1>1, <1>2, <1>3, <1>4, <1>5, <1>6, <1>7, <1>8, <1>9, <1>10, <1>11, <1>12,
           <1>13, <1>14, <1>15, <1>16, <1>17, <1>18, <1>19, <1>20, <1>21, <1>22, <1>23,
           <1>24, Zenon
        DEF Next, InOperation

(* Nothing is admitted to a queue that was emptied to stop.                *)
LEMMA EmptiedStep ==
  ASSUME QP!IInv, Flags, Types, Phases, OwnerFollows, QueueFollows, StopUnderWay, Emptied, Ports,
         [Next]_vars
   PROVE Emptied'
<1> USE DEF Types, Phases, OwnerFollows, QueueFollows, StopUnderWay, Emptied, OpenSteps, StopSteps,
        FinishSteps, InStop, InPump, At, Goto, Reply, flags, control, ports, QueueSeen, Place
<1>1. CASE QueueStep
  <2>0. UNCHANGED <<step, asked, lifecycle, stopPrepared>>
    BY <1>1 DEF QueueStep, flags, ports, control
  <2>1. CASE Q!OwnerInCall
    <3>1. OwnerMove
      BY <2>1, OwnerStepsAreMoves
    <3> QED BY <2>0, <3>1, QueueFacts, Zenon DEF OwnerMove, Return
  <2>2. CASE ~Q!OwnerInCall
    <3>1. ProducersMove
      BY <1>1, <2>2, ProducersLeaveTheOwner DEF QueueStep
    <3> QED BY <2>0, <3>1, Zenon DEF ProducersMove
  <2> QED BY <2>1, <2>2
<1>2. CASE Open
  BY <1>2, CallsEnter, Zenon DEF Open, Return
<1>3. CASE HostPump
  BY <1>3, CallsEnter, Zenon DEF HostPump, Return
<1>4. CASE FinishStop
  BY <1>4, QueueSeenAlone, Zenon DEF FinishStop
<1>5. ASSUME NEW p \in {"Drain", "Cancel"}, BeginStop(p) PROVE Emptied'
  BY <1>5, CallsEnter, Zenon DEF BeginStop, Return
<1>6. CASE BindReturns
  BY <1>6, QueueSeenAlone, Zenon DEF BindReturns, Answer
<1>7. CASE UndoStop
  BY <1>7, CallsEnter, Zenon DEF UndoStop, Return
<1>8. CASE UndoFinish
  BY <1>8, CallsEnter, Zenon DEF UndoFinish, Return
<1>9. CASE StopReturns
  BY <1>9, QueueSeenAlone, Zenon DEF StopReturns, Answer
<1>10. CASE DrainPass
  BY <1>10, CallsEnter, Zenon DEF DrainPass, Return
<1>11. CASE DrainReturns
  BY <1>11, QueueSeenAlone, Zenon DEF DrainReturns, Answer
<1>12. CASE DrainEnds
  BY <1>12, QueueSeenAlone, Zenon DEF DrainEnds
<1>13. CASE FinishQueue
  BY <1>13, CallsEnter, Zenon DEF FinishQueue, Return
<1>14. CASE FinishReturns
  BY <1>14, QueueSeenAlone, Zenon DEF FinishReturns, Answer
<1>15. ASSUME NEW r \in Outcomes, OpenDisplay(r) PROVE Emptied'
  BY <1>15, QueueSeenAlone, Zenon DEF OpenDisplay
<1>16. ASSUME NEW r \in Outcomes, OpenInput(r) PROVE Emptied'
  BY <1>16, QueueSeenAlone, Zenon DEF OpenInput
<1>17. ASSUME NEW r \in Outcomes, UndoDisplay(r) PROVE Emptied'
  BY <1>17, QueueSeenAlone, Zenon DEF UndoDisplay
<1>18. ASSUME NEW r \in Outcomes, UndoWakeup(r) PROVE Emptied'
  BY <1>18, QueueSeenAlone, Zenon DEF UndoWakeup
<1>19. ASSUME NEW r \in Outcomes, StopInput(r) PROVE Emptied'
  BY <1>19, Zenon DEF StopInput, Place, Answer
<1>20. ASSUME NEW r \in Outcomes, Discard(r) PROVE Emptied'
  BY <1>20, QueueSeenAlone, Zenon DEF Discard
<1>21. ASSUME NEW r \in Outcomes, FinishInput(r) PROVE Emptied'
  BY <1>21, QueueSeenAlone, Zenon DEF FinishInput
<1>22. ASSUME NEW r \in Outcomes, FinishDisplay(r) PROVE Emptied'
  BY <1>22, QueueSeenAlone, Zenon DEF FinishDisplay
<1>23. ASSUME NEW r \in Outcomes, FinishWakeup(r) PROVE Emptied'
  BY <1>23, QueueSeenAlone, Zenon DEF FinishWakeup
<1>24. CASE UNCHANGED vars
  BY <1>24, QueueSeenAlone, Zenon DEF vars
<1> QED BY <1>1, <1>2, <1>3, <1>4, <1>5, <1>6, <1>7, <1>8, <1>9, <1>10, <1>11, <1>12,
           <1>13, <1>14, <1>15, <1>16, <1>17, <1>18, <1>19, <1>20, <1>21, <1>22, <1>23,
           <1>24, Zenon
        DEF Next, InOperation

(* The ports open and close in their order.                                *)
LEMMA PortsStep ==
  ASSUME QP!IInv, Flags, Types, Phases, OwnerFollows, QueueFollows, StopUnderWay, Emptied, Ports,
         [Next]_vars
   PROVE Ports'
<1> USE DEF Flags, Types, Phases, QueueFollows, Ports, OpenSteps, StopSteps, FinishSteps,
        LifecycleStates, CloseAnswer, Closes, Outcomes, At, Goto, Reply, flags, control, ports
<1>1. CASE QueueStep
  BY <1>1, Zenon DEF QueueStep
<1>2. CASE Open
  BY <1>2, Zenon DEF Open
<1>3. CASE HostPump
  BY <1>3, Zenon DEF HostPump
<1>4. CASE FinishStop
  BY <1>4, Zenon DEF FinishStop
<1>5. ASSUME NEW p \in {"Drain", "Cancel"}, BeginStop(p) PROVE Ports'
  BY <1>5, Zenon DEF BeginStop
<1>6. CASE BindReturns
  BY <1>6, Zenon DEF BindReturns
<1>7. CASE UndoStop
  BY <1>7, Zenon DEF UndoStop
<1>8. CASE UndoFinish
  BY <1>8, Zenon DEF UndoFinish
<1>9. CASE StopReturns
  BY <1>9, Zenon DEF StopReturns
<1>10. CASE DrainPass
  BY <1>10, Zenon DEF DrainPass
<1>11. CASE DrainReturns
  BY <1>11, Zenon DEF DrainReturns
<1>12. CASE DrainEnds
  BY <1>12, Zenon DEF DrainEnds
<1>13. CASE FinishQueue
  BY <1>13, Zenon DEF FinishQueue
<1>14. CASE FinishReturns
  BY <1>14, Zenon DEF FinishReturns
<1>15. ASSUME NEW r \in Outcomes, OpenDisplay(r) PROVE Ports'
  BY <1>15, Zenon DEF OpenDisplay
<1>16. ASSUME NEW r \in Outcomes, OpenInput(r) PROVE Ports'
  BY <1>16, Zenon DEF OpenInput
<1>17. ASSUME NEW r \in Outcomes, UndoDisplay(r) PROVE Ports'
  BY <1>17, Zenon DEF UndoDisplay
<1>18. ASSUME NEW r \in Outcomes, UndoWakeup(r) PROVE Ports'
  BY <1>18, Zenon DEF UndoWakeup
<1>19. ASSUME NEW r \in Outcomes, StopInput(r) PROVE Ports'
  BY <1>19, Zenon DEF StopInput
<1>20. ASSUME NEW r \in Outcomes, Discard(r) PROVE Ports'
  BY <1>20, Zenon DEF Discard
<1>21. ASSUME NEW r \in Outcomes, FinishInput(r) PROVE Ports'
  BY <1>21, Zenon DEF FinishInput
<1>22. ASSUME NEW r \in Outcomes, FinishDisplay(r) PROVE Ports'
  BY <1>22, Zenon DEF FinishDisplay
<1>23. ASSUME NEW r \in Outcomes, FinishWakeup(r) PROVE Ports'
  BY <1>23, Zenon DEF FinishWakeup
<1>24. CASE UNCHANGED vars
  BY <1>24, Zenon DEF vars
<1> QED BY <1>1, <1>2, <1>3, <1>4, <1>5, <1>6, <1>7, <1>8, <1>9, <1>10, <1>11, <1>12,
           <1>13, <1>14, <1>15, <1>16, <1>17, <1>18, <1>19, <1>20, <1>21, <1>22, <1>23,
           <1>24, Zenon
        DEF Next, InOperation

(***************************************************************************)
(* The queue's invariant is kept by the whole system                       *)
(***************************************************************************)
(* Every step is a step of the queue, its wakeup, or leaves it alone.      *)
LEMMA StepsOfTheQueue ==
  ASSUME [Next]_vars
  PROVE  \/ QueueAction
         \/ UNCHANGED queueVars
         \/ /\ signal' = TRUE
            /\ UNCHANGED <<lock, state, stopPolicy, head, size, peak, storage, pc, hand, result,
                           call, attempts, accepted, ended, cancelled>>
<1>1. ASSUME NEW r \in Outcomes, StopInput(r)
      PROVE  \/ UNCHANGED queueVars
             \/ /\ signal' = TRUE
                /\ UNCHANGED <<lock, state, stopPolicy, head, size, peak, storage, pc, hand,
                               result, call, attempts, accepted, ended, cancelled>>
  BY <1>1, Zenon DEF StopInput, queueVars
<1>2. CASE QueueStep
  BY <1>2, Zenon DEF QueueStep, QueueAction
<1>3. Open \/ HostPump \/ UndoStop \/ UndoFinish \/ DrainPass \/ FinishQueue => QueueAction
  BY Zenon DEF Open, HostPump, UndoStop, UndoFinish, DrainPass, FinishQueue, CallQueue, QueueAction
<1>4. ASSUME NEW p \in {"Drain", "Cancel"}, BeginStop(p) PROVE QueueAction
  BY <1>4, Zenon DEF BeginStop, CallQueue, QueueAction
<1>5. FinishStop \/ BindReturns \/ StopReturns \/ DrainReturns \/ DrainEnds \/ FinishReturns
        => UNCHANGED queueVars
  BY Zenon DEF FinishStop, BindReturns, StopReturns, DrainReturns, DrainEnds, FinishReturns
<1>6. ASSUME NEW r \in Outcomes,
             \/ OpenDisplay(r) \/ OpenInput(r) \/ UndoDisplay(r) \/ UndoWakeup(r) \/ Discard(r)
             \/ FinishInput(r) \/ FinishDisplay(r) \/ FinishWakeup(r)
      PROVE  UNCHANGED queueVars
  BY <1>6, Zenon DEF OpenDisplay, OpenInput, UndoDisplay, UndoWakeup, Discard, FinishInput,
                     FinishDisplay, FinishWakeup
<1>7. CASE UNCHANGED vars
  BY <1>7, Zenon DEF vars
<1> QED BY <1>1, <1>2, <1>3, <1>4, <1>5, <1>6, <1>7, Zenon DEF Next, InOperation

(* So the invariant of the queue holds in every state of the system.       *)
LEMMA QueueStaysSound == ASSUME QP!IInv, [Next]_vars PROVE QP!IInv'
BY StepsOfTheQueue, QueueKeeps, QueueAlone, QueueNotified, Zenon

(* A task ends only in a call of the owner that has it in hand; a pump     *)
(* runs it and a stop cancels it.                                          *)
LEMMA WhoEndsTasks ==
  ASSUME QP!IInv, [Next]_vars
  PROVE  \/ UNCHANGED ended
         \/ /\ UNCHANGED <<flags, ports, control, device>> /\ Place = "run"
            /\ Len(ended') = Len(ended) + 1
            /\ call.op # "pump" => ended'[Len(ended')] \in cancelled'
<1>1. CASE QueueStep /\ Q!EndTask
  <2>1. Place = "run" /\ UNCHANGED <<flags, ports, control, device>>
    BY <1>1, Zenon DEF QueueStep, Q!EndTask, Place
  <2>2. hand[Owner] \in Tasks
    BY <1>1, QueueAssumption DEF Q!EndTask, QP!IInv, QP!TypeOK, QP!Hands, QP!Threads
  <2>3. ended \in Seq(Tasks) /\ ended' = Append(ended, hand[Owner])
    BY <1>1, QueueFacts DEF Q!EndTask
  <2>4. Len(ended') = Len(ended) + 1 /\ ended'[Len(ended')] = hand[Owner]
    BY <2>2, <2>3
  <2>5. call.op # "pump" => hand[Owner] \in cancelled'
    BY <1>1 DEF Q!EndTask
  <2> QED BY <2>1, <2>4, <2>5, Zenon
<1>2. CASE QueueStep /\ Q!OwnerInCall /\ ~Q!EndTask
  BY <1>2, Zenon DEF Q!OwnerInCall, Q!Bind, Q!PopEnter, Q!PopBusy, Q!PopTake, Q!PopEmpty,
       Q!BudgetSpent, Q!BeginStopReturns, Q!BeginStop, Q!RequestStop, Q!FinishStop, Q!history
<1>3. CASE QueueStep /\ ~Q!OwnerInCall
  <2>1. ProducersMove
    BY <1>3, ProducersLeaveTheOwner DEF QueueStep
  <2> QED BY <2>1 DEF ProducersMove
<1>4. CASE ~QueueStep
  <2>1. Open \/ HostPump \/ UndoStop \/ UndoFinish \/ DrainPass \/ FinishQueue
          => UNCHANGED ended
    BY Zenon DEF Open, HostPump, UndoStop, UndoFinish, DrainPass, FinishQueue, CallQueue,
         Q!BindEnter, Q!OwnerBusy, Q!PumpBegin, Q!BeginStopEnter, Q!FinishStopEnter, Q!history
  <2>2. ASSUME NEW p \in {"Drain", "Cancel"}, BeginStop(p) PROVE UNCHANGED ended
    BY <2>2, Zenon DEF BeginStop, CallQueue, Q!OwnerBusy, Q!BeginStopEnter, Q!history
  <2>3. FinishStop \/ BindReturns \/ StopReturns \/ DrainReturns \/ DrainEnds \/ FinishReturns
          => UNCHANGED ended
    BY Zenon DEF FinishStop, BindReturns, StopReturns, DrainReturns, DrainEnds, FinishReturns,
                 queueVars
  <2>4. ASSUME NEW r \in Outcomes,
               \/ OpenDisplay(r) \/ OpenInput(r) \/ UndoDisplay(r) \/ UndoWakeup(r)
               \/ StopInput(r) \/ Discard(r)
               \/ FinishInput(r) \/ FinishDisplay(r) \/ FinishWakeup(r)
        PROVE  UNCHANGED ended
    BY <2>4, Zenon DEF OpenDisplay, OpenInput, UndoDisplay, UndoWakeup, StopInput, Discard,
                       FinishInput, FinishDisplay, FinishWakeup, queueVars
  <2>5. UNCHANGED vars => UNCHANGED ended
    BY Zenon DEF vars, queueVars
  <2> QED BY <1>4, <2>1, <2>2, <2>3, <2>4, <2>5, Zenon DEF Next, InOperation
<1> QED BY <1>1, <1>2, <1>3, <1>4, Zenon

(* The mark is set to the length of the log, which only grows.             *)
LEMMA MarkStep == ASSUME QP!IInv, MarkIsPast, [Next]_vars PROVE MarkIsPast'
<1>1. /\ mark' = mark \/ (mark' = Len(ended) /\ UNCHANGED ended)
      /\ UNCHANGED ended \/ Len(ended') = Len(ended) + 1
  <2>1. UNCHANGED ended \/ Len(ended') = Len(ended) + 1
    BY WhoEndsTasks, Zenon
  <2>2. ASSUME DrainPass PROVE mark' = Len(ended) /\ UNCHANGED ended
    BY <2>2, Zenon DEF DrainPass, Q!PumpBegin, Q!history
  <2>3. ASSUME NEW p \in {"Drain", "Cancel"}, BeginStop(p) PROVE mark' = mark
    BY <2>3, Zenon DEF BeginStop
  <2>4. QueueStep \/ Open \/ HostPump \/ FinishStop \/ UNCHANGED vars => mark' = mark
    BY Zenon DEF QueueStep, Open, HostPump, FinishStop, vars, control, Goto, Reply
  <2>5. \/ BindReturns \/ UndoStop \/ UndoFinish \/ StopReturns \/ DrainReturns \/ DrainEnds
        \/ FinishQueue \/ FinishReturns
        => mark' = mark
    BY Zenon DEF BindReturns, UndoStop, UndoFinish, StopReturns, DrainReturns, DrainEnds,
                 FinishQueue, FinishReturns, Goto, Reply
  <2>6. ASSUME NEW r \in Outcomes,
               \/ OpenDisplay(r) \/ OpenInput(r) \/ UndoDisplay(r) \/ UndoWakeup(r)
               \/ StopInput(r) \/ Discard(r)
               \/ FinishInput(r) \/ FinishDisplay(r) \/ FinishWakeup(r)
        PROVE  mark' = mark
    BY <2>6, Zenon DEF OpenDisplay, OpenInput, UndoDisplay, UndoWakeup, StopInput, Discard,
                       FinishInput, FinishDisplay, FinishWakeup, Goto, Reply
  <2> QED BY <2>1, <2>2, <2>3, <2>4, <2>5, <2>6, Zenon DEF Next, InOperation
<1> QED BY <1>1, QueueFacts DEF MarkIsPast

(***************************************************************************)
(* The invariant, and what follows from it                                 *)
(***************************************************************************)
(* The constructed system satisfies the invariant.                         *)
LEMMA InitIInv == Init => IInv
<1> SUFFICES ASSUME Init PROVE IInv
  OBVIOUS
<1>1. QP!IInv
  <2>1. QP!Init
    BY DEF Init, Q!Init, QP!Init, Q!Slots, QP!Slots, Q!Threads, QP!Threads, Q!NoCall, QP!NoCall
  <2> QED BY <2>1, QueueAssumption, QP!InitIInv
<1>2. Place = "idle" /\ ended = <<>>
  BY QueueAssumption DEF Init, Q!Init, Q!Threads, Place
<1>3. MarkIsPast
  BY <1>2 DEF Init, MarkIsPast
<1>4. Flags /\ Phases /\ Emptied /\ StopUnderWay /\ Ports
  BY <1>2, Zenon DEF Init, Flags, Phases, Emptied, StopUnderWay, Ports, OpenSteps, StopSteps,
                     FinishSteps
<1>5. OwnerFollows /\ QueueFollows
  BY <1>2, Zenon DEF Init, OwnerFollows, QueueFollows
<1>6. Types
  BY QueueAssumption, DeviceAssumption DEF Init, Types, LifecycleStates, Steps
<1> QED BY <1>1, <1>3, <1>4, <1>5, <1>6 DEF IInv, Own

(* IInv is inductive.                                                      *)
LEMMA Inductive == IInv /\ [Next]_vars => IInv'
BY QueueStaysSound, MarkStep, FlagsStep, TypesStep, PhasesStep, OwnerFollowsStep,
   QueueFollowsStep, StopUnderWayStep, EmptiedStep, PortsStep, Zenon DEF IInv, Own

(* Every reachable state satisfies it.                                     *)
LEMMA Invariance == Spec => []IInv
BY InitIInv, Inductive, PTL DEF Spec

(* A stop that ended has closed the queue, run or cancelled every task it  *)
(* accepted and closed every port, for any number of producers, tasks and  *)
(* busy or failing devices (finishStop 114-168).                           *)
THEOREM StopReleases == Spec => []StopReleasesEverything
<1>1. ASSUME IInv PROVE StopReleasesEverything
  <2> USE <1>1
  <2>1. Q!TypeOK
    <3>1. QP!TypeOK
      BY DEF IInv, QP!IInv
    <3> QED BY <3>1 DEF Q!TypeOK, QP!TypeOK, Q!Slots, QP!Slots, Q!Threads, QP!Threads, Q!Calls,
          QP!Calls, Q!States, QP!States, Q!Policies, QP!Policies, Q!ProducerPlaces,
          QP!ProducerPlaces, Q!OwnerPlaces, QP!OwnerPlaces, Q!Results, QP!Results
  <2>2. TypeOK
    <3>1. {displayOpen, inputOpen, inputDiscarded, stopPrepared} \subseteq BOOLEAN
      BY Zenon DEF IInv, Own, Flags
    <3>2. Types /\ MarkIsPast
      BY DEF IInv, Own
    <3> QED BY <2>1, <3>1, <3>2, Zenon DEF TypeOK, Types, MarkIsPast
  <2>3. ASSUME lifecycle = "Closed", stopPrepared PROVE Released
    <3>1. state = "Closed" /\ input = "Closed" /\ display = "Closed" /\ wakeup = "Closed"
      BY <2>3, Zenon DEF IInv, Own, QueueFollows, Ports
    <3>2. size = 0 /\ Len(ended) = Len(accepted)
      BY <3>1, QueueFacts DEF IInv
    <3> QED BY <3>1, <3>2 DEF Released
  <2> QED BY <2>2, <2>3, Zenon DEF StopReleasesEverything
<1> QED BY <1>1, Invariance, PTL

(* A prepared stop has nothing left to run, cancelled nothing under Drain, *)
(* and its ports close in one order, the queue last (finishStop 129-164).  *)
THEOREM StopIsOrderly == Spec => []PreparedStopIsOrderly
<1>1. ASSUME IInv, stopPrepared
      PROVE  /\ size = 0 /\ (policy = "Drain" => cancelled = {})
             /\ display = "Closed" => input = "Closed"
             /\ wakeup = "Closed" => display = "Closed"
             /\ state = "Closed" => wakeup = "Closed"
  <2>1. lifecycle \in {"Stopping", "Closed"} /\ size = 0
    BY <1>1, Zenon DEF IInv, Own, Phases, Emptied
  <2>2. CASE lifecycle = "Stopping"
    <3>1. stopPolicy = policy /\ (cancelled # {} => stopPolicy = "Cancel")
      BY <1>1, <2>2, QueueFacts, Zenon DEF IInv, Own, QueueFollows
    <3>2. state = "Closed" => wakeup = "Closed"
      BY <1>1, <2>2, Zenon DEF IInv, Own, QueueFollows, Ports
    <3> QED BY <1>1, <2>1, <2>2, <3>1, <3>2, Zenon DEF IInv, Own, Ports
  <2>3. CASE lifecycle = "Closed"
    <3>1. stopPolicy = policy /\ (cancelled # {} => stopPolicy = "Cancel")
      BY <1>1, <2>3, QueueFacts, Zenon DEF IInv, Own, QueueFollows
    <3> QED BY <1>1, <2>1, <2>3, <3>1, Zenon DEF IInv, Own, Ports
  <2> QED BY <2>1, <2>2, <2>3
<1> QED BY <1>1, Invariance, PTL DEF PreparedStopIsOrderly

(* Every task that runs finds its display open and its input not closed:   *)
(* pumps happen before the stop is prepared, closes after it.              *)
THEOREM TasksFindTheirBackends == Spec => NothingRunsOnClosedBackends
<1>1. ASSUME IInv, [Next]_vars, NEW i \in 1..Len(ended'), i > Len(ended),
             ended'[i] \notin cancelled'
      PROVE  display = "Running" /\ input # "Closed"
  <2>1. /\ Place = "run" /\ i = Len(ended')
        /\ call.op # "pump" => ended'[Len(ended')] \in cancelled'
    <3>1. ~UNCHANGED ended
      BY <1>1, QueueFacts DEF IInv
    <3>2. Place = "run" /\ Len(ended') = Len(ended) + 1
          /\ (call.op # "pump" => ended'[Len(ended')] \in cancelled')
      BY <1>1, <3>1, WhoEndsTasks, Zenon DEF IInv
    <3> QED BY <1>1, <3>2, QueueFacts DEF IInv
  <2>2. Place = "run" /\ call.op = "pump"
    BY <1>1, <2>1, Zenon
  <2>3. lifecycle \in {"Running", "Stopping"}
    BY <1>1, <2>2, Zenon DEF IInv, Own, Phases, StopSteps, OwnerFollows
  <2>4. ~stopPrepared
    BY <1>1, <2>2, Zenon DEF IInv, Own, Emptied
  <2> QED BY <1>1, <2>3, <2>4, Zenon DEF IInv, Own, Ports
<1>2. IInv /\ [Next]_vars =>
        ((\E i \in 1..Len(ended') : i > Len(ended) /\ ended'[i] \notin cancelled')
           => display = "Running" /\ input # "Closed")
  BY <1>1, Zenon
<1> QED BY <1>2, Invariance, PTL DEF Spec, NothingRunsOnClosedBackends

(* Each step of the coordinator is a step of its contract or a stutter.    *)
LEMMA StepsRefine ==
  ASSUME IInv, [Next]_vars
  PROVE  [Contract!Next]_(Contract!contractVars)
<1> DEFINE Kept == UNCHANGED <<lifecycle, stopPrepared>>
<1>1. Kept => [Contract!Next]_(Contract!contractVars)
  BY Zenon DEF Contract!contractVars
<1>2. Phases /\ Flags
  BY DEF IInv, Own
<1>3. QueueStep \/ Open \/ HostPump \/ FinishStop \/ UNCHANGED vars => Kept
  BY Zenon DEF QueueStep, Open, HostPump, FinishStop, vars, flags
<1>4. ASSUME NEW p \in {"Drain", "Cancel"}, BeginStop(p) PROVE Kept
  BY <1>4, Zenon DEF BeginStop, flags
<1>5. UndoStop \/ UndoFinish \/ DrainPass \/ DrainReturns \/ DrainEnds \/ FinishQueue => Kept
  BY Zenon DEF UndoStop, UndoFinish, DrainPass, DrainReturns, DrainEnds, FinishQueue, flags
<1>6. ASSUME NEW r \in Outcomes,
             \/ OpenDisplay(r) \/ UndoDisplay(r) \/ StopInput(r)
             \/ FinishInput(r) \/ FinishDisplay(r) \/ FinishWakeup(r)
      PROVE  Kept
  BY <1>6, Zenon DEF OpenDisplay, UndoDisplay, StopInput, FinishInput, FinishDisplay, FinishWakeup
<1>7. CASE BindReturns
  <2>1. lifecycle = "Constructed"
    BY <1>2, <1>7, Zenon DEF BindReturns, At, Phases, OpenSteps
  <2> QED BY <1>1, <1>7, <2>1, Zenon DEF BindReturns, Contract!Next, Contract!OpenFails
<1>8. ASSUME NEW r \in Outcomes, OpenInput(r)
      PROVE  [Contract!Next]_(Contract!contractVars)
  <2>1. lifecycle = "Constructed"
    BY <1>2, <1>8, Zenon DEF OpenInput, At, Phases, OpenSteps
  <2> QED BY <1>1, <1>8, <2>1, Zenon DEF OpenInput, Contract!Next, Contract!Open
<1>9. ASSUME NEW r \in Outcomes, UndoWakeup(r)
      PROVE  [Contract!Next]_(Contract!contractVars)
  <2>1. lifecycle = "Constructed"
    BY <1>2, <1>9, Zenon DEF UndoWakeup, At, Phases, OpenSteps
  <2> QED BY <1>9, <2>1, Zenon DEF UndoWakeup, Contract!Next, Contract!OpenFails
<1>10. CASE StopReturns
  <2>1. lifecycle \in {"Running", "Stopping"}
    BY <1>2, <1>10, Zenon DEF StopReturns, At, Phases
  <2> QED BY <1>1, <1>10, <2>1, Zenon DEF StopReturns, Contract!Next, Contract!Begin
<1>11. ASSUME NEW r \in Outcomes, Discard(r)
       PROVE  [Contract!Next]_(Contract!contractVars)
  <2>1. lifecycle = "Stopping"
    BY <1>2, <1>11, Zenon DEF Discard, At, Phases, StopSteps
  <2> QED BY <1>1, <1>11, <2>1, Zenon DEF Discard, Contract!Next, Contract!Prepare
<1>12. CASE FinishReturns
  <2>1. lifecycle = "Stopping" /\ stopPrepared
    BY <1>2, <1>12, Zenon DEF FinishReturns, At, Phases, FinishSteps
  <2> QED BY <1>1, <1>12, <2>1, Zenon DEF FinishReturns, Contract!Next, Contract!Finish
<1> QED BY <1>1, <1>3, <1>4, <1>5, <1>6, <1>7, <1>8, <1>9, <1>10, <1>11, <1>12, Zenon
        DEF Next, InOperation

(* The coordinator keeps its contract whatever the devices answer and      *)
(* wherever kBusy interrupts a stop (src/backend_lifecycle.cpp 34-178).    *)
THEOREM CoordinatorKeepsContract == Spec => ImplementsContract
<1>1. Init => Contract!Init
  BY Zenon DEF Init, Contract!Init
<1>2. IInv /\ [Next]_vars => [Contract!Next]_(Contract!contractVars)
  BY StepsRefine
<1> QED BY <1>1, <1>2, Invariance, PTL DEF Spec, ImplementsContract, Contract!Spec

=============================================================================
