------------------------ MODULE OwnerTaskQueueProofs ------------------------
(***************************************************************************)
(* Proofs about OwnerTaskQueue for every number of producers and tasks,    *)
(* every capacity and every budget.  IInv is inductive; each conjunct has  *)
(* a lemma of its own, and the safety properties follow from it.           *)
(***************************************************************************)
EXTENDS OwnerTaskQueue, TLAPS

(***************************************************************************)
(* The inductive invariant                                                 *)
(***************************************************************************)

(* How many accepted tasks have left the ring.                             *)
Taken == Len(ended) + (IF pc[Owner] = "run" THEN 1 ELSE 0)

(* A thread holds a task exactly while it is posting or ending it.         *)
Hands ==
  /\ \A p \in Producers : hand[p] # NoTask <=> pc[p] = "critical"
  /\ hand[Owner] # NoTask <=> pc[Owner] = "run"

(* ended, the task in hand and the ring, position by position.             *)
RingHoldsBacklog ==
  /\ Len(accepted) = Taken + size
  /\ \A i \in 1..Len(ended) : ended[i] = accepted[i]
  /\ pc[Owner] = "run" => hand[Owner] = accepted[Taken]
  /\ \A i \in 1..size : storage[(head + i - 1) % Capacity] = accepted[Taken + i]

(* The task a producer is about to store was never accepted.               *)
Fresh ==
  \A p \in Producers : pc[p] = "critical" => \A i \in 1..Len(accepted) : accepted[i] # hand[p]

(* Where the owner is in its call, and what the state is meanwhile.        *)
OwnerPhases ==
  /\ pc[Owner] \in {"pop", "run"} => call.left > 0
  /\ pc[Owner] = "bind" => state = "Constructed"
  /\ pc[Owner] = "requestStop" => state = "Stopping" /\ stopPolicy = call.policy
  /\ (pc[Owner] \in {"tryPop", "pop", "run"} /\ call.op # "pump")
       => state = "Stopping" /\ stopPolicy = "Cancel"
  /\ cancelled # {} => state \in {"Stopping", "Closed"} /\ stopPolicy = "Cancel"
  /\ pc[Owner] = "asleep" => state = "Running"

ClosedStaysEmpty == state = "Closed" => size = 0 /\ pc[Owner] # "run"

(* A post that found the queue empty has notified or is about to.          *)
NotificationDue == signal \/ \E p \in Producers : pc[p] \in {"leaveAndWake", "notify"}

(* Work never waits unannounced once the owner may decide to sleep.        *)
WorkIsAnnounced ==
  /\ \/ pc[Owner] = "asleep"
     \/ pc[Owner] = "idle" /\ result[Owner] = "ok" /\ state = "Running"
  /\ size > 0
  => NotificationDue

IInv ==
  /\ TypeOK /\ MutualExclusion /\ Hands /\ RingHoldsBacklog /\ Fresh
  /\ OwnerPhases /\ ClosedStaysEmpty /\ WorkIsAnnounced

(***************************************************************************)
(* Arithmetic of the ring                                                  *)
(***************************************************************************)
(* A number below the modulus is its own remainder.                        *)
LEMMA ModLow == ASSUME NEW n \in Nat \ {0}, NEW x \in 0..(n - 1) PROVE x % n = x
OBVIOUS

(* One turn past the modulus is taken off.                                *)
LEMMA ModHigh ==
  ASSUME NEW n \in Nat \ {0}, NEW k \in 0..(n - 1) PROVE (n + k) % n = k
OBVIOUS

(* An offset into the ring, without the remainder.                         *)
LEMMA SlotOf ==
  ASSUME NEW h \in Slots, NEW i \in Slots
  PROVE  (h + i) % Capacity = IF h + i < Capacity THEN h + i ELSE h + i - Capacity
<1>1. CASE h + i < Capacity
  <2>1. h + i \in 0..(Capacity - 1)
    BY <1>1, CapacityAssumption DEF Slots
  <2> QED BY <1>1, <2>1, ModLow, CapacityAssumption
<1>2. CASE ~(h + i < Capacity)
  <2>1. PICK k \in 0..(Capacity - 1) : h + i = Capacity + k
    BY <1>2, CapacityAssumption DEF Slots
  <2>2. (Capacity + k) % Capacity = k
    BY ModHigh, CapacityAssumption
  <2> QED BY <1>2, <2>1, <2>2, CapacityAssumption DEF Slots
<1> QED BY <1>1, <1>2

(* An offset into the ring is a slot of it.                                *)
LEMMA SlotInRange ==
  ASSUME NEW h \in Slots, NEW i \in Slots
  PROVE  (h + i) % Capacity \in Slots
<1>1. (h + i) % Capacity = IF h + i < Capacity THEN h + i ELSE h + i - Capacity
  BY SlotOf
<1> QED BY <1>1, CapacityAssumption DEF Slots

(* The oldest task is at the head.                                         *)
LEMMA FirstSlot == ASSUME NEW h \in Slots PROVE (h + 1 - 1) % Capacity = h
<1>1. h \in 0..(Capacity - 1) /\ h + 1 - 1 = h
  BY CapacityAssumption DEF Slots
<1> QED BY <1>1, ModLow, CapacityAssumption

(* Two different offsets below the capacity are two different slots.       *)
LEMMA SlotsDiffer ==
  ASSUME NEW h \in Slots, NEW i \in Slots, NEW j \in Slots, i # j
  PROVE  /\ (h + i) % Capacity \in Slots
         /\ (h + i) % Capacity # (h + j) % Capacity
<1>1. (h + i) % Capacity = IF h + i < Capacity THEN h + i ELSE h + i - Capacity
  BY SlotOf
<1>2. (h + j) % Capacity = IF h + j < Capacity THEN h + j ELSE h + j - Capacity
  BY SlotOf
<1> QED BY <1>1, <1>2, CapacityAssumption DEF Slots

(* Advancing the head by one shifts every offset by one.                   *)
LEMMA HeadAdvances ==
  ASSUME NEW h \in Slots, NEW i \in Nat, i + 1 < Capacity
  PROVE  /\ (h + 1) % Capacity \in Slots
         /\ (((h + 1) % Capacity) + i) % Capacity = (h + i + 1) % Capacity
<1>1. 1 \in Slots /\ i \in Slots /\ i + 1 \in Slots
  BY CapacityAssumption DEF Slots
<1>2. (h + 1) % Capacity = IF h + 1 < Capacity THEN h + 1 ELSE h + 1 - Capacity
  BY <1>1, SlotOf
<1>3. (h + 1) % Capacity \in Slots
  BY <1>2, <1>1, CapacityAssumption DEF Slots
<1>4. (((h + 1) % Capacity) + i) % Capacity
        = IF ((h + 1) % Capacity) + i < Capacity THEN ((h + 1) % Capacity) + i
                                               ELSE ((h + 1) % Capacity) + i - Capacity
  BY <1>1, <1>3, SlotOf
<1>5. (h + (i + 1)) % Capacity
        = IF h + (i + 1) < Capacity THEN h + (i + 1) ELSE h + (i + 1) - Capacity
  BY <1>1, SlotOf
<1> QED BY <1>2, <1>3, <1>4, <1>5, CapacityAssumption DEF Slots

(***************************************************************************)
(* Every step preserves every conjunct of IInv                             *)
(***************************************************************************)
(* The constructed queue satisfies the invariant.                          *)
LEMMA InitIInv == Init => IInv
<1> SUFFICES ASSUME Init PROVE IInv
  OBVIOUS
<1> USE ThreadAssumption, TaskAssumption, CapacityAssumption, AttemptsAssumption DEF Init
<1>1. TypeOK
  <2>1. call \in Calls
    BY DEF Calls, NoCall, Policies
  <2>2. /\ storage \in [Slots -> Tasks \cup {NoTask}]
        /\ head \in Slots /\ size \in 0..Capacity /\ peak \in size..Capacity
    BY DEF Slots
  <2>3. /\ pc \in [Threads -> ProducerPlaces \cup OwnerPlaces]
        /\ hand \in [Threads -> Tasks \cup {NoTask}]
        /\ result \in [Threads -> Results]
    BY DEF Results, ProducerPlaces, OwnerPlaces
  <2>4. attempts \in [Tasks -> 0..MaxAttempts]
    OBVIOUS
  <2>5. /\ lock \in Threads \cup {NoThread} /\ signal \in BOOLEAN
        /\ state \in States /\ stopPolicy \in Policies
    BY DEF States, Policies
  <2>6. accepted \in Seq(Tasks) /\ ended \in Seq(Tasks) /\ cancelled \subseteq Tasks
    OBVIOUS
  <2> QED BY <2>1, <2>2, <2>3, <2>4, <2>5, <2>6 DEF TypeOK
<1>2. MutualExclusion
  BY DEF MutualExclusion, Inside, Threads
<1>3. Hands /\ Fresh
  BY DEF Hands, Fresh, Threads
<1>4. RingHoldsBacklog
  BY DEF RingHoldsBacklog, Taken, Threads
<1>5. OwnerPhases /\ ClosedStaysEmpty /\ WorkIsAnnounced
  BY DEF OwnerPhases, ClosedStaysEmpty, WorkIsAnnounced, Threads
<1> QED BY <1>1, <1>2, <1>3, <1>4, <1>5 DEF IInv

(* Every step keeps every variable in its type; only a store, a task that  *)
(* ends and the budget it spends need more than the shape of the step.     *)
LEMMA TypeStep ==
  ASSUME TypeOK, Hands, OwnerPhases, [Next]_vars
  PROVE  TypeOK'
<1> USE ThreadAssumption, TaskAssumption, CapacityAssumption, BudgetAssumption,
    AttemptsAssumption DEF TypeOK, Threads, Slots, States, Policies, Results, ProducerPlaces,
    OwnerPlaces,
            Calls, NoCall, ring, history
<1>1. ASSUME NEW p \in Producers, PostReject(p) PROVE TypeOK'
  BY <1>1 DEF PostReject, Verdict, Return
<1>2. ASSUME NEW p \in Producers, PostAccept(p) PROVE TypeOK'
  <2>0. size \in Slots /\ size + 1 \in 0..Capacity
    BY <1>2 DEF PostAccept, Verdict
  <2>1. TailSlot \in Slots
    BY <2>0, SlotOf DEF TailSlot
  <2>2. hand[p] \in Tasks
    BY <1>2 DEF PostAccept, Hands
  <2>3. storage' \in [Slots -> Tasks \cup {NoTask}] /\ accepted' \in Seq(Tasks)
    BY <1>2, <2>1, <2>2 DEF PostAccept
  <2>4. result' \in [Threads -> Results]
    BY <1>2 DEF PostAccept, Return
  <2> QED BY <1>2, <2>0, <2>3, <2>4 DEF PostAccept
<1>3. ASSUME NEW p \in Producers, PostLeave(p) PROVE TypeOK'
  BY <1>3 DEF PostLeave, Leave
<1>4. ASSUME NEW p \in Producers, PostNotify(p) PROVE TypeOK'
  BY <1>4 DEF PostNotify
<1>5. ASSUME NEW p \in Producers, NEW t \in Tasks, PostEnter(p, t) PROVE TypeOK'
  BY <1>5 DEF PostEnter, Postable, Enter
<1>6. ASSUME NEW p \in Producers, NEW t \in Tasks, PostBusy(p, t) PROVE TypeOK'
  BY <1>6 DEF PostBusy, Postable, Return
<1>7. CASE Bind
  BY <1>7 DEF Bind, Leave, Return
<1>8. CASE PopEnter
  BY <1>8 DEF PopEnter, Enter
<1>9. CASE PopBusy
  BY <1>9 DEF PopBusy, OwnerReturns, Return
<1>10. CASE PopTake
  BY <1>10 DEF PopTake, Leave
<1>11. CASE PopEmpty
  BY <1>11 DEF PopEmpty, OwnerReturns, Return
<1>12. CASE EndTask
  <2>1. hand[Owner] \in Tasks /\ call.left - 1 \in Nat
    BY <1>12 DEF EndTask, Hands, OwnerPhases
  <2>2. call' \in Calls
    BY <1>12, <2>1 DEF EndTask
  <2>3. ended' \in Seq(Tasks) /\ cancelled' \subseteq Tasks
    BY <1>12, <2>1 DEF EndTask
  <2> QED BY <1>12, <2>2, <2>3 DEF EndTask
<1>13. CASE BudgetSpent
  BY <1>13 DEF BudgetSpent, OwnerReturns, Return
<1>14. CASE BeginStopReturns
  BY <1>14 DEF BeginStopReturns, OwnerReturns, Return
<1>15. CASE BeginStop
  BY <1>15 DEF BeginStop, Leave
<1>16. CASE RequestStop
  BY <1>16 DEF RequestStop, OwnerReturns, Return
<1>17. CASE FinishStop
  BY <1>17 DEF FinishStop, Leave, Return, Finishable
<1>18. CASE BindEnter
  BY <1>18 DEF BindEnter, Enter
<1>19. CASE PumpRefused
  BY <1>19 DEF PumpRefused, Return, PumpAllowed
<1>20. CASE FinishStopEnter
  BY <1>20 DEF FinishStopEnter, Enter
<1>21. CASE OwnerBusy
  BY <1>21 DEF OwnerBusy, Return
<1>22. CASE Sleep
  BY <1>22 DEF Sleep
<1>23. CASE Wake
  BY <1>23 DEF Wake, Return
<1>24. ASSUME NEW n \in 0..MaxTasksPerPump, PumpBegin(n) PROVE TypeOK'
  BY <1>24 DEF PumpBegin, PumpAllowed
<1>25. ASSUME NEW policy \in Policies, BeginStopEnter(policy) PROVE TypeOK'
  BY <1>25 DEF BeginStopEnter, Enter
<1>26. CASE UNCHANGED vars
  BY <1>26 DEF vars
<1> QED BY <1>1, <1>2, <1>3, <1>4, <1>5, <1>6, <1>7, <1>8, <1>9, <1>10, <1>11, <1>12, <1>13,
    <1>14,
           <1>15, <1>16, <1>17, <1>18, <1>19, <1>20, <1>21, <1>22, <1>23, <1>24, <1>25, <1>26
         DEF Next, ProducerStep, OwnerInCall, OwnerCalls

(* Whoever enters found the lock free; whoever leaves was inside.          *)
LEMMA MutexStep ==
  ASSUME TypeOK, MutualExclusion, [Next]_vars
  PROVE  MutualExclusion'
<1> USE ThreadAssumption DEF MutualExclusion, Inside, TypeOK, Threads, ring, history
<1>1. ASSUME NEW p \in Producers, PostReject(p) PROVE MutualExclusion'
  BY <1>1 DEF PostReject, Verdict, Return
<1>2. ASSUME NEW p \in Producers, PostAccept(p) PROVE MutualExclusion'
  BY <1>2 DEF PostAccept, Verdict, ShouldWake, TailSlot, Return
<1>3. ASSUME NEW p \in Producers, PostLeave(p) PROVE MutualExclusion'
  BY <1>3 DEF PostLeave, Leave
<1>4. ASSUME NEW p \in Producers, PostNotify(p) PROVE MutualExclusion'
  BY <1>4 DEF PostNotify
<1>5. ASSUME NEW p \in Producers, NEW t \in Tasks, PostEnter(p, t) PROVE MutualExclusion'
  BY <1>5 DEF PostEnter, Postable, Enter
<1>6. ASSUME NEW p \in Producers, NEW t \in Tasks, PostBusy(p, t) PROVE MutualExclusion'
  BY <1>6 DEF PostBusy, Postable, Return
<1>7. CASE Bind
  BY <1>7 DEF Bind, Leave, Return
<1>8. CASE PopEnter
  BY <1>8 DEF PopEnter, Enter
<1>9. CASE PopBusy
  BY <1>9 DEF PopBusy, OwnerReturns, Return
<1>10. CASE PopTake
  BY <1>10 DEF PopTake, Leave
<1>11. CASE PopEmpty
  BY <1>11 DEF PopEmpty, OwnerReturns, Return
<1>12. CASE EndTask
  BY <1>12 DEF EndTask
<1>13. CASE BudgetSpent
  BY <1>13 DEF BudgetSpent, OwnerReturns, Return
<1>14. CASE BeginStopReturns
  BY <1>14 DEF BeginStopReturns, OwnerReturns, Return
<1>15. CASE BeginStop
  BY <1>15 DEF BeginStop, Leave
<1>16. CASE RequestStop
  BY <1>16 DEF RequestStop, OwnerReturns, Return
<1>17. CASE FinishStop
  BY <1>17 DEF FinishStop, Leave, Return, Finishable
<1>18. CASE BindEnter
  BY <1>18 DEF BindEnter, Enter
<1>19. CASE PumpRefused
  BY <1>19 DEF PumpRefused, Return, PumpAllowed
<1>20. CASE FinishStopEnter
  BY <1>20 DEF FinishStopEnter, Enter
<1>21. CASE OwnerBusy
  BY <1>21 DEF OwnerBusy, Return
<1>22. CASE Sleep
  BY <1>22 DEF Sleep
<1>23. CASE Wake
  BY <1>23 DEF Wake, Return
<1>24. ASSUME NEW n \in 0..MaxTasksPerPump, PumpBegin(n) PROVE MutualExclusion'
  BY <1>24 DEF PumpBegin, PumpAllowed
<1>25. ASSUME NEW policy \in Policies, BeginStopEnter(policy) PROVE MutualExclusion'
  BY <1>25 DEF BeginStopEnter, Enter
<1>26. CASE UNCHANGED vars
  BY <1>26 DEF vars
<1> QED BY <1>1, <1>2, <1>3, <1>4, <1>5, <1>6, <1>7, <1>8, <1>9, <1>10, <1>11, <1>12, <1>13,
    <1>14,
           <1>15, <1>16, <1>17, <1>18, <1>19, <1>20, <1>21, <1>22, <1>23, <1>24, <1>25, <1>26
         DEF Next, ProducerStep, OwnerInCall, OwnerCalls

(* The oldest slot of a non-empty ring holds a task (tryPop 195).          *)
LEMMA HandsStep ==
  ASSUME TypeOK, Hands, RingHoldsBacklog, [Next]_vars
  PROVE  Hands'
<1> USE ThreadAssumption, TaskAssumption DEF Hands, TypeOK, Threads, ring, history
<1>1. ASSUME NEW p \in Producers, PostReject(p) PROVE Hands'
  BY <1>1 DEF PostReject, Verdict, Return
<1>2. ASSUME NEW p \in Producers, PostAccept(p) PROVE Hands'
  BY <1>2 DEF PostAccept, Verdict, ShouldWake, TailSlot, Return
<1>3. ASSUME NEW p \in Producers, PostLeave(p) PROVE Hands'
  BY <1>3 DEF PostLeave, Leave
<1>4. ASSUME NEW p \in Producers, PostNotify(p) PROVE Hands'
  BY <1>4 DEF PostNotify
<1>5. ASSUME NEW p \in Producers, NEW t \in Tasks, PostEnter(p, t) PROVE Hands'
  BY <1>5 DEF PostEnter, Postable, Enter
<1>6. ASSUME NEW p \in Producers, NEW t \in Tasks, PostBusy(p, t) PROVE Hands'
  BY <1>6 DEF PostBusy, Postable, Return
<1>7. CASE Bind
  BY <1>7 DEF Bind, Leave, Return
<1>8. CASE PopEnter
  BY <1>8 DEF PopEnter, Enter
<1>9. CASE PopBusy
  BY <1>9 DEF PopBusy, OwnerReturns, Return
<1>10. CASE PopTake
  <2>1. size \in Nat /\ size > 0 /\ Taken \in Nat /\ Len(accepted) = Taken + size
    BY <1>10 DEF PopTake, RingHoldsBacklog, Taken
  <2>2. storage[(head + 1 - 1) % Capacity] = accepted[Taken + 1]
    <3>1. 1 \in 1..size
      BY <2>1
    <3> QED BY <3>1 DEF RingHoldsBacklog
  <2>3. (head + 1 - 1) % Capacity = head
    BY FirstSlot
  <2>4. accepted[Taken + 1] \in Tasks
    BY <2>1
  <2> QED BY <1>10, <2>2, <2>3, <2>4 DEF PopTake, Leave
<1>11. CASE PopEmpty
  BY <1>11 DEF PopEmpty, OwnerReturns, Return
<1>12. CASE EndTask
  BY <1>12 DEF EndTask
<1>13. CASE BudgetSpent
  BY <1>13 DEF BudgetSpent, OwnerReturns, Return
<1>14. CASE BeginStopReturns
  BY <1>14 DEF BeginStopReturns, OwnerReturns, Return
<1>15. CASE BeginStop
  BY <1>15 DEF BeginStop, Leave
<1>16. CASE RequestStop
  BY <1>16 DEF RequestStop, OwnerReturns, Return
<1>17. CASE FinishStop
  BY <1>17 DEF FinishStop, Leave, Return, Finishable
<1>18. CASE BindEnter
  BY <1>18 DEF BindEnter, Enter
<1>19. CASE PumpRefused
  BY <1>19 DEF PumpRefused, Return, PumpAllowed
<1>20. CASE FinishStopEnter
  BY <1>20 DEF FinishStopEnter, Enter
<1>21. CASE OwnerBusy
  BY <1>21 DEF OwnerBusy, Return
<1>22. CASE Sleep
  BY <1>22 DEF Sleep
<1>23. CASE Wake
  BY <1>23 DEF Wake, Return
<1>24. ASSUME NEW n \in 0..MaxTasksPerPump, PumpBegin(n) PROVE Hands'
  BY <1>24 DEF PumpBegin, PumpAllowed
<1>25. ASSUME NEW policy \in Policies, BeginStopEnter(policy) PROVE Hands'
  BY <1>25 DEF BeginStopEnter, Enter
<1>26. CASE UNCHANGED vars
  BY <1>26 DEF vars
<1> QED BY <1>1, <1>2, <1>3, <1>4, <1>5, <1>6, <1>7, <1>8, <1>9, <1>10, <1>11, <1>12, <1>13,
    <1>14,
           <1>15, <1>16, <1>17, <1>18, <1>19, <1>20, <1>21, <1>22, <1>23, <1>24, <1>25, <1>26
         DEF Next, ProducerStep, OwnerInCall, OwnerCalls

(* The ring holds the backlog in order: a store goes behind the youngest   *)
(* task, a take removes the oldest, and neither touches another slot.      *)
LEMMA RingStep ==
  ASSUME TypeOK, Hands, RingHoldsBacklog, [Next]_vars
  PROVE  RingHoldsBacklog'
<1> USE ThreadAssumption, TaskAssumption DEF TypeOK, Threads, ring, history
<1>1. ASSUME NEW p \in Producers, PostReject(p) PROVE RingHoldsBacklog'
  <2>1. /\ UNCHANGED <<head, size, storage, accepted, ended, hand[Owner]>>
        /\ pc[Owner] = "run" <=> pc'[Owner] = "run"
    BY <1>1 DEF PostReject, Verdict, Return
  <2> QED BY <2>1 DEF RingHoldsBacklog, Taken
<1>2. ASSUME NEW p \in Producers, PostAccept(p) PROVE RingHoldsBacklog'
  <2>0. size \in Slots /\ size \in Nat /\ size < Capacity /\ hand[p] \in Tasks
    <3>1. hand[p] \in Tasks
      BY <1>2 DEF PostAccept, Hands
    <3>2. size \in 0..Capacity /\ size # Capacity
      BY <1>2 DEF PostAccept, Verdict
    <3> QED BY <3>1, <3>2, CapacityAssumption DEF Slots
  <2>1. /\ size' = size + 1
        /\ storage' = [storage EXCEPT ![(head + size) % Capacity] = hand[p]]
        /\ accepted' = Append(accepted, hand[p])
        /\ UNCHANGED <<head, ended>> /\ pc'[Owner] = pc[Owner] /\ hand'[Owner] = hand[Owner]
    BY <1>2 DEF PostAccept, TailSlot
  <2>2. Taken' = Taken /\ Taken \in Nat
    BY <2>1 DEF Taken
  <2>3. Len(accepted) = Taken + size /\ Len(accepted') = Taken' + size'
    BY <2>0, <2>1, <2>2 DEF RingHoldsBacklog
  <2>4. \A i \in 1..Len(ended') : ended'[i] = accepted'[i]
    <3>1. Len(ended) \in Nat /\ Len(accepted) \in Nat /\ Len(ended) <= Len(accepted)
      BY <2>0, <2>2, <2>3 DEF Taken
    <3>2. \A i \in 1..Len(accepted) : accepted'[i] = accepted[i]
      BY <2>1
    <3> QED BY <2>1, <3>1, <3>2 DEF RingHoldsBacklog
  <2>5. pc'[Owner] = "run" => hand'[Owner] = accepted'[Taken']
    BY <2>0, <2>1, <2>2, <2>3 DEF RingHoldsBacklog, Taken
  <2>6. ASSUME NEW i \in 1..size'
        PROVE  storage'[(head' + i - 1) % Capacity] = accepted'[Taken' + i]
    <3>1. CASE i = size + 1
      <4>1. (head + size) % Capacity \in Slots
        BY <2>0, SlotInRange
      <4>2. (head' + i - 1) % Capacity = (head + size) % Capacity
        BY <2>1, <3>1 DEF Slots
      <4>3. accepted'[Taken' + i] = hand[p]
        BY <2>0, <2>1, <2>2, <2>3, <3>1
      <4> QED BY <2>1, <4>1, <4>2, <4>3
    <3>2. CASE i # size + 1
      <4>1. i \in 1..size /\ i - 1 \in Slots /\ i - 1 # size
        BY <2>0, <2>1, <2>6, <3>2, CapacityAssumption DEF Slots
      <4>2. /\ (head + (i - 1)) % Capacity \in Slots
            /\ (head + (i - 1)) % Capacity # (head + size) % Capacity
        BY <2>0, <4>1, SlotsDiffer
      <4>3. head + (i - 1) = head + i - 1 /\ head' = head
        BY <2>1, <4>1 DEF Slots
      <4>4. storage'[(head' + i - 1) % Capacity] = storage[(head + i - 1) % Capacity]
        BY <2>1, <4>2, <4>3
      <4>5. accepted'[Taken' + i] = accepted[Taken + i]
        <5>1. Taken + i \in 1..Len(accepted)
          BY <2>0, <2>2, <2>3, <4>1
        <5> QED BY <2>0, <2>1, <2>2, <5>1
      <4> QED BY <4>1, <4>4, <4>5 DEF RingHoldsBacklog
    <3> QED BY <3>1, <3>2
  <2> QED BY <2>3, <2>4, <2>5, <2>6 DEF RingHoldsBacklog
<1>3. ASSUME NEW p \in Producers, PostLeave(p) PROVE RingHoldsBacklog'
  <2>1. /\ UNCHANGED <<head, size, storage, accepted, ended, hand[Owner]>>
        /\ pc[Owner] = "run" <=> pc'[Owner] = "run"
    BY <1>3 DEF PostLeave, Leave
  <2> QED BY <2>1 DEF RingHoldsBacklog, Taken
<1>4. ASSUME NEW p \in Producers, PostNotify(p) PROVE RingHoldsBacklog'
  <2>1. /\ UNCHANGED <<head, size, storage, accepted, ended, hand[Owner]>>
        /\ pc[Owner] = "run" <=> pc'[Owner] = "run"
    BY <1>4 DEF PostNotify
  <2> QED BY <2>1 DEF RingHoldsBacklog, Taken
<1>5. ASSUME NEW p \in Producers, NEW t \in Tasks, PostEnter(p, t) PROVE RingHoldsBacklog'
  <2>1. /\ UNCHANGED <<head, size, storage, accepted, ended, hand[Owner]>>
        /\ pc[Owner] = "run" <=> pc'[Owner] = "run"
    BY <1>5 DEF PostEnter, Postable, Enter
  <2> QED BY <2>1 DEF RingHoldsBacklog, Taken
<1>6. ASSUME NEW p \in Producers, NEW t \in Tasks, PostBusy(p, t) PROVE RingHoldsBacklog'
  <2>1. /\ UNCHANGED <<head, size, storage, accepted, ended, hand[Owner]>>
        /\ pc[Owner] = "run" <=> pc'[Owner] = "run"
    BY <1>6 DEF PostBusy, Postable, Return
  <2> QED BY <2>1 DEF RingHoldsBacklog, Taken
<1>7. CASE Bind
  <2>1. /\ UNCHANGED <<head, size, storage, accepted, ended, hand[Owner]>>
        /\ pc[Owner] = "run" <=> pc'[Owner] = "run"
    BY <1>7 DEF Bind, Leave, Return
  <2> QED BY <2>1 DEF RingHoldsBacklog, Taken
<1>8. CASE PopEnter
  <2>1. /\ UNCHANGED <<head, size, storage, accepted, ended, hand[Owner]>>
        /\ pc[Owner] = "run" <=> pc'[Owner] = "run"
    BY <1>8 DEF PopEnter, Enter
  <2> QED BY <2>1 DEF RingHoldsBacklog, Taken
<1>9. CASE PopBusy
  <2>1. /\ UNCHANGED <<head, size, storage, accepted, ended, hand[Owner]>>
        /\ pc[Owner] = "run" <=> pc'[Owner] = "run"
    BY <1>9 DEF PopBusy, OwnerReturns, Return
  <2> QED BY <2>1 DEF RingHoldsBacklog, Taken
<1>10. CASE PopTake
  <2>1. /\ pc[Owner] = "pop" /\ pc'[Owner] = "run" /\ hand'[Owner] = storage[head]
        /\ storage' = [storage EXCEPT ![head] = NoTask]
        /\ size \in 1..Capacity /\ size' = size - 1 /\ head' = (head + 1) % Capacity
        /\ UNCHANGED <<accepted, ended>>
    BY <1>10 DEF PopTake, Leave
  <2>2. Taken' = Taken + 1 /\ Taken \in Nat
    BY <2>1 DEF Taken
  <2>3. /\ Len(accepted') = Taken' + size'
        /\ \A i \in 1..Len(ended') : ended'[i] = accepted'[i]
    <3>1. Len(accepted) = Taken + size
      BY DEF RingHoldsBacklog
    <3>2. \A i \in 1..Len(ended) : ended[i] = accepted[i]
      BY DEF RingHoldsBacklog
    <3> QED BY <2>1, <2>2, <3>1, <3>2
  <2>4. hand'[Owner] = accepted'[Taken']
    <3>1. (head + 1 - 1) % Capacity = head /\ 1 \in 1..size
      BY <2>1, FirstSlot
    <3> QED BY <2>1, <2>2, <3>1 DEF RingHoldsBacklog
  <2>5. ASSUME NEW i \in 1..size'
        PROVE  storage'[(head' + i - 1) % Capacity] = accepted'[Taken' + i]
    <3>1. /\ i \in Slots /\ 0 \in Slots /\ i # 0 /\ i - 1 \in Nat /\ i - 1 + 1 < Capacity
          /\ i + 1 \in 1..size
      BY <2>1, <2>5, CapacityAssumption DEF Slots
    <3>2. head' \in Slots /\ (head' + (i - 1)) % Capacity = (head + (i - 1) + 1) % Capacity
      BY <2>1, <3>1, HeadAdvances
    <3>3. /\ head' + i - 1 = head' + (i - 1) /\ head + (i - 1) + 1 = head + i
          /\ head + (i + 1) - 1 = head + i /\ head + 0 = head
      BY <3>1, <3>2 DEF Slots
    <3>4. (head + i) % Capacity \in Slots /\ (head + i) % Capacity # (head + 0) % Capacity
      BY <3>1, SlotsDiffer
    <3>5. (head + 0) % Capacity = head
      BY <3>3, ModLow, CapacityAssumption DEF Slots
    <3>6. storage'[(head' + i - 1) % Capacity] = storage[(head + (i + 1) - 1) % Capacity]
      BY <2>1, <3>2, <3>3, <3>4, <3>5
    <3>7. storage[(head + (i + 1) - 1) % Capacity] = accepted[Taken + (i + 1)]
      BY <3>1 DEF RingHoldsBacklog
    <3> QED BY <2>1, <2>2, <3>1, <3>6, <3>7
  <2> QED BY <2>3, <2>4, <2>5 DEF RingHoldsBacklog
<1>11. CASE PopEmpty
  <2>1. /\ UNCHANGED <<head, size, storage, accepted, ended, hand[Owner]>>
        /\ pc[Owner] = "run" <=> pc'[Owner] = "run"
    BY <1>11 DEF PopEmpty, OwnerReturns, Return
  <2> QED BY <2>1 DEF RingHoldsBacklog, Taken
<1>12. CASE EndTask
  <2>1. /\ pc[Owner] = "run" /\ pc'[Owner] = "tryPop"
        /\ ended' = Append(ended, hand[Owner]) /\ hand[Owner] \in Tasks
        /\ UNCHANGED <<head, size, storage, accepted>>
    BY <1>12 DEF EndTask, Hands
  <2>2. Taken = Len(ended) + 1 /\ Taken' = Taken /\ hand[Owner] = accepted[Len(ended) + 1]
    BY <2>1 DEF Taken, RingHoldsBacklog
  <2>3. \A i \in 1..Len(ended') : ended'[i] = accepted'[i]
    BY <2>1, <2>2 DEF RingHoldsBacklog
  <2> QED BY <2>1, <2>2, <2>3 DEF RingHoldsBacklog
<1>13. CASE BudgetSpent
  <2>1. /\ UNCHANGED <<head, size, storage, accepted, ended, hand[Owner]>>
        /\ pc[Owner] = "run" <=> pc'[Owner] = "run"
    BY <1>13 DEF BudgetSpent, OwnerReturns, Return
  <2> QED BY <2>1 DEF RingHoldsBacklog, Taken
<1>14. CASE BeginStopReturns
  <2>1. /\ UNCHANGED <<head, size, storage, accepted, ended, hand[Owner]>>
        /\ pc[Owner] = "run" <=> pc'[Owner] = "run"
    BY <1>14 DEF BeginStopReturns, OwnerReturns, Return
  <2> QED BY <2>1 DEF RingHoldsBacklog, Taken
<1>15. CASE BeginStop
  <2>1. /\ UNCHANGED <<head, size, storage, accepted, ended, hand[Owner]>>
        /\ pc[Owner] = "run" <=> pc'[Owner] = "run"
    BY <1>15 DEF BeginStop, Leave
  <2> QED BY <2>1 DEF RingHoldsBacklog, Taken
<1>16. CASE RequestStop
  <2>1. /\ UNCHANGED <<head, size, storage, accepted, ended, hand[Owner]>>
        /\ pc[Owner] = "run" <=> pc'[Owner] = "run"
    BY <1>16 DEF RequestStop, OwnerReturns, Return
  <2> QED BY <2>1 DEF RingHoldsBacklog, Taken
<1>17. CASE FinishStop
  <2>1. /\ UNCHANGED <<head, size, storage, accepted, ended, hand[Owner]>>
        /\ pc[Owner] = "run" <=> pc'[Owner] = "run"
    BY <1>17 DEF FinishStop, Leave, Return, Finishable
  <2> QED BY <2>1 DEF RingHoldsBacklog, Taken
<1>18. CASE BindEnter
  <2>1. /\ UNCHANGED <<head, size, storage, accepted, ended, hand[Owner]>>
        /\ pc[Owner] = "run" <=> pc'[Owner] = "run"
    BY <1>18 DEF BindEnter, Enter
  <2> QED BY <2>1 DEF RingHoldsBacklog, Taken
<1>19. CASE PumpRefused
  <2>1. /\ UNCHANGED <<head, size, storage, accepted, ended, hand[Owner]>>
        /\ pc[Owner] = "run" <=> pc'[Owner] = "run"
    BY <1>19 DEF PumpRefused, Return, PumpAllowed
  <2> QED BY <2>1 DEF RingHoldsBacklog, Taken
<1>20. CASE FinishStopEnter
  <2>1. /\ UNCHANGED <<head, size, storage, accepted, ended, hand[Owner]>>
        /\ pc[Owner] = "run" <=> pc'[Owner] = "run"
    BY <1>20 DEF FinishStopEnter, Enter
  <2> QED BY <2>1 DEF RingHoldsBacklog, Taken
<1>21. CASE OwnerBusy
  <2>1. /\ UNCHANGED <<head, size, storage, accepted, ended, hand[Owner]>>
        /\ pc[Owner] = "run" <=> pc'[Owner] = "run"
    BY <1>21 DEF OwnerBusy, Return
  <2> QED BY <2>1 DEF RingHoldsBacklog, Taken
<1>22. CASE Sleep
  <2>1. /\ UNCHANGED <<head, size, storage, accepted, ended, hand[Owner]>>
        /\ pc[Owner] = "run" <=> pc'[Owner] = "run"
    BY <1>22 DEF Sleep
  <2> QED BY <2>1 DEF RingHoldsBacklog, Taken
<1>23. CASE Wake
  <2>1. /\ UNCHANGED <<head, size, storage, accepted, ended, hand[Owner]>>
        /\ pc[Owner] = "run" <=> pc'[Owner] = "run"
    BY <1>23 DEF Wake, Return
  <2> QED BY <2>1 DEF RingHoldsBacklog, Taken
<1>24. ASSUME NEW n \in 0..MaxTasksPerPump, PumpBegin(n) PROVE RingHoldsBacklog'
  <2>1. /\ UNCHANGED <<head, size, storage, accepted, ended, hand[Owner]>>
        /\ pc[Owner] = "run" <=> pc'[Owner] = "run"
    BY <1>24 DEF PumpBegin, PumpAllowed
  <2> QED BY <2>1 DEF RingHoldsBacklog, Taken
<1>25. ASSUME NEW policy \in Policies, BeginStopEnter(policy) PROVE RingHoldsBacklog'
  <2>1. /\ UNCHANGED <<head, size, storage, accepted, ended, hand[Owner]>>
        /\ pc[Owner] = "run" <=> pc'[Owner] = "run"
    BY <1>25 DEF BeginStopEnter, Enter
  <2> QED BY <2>1 DEF RingHoldsBacklog, Taken
<1>26. CASE UNCHANGED vars
  <2>1. /\ UNCHANGED <<head, size, storage, accepted, ended, hand[Owner]>>
        /\ pc[Owner] = "run" <=> pc'[Owner] = "run"
    BY <1>26 DEF vars
  <2> QED BY <2>1 DEF RingHoldsBacklog, Taken
<1> QED BY <1>1, <1>2, <1>3, <1>4, <1>5, <1>6, <1>7, <1>8, <1>9, <1>10, <1>11, <1>12, <1>13,
    <1>14,
           <1>15, <1>16, <1>17, <1>18, <1>19, <1>20, <1>21, <1>22, <1>23, <1>24, <1>25, <1>26
         DEF Next, ProducerStep, OwnerInCall, OwnerCalls

(* A task enters the ring while no other thread is inside with it.         *)
LEMMA FreshStep ==
  ASSUME TypeOK, MutualExclusion, Fresh, [Next]_vars
  PROVE  Fresh'
<1> USE ThreadAssumption DEF Fresh, TypeOK, Threads, ring, history
<1>1. ASSUME NEW p \in Producers, PostReject(p) PROVE Fresh'
  BY <1>1 DEF PostReject, Verdict, Return
<1>2. ASSUME NEW p \in Producers, PostAccept(p) PROVE Fresh'
  <2>1. \A q \in Producers : pc'[q] = "critical" => q # p /\ pc[q] = "critical"
    BY <1>2 DEF PostAccept
  <2>2. \A q \in Producers : pc[q] = "critical" => q = p
    BY <1>2 DEF PostAccept, MutualExclusion, Inside
  <2> QED BY <2>1, <2>2
<1>3. ASSUME NEW p \in Producers, PostLeave(p) PROVE Fresh'
  BY <1>3 DEF PostLeave, Leave
<1>4. ASSUME NEW p \in Producers, PostNotify(p) PROVE Fresh'
  BY <1>4 DEF PostNotify
<1>5. ASSUME NEW p \in Producers, NEW t \in Tasks, PostEnter(p, t) PROVE Fresh'
  BY <1>5 DEF PostEnter, Postable, Enter
<1>6. ASSUME NEW p \in Producers, NEW t \in Tasks, PostBusy(p, t) PROVE Fresh'
  BY <1>6 DEF PostBusy, Postable, Return
<1>7. CASE Bind
  BY <1>7 DEF Bind, Leave, Return
<1>8. CASE PopEnter
  BY <1>8 DEF PopEnter, Enter
<1>9. CASE PopBusy
  BY <1>9 DEF PopBusy, OwnerReturns, Return
<1>10. CASE PopTake
  BY <1>10 DEF PopTake, Leave
<1>11. CASE PopEmpty
  BY <1>11 DEF PopEmpty, OwnerReturns, Return
<1>12. CASE EndTask
  BY <1>12 DEF EndTask
<1>13. CASE BudgetSpent
  BY <1>13 DEF BudgetSpent, OwnerReturns, Return
<1>14. CASE BeginStopReturns
  BY <1>14 DEF BeginStopReturns, OwnerReturns, Return
<1>15. CASE BeginStop
  BY <1>15 DEF BeginStop, Leave
<1>16. CASE RequestStop
  BY <1>16 DEF RequestStop, OwnerReturns, Return
<1>17. CASE FinishStop
  BY <1>17 DEF FinishStop, Leave, Return, Finishable
<1>18. CASE BindEnter
  BY <1>18 DEF BindEnter, Enter
<1>19. CASE PumpRefused
  BY <1>19 DEF PumpRefused, Return, PumpAllowed
<1>20. CASE FinishStopEnter
  BY <1>20 DEF FinishStopEnter, Enter
<1>21. CASE OwnerBusy
  BY <1>21 DEF OwnerBusy, Return
<1>22. CASE Sleep
  BY <1>22 DEF Sleep
<1>23. CASE Wake
  BY <1>23 DEF Wake, Return
<1>24. ASSUME NEW n \in 0..MaxTasksPerPump, PumpBegin(n) PROVE Fresh'
  BY <1>24 DEF PumpBegin, PumpAllowed
<1>25. ASSUME NEW policy \in Policies, BeginStopEnter(policy) PROVE Fresh'
  BY <1>25 DEF BeginStopEnter, Enter
<1>26. CASE UNCHANGED vars
  BY <1>26 DEF vars
<1> QED BY <1>1, <1>2, <1>3, <1>4, <1>5, <1>6, <1>7, <1>8, <1>9, <1>10, <1>11, <1>12, <1>13,
    <1>14,
           <1>15, <1>16, <1>17, <1>18, <1>19, <1>20, <1>21, <1>22, <1>23, <1>24, <1>25, <1>26
         DEF Next, ProducerStep, OwnerInCall, OwnerCalls

(* Only the owner moves the state, along its own call.                     *)
LEMMA OwnerPhasesStep ==
  ASSUME TypeOK, OwnerPhases, [Next]_vars
  PROVE  OwnerPhases'
<1> USE ThreadAssumption DEF OwnerPhases, TypeOK, Threads, ring, history
<1>1. ASSUME NEW p \in Producers, PostReject(p) PROVE OwnerPhases'
  BY <1>1 DEF PostReject, Verdict, Return
<1>2. ASSUME NEW p \in Producers, PostAccept(p) PROVE OwnerPhases'
  BY <1>2 DEF PostAccept, Verdict, ShouldWake, TailSlot, Return
<1>3. ASSUME NEW p \in Producers, PostLeave(p) PROVE OwnerPhases'
  BY <1>3 DEF PostLeave, Leave
<1>4. ASSUME NEW p \in Producers, PostNotify(p) PROVE OwnerPhases'
  BY <1>4 DEF PostNotify
<1>5. ASSUME NEW p \in Producers, NEW t \in Tasks, PostEnter(p, t) PROVE OwnerPhases'
  BY <1>5 DEF PostEnter, Postable, Enter
<1>6. ASSUME NEW p \in Producers, NEW t \in Tasks, PostBusy(p, t) PROVE OwnerPhases'
  BY <1>6 DEF PostBusy, Postable, Return
<1>7. CASE Bind
  BY <1>7 DEF Bind, Leave, Return
<1>8. CASE PopEnter
  BY <1>8 DEF PopEnter, Enter
<1>9. CASE PopBusy
  BY <1>9 DEF PopBusy, OwnerReturns, Return
<1>10. CASE PopTake
  BY <1>10 DEF PopTake, Leave
<1>11. CASE PopEmpty
  BY <1>11 DEF PopEmpty, OwnerReturns, Return
<1>12. CASE EndTask
  BY <1>12 DEF EndTask
<1>13. CASE BudgetSpent
  BY <1>13 DEF BudgetSpent, OwnerReturns, Return
<1>14. CASE BeginStopReturns
  BY <1>14 DEF BeginStopReturns, OwnerReturns, Return
<1>15. CASE BeginStop
  BY <1>15 DEF BeginStop, Leave
<1>16. CASE RequestStop
  BY <1>16 DEF RequestStop, OwnerReturns, Return
<1>17. CASE FinishStop
  BY <1>17 DEF FinishStop, Leave, Return, Finishable
<1>18. CASE BindEnter
  BY <1>18 DEF BindEnter, Enter
<1>19. CASE PumpRefused
  BY <1>19 DEF PumpRefused, Return, PumpAllowed
<1>20. CASE FinishStopEnter
  BY <1>20 DEF FinishStopEnter, Enter
<1>21. CASE OwnerBusy
  BY <1>21 DEF OwnerBusy, Return
<1>22. CASE Sleep
  BY <1>22 DEF Sleep
<1>23. CASE Wake
  BY <1>23 DEF Wake, Return
<1>24. ASSUME NEW n \in 0..MaxTasksPerPump, PumpBegin(n) PROVE OwnerPhases'
  BY <1>24 DEF PumpBegin, PumpAllowed
<1>25. ASSUME NEW policy \in Policies, BeginStopEnter(policy) PROVE OwnerPhases'
  BY <1>25 DEF BeginStopEnter, Enter
<1>26. CASE UNCHANGED vars
  BY <1>26 DEF vars
<1> QED BY <1>1, <1>2, <1>3, <1>4, <1>5, <1>6, <1>7, <1>8, <1>9, <1>10, <1>11, <1>12, <1>13,
    <1>14,
           <1>15, <1>16, <1>17, <1>18, <1>19, <1>20, <1>21, <1>22, <1>23, <1>24, <1>25, <1>26
         DEF Next, ProducerStep, OwnerInCall, OwnerCalls

(* A closed queue admits nothing and gives nothing out.                    *)
LEMMA ClosedStep ==
  ASSUME TypeOK, OwnerPhases, ClosedStaysEmpty, [Next]_vars
  PROVE  ClosedStaysEmpty'
<1> USE ThreadAssumption DEF ClosedStaysEmpty, TypeOK, Threads, ring, history
<1>1. ASSUME NEW p \in Producers, PostReject(p) PROVE ClosedStaysEmpty'
  BY <1>1 DEF PostReject, Verdict, Return
<1>2. ASSUME NEW p \in Producers, PostAccept(p) PROVE ClosedStaysEmpty'
  BY <1>2 DEF PostAccept, Verdict, ShouldWake, TailSlot, Return
<1>3. ASSUME NEW p \in Producers, PostLeave(p) PROVE ClosedStaysEmpty'
  BY <1>3 DEF PostLeave, Leave
<1>4. ASSUME NEW p \in Producers, PostNotify(p) PROVE ClosedStaysEmpty'
  BY <1>4 DEF PostNotify
<1>5. ASSUME NEW p \in Producers, NEW t \in Tasks, PostEnter(p, t) PROVE ClosedStaysEmpty'
  BY <1>5 DEF PostEnter, Postable, Enter
<1>6. ASSUME NEW p \in Producers, NEW t \in Tasks, PostBusy(p, t) PROVE ClosedStaysEmpty'
  BY <1>6 DEF PostBusy, Postable, Return
<1>7. CASE Bind
  BY <1>7 DEF Bind, Leave, Return
<1>8. CASE PopEnter
  BY <1>8 DEF PopEnter, Enter
<1>9. CASE PopBusy
  BY <1>9 DEF PopBusy, OwnerReturns, Return
<1>10. CASE PopTake
  BY <1>10 DEF PopTake, Leave
<1>11. CASE PopEmpty
  BY <1>11 DEF PopEmpty, OwnerReturns, Return
<1>12. CASE EndTask
  BY <1>12 DEF EndTask
<1>13. CASE BudgetSpent
  BY <1>13 DEF BudgetSpent, OwnerReturns, Return
<1>14. CASE BeginStopReturns
  BY <1>14 DEF BeginStopReturns, OwnerReturns, Return
<1>15. CASE BeginStop
  BY <1>15 DEF BeginStop, Leave
<1>16. CASE RequestStop
  BY <1>16 DEF RequestStop, OwnerReturns, Return
<1>17. CASE FinishStop
  BY <1>17 DEF FinishStop, Leave, Return, Finishable
<1>18. CASE BindEnter
  BY <1>18 DEF BindEnter, Enter
<1>19. CASE PumpRefused
  BY <1>19 DEF PumpRefused, Return, PumpAllowed
<1>20. CASE FinishStopEnter
  BY <1>20 DEF FinishStopEnter, Enter
<1>21. CASE OwnerBusy
  BY <1>21 DEF OwnerBusy, Return
<1>22. CASE Sleep
  BY <1>22 DEF Sleep
<1>23. CASE Wake
  BY <1>23 DEF Wake, Return
<1>24. ASSUME NEW n \in 0..MaxTasksPerPump, PumpBegin(n) PROVE ClosedStaysEmpty'
  BY <1>24 DEF PumpBegin, PumpAllowed
<1>25. ASSUME NEW policy \in Policies, BeginStopEnter(policy) PROVE ClosedStaysEmpty'
  BY <1>25 DEF BeginStopEnter, Enter
<1>26. CASE UNCHANGED vars
  BY <1>26 DEF vars
<1> QED BY <1>1, <1>2, <1>3, <1>4, <1>5, <1>6, <1>7, <1>8, <1>9, <1>10, <1>11, <1>12, <1>13,
    <1>14,
           <1>15, <1>16, <1>17, <1>18, <1>19, <1>20, <1>21, <1>22, <1>23, <1>24, <1>25, <1>26
         DEF Next, ProducerStep, OwnerInCall, OwnerCalls

(* The post that finds the queue empty owes the notification, and the owner *)
(* that consumes one looks at the queue again before it sleeps.            *)
LEMMA AnnouncedStep ==
  ASSUME TypeOK, OwnerPhases, WorkIsAnnounced, [Next]_vars
  PROVE  WorkIsAnnounced'
<1> USE ThreadAssumption DEF WorkIsAnnounced, NotificationDue, TypeOK, Threads, ring, history
<1>1. ASSUME NEW p \in Producers, PostReject(p) PROVE WorkIsAnnounced'
  BY <1>1 DEF PostReject, Verdict, Return
<1>2. ASSUME NEW p \in Producers, PostAccept(p) PROVE WorkIsAnnounced'
  BY <1>2 DEF PostAccept, Verdict, ShouldWake, TailSlot, Return
<1>3. ASSUME NEW p \in Producers, PostLeave(p) PROVE WorkIsAnnounced'
  BY <1>3 DEF PostLeave, Leave
<1>4. ASSUME NEW p \in Producers, PostNotify(p) PROVE WorkIsAnnounced'
  BY <1>4 DEF PostNotify
<1>5. ASSUME NEW p \in Producers, NEW t \in Tasks, PostEnter(p, t) PROVE WorkIsAnnounced'
  BY <1>5 DEF PostEnter, Postable, Enter
<1>6. ASSUME NEW p \in Producers, NEW t \in Tasks, PostBusy(p, t) PROVE WorkIsAnnounced'
  BY <1>6 DEF PostBusy, Postable, Return
<1>7. CASE Bind
  BY <1>7 DEF Bind, Leave, Return
<1>8. CASE PopEnter
  BY <1>8 DEF PopEnter, Enter
<1>9. CASE PopBusy
  BY <1>9 DEF PopBusy, OwnerReturns, Return
<1>10. CASE PopTake
  BY <1>10 DEF PopTake, Leave
<1>11. CASE PopEmpty
  BY <1>11 DEF PopEmpty, OwnerReturns, Return
<1>12. CASE EndTask
  BY <1>12 DEF EndTask
<1>13. CASE BudgetSpent
  BY <1>13 DEF BudgetSpent, OwnerReturns, Return
<1>14. CASE BeginStopReturns
  BY <1>14 DEF BeginStopReturns, OwnerReturns, Return
<1>15. CASE BeginStop
  BY <1>15 DEF BeginStop, Leave
<1>16. CASE RequestStop
  BY <1>16 DEF RequestStop, OwnerReturns, Return
<1>17. CASE FinishStop
  BY <1>17 DEF FinishStop, Leave, Return, Finishable
<1>18. CASE BindEnter
  BY <1>18 DEF BindEnter, Enter
<1>19. CASE PumpRefused
  BY <1>19 DEF PumpRefused, Return, PumpAllowed
<1>20. CASE FinishStopEnter
  BY <1>20 DEF FinishStopEnter, Enter
<1>21. CASE OwnerBusy
  BY <1>21 DEF OwnerBusy, Return
<1>22. CASE Sleep
  BY <1>22 DEF Sleep
<1>23. CASE Wake
  BY <1>23 DEF Wake, Return
<1>24. ASSUME NEW n \in 0..MaxTasksPerPump, PumpBegin(n) PROVE WorkIsAnnounced'
  BY <1>24 DEF PumpBegin, PumpAllowed
<1>25. ASSUME NEW policy \in Policies, BeginStopEnter(policy) PROVE WorkIsAnnounced'
  BY <1>25 DEF BeginStopEnter, Enter
<1>26. CASE UNCHANGED vars
  BY <1>26 DEF vars
<1> QED BY <1>1, <1>2, <1>3, <1>4, <1>5, <1>6, <1>7, <1>8, <1>9, <1>10, <1>11, <1>12, <1>13,
    <1>14,
           <1>15, <1>16, <1>17, <1>18, <1>19, <1>20, <1>21, <1>22, <1>23, <1>24, <1>25, <1>26
         DEF Next, ProducerStep, OwnerInCall, OwnerCalls

(***************************************************************************)
(* The invariant, and the properties that follow from it                   *)
(***************************************************************************)
(* IInv is inductive.                                                      *)
LEMMA Inductive == IInv /\ [Next]_vars => IInv'
BY TypeStep, MutexStep, HandsStep, RingStep, FreshStep, OwnerPhasesStep, ClosedStep,
   AnnouncedStep DEF IInv

(* Every reachable state satisfies the inductive invariant.                *)
THEOREM Invariance == Spec => []IInv
BY InitIInv, Inductive, PTL DEF Spec

(* Every variable keeps its type: no slot index leaves the ring and the    *)
(* depth never passes the capacity, whatever the capacity (post 57, 62).   *)
THEOREM TypeCorrect == Spec => []TypeOK
BY Invariance, PTL DEF IInv

(* The try-lock is held by exactly the thread inside the section.          *)
THEOREM Exclusion == Spec => []MutualExclusion
BY Invariance, PTL DEF IInv

(* Accepted tasks are what was ended, then the task in hand, then the ring *)
(* read from head_: none lost, none twice, none overtaken.                 *)
LEMMA BacklogIsTheRest == IInv => ExactlyOnceInOrder
<1> SUFFICES ASSUME IInv PROVE ExactlyOnceInOrder
  OBVIOUS
<1> USE TaskAssumption DEF IInv
<1>1. /\ accepted \in Seq(Tasks) /\ ended \in Seq(Tasks) /\ size \in Nat
      /\ Len(accepted) = Taken + size
  BY DEF TypeOK, RingHoldsBacklog
<1>2. /\ InHand \in Seq(Tasks) /\ Taken = Len(ended) + Len(InHand)
      /\ \A i \in 1..Len(InHand) : InHand[i] = accepted[Len(ended) + i]
  <2>1. CASE pc[Owner] = "run"
    <3>1. hand[Owner] = accepted[Taken] /\ Taken = Len(ended) + 1 /\ hand[Owner] # NoTask
      BY <2>1 DEF RingHoldsBacklog, Taken, Hands
    <3>2. Taken \in 1..Len(accepted)
      BY <1>1, <3>1
    <3>3. InHand = <<hand[Owner]>> /\ hand[Owner] \in Tasks
      BY <1>1, <3>1, <3>2 DEF InHand
    <3> QED BY <1>1, <3>1, <3>3
  <2>2. CASE pc[Owner] # "run"
    BY <1>1, <2>2 DEF Hands, InHand, Taken
  <2> QED BY <2>1, <2>2
<1>3. /\ Contents \in Seq(Tasks) /\ Len(Contents) = size
      /\ \A i \in 1..size : Contents[i] = accepted[Taken + i]
  <2>1. \A i \in 1..size : storage[(head + i - 1) % Capacity] = accepted[Taken + i]
    BY DEF RingHoldsBacklog
  <2>2. Taken \in Nat
    BY <1>1 DEF Taken
  <2>3. \A i \in 1..size : Taken + i \in 1..Len(accepted)
    BY <1>1, <2>2
  <2>4. \A i \in 1..size : accepted[Taken + i] \in Tasks
    BY <1>1, <2>3
  <2>5. Contents = [i \in 1..size |-> accepted[Taken + i]]
    BY <2>1 DEF Contents
  <2> QED BY <1>1, <2>4, <2>5
<1> DEFINE whole == ended \o InHand \o Contents
<1>4. whole \in Seq(Tasks) /\ Len(whole) = Len(accepted)
  <2>1. /\ ended \o InHand \in Seq(Tasks)
        /\ Len(ended \o InHand) = Len(ended) + Len(InHand)
    BY <1>1, <1>2
  <2>2. /\ whole \in Seq(Tasks)
        /\ Len(whole) = Len(ended \o InHand) + Len(Contents)
    BY <1>3, <2>1
  <2> QED BY <1>1, <1>2, <1>3, <2>1, <2>2
<1>5. ASSUME NEW i \in 1..Len(accepted) PROVE whole[i] = accepted[i]
  <2>1. CASE i <= Len(ended)
    <3>1. whole[i] = ended[i]
      BY <1>1, <1>2, <1>3, <2>1
    <3> QED BY <1>1, <2>1, <3>1 DEF RingHoldsBacklog
  <2>2. CASE Len(ended) < i /\ i <= Taken
    <3>1. whole[i] = InHand[i - Len(ended)] /\ i - Len(ended) \in 1..Len(InHand)
      BY <1>1, <1>2, <1>3, <2>2
    <3> QED BY <1>1, <1>2, <3>1
  <2>3. CASE Taken < i
    <3>1. whole[i] = Contents[i - Taken] /\ i - Taken \in 1..size
      BY <1>1, <1>2, <1>3, <2>3
    <3>2. Taken + (i - Taken) = i
      BY <1>1, <1>2
    <3> QED BY <1>3, <3>1, <3>2
  <2>4. i <= Len(ended) \/ (Len(ended) < i /\ i <= Taken) \/ Taken < i
    BY <1>1, <1>2
  <2> QED BY <2>1, <2>2, <2>3, <2>4, Zenon
<1> HIDE DEF whole
<1>6. whole = accepted
  BY <1>1, <1>4, <1>5
<1> QED BY <1>6 DEF ExactlyOnceInOrder, whole

(* Every accepted task is ended exactly once and in order, on every ring.  *)
THEOREM ExactlyOnce == Spec => []ExactlyOnceInOrder
BY Invariance, BacklogIsTheRest, PTL

(* The owner never sleeps on work without a notification on its way.       *)
THEOREM WakeupNotLost == Spec => []NoLostWakeup
<1>1. IInv => NoLostWakeup
  BY DEF IInv, WorkIsAnnounced, NotificationDue, NoLostWakeup
<1> QED BY <1>1, Invariance, PTL

(* A drain destroys no task unrun.                                         *)
THEOREM DrainRunsAll == Spec => []DrainRunsEverything
<1>1. IInv => DrainRunsEverything
  BY DEF IInv, OwnerPhases, DrainRunsEverything
<1> QED BY <1>1, Invariance, PTL

(* A closed queue is empty and every accepted task has been ended.         *)
THEOREM ClosedEmpty == Spec => []ClosedIsEmpty
<1>1. IInv => ClosedIsEmpty
  BY DEF IInv, TypeOK, ClosedStaysEmpty, RingHoldsBacklog, Taken, ClosedIsEmpty
<1> QED BY <1>1, Invariance, PTL


(***************************************************************************)
(* The queue implements TaskLog                                            *)
(***************************************************************************)

(* The steps an observer of the log can tell from a stutter.               *)
LogStep == (\E p \in Producers : PostAccept(p)) \/ EndTask \/ Bind \/ BeginStop \/ FinishStop

(* No other step changes what the log shows.                               *)
LEMMA OtherStepsStutter ==
  ASSUME [Next]_vars, ~LogStep
  PROVE  UNCHANGED <<state, accepted, ended>>
<1> USE DEF ring, history, Enter, Leave, Return, OwnerReturns
<1>1. ASSUME NEW p \in Producers, PostReject(p) \/ PostLeave(p) \/ PostNotify(p)
      PROVE  UNCHANGED <<state, accepted, ended>>
  BY <1>1 DEF PostReject, PostLeave, PostNotify
<1>2. ASSUME NEW p \in Producers, NEW t \in Tasks, PostEnter(p, t) \/ PostBusy(p, t)
      PROVE  UNCHANGED <<state, accepted, ended>>
  BY <1>2 DEF PostEnter, PostBusy
<1>3. CASE PopEnter \/ PopBusy \/ PopTake \/ PopEmpty \/ BudgetSpent
  BY <1>3 DEF PopEnter, PopBusy, PopTake, PopEmpty, BudgetSpent
<1>4. CASE BeginStopReturns \/ RequestStop
  BY <1>4 DEF BeginStopReturns, RequestStop
<1>5. CASE BindEnter \/ PumpRefused \/ FinishStopEnter \/ OwnerBusy \/ Sleep \/ Wake
  BY <1>5 DEF BindEnter, PumpRefused, FinishStopEnter, OwnerBusy, Sleep, Wake
<1>6. ASSUME NEW n \in 0..MaxTasksPerPump, PumpBegin(n)
      PROVE  UNCHANGED <<state, accepted, ended>>
  BY <1>6 DEF PumpBegin
<1>7. ASSUME NEW policy \in Policies, BeginStopEnter(policy)
      PROVE  UNCHANGED <<state, accepted, ended>>
  BY <1>7 DEF BeginStopEnter
<1>8. CASE UNCHANGED vars
  BY <1>8 DEF vars
<1> QED BY <1>1, <1>2, <1>3, <1>4, <1>5, <1>6, <1>7, <1>8
         DEF Next, ProducerStep, OwnerInCall, OwnerCalls, LogStep

(* Once a stop has begun no interleaving admits another task.              *)
THEOREM NothingAdmittedAfterStop == Spec => NoAdmissionAfterStop
<1>1. ASSUME [Next]_vars, state \in {"Stopping", "Closed"}
      PROVE  accepted' = accepted
  <2>1. ASSUME NEW p \in Producers, PostAccept(p) PROVE FALSE
    BY <1>1, <2>1 DEF PostAccept, Verdict
  <2>2. CASE EndTask \/ Bind \/ BeginStop \/ FinishStop
    BY <2>2 DEF EndTask, Bind, BeginStop, FinishStop, history
  <2>3. CASE ~LogStep
    BY <1>1, <2>3, OtherStepsStutter
  <2> QED BY <2>1, <2>2, <2>3 DEF LogStep
<1> QED BY <1>1, PTL DEF Spec, NoAdmissionAfterStop

(* Each step of the queue is a step of the log or a stutter.               *)
LEMMA StepsRefine ==
  ASSUME IInv, [Next]_vars
  PROVE  [Log!Next]_(Log!logVars)
<1> USE ThreadAssumption DEF IInv, history
<1>1. ASSUME NEW p \in Producers, PostAccept(p) PROVE Log!Admit
  <2>1. /\ state = "Running" /\ size < Capacity /\ hand[p] \in Tasks
        /\ accepted' = Append(accepted, hand[p]) /\ UNCHANGED <<state, ended>>
        /\ \A i \in 1..Len(accepted) : accepted[i] # hand[p]
    <3>1. state = "Running" /\ size # Capacity
      BY <1>1 DEF PostAccept, Verdict, TypeOK, States
    <3>2. hand[p] \in Tasks /\ \A i \in 1..Len(accepted) : accepted[i] # hand[p]
      BY <1>1 DEF PostAccept, TypeOK, Hands, Fresh, Threads
    <3> QED BY <1>1, <3>1, <3>2, CapacityAssumption DEF PostAccept, TypeOK
  <2>2. Len(accepted) - Len(ended) < Capacity + 1
    BY <2>1, CapacityAssumption DEF RingHoldsBacklog, Taken, TypeOK
  <2> QED BY <2>1, <2>2 DEF Log!Admit
<1>2. CASE EndTask
  <2>1. pc[Owner] = "run" /\ ended' = Append(ended, hand[Owner]) /\ UNCHANGED <<state,
      accepted>>
    BY <1>2 DEF EndTask
  <2>2. Len(ended) < Len(accepted) /\ hand[Owner] = accepted[Len(ended) + 1]
    BY <2>1 DEF RingHoldsBacklog, Taken, TypeOK
  <2> QED BY <2>1, <2>2 DEF Log!Next, Log!End
<1>3. CASE Bind
  <2>1. state = "Constructed"
    BY <1>3 DEF Bind, OwnerPhases
  <2> QED BY <1>3, <2>1 DEF Bind, history, Log!Next, Log!Open
<1>4. CASE BeginStop
  BY <1>4 DEF BeginStop, history, Log!Next, Log!Stop, Log!logVars
<1>5. CASE FinishStop
  <2>1. Finishable => Len(ended) = Len(accepted)
    BY <1>5 DEF FinishStop, Finishable, RingHoldsBacklog, Taken, TypeOK
  <2> QED BY <1>5, <2>1 DEF FinishStop, Finishable, history, Log!Next, Log!Close, Log!logVars
<1>6. CASE ~LogStep
  BY <1>6, OtherStepsStutter DEF Log!logVars
<1> QED BY <1>1, <1>2, <1>3, <1>4, <1>5, <1>6 DEF LogStep, Log!Next

(* Every behaviour of the queue, with its lock, its ring and its threads,  *)
(* is a behaviour of the abstract log of tasks.                            *)
THEOREM RefinesTaskLog == Spec => ImplementsTaskLog
<1>1. Init => Log!Init
  BY DEF Init, Log!Init
<1>2. IInv /\ [Next]_vars => [Log!Next]_(Log!logVars)
  BY StepsRefine
<1> QED BY <1>1, <1>2, Invariance, PTL DEF Spec, ImplementsTaskLog, Log!Spec
=============================================================================
