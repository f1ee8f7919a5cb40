---------------------------- MODULE SurfaceHost -----------------------------
(***************************************************************************)
(* SurfaceHostAdapter (src/surface/surface_host.cpp) over the page roots   *)
(* of LvglPageRootBackend.  Any thread posts a command; the owner executes *)
(* it from its task queue and delivers the result to Core's ingress, again *)
(* and again when that is full; only then is the operation slot free.      *)
(*                                                                         *)
(* A post is three steps: it takes the admission lock and looks whether    *)
(* the host accepts; looks at the slots and takes one; posts the owner     *)
(* task and leaves.  Only one post is inside at a time, so `inside' stands *)
(* for all the threads, and a post that finds the lock held is no step.    *)
(* The owner runs alone: a task, or one slot of a service, is one step.    *)
(* Core's ingress, LVGL and the contents of surfaces are external: each    *)
(* may refuse when the code asks it.                                       *)
(***************************************************************************)
EXTENDS Integers, FiniteSets, Sequences

CONSTANTS
  Surfaces, Requests, NoRequest,
  MaxRoots,       \* max_live_roots
  MaxOperations,  \* max_operations
  MaxCompleted,   \* size of completed_requests_
  Budgets,        \* budgets of a service
  TaskCapacity,   \* capacity of the owner's queue
  StorageCapacity \* kStorageCapacity, the budget of finishClose

ASSUME SurfaceAssumption ==
  /\ {MaxRoots, MaxOperations, MaxCompleted, TaskCapacity} \subseteq Nat \ {0}
  /\ Budgets \subseteq Nat \ {0}
  /\ StorageCapacity \in Nat /\ StorageCapacity >= MaxOperations
  /\ NoRequest \notin Requests

VARIABLES
  accepting, closed,   \* accepting_, closed_
  inside,              \* admission_: where the post that holds it is
  slot,                \* operations_: state, command and request id
  completed, cursor,   \* completed_requests_, completed_request_cursor_
  record,              \* records_: root and phase of each surface
  root,                \* roots_ of the backend: each handle's object
  tasks,               \* the owner's queue: slots to execute
  service,             \* where service and finishClose are
  told,                \* history: what became of the result of each slot
  recent,              \* history: the requests cleared last
  overtaken            \* history: finishClose ended while a post was inside

vars == <<accepting, closed, inside, slot, completed, cursor, record, root,
          tasks, service, told, recent, overtaken>>

Slots   == 0..(MaxOperations - 1)
Handles == 1..MaxRoots

NoOther == "none"   \* commands of one surface
Commands ==
  [kind : {"create", "presentRoot", "show", "hide", "destroy"},
   surface : Surfaces, other : {NoOther}]
  \cup [kind : {"push", "close"}, surface : Surfaces, other : Surfaces]

NoCommand == [kind |-> "none", surface |-> NoOther, other |-> NoOther]
FreeSlot  == [state |-> "free", command |-> NoCommand, request |-> NoRequest]
NoRecord  == [root |-> 0, phase |-> "absent"]
Idle      == [at |-> MaxOperations, left |-> 0, closing |-> FALSE]

Init ==
  /\ accepting = TRUE /\ closed = FALSE
  /\ inside = "nobody"
  /\ slot = [i \in Slots |-> FreeSlot]
  /\ completed = [n \in 0..(MaxCompleted - 1) |-> NoRequest] /\ cursor = 0
  /\ record = [s \in Surfaces |-> NoRecord]
  /\ root = [h \in Handles |-> "none"]
  /\ tasks = <<>>
  /\ service = Idle
  /\ told = [i \in Slots |-> 0] /\ recent = <<>> /\ overtaken = FALSE

(***************************************************************************)
(* post                                                                    *)
(***************************************************************************)
Touches(c, s) == s # NoOther /\ s \in {c.surface, c.other}

Conflicts(c, d) == Touches(d, c.surface) \/ Touches(d, c.other)

InFlight == {i \in Slots : slot[i].state # "free"}
Free     == Slots \ InFlight

SetMin(S) == CHOOSE n \in S : \A k \in S : n <= k

(* Mistake: a request is forgotten as soon as its slot is free.            *)
KnownInFlight(r) == \E i \in InFlight : slot[i].request = r

Known(r) ==
  \/ \E i \in InFlight : slot[i].request = r
  \/ \E n \in DOMAIN completed : completed[n] = r

(* The lock is taken and the host looked at: lines 121-136.                *)
PostEnter ==
  /\ accepting /\ ~closed
  /\ inside = "nobody" /\ inside' = "checked"
  /\ UNCHANGED <<accepting, closed, slot, completed, cursor, record, root, tasks,
                 service, told, recent, overtaken>>

(* Conflicts, replays and a lack of slots are refused; the post leaves.    *)
PostRefused(c, r) ==
  /\ inside = "checked"
  /\ \/ \E i \in InFlight : Conflicts(c, slot[i].command)
     \/ Known(r)
     \/ Free = {}
  /\ inside' = "nobody"
  /\ UNCHANGED <<accepting, closed, slot, completed, cursor, record, root, tasks,
                 service, told, recent, overtaken>>

PostAdmit(c, r) ==
  /\ inside = "checked"
  /\ \A i \in InFlight : ~Conflicts(c, slot[i].command)
  /\ ~Known(r)
  /\ Free # {}
  /\ LET i == SetMin(Free)
     IN  /\ slot' = [slot EXCEPT ![i] = [state |-> "admitted", command |-> c, request |-> r]]
         /\ told' = [told EXCEPT ![i] = 0]
  /\ inside' = "admitted"
  /\ UNCHANGED <<accepting, closed, completed, cursor, record, root, tasks,
                 service, recent, overtaken>>

Admitted == CHOOSE i \in Slots : slot[i].state = "admitted"

(* The owner's queue takes the task, or is full or busy and the slot is    *)
(* given back.                                                             *)
PostTask ==
  /\ inside = "admitted"
  /\ Len(tasks) < TaskCapacity
  /\ tasks' = Append(tasks, Admitted)
  /\ slot' = [slot EXCEPT ![Admitted].state = "queued"]
  /\ inside' = "nobody"
  /\ UNCHANGED <<accepting, closed, completed, cursor, record, root, service, told,
                 recent, overtaken>>

PostTaskRefused ==
  /\ inside = "admitted"
  /\ slot' = [slot EXCEPT ![Admitted] = FreeSlot]
  /\ inside' = "nobody"
  /\ UNCHANGED <<accepting, closed, completed, cursor, record, root, tasks, service,
                 told, recent, overtaken>>

(***************************************************************************)
(* execute: the outcomes of a command, as the records and roots it leaves  *)
(***************************************************************************)
Live == {s \in Surfaces : record[s] # NoRecord}

Outcome(success, records, roots) ==
  [success |-> success, record |-> records, root |-> roots]

Failed == Outcome(FALSE, record, root)

(* The page roots LVGL holds: createHidden takes the first free one.       *)
FreeHandles == {h \in Handles : root[h] = "none"}

CreateHidden == [root EXCEPT ![SetMin(FreeHandles)] = "hidden"]

SetHidden(roots, h, hidden) ==
  IF roots[h] = "none" THEN roots ELSE [roots EXCEPT ![h] = IF hidden THEN "hidden" ELSE "shown"]

DestroyRoot(roots, h) == [roots EXCEPT ![h] = "none"]

(* LVGL, or the allocation of a root, may fail.                            *)
CreateOutcomes(s) ==
  {Failed} \cup
  IF record[s] = NoRecord /\ Cardinality(Live) < MaxRoots /\ FreeHandles # {}
  THEN {Outcome(TRUE,
                [record EXCEPT ![s] = [root |-> SetMin(FreeHandles), phase |-> "hiddenEmpty"]],
                CreateHidden)}
  ELSE {}

Show(s) == [record EXCEPT ![s].phase = "visible"]

RootOf(s) == record[s].root

PresentRootOutcomes(s) ==
  IF record[s].phase = "hiddenMounted"
  THEN {Outcome(TRUE, Show(s), SetHidden(root, RootOf(s), FALSE))}
  ELSE {Failed}

(* Mistake: the source keeps its place on the screen.                      *)
PresentPushLeavesSource(s, source) ==
  IF s # source /\ record[s].phase = "hiddenMounted" /\ record[source].phase = "visible"
  THEN {Outcome(TRUE, [Show(s) EXCEPT ![source].phase = "hidden"],
                      SetHidden(root, RootOf(s), FALSE))}
  ELSE {Failed}

PresentPushOutcomes(s, source) ==
  IF s # source /\ record[s].phase = "hiddenMounted" /\ record[source].phase = "visible"
  THEN {Outcome(TRUE, [Show(s) EXCEPT ![source].phase = "hidden"],
                      SetHidden(SetHidden(root, RootOf(s), FALSE), RootOf(source), TRUE))}
  ELSE {Failed}

VisibilityOutcomes(s, phase) ==
  IF record[s].phase \in {"visible", "hidden"}
  THEN {Outcome(TRUE, [record EXCEPT ![s].phase = phase],
                      SetHidden(root, RootOf(s), phase = "hidden"))}
  ELSE {Failed}

CloseReady(s, reveal) ==
  s # reveal /\ record[s].phase = "visible" /\ record[reveal].phase = "hidden"

(* Mistake: the surface goes before its content has been asked.            *)
CloseBeforeAsking(s, reveal) ==
  IF CloseReady(s, reveal)
  THEN {Outcome(success,
                [record EXCEPT ![s] = NoRecord,
                               ![reveal].phase = IF success THEN "visible" ELSE "hidden"],
                SetHidden(DestroyRoot(root, RootOf(s)), RootOf(reveal), ~success))
          : success \in BOOLEAN}
  ELSE {Failed}

(* The content of the surface may refuse its release.                      *)
CloseOutcomes(s, reveal) ==
  {Failed} \cup
  IF CloseReady(s, reveal)
  THEN {Outcome(TRUE, [record EXCEPT ![s] = NoRecord, ![reveal].phase = "visible"],
                      SetHidden(DestroyRoot(root, RootOf(s)), RootOf(reveal), FALSE))}
  ELSE {}

(* Refused or not, the surface is gone; a refusal is answered as a failure.*)
DestroyOutcomes(s) ==
  IF record[s] = NoRecord THEN {Failed}
  ELSE {Outcome(success, [record EXCEPT ![s] = NoRecord], DestroyRoot(root, RootOf(s)))
          : success \in BOOLEAN}

Outcomes(c) ==
  CASE c.kind = "create"      -> CreateOutcomes(c.surface)
    [] c.kind = "presentRoot" -> PresentRootOutcomes(c.surface)
    [] c.kind = "push"        -> PresentPushOutcomes(c.surface, c.other)
    [] c.kind = "show"        -> VisibilityOutcomes(c.surface, "visible")
    [] c.kind = "hide"        -> VisibilityOutcomes(c.surface, "hidden")
    [] c.kind = "close"       -> CloseOutcomes(c.surface, c.other)
    [] c.kind = "destroy"     -> DestroyOutcomes(c.surface)

(***************************************************************************)
(* deliverResult                                                           *)
(***************************************************************************)
Ingress == {"accepted", "overflow", "rejected"}

(* Mistake: a result the ingress had no room for is taken as delivered.    *)
DeliveredWhenTried(answer) == "delivered"

(* Only a full ingress is tried again.                                     *)
AfterDelivery(answer) == IF answer = "overflow" THEN "resultPending" ELSE "delivered"

Tell(i, answer) ==
  told' = [told EXCEPT ![i] = IF answer = "overflow" THEN @ ELSE @ + 1]

(* executeOperation; it does not look whether the host is closed.          *)
Execute ==
  /\ service = Idle
  /\ tasks # <<>>
  /\ tasks' = Tail(tasks)
  /\ LET i == Head(tasks)
     IN  \E o \in Outcomes(slot[i].command), answer \in Ingress :
           /\ record' = o.record /\ root' = o.root
           /\ slot' = [slot EXCEPT ![i].state = AfterDelivery(answer)]
           /\ Tell(i, answer)
  /\ UNCHANGED <<accepting, closed, inside, completed, cursor, service, recent, overtaken>>

(* markFullMountCommitted, called when a full mount of the surface ended.  *)
MountCommitted(s) ==
  /\ service = Idle
  /\ record[s].phase = "hiddenEmpty"
  /\ record' = [record EXCEPT ![s].phase = "hiddenMounted"]
  /\ UNCHANGED <<accepting, closed, inside, slot, completed, cursor, root, tasks,
                 service, told, recent, overtaken>>

(***************************************************************************)
(* service, close and finishClose                                          *)
(***************************************************************************)
BeginService(budget) ==
  /\ service = Idle /\ ~closed
  /\ service' = [at |-> 0, left |-> budget, closing |-> FALSE]
  /\ UNCHANGED <<accepting, closed, inside, slot, completed, cursor, record, root, tasks,
                 told, recent, overtaken>>

(* Mistake: what was delivered when it was executed is not looked at again.*)
WaitingResults == {i \in Slots : i >= service.at /\ slot[i].state = "resultPending"}

(* The slots the loop has still to visit and that need it; only the owner  *)
(* makes a slot need it, so none is added while the loop runs.             *)
Waiting == {i \in Slots : i >= service.at /\ slot[i].state \in {"resultPending", "delivered"}}

Serving == service # Idle /\ Waiting # {} /\ service.left > 0

Served == SetMin(Waiting)

Remember(r) ==
  /\ completed' = [completed EXCEPT ![cursor] = r]
  /\ cursor' = (cursor + 1) % MaxCompleted
  /\ recent' = LET all == Append(recent, r)
               IN  IF Len(all) <= MaxCompleted THEN all ELSE Tail(all)

(* clearOperation, if no post is inside.                                   *)
ClearSlot(i, spent) ==
  /\ inside = "nobody"
  /\ Remember(slot[i].request)
  /\ slot' = [slot EXCEPT ![i] = FreeSlot]
  /\ service' = [service EXCEPT !.at = i + 1, !.left = @ - 1 - spent]

KeepSlot(i, state, spent) ==
  /\ slot' = [slot EXCEPT ![i].state = state]
  /\ service' = [service EXCEPT !.at = i + 1, !.left = @ - spent]
  /\ UNCHANGED <<completed, cursor, recent>>

(* One slot of the loop: a pending result is delivered, and a slot whose   *)
(* result has been delivered, now or before, is cleared.                   *)
ServeResult(answer) ==
  /\ Serving /\ slot[Served].state = "resultPending"
  /\ Tell(Served, answer)
  /\ \/ AfterDelivery(answer) = "delivered" /\ ClearSlot(Served, 1)
     \/ AfterDelivery(answer) = "delivered" /\ inside # "nobody"
        /\ KeepSlot(Served, "delivered", 1)
     \/ AfterDelivery(answer) = "resultPending" /\ KeepSlot(Served, "resultPending", 0)
  /\ UNCHANGED <<accepting, closed, inside, record, root, tasks, overtaken>>

ServeDelivered ==
  /\ Serving /\ slot[Served].state = "delivered"
  /\ ClearSlot(Served, 0) \/ (inside # "nobody" /\ KeepSlot(Served, "delivered", 0))
  /\ UNCHANGED <<accepting, closed, inside, record, root, tasks, told, overtaken>>

EndService ==
  /\ service # Idle /\ ~Serving /\ ~service.closing
  /\ service' = Idle
  /\ UNCHANGED <<accepting, closed, inside, slot, completed, cursor, record, root, tasks,
                 told, recent, overtaken>>

Close ==
  /\ accepting /\ accepting' = FALSE
  /\ UNCHANGED <<closed, inside, slot, completed, cursor, record, root, tasks, service,
                 told, recent, overtaken>>

(* service refuses a closed host, and finishClose does not look: it ends   *)
(* once more, without effect.                                              *)
FinishClose ==
  /\ service = Idle /\ ~accepting /\ ~closed
  /\ service' = [at |-> 0, left |-> StorageCapacity, closing |-> TRUE]
  /\ UNCHANGED <<accepting, closed, inside, slot, completed, cursor, record, root, tasks,
                 told, recent, overtaken>>

(* Mistake: what waits for a later service is not waited for.              *)
MayFinishWithResults == \A i \in Slots : slot[i].state \notin {"admitted", "queued"}

MayFinish == InFlight = {}

FinishCloseBusy ==
  /\ service # Idle /\ ~Serving /\ service.closing /\ ~MayFinish
  /\ service' = Idle
  /\ UNCHANGED <<accepting, closed, inside, slot, completed, cursor, record, root, tasks,
                 told, recent, overtaken>>

(* The remaining roots go, whether or not their content lets them.         *)
FinishCloseDone ==
  /\ service # Idle /\ ~Serving /\ service.closing /\ MayFinish
  /\ record' = [s \in Surfaces |-> NoRecord]
  /\ root' = [h \in Handles |-> IF \E s \in Surfaces : record[s].root = h
                                THEN "none" ELSE root[h]]
  /\ closed' = TRUE
  /\ overtaken' = (inside # "nobody")
  /\ service' = Idle
  /\ UNCHANGED <<accepting, inside, slot, completed, cursor, tasks, told, recent>>

(***************************************************************************)
(* Specification                                                           *)
(***************************************************************************)
Post ==
  \/ PostEnter \/ PostTask \/ PostTaskRefused
  \/ \E c \in Commands, r \in Requests : PostRefused(c, r) \/ PostAdmit(c, r)

ServeStep ==
  \/ \E answer \in Ingress : ServeResult(answer)
  \/ ServeDelivered \/ EndService \/ FinishCloseBusy \/ FinishCloseDone

Next ==
  \/ Post
  \/ Execute
  \/ \E s \in Surfaces : MountCommitted(s)
  \/ \E budget \in Budgets : BeginService(budget)
  \/ ServeStep
  \/ Close \/ FinishClose

Spec == Init /\ [][Next]_vars

(* The owner drains its queue and repeats finishClose until it ends; a post*)
(* that is inside leaves; Core makes room for a result it is offered again *)
(* and again.                                                              *)
Fairness ==
  /\ WF_vars(inside # "nobody" /\ Post)
  /\ WF_vars(ServeStep)
  /\ SF_vars(Execute) /\ SF_vars(FinishClose)
  /\ SF_vars(ServeResult("accepted"))

FairSpec == Spec /\ Fairness

(***************************************************************************)
(* Properties                                                              *)
(***************************************************************************)
TypeOK ==
  /\ {accepting, closed, overtaken} \subseteq BOOLEAN
  /\ inside \in {"nobody", "checked", "admitted"}
  /\ \A i \in Slots :
       \/ slot[i] = FreeSlot
       \/ /\ slot[i].state \in {"admitted", "queued", "resultPending", "delivered"}
          /\ slot[i].command \in Commands /\ slot[i].request \in Requests
  /\ \A s \in Surfaces :
       \/ record[s] = NoRecord
       \/ /\ record[s].root \in Handles
          /\ record[s].phase \in {"hiddenEmpty", "hiddenMounted", "visible", "hidden"}
  /\ root \in [Handles -> {"none", "hidden", "shown"}]

(* Surfaces and page roots are two tables kept in step by every command:   *)
(* each live surface has a root of its own, no root is left without a      *)
(* surface, and a root is on the screen just when its surface is visible.  *)
RecordsOwnRoots ==
  /\ TypeOK
  /\ \A s, t \in Live : s # t => record[s].root # record[t].root
  /\ \A h \in Handles : root[h] # "none" <=> \E s \in Live : record[s].root = h
  /\ \A s \in Live : root[record[s].root] = "shown" <=> record[s].phase = "visible"

(* An accepted command is executed once and its result leaves the host     *)
(* once: a slot counts as delivered exactly when its result was handed     *)
(* over, or refused for good, one time.                                    *)
AnsweredOnce ==
  \A i \in InFlight : told[i] = IF slot[i].state = "delivered" THEN 1 ELSE 0

(* A push or a close puts one surface in the place of another: the number  *)
(* of roots on the screen is the same after it, whether it succeeds or not.*)
Shown == {h \in Handles : root[h] = "shown"}

TakesThePlace ==
  [][(/\ tasks # <<>> /\ tasks' = Tail(tasks)
      /\ slot[Head(tasks)].command.kind \in {"push", "close"})
     => Cardinality(Shown') = Cardinality(Shown)]_vars

(* A request that is in flight or among the last completed is not taken    *)
(* again, whatever happens between the post, its result and the release of *)
(* the slot.                                                               *)
NoReplay ==
  [][\A i \in Slots :
       (slot[i].state = "free" /\ slot'[i].state = "admitted")
       => /\ \A n \in DOMAIN recent : recent[n] # slot'[i].request
          /\ \A j \in Slots \ {i} : slot[j].request # slot'[i].request]_vars

(* finishClose reports success only when nothing is left: no surface, no   *)
(* root, no operation and no task.  A post that passed its check before    *)
(* close and is still inside (overtaken) is the one exception.             *)
ClosedIsEmpty ==
  (closed /\ ~overtaken) =>
    /\ Live = {} /\ Shown = {} /\ InFlight = {} /\ tasks = <<>>
    /\ \A h \in Handles : root[h] = "none"

(* Once closing, the host ends: every command that was accepted before is  *)
(* executed and answered, though a full ingress or a post that holds the   *)
(* admission lock may keep a slot for any number of services.              *)
CloseConverges == ~accepting ~> closed
=============================================================================
