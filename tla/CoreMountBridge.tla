-------------------------- MODULE CoreMountBridge ---------------------------
(***************************************************************************)
(* CoreMountBridge (src/integration/core_mount_bridge.cpp): a transaction  *)
(* of Core is cut into batches that go to the mount host one after the     *)
(* other; a full mount is then presented by the surface host; and Core is  *)
(* told once.  Everything runs on the owner's thread, Core's post too.     *)
(*                                                                         *)
(* A retry that is put off changes nothing.  The loop of service is one    *)
(* step for each slot: its budget is the number of slots.                  *)
(*                                                                         *)
(* The mount host, the surface host and Core's ingress are what the bridge *)
(* sees of them: a queue of batches, whose slot is free when the bridge    *)
(* has been told of the result; the phase of each surface and the presents *)
(* that wait; answers.  `applied' is the part of each transaction that is  *)
(* in the content of its surface.                                          *)
(***************************************************************************)
EXTENDS Integers, Sequences, FiniteSetsExt

CONSTANTS
  Surfaces,
  Transactions,      \* surface, full and number of batches of each
  Ids,               \* their names: surface, attempt and source together
  MaxPending,        \* size of pending_
  MaxBatchQueue,     \* kMaxPendingBatchQueueDepth
  MaxTransactions,   \* slots of the mount host
  AutoPresent        \* auto_present_full_mount_

NoTx == "none"  \* a slot with no transaction

ASSUME BridgeAssumption ==
  /\ {MaxPending, MaxBatchQueue, MaxTransactions} \subseteq Nat \ {0}
  /\ Transactions \in [Ids -> [surface : Surfaces, full : BOOLEAN, batches : Nat \ {0}]]
  /\ \A t \in Ids : Transactions[t].batches > 1 => Transactions[t].full
  /\ AutoPresent \in BOOLEAN
  /\ NoTx \notin Ids

VARIABLES
  closed,    \* closed_, accepting_ and the mount host's admission
  bridge,    \* pending_ and what the bridge sees of its neighbours
  accepted,  \* history: transactions Core was told are accepted
  crowded    \* history: those that shared their surface while in flight

vars == <<closed, bridge, accepted, crowded>>

Slots == 1..MaxPending

Free == [tx |-> NoTx, phase |-> "free", next |-> 0, active |-> 0, mounted |-> FALSE]

Init ==
  /\ closed = FALSE
  /\ bridge = [pending |-> [i \in Slots |-> Free],
               verdict |-> [t \in Ids |-> "none"],  \* what Core was told
               told    |-> [t \in Ids |-> 0],       \* how often
               queue   |-> <<>>,                    \* of the mount host
               applied |-> [t \in Ids |-> {}],
               phase   |-> [s \in Surfaces |-> "hiddenEmpty"],
               present |-> {}]                      \* of the surface host
  /\ accepted = {} /\ crowded = {}

SurfaceOf(t) == Transactions[t].surface
Batches(t)   == Transactions[t].batches

(***************************************************************************)
(* Outcomes: the states an operation of the bridge may leave               *)
(***************************************************************************)
(* Mistake: the slot is freed when the ingress refuses the result too.     *)
TryCoreResultDrops(b, i) ==
  LET p == b.pending[i]
  IN  {[b EXCEPT !.pending[i] = Free],
       [b EXCEPT !.pending[i] = Free,
                 !.told[p.tx] = @ + 1,
                 !.verdict[p.tx] = IF p.mounted THEN "mounted" ELSE "failed"]}

(* tryCoreResult: the ingress takes the result and the slot is free.       *)
TryCoreResult(b, i) ==
  LET p == b.pending[i]
  IN  {b, [b EXCEPT !.pending[i] = Free,
                    !.told[p.tx] = @ + 1,
                    !.verdict[p.tx] = IF p.mounted THEN "mounted" ELSE "failed"]}

Settled(b, i, mounted) ==
  [b EXCEPT !.pending[i].phase = "coreResult", !.pending[i].mounted = mounted]

(* tryPresent: taken, put off, or refused for good.                        *)
TryPresent(b, i) ==
  {b, [b EXCEPT !.pending[i].phase = "presentPosted", !.present = @ \cup {b.pending[i].tx}]}
  \cup TryCoreResult(Settled(b, i, FALSE), i)

(* Mistake: a batch the mount host had no room for counts as sent.         *)
PostBatchForgets(b, i) ==
  LET p    == b.pending[i]
      sent == [b EXCEPT !.pending[i].active = p.next, !.pending[i].next = p.next + 1]
  IN  {[b EXCEPT !.pending[i].active = p.next, !.pending[i].phase = "rollback"]}
      \cup IF closed THEN {}
           ELSE {sent} \cup IF Len(b.queue) = MaxTransactions THEN {}
                            ELSE {[sent EXCEPT !.queue = Append(@, <<p.tx, p.next>>)]}

(* postBatch.  The batch becomes the active one before the mount host      *)
(* answers: it takes the batch, has no room now, or refuses it for good.   *)
PostBatch(b, i) ==
  LET p     == b.pending[i]
      tried == [b EXCEPT !.pending[i].active = p.next, !.pending[i].phase = "mountPending"]
  IN  {[tried EXCEPT !.pending[i].phase = "rollback"]}
      \cup IF closed THEN {}
           ELSE {tried} \cup IF Len(b.queue) = MaxTransactions THEN {}
                             ELSE {[tried EXCEPT !.pending[i].next = p.next + 1,
                                                 !.queue = Append(@, <<p.tx, p.next>>)]}

Final(p) == p.active = Batches(p.tx) - 1

(* Mistake: the result of any batch is taken for that of the active one.   *)
AnswersAny(p, k) == TRUE

AnswersActive(p, k) == k = p.active

(* complete.  Only the final batch of a full mount commits the surface,    *)
(* which must still be empty then.                                         *)
Complete(b, i, k, success) ==
  LET p == b.pending[i]
      s == SurfaceOf(p.tx)
  IN  IF ~AnswersActive(p, k) THEN {b}
      ELSE IF ~success THEN {[b EXCEPT !.pending[i].phase = "rollback"]}
      ELSE IF ~Final(p) THEN PostBatch(b, i)
      ELSE IF ~Transactions[p.tx].full THEN TryCoreResult(Settled(b, i, TRUE), i)
      ELSE IF b.phase[s] # "hiddenEmpty" THEN TryCoreResult(Settled(b, i, FALSE), i)
      ELSE LET mounted == [b EXCEPT !.phase[s] = "hiddenMounted"]
           IN  IF AutoPresent
               THEN TryPresent([mounted EXCEPT !.pending[i].phase = "presentPending"], i)
               ELSE TryCoreResult(Settled(mounted, i, TRUE), i)

(* find *)
SlotOf(b, t) == {i \in Slots : b.pending[i].tx = t}

CompleteFor(b, t, k, success) ==
  IF SlotOf(b, t) = {} THEN {b}
  ELSE UNION {Complete(b, i, k, success) : i \in SlotOf(b, t)}

(***************************************************************************)
(* The mount host executes a batch, external.  A lone batch may be refused *)
(* beforehand and leave the surface as it is; every other failure empties  *)
(* it.  Assumed of Core: its tree is connected, so that the last batch     *)
(* refers to nodes of all the others; preflight itself does not ask for it.*)
(***************************************************************************)
Emptied(b, s) ==
  [b EXCEPT !.applied = [t \in Ids |-> IF SurfaceOf(t) = s THEN {} ELSE @[t]]]

MountSucceeds(b, t, k) ==
  /\ b.phase[SurfaceOf(t)] # "none"
  /\ k = Batches(t) - 1 => 0..(k - 1) \subseteq b.applied[t]

Mounted(b, t, k) ==
  LET base == IF k = 0 /\ Transactions[t].full THEN Emptied(b, SurfaceOf(t)) ELSE b
  IN  [base EXCEPT !.applied[t] = @ \cup {k}]

Execute ==
  /\ bridge.queue # <<>>
  /\ LET t == Head(bridge.queue)[1]
         k == Head(bridge.queue)[2]
         tried == CompleteFor(Emptied(bridge, SurfaceOf(t)), t, k, FALSE)
                  \cup (IF Batches(t) = 1 THEN CompleteFor(bridge, t, k, FALSE) ELSE {})
                  \cup (IF MountSucceeds(bridge, t, k)
                        THEN CompleteFor(Mounted(bridge, t, k), t, k, TRUE) ELSE {})
     IN  \E b \in tried : bridge' = [b EXCEPT !.queue = Tail(@)]
  /\ UNCHANGED <<closed, accepted, crowded>>

(***************************************************************************)
(* The surface host, external                                              *)
(***************************************************************************)
(* acceptSurfaceResult, called when a present has been executed, or failed *)
(* as the surface was not hidden with content or its root not valid.  A    *)
(* result no transaction waits for is passed on.                           *)
Presented(t) ==
  /\ t \in bridge.present
  /\ \E valid \in BOOLEAN :
       LET s     == SurfaceOf(t)
           shown == valid /\ bridge.phase[s] = "hiddenMounted"
           done  == [bridge EXCEPT !.present = @ \ {t},
                                   !.phase[s] = IF shown THEN "visible" ELSE @]
           mine  == {i \in SlotOf(bridge, t) : bridge.pending[i].phase = "presentPosted"}
       IN  bridge' \in IF mine = {} THEN {done}
                       ELSE UNION {TryCoreResult(Settled(done, i, shown), i) : i \in mine}
  /\ UNCHANGED <<closed, accepted, crowded>>

(* The content goes with the surface.                                      *)
SurfaceDestroyed(s) ==
  /\ bridge.phase[s] # "none"
  /\ bridge' = [Emptied(bridge, s) EXCEPT !.phase[s] = "none"]
  /\ UNCHANGED <<closed, accepted, crowded>>

(***************************************************************************)
(* post, service, close                                                    *)
(***************************************************************************)
FreeSlots == {i \in Slots : bridge.pending[i] = Free}

InFlight == {bridge.pending[i].tx : i \in Slots} \ {NoTx}

(* pendingBatchCount *)
PendingBatches ==
  FoldSet(LAMBDA i, n : n + Batches(bridge.pending[i].tx) - bridge.pending[i].next,
          0, Slots \ FreeSlots)

(* post: the transaction takes the first free slot when the mount host     *)
(* takes its first batch, and leaves no trace when it does not.            *)
Post(t) ==
  /\ ~closed /\ t \notin accepted
  /\ FreeSlots # {} /\ PendingBatches < MaxBatchQueue
  /\ LET i     == Min(FreeSlots)
         taken == [bridge EXCEPT !.pending[i] = [Free EXCEPT !.tx = t, !.phase = "mountPending"]]
     IN  bridge' \in {b \in PostBatch(taken, i) : b.pending[i].next = 1}
  /\ accepted' = accepted \cup {t}
  /\ LET others == {u \in InFlight : SurfaceOf(u) = SurfaceOf(t)}
     IN  crowded' = crowded \cup others \cup (IF others = {} THEN {} ELSE {t})
  /\ UNCHANGED closed

(* releaseSurface, refused while batches of the surface are queued.        *)
TryRollback(i) ==
  LET s == SurfaceOf(bridge.pending[i].tx)
  IN  IF \E k \in DOMAIN bridge.queue : SurfaceOf(bridge.queue[k][1]) = s THEN {bridge}
      ELSE TryCoreResult(Settled(Emptied(bridge, s), i, FALSE), i)

(* service, one slot                                                       *)
Serve(i) ==
  /\ ~closed /\ i \notin FreeSlots
  /\ LET p == bridge.pending[i]
     IN  \/ p.phase = "mountPending" /\ p.next < Batches(p.tx) /\ bridge' \in PostBatch(bridge, i)
         \/ p.phase = "rollback" /\ bridge' \in TryRollback(i)
         \/ p.phase = "presentPending" /\ bridge' \in TryPresent(bridge, i)
         \/ p.phase = "coreResult" /\ bridge' \in TryCoreResult(bridge, i)
  /\ UNCHANGED <<closed, accepted, crowded>>

(* close: nothing is drained, what is pending stays.                       *)
Close ==
  /\ ~closed
  /\ closed' = TRUE
  /\ UNCHANGED <<bridge, accepted, crowded>>

Next ==
  \/ \E t \in Ids : Post(t) \/ Presented(t)
  \/ \E i \in Slots : Serve(i)
  \/ \E s \in Surfaces : SurfaceDestroyed(s)
  \/ Execute
  \/ Close

Spec == Init /\ [][Next]_vars

(***************************************************************************)
(* The owner serves all three again and again; a neighbour that puts the   *)
(* bridge off takes what it is offered in the end.                         *)
(***************************************************************************)
Fairness ==
  /\ WF_vars(Execute)
  /\ \A t \in Ids : WF_vars(Presented(t))
  /\ \A i \in Slots : SF_vars(Serve(i))

FairSpec == Spec /\ Fairness

(***************************************************************************)
(* Properties                                                              *)
(***************************************************************************)
TypeOK ==
  /\ closed \in BOOLEAN
  /\ bridge.pending \in
       [Slots -> [tx : Ids \cup {NoTx},
                  phase : {"free", "mountPending", "rollback", "presentPending",
                           "presentPosted", "coreResult"},
                  next : Nat, active : Nat, mounted : BOOLEAN]]
  /\ bridge.verdict \in [Ids -> {"none", "mounted", "failed"}]
  /\ bridge.queue \in Seq(Ids \X Nat) /\ Len(bridge.queue) <= MaxTransactions
  /\ bridge.applied \in [Ids -> SUBSET Nat]
  /\ bridge.phase \in [Surfaces -> {"hiddenEmpty", "hiddenMounted", "visible", "none"}]
  /\ bridge.present \subseteq Ids
  /\ accepted \subseteq Ids /\ crowded \subseteq accepted

(* Core is told exactly once of each transaction it was told is accepted:  *)
(* one that holds a slot has not been answered, one that holds none has,   *)
(* through batches, rollback, present and every retry (the answer the      *)
(* header promises, core_mount_bridge.h).                                  *)
AnsweredOnce ==
  /\ TypeOK
  /\ \A t \in Ids : bridge.told[t] + Cardinality(SlotOf(bridge, t)) =
                    IF t \in accepted THEN 1 ELSE 0

(* What Core is to be told, or was                                         *)
Success(b) ==
  {t \in Ids : b.verdict[t] = "mounted"} \cup {b.pending[i].tx : i \in {j \in Slots : b.pending[j].mounted}}

(* When a transaction comes to count as mounted, every batch of it is in   *)
(* the content of its surface, and a full one that is to be shown is       *)
(* shown; though batches go out ahead of the results of earlier ones, whose*)
(* failure is then not looked at.  Transactions that shared their surface  *)
(* in flight are left out: one's rollback takes the other's content.       *)
MountedMeansComplete ==
  [][(\A t \in Success(bridge') \ (Success(bridge) \cup crowded') :
        /\ bridge'.applied[t] = 0..(Batches(t) - 1)
        /\ Transactions[t].full /\ AutoPresent => bridge'.phase[SurfaceOf(t)] = "visible")]_vars

(* Every transaction that was accepted is answered, unless the bridge is   *)
(* closed first: no refusal, no full queue and no lost surface leaves its  *)
(* slot waiting for ever.                                                  *)
EveryTransactionAnswered ==
  \A t \in Ids : t \in accepted ~> (bridge.verdict[t] # "none" \/ closed)

(* The bridge drains after close: no transaction stays pending, as its     *)
(* destructor asserts and the verification report says.                    *)
CloseDrains == closed ~> (InFlight = {})
=============================================================================
