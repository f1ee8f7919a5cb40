----------------------- MODULE CoreMountBridgeProofs ------------------------
(***************************************************************************)
(* Core is told exactly once of each transaction it was told is accepted,  *)
(* for every set of transactions, every number of slots and batches and    *)
(* every answer of the mount host, the surface host and the ingress.  Each *)
(* operation of the bridge leaves one of several states: the lemmas show   *)
(* that every one of them keeps Keeps, and every step is made of them.     *)
(*                                                                         *)
(* And what comes to count as mounted is in its surface as a whole: the    *)
(* same operations, over again, keep Underway, and whatever is a success   *)
(* afterwards and was none before has arrived (Sound).                     *)
(***************************************************************************)
EXTENDS CoreMountBridge, FiniteSetTheorems, WellFoundedInduction, TLAPS

Entries ==
  [tx : Ids \cup {NoTx},
   phase : {"free", "mountPending", "rollback", "presentPending", "presentPosted", "coreResult"},
   next : Nat, active : Nat, mounted : BOOLEAN]

Bridges ==
  [pending : [Slots -> Entries],
   verdict : [Ids -> {"none", "mounted", "failed"}],
   told    : [Ids -> Nat],
   queue   : Seq(Ids \X Nat),
   applied : [Ids -> SUBSET Nat],
   phase   : [Surfaces -> {"hiddenEmpty", "hiddenMounted", "visible", "none"}],
   present : SUBSET Ids]

(* A transaction that holds a slot is accepted and not answered yet; one   *)
(* that is accepted and holds none was answered, once.                     *)
Waits(b, t) == \E i \in Slots : b.pending[i].tx = t

Owed(b, acc, t) ==
  /\ Waits(b, t) => t \in acc /\ b.told[t] = 0
  /\ t \in acc /\ ~Waits(b, t) => b.told[t] = 1
  /\ t \notin acc => b.told[t] = 0

(* What every state of the bridge keeps when acc is accepted; n counts the *)
(* batches that were in the mount host's queue before the operation.       *)
Keeps(b, acc, n) ==
  /\ b \in Bridges
  /\ n <= Len(b.queue) /\ Len(b.queue) <= MaxTransactions
  /\ \A i \in Slots : b.pending[i] = Free \/ b.pending[i].tx \in Ids
  /\ \A i, j \in Slots : b.pending[i].tx \in Ids /\ b.pending[i].tx = b.pending[j].tx => i = j
  /\ \A t \in Ids : Owed(b, acc, t)

(* Slot i of a state that keeps it is taken.                               *)
Taken(b, acc, n, i) == Keeps(b, acc, n) /\ i \in Slots /\ b.pending[i].tx \in Ids

IInv ==
  /\ closed \in BOOLEAN
  /\ Keeps(bridge, accepted, 0)
  /\ accepted \subseteq Ids /\ crowded \subseteq accepted

(***************************************************************************)
(* The changes every operation is made of                                  *)
(***************************************************************************)
Placed(b, i, e) == [b EXCEPT !.pending[i] = e]

(* Another entry in the slot of the same transaction.                      *)
LEMMA PlacedKeeps ==
  ASSUME NEW b, NEW acc, NEW n \in Nat, NEW i, Taken(b, acc, n, i),
         NEW e \in Entries, e.tx = b.pending[i].tx
  PROVE  Taken(Placed(b, i, e), acc, n, i)
<1> DEFINE c == Placed(b, i, e)
<1>1. b \in Bridges /\ i \in Slots /\ b.pending \in [Slots -> Entries]
  BY DEF Taken, Keeps, Bridges
<1>2. /\ c \in Bridges
      /\ c.pending = [b.pending EXCEPT ![i] = e]
      /\ c.told = b.told /\ c.queue = b.queue
  BY <1>1 DEF Placed, Bridges
<1> HIDE DEF c
<1>3. \A j \in Slots : c.pending[j].tx = b.pending[j].tx /\ (j # i => c.pending[j] = b.pending[j])
  BY <1>1, <1>2
<1>4. \A t \in Ids : Waits(c, t) <=> Waits(b, t)
  BY <1>3 DEF Waits
<1>5. \A t \in Ids : Owed(c, acc, t)
  BY <1>2, <1>4, Zenon DEF Owed, Taken, Keeps
<1>6. /\ \A j \in Slots : c.pending[j] = Free \/ c.pending[j].tx \in Ids
      /\ \A j, k \in Slots : c.pending[j].tx \in Ids /\ c.pending[j].tx = c.pending[k].tx => j = k
      /\ c.pending[i].tx \in Ids
  BY <1>1, <1>3, Zenon DEF Taken, Keeps
<1>7. 0 <= Len(c.queue) /\ n <= Len(c.queue) /\ Len(c.queue) <= MaxTransactions
  BY <1>2 DEF Taken, Keeps
<1> QED BY <1>1, <1>2, <1>5, <1>6, <1>7, Zenon DEF Taken, Keeps, c

Answered(b, i, v) ==
  [b EXCEPT !.pending[i] = Free, !.told[b.pending[i].tx] = @ + 1, !.verdict[b.pending[i].tx] = v]

(* The slot is freed as its transaction is answered.                       *)
LEMMA AnsweredKeeps ==
  ASSUME NEW b, NEW acc, NEW n \in Nat, NEW i, Taken(b, acc, n, i), NEW v \in {"mounted", "failed"}
  PROVE  Keeps(Answered(b, i, v), acc, n)
<1> DEFINE c == Answered(b, i, v)
           u == b.pending[i].tx
<1>1. b \in Bridges /\ i \in Slots /\ b.pending \in [Slots -> Entries] /\ u \in Ids
      /\ b.told \in [Ids -> Nat]
  BY DEF Taken, Keeps, Bridges
<1>2. Free \in Entries /\ Free.tx = NoTx /\ NoTx \notin Ids
  BY BridgeAssumption DEF Free, Entries
<1>3. /\ c \in Bridges
      /\ c.pending = [b.pending EXCEPT ![i] = Free]
      /\ c.told = [b.told EXCEPT ![u] = @ + 1]
      /\ c.queue = b.queue
  <2> DEFINE P == [b.pending EXCEPT ![i] = Free]
             T == [b.told EXCEPT ![u] = @ + 1]
             V == [b.verdict EXCEPT ![u] = v]
  <2>1. /\ P \in [Slots -> Entries] /\ T \in [Ids -> Nat]
        /\ V \in [Ids -> {"none", "mounted", "failed"}]
    BY <1>1, <1>2 DEF Bridges
  <2>2. c = [b EXCEPT !.pending = P, !.told = T, !.verdict = V]
    BY <1>1 DEF Answered, Bridges
  <2> HIDE DEF P, T, V
  <2>3. c \in Bridges /\ c.pending = P /\ c.told = T /\ c.queue = b.queue
    BY <1>1, <2>1, <2>2 DEF Bridges
  <2> QED BY <2>3 DEF P, T
<1> HIDE DEF c
<1>4. /\ c.pending[i] = Free
      /\ \A j \in Slots : j # i => c.pending[j] = b.pending[j]
  BY <1>1, <1>3
<1>5. \A j \in Slots : b.pending[j].tx = u => j = i
  BY <1>1, Zenon DEF Taken, Keeps
<1>6. ~Waits(c, u) /\ Waits(b, u)
  BY <1>1, <1>2, <1>4, <1>5, Zenon DEF Waits
<1>7. \A t \in Ids : t # u => (Waits(c, t) <=> Waits(b, t)) /\ c.told[t] = b.told[t]
  <2>1. \A t \in Ids : t # u => c.told[t] = b.told[t]
    BY <1>1, <1>3
  <2>2. \A t \in Ids : t # u => (Waits(c, t) <=> Waits(b, t))
    BY <1>1, <1>2, <1>4, Zenon DEF Waits
  <2> QED BY <2>1, <2>2
<1>8. c.told[u] = b.told[u] + 1
  BY <1>1, <1>3
<1>9. Owed(c, acc, u)
  <2>1. u \in acc /\ b.told[u] = 0
    BY <1>1, <1>6, Zenon DEF Taken, Keeps, Owed
  <2> QED BY <1>6, <1>8, <2>1 DEF Owed
<1>10. \A t \in Ids : Owed(c, acc, t)
  BY <1>7, <1>9, Zenon DEF Owed, Taken, Keeps
<1>11. /\ \A j \in Slots : c.pending[j] = Free \/ c.pending[j].tx \in Ids
       /\ \A j, k \in Slots : c.pending[j].tx \in Ids /\ c.pending[j].tx = c.pending[k].tx => j = k
  BY <1>2, <1>4, Zenon DEF Taken, Keeps
<1>12. n <= Len(c.queue) /\ Len(c.queue) <= MaxTransactions
  BY <1>3 DEF Taken, Keeps
<1> QED BY <1>3, <1>10, <1>11, <1>12, Zenon DEF Keeps, c

(* A state with the same slots and answers, and a sound rest.              *)
Elsewhere(b, c) == c.pending = b.pending /\ c.told = b.told

(* What changes neither slots nor answers keeps them.                      *)
LEMMA ElsewhereKeeps ==
  ASSUME NEW b, NEW c, NEW acc, NEW n, NEW m, Keeps(b, acc, n), Elsewhere(b, c), c \in Bridges,
         m <= Len(c.queue), Len(c.queue) <= MaxTransactions
  PROVE  /\ Keeps(c, acc, m)
         /\ \A i : Taken(b, acc, n, i) => Taken(c, acc, m, i)
<1>1. \A t : Waits(c, t) <=> Waits(b, t)
  BY Zenon DEF Waits, Elsewhere
<1>2. \A t \in Ids : Owed(c, acc, t)
  BY <1>1, Zenon DEF Owed, Keeps, Elsewhere
<1>3. Keeps(c, acc, m)
  BY <1>2, Zenon DEF Keeps, Elsewhere
<1> QED BY <1>3, Zenon DEF Taken, Elsewhere

(***************************************************************************)
(* The operations of the bridge                                            *)
(***************************************************************************)
(* The result is put off, or told and the slot freed.                      *)
LEMMA TryCoreResultKeeps ==
  ASSUME NEW b, NEW acc, NEW n \in Nat, NEW i, Taken(b, acc, n, i), NEW c \in TryCoreResult(b, i)
  PROVE  Keeps(c, acc, n)
<1>1. c = b \/ c = Answered(b, i, IF b.pending[i].mounted THEN "mounted" ELSE "failed")
  BY Zenon DEF TryCoreResult, Answered
<1>2. PICK v \in {"mounted", "failed"} : c = b \/ c = Answered(b, i, v)
  <2>1. CASE b.pending[i].mounted
    BY <1>1, <2>1, Zenon
  <2>2. CASE ~b.pending[i].mounted
    BY <1>1, <2>2, Zenon
  <2> QED BY <2>1, <2>2
<1>3. Keeps(Answered(b, i, v), acc, n)
  BY AnsweredKeeps
<1>4. Keeps(b, acc, n)
  BY DEF Taken
<1> QED BY <1>2, <1>3, <1>4, Zenon

(* The fields of an entry that an operation changes.                       *)
LEMMA EntryFields ==
  ASSUME NEW e \in Entries,
         NEW f \in {"rollback", "presentPending", "presentPosted", "coreResult"}
  PROVE  /\ [e EXCEPT !.phase = f] \in Entries
         /\ [e EXCEPT !.phase = f].tx = e.tx
         /\ \A m \in BOOLEAN : /\ [e EXCEPT !.phase = f, !.mounted = m] \in Entries
                               /\ [e EXCEPT !.phase = f, !.mounted = m].tx = e.tx
BY DEF Entries

(* The result to tell is written down.                                     *)
LEMMA SettledKeeps ==
  ASSUME NEW b, NEW acc, NEW n \in Nat, NEW i, Taken(b, acc, n, i), NEW m \in BOOLEAN
  PROVE  Taken(Settled(b, i, m), acc, n, i)
<1> DEFINE e == [b.pending[i] EXCEPT !.phase = "coreResult", !.mounted = m]
<1>1. b \in Bridges /\ i \in Slots /\ b.pending[i] \in Entries
  BY DEF Taken, Keeps, Bridges
<1>2. Settled(b, i, m) = Placed(b, i, e)
  BY <1>1 DEF Settled, Placed, Bridges
<1>3. e \in Entries /\ e.tx = b.pending[i].tx
  BY <1>1, EntryFields, Zenon
<1> HIDE DEF e
<1> QED BY <1>2, <1>3, PlacedKeeps, Zenon

(* The present is taken, put off or refused for good.                      *)
LEMMA TryPresentKeeps ==
  ASSUME NEW b, NEW acc, NEW n \in Nat, NEW i, Taken(b, acc, n, i), NEW c \in TryPresent(b, i)
  PROVE  Keeps(c, acc, n)
<1> DEFINE e == [b.pending[i] EXCEPT !.phase = "presentPosted"]
           d == Placed(b, i, e)
           more == b.present \cup {b.pending[i].tx}
           posted == [d EXCEPT !.present = more]
<1>1. b \in Bridges /\ i \in Slots /\ b.pending[i] \in Entries /\ b.pending[i].tx \in Ids
  BY DEF Taken, Keeps, Bridges
<1>2. c = b \/ c = posted \/ c \in TryCoreResult(Settled(b, i, FALSE), i)
  <2>1. [b EXCEPT !.pending[i].phase = "presentPosted", !.present = @ \cup {b.pending[i].tx}]
          = posted
    BY <1>1 DEF Placed, Bridges
  <2> HIDE DEF posted
  <2> QED BY <2>1, Zenon DEF TryPresent
<1>3. CASE c = posted
  <2>1. Taken(d, acc, n, i)
    <3>1. e \in Entries /\ e.tx = b.pending[i].tx
      BY <1>1, EntryFields, Zenon
    <3> HIDE DEF e
    <3> QED BY <3>1, PlacedKeeps, Zenon
  <2> HIDE DEF d
  <2>2. d \in Bridges /\ n <= Len(d.queue) /\ Len(d.queue) <= MaxTransactions
    BY <2>1 DEF Taken, Keeps
  <2>3. more \in SUBSET Ids
    BY <1>1 DEF Bridges
  <2> HIDE DEF more
  <2>4. posted \in Bridges /\ Elsewhere(d, posted) /\ posted.queue = d.queue
    BY <2>2, <2>3 DEF Bridges, Elsewhere
  <2> HIDE DEF posted
  <2> QED BY <1>3, <2>1, <2>2, <2>4, ElsewhereKeeps, Zenon DEF Taken
<1>4. CASE c \in TryCoreResult(Settled(b, i, FALSE), i)
  <2>1. Taken(Settled(b, i, FALSE), acc, n, i)
    BY SettledKeeps, Zenon
  <2> QED BY <1>4, <2>1, TryCoreResultKeeps, Zenon
<1>5. CASE c = b
  BY <1>5 DEF Taken
<1> QED BY <1>2, <1>3, <1>4, <1>5, Zenon

(* The batch that is tried next is the active one from then on.            *)
Tried(p)   == [p EXCEPT !.active = p.next, !.phase = "mountPending"]
Refused(p) == [p EXCEPT !.active = p.next, !.phase = "rollback"]
Counted(p) == [p EXCEPT !.active = p.next, !.phase = "mountPending", !.next = p.next + 1]

WithQueue(b, q) == [b EXCEPT !.queue = q]

(* What postBatch leaves, in terms of the entry of the slot.               *)
LEMMA PostBatchOutcomes ==
  ASSUME NEW b, NEW acc, NEW n \in Nat, NEW i, Taken(b, acc, n, i), NEW c \in PostBatch(b, i)
  PROVE  LET p == b.pending[i]
         IN  \/ c = Placed(b, i, Tried(p)) \/ c = Placed(b, i, Refused(p))
             \/ /\ c = WithQueue(Placed(b, i, Counted(p)), Append(b.queue, <<p.tx, p.next>>))
                /\ Len(b.queue) # MaxTransactions
<1> DEFINE p == b.pending[i]
           tried   == Placed(b, i, [p EXCEPT !.active = p.next, !.phase = "mountPending"])
           refused == Placed(b, i, [p EXCEPT !.active = p.next, !.phase = "rollback"])
           counted == Placed(b, i, [p EXCEPT !.active = p.next, !.phase = "mountPending",
                                             !.next = p.next + 1])
           sent    == [counted EXCEPT !.queue = Append(b.queue, <<p.tx, p.next>>)]
<1>1. b \in Bridges /\ i \in Slots /\ p \in Entries /\ p.tx \in Ids /\ p.next \in Nat
  BY DEF Taken, Keeps, Bridges, Entries
<1>2. c = tried \/ c = refused \/ (c = sent /\ Len(b.queue) # MaxTransactions)
  <2> DEFINE t == [b EXCEPT !.pending[i].active = p.next, !.pending[i].phase = "mountPending"]
  <2>1. t = tried
    BY <1>1 DEF Placed, Bridges
  <2>2. [t EXCEPT !.pending[i].phase = "rollback"] = refused
    <3> DEFINE d == [p EXCEPT !.active = p.next, !.phase = "mountPending"]
    <3>1. d \in Entries /\ [d EXCEPT !.phase = "rollback"]
                              = [p EXCEPT !.active = p.next, !.phase = "rollback"]
      BY <1>1 DEF Entries
    <3>2. t = Placed(b, i, d)
      BY <2>1
    <3> HIDE DEF d, t, p
    <3>3. [t EXCEPT !.pending[i].phase = "rollback"]
            = Placed(b, i, [d EXCEPT !.phase = "rollback"])
      BY <1>1, <3>1, <3>2 DEF Placed, Bridges
    <3> QED BY <3>1, <3>3, Zenon
  <2>3. [t EXCEPT !.pending[i].next = p.next + 1, !.queue = Append(@, <<p.tx, p.next>>)] = sent
    <3> DEFINE d == [p EXCEPT !.active = p.next, !.phase = "mountPending"]
               x == <<p.tx, p.next>>
               m == p.next + 1
    <3>1. d \in Entries /\ [d EXCEPT !.next = m]
                              = [p EXCEPT !.active = p.next, !.phase = "mountPending", !.next = m]
      BY <1>1 DEF Entries
    <3>2. t = Placed(b, i, d)
      BY <2>1
    <3> HIDE DEF d, t, x, m
    <3>3. [t EXCEPT !.pending[i].next = m, !.queue = Append(@, x)]
            = [Placed(b, i, [d EXCEPT !.next = m]) EXCEPT !.queue = Append(b.queue, x)]
      BY <1>1, <3>1, <3>2 DEF Placed, Bridges
    <3> QED BY <3>1, <3>3, Zenon DEF m, x
  <2>4. \/ c = t \/ c = [t EXCEPT !.pending[i].phase = "rollback"]
        \/ /\ c = [t EXCEPT !.pending[i].next = p.next + 1, !.queue = Append(@, <<p.tx, p.next>>)]
           /\ Len(b.queue) # MaxTransactions
    BY Zenon DEF PostBatch
  <2> HIDE DEF t, tried, refused, sent
  <2> QED BY <2>1, <2>2, <2>3, <2>4, Zenon
<1> QED BY <1>2, Zenon DEF Tried, Refused, Counted, WithQueue

(* A batch is taken by the mount host, refused, or put off.                *)
LEMMA PostBatchKeeps ==
  ASSUME NEW b, NEW acc, NEW n \in Nat, NEW i, Taken(b, acc, n, i), NEW c \in PostBatch(b, i)
  PROVE  Taken(c, acc, n, i)
<1> DEFINE p == b.pending[i]
           tried   == Placed(b, i, [p EXCEPT !.active = p.next, !.phase = "mountPending"])
           refused == Placed(b, i, [p EXCEPT !.active = p.next, !.phase = "rollback"])
           counted == Placed(b, i, [p EXCEPT !.active = p.next, !.phase = "mountPending",
                                             !.next = p.next + 1])
           sent    == [counted EXCEPT !.queue = Append(b.queue, <<p.tx, p.next>>)]
<1>1. b \in Bridges /\ i \in Slots /\ p \in Entries /\ p.tx \in Ids /\ p.next \in Nat
  BY DEF Taken, Keeps, Bridges, Entries
<1>2. c = tried \/ c = refused \/ (c = sent /\ Len(b.queue) # MaxTransactions)
  BY PostBatchOutcomes, Zenon DEF Tried, Refused, Counted, WithQueue
<1>3. Taken(tried, acc, n, i) /\ Taken(refused, acc, n, i) /\ Taken(counted, acc, n, i)
  <2>1. p.next + 1 \in Nat
    BY <1>1
  <2>2. \A e \in Entries : e.tx = p.tx => Taken(Placed(b, i, e), acc, n, i)
    BY PlacedKeeps, Zenon
  <2> DEFINE e1 == [p EXCEPT !.active = p.next, !.phase = "mountPending"]
             e2 == [p EXCEPT !.active = p.next, !.phase = "rollback"]
             e3 == [p EXCEPT !.active = p.next, !.phase = "mountPending", !.next = p.next + 1]
  <2>3. e1 \in Entries /\ e2 \in Entries /\ e1.tx = p.tx /\ e2.tx = p.tx
    BY <1>1 DEF Entries
  <2>4. e3 \in Entries /\ e3.tx = p.tx
    BY <1>1, <2>1 DEF Entries
  <2> HIDE DEF e1, e2, e3, p
  <2>5. Taken(Placed(b, i, e1), acc, n, i) /\ Taken(Placed(b, i, e2), acc, n, i)
        /\ Taken(Placed(b, i, e3), acc, n, i)
    BY <2>2, <2>3, <2>4, Zenon
  <2> QED BY <2>5 DEF e1, e2, e3
<1>4. CASE c = sent /\ Len(b.queue) # MaxTransactions
  <2>1. counted.queue = b.queue /\ counted \in Bridges
    <3>1. counted \in Bridges
      BY <1>3, Zenon DEF Taken, Keeps
    <3>2. \A e : Placed(b, i, e).queue = b.queue
      BY <1>1 DEF Placed, Bridges
    <3> QED BY <3>1, <3>2, Zenon
  <2>2. b.queue \in Seq(Ids \X Nat) /\ n <= Len(b.queue) /\ Len(b.queue) <= MaxTransactions
    BY DEF Taken, Keeps, Bridges
  <2>3. MaxTransactions \in Nat
    BY BridgeAssumption
  <2> DEFINE q == Append(b.queue, <<p.tx, p.next>>)
  <2>4. q \in Seq(Ids \X Nat) /\ n <= Len(q) /\ Len(q) <= MaxTransactions
    BY <1>1, <1>4, <2>2, <2>3
  <2> HIDE DEF q, counted
  <2>5. sent \in Bridges /\ Elsewhere(counted, sent) /\ sent.queue = q
    BY <2>1, <2>4 DEF Bridges, Elsewhere, q
  <2> HIDE DEF sent
  <2> QED BY <1>3, <1>4, <2>4, <2>5, ElsewhereKeeps, Zenon DEF Taken
<1> QED BY <1>2, <1>3, <1>4, Zenon

(* The result of a batch moves its transaction on, or is not waited for.   *)
LEMMA CompleteKeeps ==
  ASSUME NEW b, NEW acc, NEW n \in Nat, NEW i, Taken(b, acc, n, i), NEW k, NEW success,
         NEW c \in Complete(b, i, k, success)
  PROVE  Keeps(c, acc, n)
<1> DEFINE p == b.pending[i]
           s == SurfaceOf(p.tx)
           mounted == [b EXCEPT !.phase[s] = "hiddenMounted"]
           waiting == [mounted EXCEPT !.pending[i].phase = "presentPending"]
           refused == [b EXCEPT !.pending[i].phase = "rollback"]
<1>1. b \in Bridges /\ i \in Slots /\ p \in Entries /\ p.tx \in Ids
  BY DEF Taken, Keeps, Bridges
<1>2. \/ c = b \/ c = refused \/ c \in PostBatch(b, i)
      \/ c \in TryCoreResult(Settled(b, i, TRUE), i)
      \/ c \in TryCoreResult(Settled(b, i, FALSE), i)
      \/ c \in TryPresent(waiting, i)
      \/ c \in TryCoreResult(Settled(mounted, i, TRUE), i)
  BY Zenon DEF Complete
<1>3. Taken(refused, acc, n, i)
  <2> DEFINE e == [p EXCEPT !.phase = "rollback"]
  <2>1. e \in Entries /\ e.tx = p.tx
    BY <1>1, EntryFields, Zenon
  <2>2. refused = Placed(b, i, e)
    BY <1>1 DEF Placed, Bridges
  <2> HIDE DEF e, refused
  <2> QED BY <2>1, <2>2, PlacedKeeps, Zenon
<1>4. Taken(mounted, acc, n, i) /\ mounted \in Bridges /\ mounted.pending = b.pending
  <2> DEFINE f == [b.phase EXCEPT ![s] = "hiddenMounted"]
  <2>1. f \in [Surfaces -> {"hiddenEmpty", "hiddenMounted", "visible", "none"}]
    BY <1>1 DEF Bridges
  <2>2. mounted = [b EXCEPT !.phase = f]
    BY <1>1 DEF Bridges
  <2> HIDE DEF f
  <2>3. mounted \in Bridges /\ Elsewhere(b, mounted) /\ mounted.queue = b.queue
    BY <1>1, <2>1, <2>2 DEF Bridges, Elsewhere
  <2> HIDE DEF mounted
  <2>4. Taken(mounted, acc, n, i)
    <3>1. /\ Taken(b, acc, n, i) /\ Keeps(b, acc, n)
          /\ n <= Len(mounted.queue) /\ Len(mounted.queue) <= MaxTransactions
      BY <2>3, Zenon DEF Taken, Keeps
    <3> QED BY <2>3, <3>1, ElsewhereKeeps, Zenon
  <2> QED BY <2>3, <2>4 DEF Elsewhere
<1>5. Taken(waiting, acc, n, i)
  <2> DEFINE e == [p EXCEPT !.phase = "presentPending"]
  <2>1. e \in Entries /\ e.tx = p.tx
    BY <1>1, EntryFields, Zenon
  <2> HIDE DEF mounted
  <2>2. waiting = Placed(mounted, i, e)
    BY <1>1, <1>4 DEF Placed, Bridges
  <2> HIDE DEF e, waiting
  <2> QED BY <1>4, <2>1, <2>2, PlacedKeeps, Zenon
<1> HIDE DEF mounted, waiting, refused
<1>6. \A m \in BOOLEAN : /\ Taken(Settled(b, i, m), acc, n, i)
                        /\ Taken(Settled(mounted, i, m), acc, n, i)
  BY <1>4, SettledKeeps, Zenon
<1>7. TRUE \in BOOLEAN /\ FALSE \in BOOLEAN
  OBVIOUS
<1>8. Taken(Settled(b, i, TRUE), acc, n, i) /\ Taken(Settled(b, i, FALSE), acc, n, i)
      /\ Taken(Settled(mounted, i, TRUE), acc, n, i)
  BY <1>6, <1>7, Zenon
<1>9. \A d : Taken(d, acc, n, i) => Keeps(d, acc, n)
  BY Zenon DEF Taken
<1> QED BY <1>2, <1>3, <1>5, <1>8, <1>9, PostBatchKeeps, TryPresentKeeps, TryCoreResultKeeps, Zenon

(* And so for the transaction it names, if that still waits.               *)
LEMMA CompleteForKeeps ==
  ASSUME NEW b, NEW acc, NEW n \in Nat, Keeps(b, acc, n), NEW t \in Ids, NEW k, NEW success,
         NEW c \in CompleteFor(b, t, k, success)
  PROVE  Keeps(c, acc, n)
<1>1. CASE SlotOf(b, t) = {}
  BY <1>1, Zenon DEF CompleteFor
<1>2. CASE SlotOf(b, t) # {}
  <2>1. PICK i \in SlotOf(b, t) : c \in Complete(b, i, k, success)
    BY <1>2, Zenon DEF CompleteFor
  <2>2. Taken(b, acc, n, i)
    BY Zenon DEF SlotOf, Taken
  <2> QED BY <2>1, <2>2, CompleteKeeps, Zenon
<1> QED BY <1>1, <1>2

(* The content of a surface comes and goes.                                *)
WithContent(d, a) == [d EXCEPT !.applied = a]

(* Other content of the surfaces changes neither slots nor answers.        *)
LEMMA WithContentKeeps ==
  ASSUME NEW b, NEW acc, NEW n \in Nat, Keeps(b, acc, n), NEW a \in [Ids -> SUBSET Nat]
  PROVE  /\ Keeps(WithContent(b, a), acc, n)
         /\ \A i : Taken(b, acc, n, i) => Taken(WithContent(b, a), acc, n, i)
<1> DEFINE c == WithContent(b, a)
<1>1. b \in Bridges /\ n <= Len(b.queue) /\ Len(b.queue) <= MaxTransactions
  BY Zenon DEF Keeps
<1>2. c \in Bridges /\ Elsewhere(b, c) /\ c.queue = b.queue
  BY <1>1 DEF WithContent, Bridges, Elsewhere
<1> HIDE DEF c
<1>3. n <= Len(c.queue) /\ Len(c.queue) <= MaxTransactions
  BY <1>1, <1>2
<1>4. Keeps(c, acc, n) /\ \A i : Taken(b, acc, n, i) => Taken(c, acc, n, i)
  BY <1>2, <1>3, ElsewhereKeeps, Zenon
<1> QED BY <1>4 DEF c

(* Nor does a surface that is emptied,                                     *)
LEMMA EmptiedKeeps ==
  ASSUME NEW b, NEW acc, NEW n \in Nat, Keeps(b, acc, n), NEW s
  PROVE  /\ Keeps(Emptied(b, s), acc, n)
         /\ \A i : Taken(b, acc, n, i) => Taken(Emptied(b, s), acc, n, i)
<1> DEFINE a == [u \in Ids |-> IF SurfaceOf(u) = s THEN {} ELSE b.applied[u]]
<1>1. a \in [Ids -> SUBSET Nat]
  BY DEF Keeps, Bridges
<1>2. Emptied(b, s) = WithContent(b, a)
  BY Zenon DEF Emptied, WithContent
<1> HIDE DEF a
<1> QED BY <1>1, <1>2, WithContentKeeps, Zenon

(* or a batch that is mounted.                                             *)
LEMMA MountedKeeps ==
  ASSUME NEW b, NEW acc, NEW n \in Nat, Keeps(b, acc, n), NEW t \in Ids, NEW k \in Nat
  PROVE  Keeps(Mounted(b, t, k), acc, n)
<1>1. PICK base : Keeps(base, acc, n) /\ Mounted(b, t, k) = [base EXCEPT !.applied[t] = @ \cup {k}]
  BY EmptiedKeeps, Zenon DEF Mounted
<1> DEFINE a == [base.applied EXCEPT ![t] = base.applied[t] \cup {k}]
<1>2. a \in [Ids -> SUBSET Nat]
  BY <1>1 DEF Keeps, Bridges
<1>3. Mounted(b, t, k) = WithContent(base, a)
  BY <1>1 DEF WithContent
<1>4. Keeps(base, acc, n)
  BY <1>1
<1> HIDE DEF a
<1> QED BY <1>2, <1>3, <1>4, WithContentKeeps, Zenon

(* A transaction not accepted before takes a free slot.                    *)
LEMMA TakesSlot ==
  ASSUME NEW b, NEW acc, NEW n \in Nat, Keeps(b, acc, n), NEW t \in Ids, t \notin acc,
         NEW i \in Slots, b.pending[i] = Free, NEW e \in Entries, e.tx = t
  PROVE  Taken(Placed(b, i, e), acc \cup {t}, n, i)
<1> DEFINE c == Placed(b, i, e)
<1>1. b \in Bridges /\ b.pending \in [Slots -> Entries]
  BY DEF Keeps, Bridges
<1>2. /\ c \in Bridges
      /\ c.pending = [b.pending EXCEPT ![i] = e]
      /\ c.told = b.told /\ c.queue = b.queue
  BY <1>1 DEF Placed, Bridges
<1> HIDE DEF c
<1>3. c.pending[i].tx = t /\ \A j \in Slots : j # i => c.pending[j] = b.pending[j]
  BY <1>1, <1>2
<1>4. b.pending[i].tx \notin Ids
  BY BridgeAssumption DEF Free
<1>5. ~Waits(b, t) /\ b.told[t] = 0
  BY Zenon DEF Keeps, Owed
<1>6. Waits(c, t) /\ \A u \in Ids : u # t => (Waits(c, u) <=> Waits(b, u))
  <2>1. Waits(c, t)
    BY <1>3, Zenon DEF Waits
  <2>2. ASSUME NEW u \in Ids, u # t PROVE Waits(c, u) <=> Waits(b, u)
    BY <1>3, <1>4, <2>2, Zenon DEF Waits
  <2> QED BY <2>1, <2>2
<1>7. \A u \in Ids : Owed(c, acc \cup {t}, u)
  <2>1. Owed(c, acc \cup {t}, t)
    BY <1>2, <1>5, <1>6 DEF Owed
  <2>2. ASSUME NEW u \in Ids, u # t PROVE Owed(c, acc \cup {t}, u)
    BY <1>2, <1>6, <2>2, Zenon DEF Owed, Keeps
  <2> QED BY <2>1, <2>2
<1>8. \A j \in Slots : j # i => c.pending[j].tx # t
  BY <1>3, <1>5, Zenon DEF Waits
<1>9. /\ \A j \in Slots : c.pending[j] = Free \/ c.pending[j].tx \in Ids
      /\ \A j, k \in Slots : c.pending[j].tx \in Ids /\ c.pending[j].tx = c.pending[k].tx => j = k
      /\ c.pending[i].tx \in Ids
  <2>1. \A j \in Slots : c.pending[j] = Free \/ c.pending[j].tx \in Ids
    BY <1>3, Zenon DEF Keeps
  <2>2. \A j, k \in Slots : c.pending[j].tx \in Ids /\ c.pending[j].tx = c.pending[k].tx => j = k
    BY <1>3, <1>8, Zenon DEF Keeps
  <2> QED BY <1>3, <2>1, <2>2, Zenon
<1>10. n <= Len(c.queue) /\ Len(c.queue) <= MaxTransactions
  BY <1>2 DEF Keeps
<1> QED BY <1>2, <1>7, <1>9, <1>10, Zenon DEF Taken, Keeps, c

(* The first of a set of slots is one of them.                             *)
LEMMA MinIsMember ==
  ASSUME NEW S \in SUBSET Nat, S # {}
  PROVE  Min(S) \in S
<1>1. PICK n \in S : \A k \in S : ~(<<k, n>> \in OpToRel(<, Nat))
  BY NatLessThanWellFounded, WFMin
<1>2. ASSUME NEW k \in S PROVE n <= k
  <2>1. k \in Nat /\ n \in Nat
    OBVIOUS
  <2>2. <<k, n>> \in OpToRel(<, Nat) <=> k < n
    BY <2>1, Zenon DEF OpToRel
  <2>3. ~(k < n)
    BY <1>1, <2>2, Zenon
  <2> QED BY <2>1, <2>3
<1> QED BY <1>2 DEF Min

(***************************************************************************)
(* The steps                                                               *)
(***************************************************************************)
(* A post takes a slot for a transaction just as Core is told it is taken. *)
LEMMA PostStep ==
  ASSUME IInv, NEW t \in Ids, Post(t)
  PROVE  IInv'
<1> DEFINE i == Min(FreeSlots)
           e == [Free EXCEPT !.tx = t, !.phase = "mountPending"]
           taken == [bridge EXCEPT !.pending[i] = e]
<1>1. i \in Slots /\ bridge.pending[i] = Free
  <2>1. FreeSlots \in SUBSET Nat /\ FreeSlots # {} /\ FreeSlots \subseteq Slots
    BY BridgeAssumption DEF Post, FreeSlots, Slots
  <2>2. i \in FreeSlots
    BY <2>1, MinIsMember, Zenon
  <2> QED BY <2>1, <2>2 DEF FreeSlots
<1>2. e \in Entries /\ e.tx = t
  BY DEF Free, Entries
<1> HIDE DEF i, e
<1>3. Keeps(bridge, accepted, 0) /\ t \notin accepted /\ 0 \in Nat
  BY DEF IInv, Post
<1>4. Taken(taken, accepted \cup {t}, 0, i)
  BY <1>1, <1>2, <1>3, TakesSlot, Zenon DEF Placed
<1>5. bridge' \in PostBatch(taken, i)
  BY Zenon DEF Post, i, e
<1> HIDE DEF taken
<1>6. Keeps(bridge', accepted \cup {t}, 0)
  BY <1>3, <1>4, <1>5, PostBatchKeeps, Zenon DEF Taken
<1>7. accepted' = accepted \cup {t} /\ closed' = closed
  BY DEF Post
<1>8. crowded' \subseteq accepted'
  <2>1. InFlight \subseteq accepted
    <3>1. \A j \in Slots : bridge.pending[j] = Free \/ bridge.pending[j].tx \in accepted
      BY <1>3, Zenon DEF Keeps, Owed, Waits
    <3>2. Free.tx = NoTx
      BY DEF Free
    <3> QED BY <3>1, <3>2, Zenon DEF InFlight
  <2>2. crowded \subseteq accepted
    BY DEF IInv
  <2> QED BY <1>7, <2>1, <2>2 DEF Post
<1> QED BY <1>6, <1>7, <1>8 DEF IInv

(* A slot that is served keeps its transaction or frees itself with the    *)
(* answer.                                                                 *)
LEMMA ServeStep ==
  ASSUME IInv, NEW i \in Slots, Serve(i)
  PROVE  IInv'
<1>1. Keeps(bridge, accepted, 0) /\ Taken(bridge, accepted, 0, i) /\ 0 \in Nat
  BY DEF IInv, Serve, FreeSlots, Taken, Keeps
<1>2. \/ bridge' \in PostBatch(bridge, i) \/ bridge' \in TryRollback(i)
      \/ bridge' \in TryPresent(bridge, i) \/ bridge' \in TryCoreResult(bridge, i)
  BY Zenon DEF Serve
<1>3. CASE bridge' \in TryRollback(i)
  <2> DEFINE s == SurfaceOf(bridge.pending[i].tx)
             d == Emptied(bridge, s)
  <2>1. bridge' = bridge \/ bridge' \in TryCoreResult(Settled(d, i, FALSE), i)
    BY <1>3, Zenon DEF TryRollback
  <2>2. Taken(d, accepted, 0, i)
    BY <1>1, EmptiedKeeps, Zenon
  <2> HIDE DEF d
  <2>3. Taken(Settled(d, i, FALSE), accepted, 0, i)
    BY <1>1, <2>2, SettledKeeps, Zenon
  <2>4. Keeps(bridge', accepted, 0)
    BY <1>1, <2>1, <2>3, TryCoreResultKeeps, Zenon
  <2> QED BY <2>4 DEF IInv, Serve
<1>4. CASE ~(bridge' \in TryRollback(i))
  <2>1. Keeps(bridge', accepted, 0)
    BY <1>1, <1>2, <1>4, PostBatchKeeps, TryPresentKeeps, TryCoreResultKeeps, Zenon DEF Taken
  <2> QED BY <2>1 DEF IInv, Serve
<1> QED BY <1>3, <1>4

(* The result of a batch the mount host has executed.                      *)
LEMMA ExecuteStep ==
  ASSUME IInv, Execute
  PROVE  IInv'
<1> DEFINE t == Head(bridge.queue)[1]
           k == Head(bridge.queue)[2]
<1>1. /\ Keeps(bridge, accepted, 1) /\ 1 \in Nat /\ t \in Ids /\ k \in Nat
  <2>1. /\ Keeps(bridge, accepted, 0)
        /\ bridge.queue # <<>> /\ bridge.queue \in Seq(Ids \X Nat)
    BY DEF IInv, Keeps, Bridges, Execute
  <2>2. 1 <= Len(bridge.queue) /\ Head(bridge.queue) \in Ids \X Nat
    BY <2>1
  <2> QED BY <2>1, <2>2, Zenon DEF Keeps
<1>2. PICK b : /\ \/ b \in CompleteFor(Emptied(bridge, SurfaceOf(t)), t, k, FALSE)
                  \/ b \in CompleteFor(bridge, t, k, FALSE)
                  \/ b \in CompleteFor(Mounted(bridge, t, k), t, k, TRUE)
               /\ bridge' = [b EXCEPT !.queue = Tail(b.queue)]
  BY Zenon DEF Execute
<1> HIDE DEF t, k
<1>3. Keeps(Emptied(bridge, SurfaceOf(t)), accepted, 1) /\ Keeps(Mounted(bridge, t, k), accepted, 1)
  BY <1>1, EmptiedKeeps, MountedKeeps, Zenon
<1>4. Keeps(b, accepted, 1)
  BY <1>1, <1>2, <1>3, CompleteForKeeps, Zenon
<1>5. b \in Bridges /\ b.queue \in Seq(Ids \X Nat) /\ 1 <= Len(b.queue)
      /\ Len(b.queue) <= MaxTransactions
  BY <1>4 DEF Keeps, Bridges
<1> DEFINE q == Tail(b.queue)
<1>6. q \in Seq(Ids \X Nat) /\ 0 <= Len(q) /\ Len(q) <= MaxTransactions
  <2>1. Len(b.queue) \in Nat /\ b.queue # <<>>
    BY <1>5
  <2>2. q \in Seq(Ids \X Nat) /\ Len(q) = Len(b.queue) - 1
    BY <1>5, <2>1
  <2> QED BY <1>5, <2>1, <2>2, BridgeAssumption
<1> HIDE DEF q
<1>7. bridge' \in Bridges /\ Elsewhere(b, bridge') /\ bridge'.queue = q
  BY <1>2, <1>5, <1>6 DEF Bridges, Elsewhere, q
<1>8. Keeps(bridge', accepted, 0)
  BY <1>4, <1>6, <1>7, ElsewhereKeeps, Zenon
<1> QED BY <1>8 DEF IInv, Execute

(* The result of a present the surface host has executed.                  *)
LEMMA PresentedStep ==
  ASSUME IInv, NEW t \in Ids, Presented(t)
  PROVE  IInv'
<1> DEFINE s == SurfaceOf(t)
           shown(valid) == valid /\ bridge.phase[s] = "hiddenMounted"
           after(valid) == [bridge EXCEPT !.present = @ \ {t},
                                          !.phase[s] = IF shown(valid) THEN "visible" ELSE @]
<1>0. PICK valid \in BOOLEAN :
        \/ bridge' = after(valid)
        \/ \E i \in SlotOf(bridge, t) :
             bridge' \in TryCoreResult(Settled(after(valid), i, shown(valid)), i)
  BY Zenon DEF Presented
<1> DEFINE done == after(valid)
<1>1. Keeps(bridge, accepted, 0) /\ 0 \in Nat /\ bridge \in Bridges
  BY DEF IInv, Keeps
<1>2. done \in Bridges /\ Elsewhere(bridge, done) /\ done.queue = bridge.queue
  <2> DEFINE P == bridge.present \ {t}
             F == [bridge.phase EXCEPT ![s] = IF shown(valid) THEN "visible" ELSE bridge.phase[s]]
  <2>1. /\ P \in SUBSET Ids
        /\ F \in [Surfaces -> {"hiddenEmpty", "hiddenMounted", "visible", "none"}]
    BY <1>1 DEF Bridges
  <2>2. done = [bridge EXCEPT !.present = P, !.phase = F]
    BY <1>1 DEF Bridges
  <2> HIDE DEF P, F, done
  <2> QED BY <1>1, <2>1, <2>2 DEF Bridges, Elsewhere
<1>3. /\ Keeps(done, accepted, 0)
      /\ \A i : Taken(bridge, accepted, 0, i) => Taken(done, accepted, 0, i)
  <2>1. 0 <= Len(bridge.queue) /\ Len(bridge.queue) <= MaxTransactions
    BY <1>1 DEF Keeps
  <2> HIDE DEF done
  <2> QED BY <1>1, <1>2, <2>1, ElsewhereKeeps, Zenon
<1>4. PICK is \in BOOLEAN :
        \/ bridge' = done
        \/ \E i \in SlotOf(bridge, t) : bridge' \in TryCoreResult(Settled(done, i, is), i)
  <2>1. shown(valid) \in BOOLEAN
    BY Zenon
  <2> HIDE DEF shown
  <2> QED BY <1>0, <2>1, Zenon
<1> HIDE DEF done
<1>5. \A i \in SlotOf(bridge, t) : Taken(done, accepted, 0, i)
  BY <1>1, <1>3, Zenon DEF SlotOf, Taken
<1>6. Keeps(bridge', accepted, 0)
  BY <1>1, <1>3, <1>4, <1>5, SettledKeeps, TryCoreResultKeeps, Zenon
<1> QED BY <1>6 DEF IInv, Presented

(* A surface that goes takes its content along.                            *)
LEMMA DestroyedStep ==
  ASSUME IInv, NEW s \in Surfaces, SurfaceDestroyed(s)
  PROVE  IInv'
<1> DEFINE d == Emptied(bridge, s)
           F == [d.phase EXCEPT ![s] = "none"]
<1>1. Keeps(bridge, accepted, 0) /\ 0 \in Nat
  BY DEF IInv
<1>2. Keeps(d, accepted, 0)
  BY <1>1, EmptiedKeeps, Zenon
<1> HIDE DEF d
<1>3. d \in Bridges /\ F \in [Surfaces -> {"hiddenEmpty", "hiddenMounted", "visible", "none"}]
  BY <1>2 DEF Keeps, Bridges
<1>4. bridge' = [d EXCEPT !.phase = F]
  BY <1>3 DEF SurfaceDestroyed, d, Bridges
<1> HIDE DEF F
<1>5. bridge' \in Bridges /\ Elsewhere(d, bridge') /\ bridge'.queue = d.queue
  BY <1>3, <1>4 DEF Bridges, Elsewhere
<1>6. 0 <= Len(d.queue) /\ Len(d.queue) <= MaxTransactions
  BY <1>2, Zenon DEF Keeps
<1>7. Keeps(bridge', accepted, 0)
  BY <1>2, <1>5, <1>6, ElsewhereKeeps, Zenon
<1> QED BY <1>7 DEF IInv, SurfaceDestroyed

(***************************************************************************)
(* The invariant, and the property                                         *)
(***************************************************************************)
(* The constructed bridge satisfies the invariant.                         *)
LEMMA InitIInv == Init => IInv
<1> SUFFICES ASSUME Init PROVE IInv
  OBVIOUS
<1>1. Free \in Entries /\ Free.tx \notin Ids
  BY BridgeAssumption DEF Free, Entries
<1>2. bridge \in Bridges /\ bridge.queue = <<>>
  BY <1>1 DEF Init, Bridges
<1>3. \A i \in Slots : bridge.pending[i] = Free
  BY DEF Init
<1>4. \A t \in Ids : bridge.told[t] = 0 /\ ~Waits(bridge, t)
  BY <1>1, <1>3 DEF Init, Waits
<1>5. accepted = {} /\ crowded = {} /\ closed = FALSE
  BY DEF Init
<1>6. \A t \in Ids : Owed(bridge, accepted, t)
  BY <1>4, <1>5 DEF Owed
<1>7. 0 <= Len(bridge.queue) /\ Len(bridge.queue) <= MaxTransactions
  BY <1>2, BridgeAssumption
<1>8. Keeps(bridge, accepted, 0)
  BY <1>1, <1>2, <1>3, <1>6, <1>7, Zenon DEF Keeps
<1> QED BY <1>5, <1>8, Zenon DEF IInv

(* IInv is inductive.                                                      *)
LEMMA Inductive == IInv /\ [Next]_vars => IInv'
<1> SUFFICES ASSUME IInv, [Next]_vars PROVE IInv'
  OBVIOUS
<1>1. CASE Close
  BY <1>1, Zenon DEF Close, IInv
<1>2. CASE UNCHANGED vars
  BY <1>2, Zenon DEF vars, IInv
<1> QED BY <1>1, <1>2, PostStep, ServeStep, ExecuteStep, PresentedStep, DestroyedStep,
     Zenon DEF Next

(* Every reachable state satisfies it.                                     *)
LEMMA Invariance == Spec => []IInv
BY InitIInv, Inductive, PTL DEF Spec

(* Core is told exactly once of each transaction it was told is accepted,  *)
(* through batches, rollback, present and every retry (CoreMountBridge::   *)
(* complete, service and tryCoreResult).                                   *)
THEOREM CoreIsToldOnce == Spec => []AnsweredOnce
<1>1. ASSUME IInv PROVE AnsweredOnce
  <2> USE <1>1
  <2>1. TypeOK
    <3>1. closed \in BOOLEAN /\ accepted \subseteq Ids /\ crowded \subseteq accepted
      BY Zenon DEF IInv
    <3>2. bridge \in Bridges /\ Len(bridge.queue) <= MaxTransactions
      BY Zenon DEF IInv, Keeps
    <3>3. /\ bridge.pending \in [Slots -> Entries]
          /\ bridge.verdict \in [Ids -> {"none", "mounted", "failed"}]
          /\ bridge.queue \in Seq(Ids \X Nat)
          /\ bridge.applied \in [Ids -> SUBSET Nat]
          /\ bridge.phase \in [Surfaces -> {"hiddenEmpty", "hiddenMounted", "visible", "none"}]
          /\ bridge.present \subseteq Ids
      BY <3>2 DEF Bridges
    <3> QED BY <3>1, <3>2, <3>3, Zenon DEF TypeOK, Entries
  <2>2. ASSUME NEW t \in Ids
        PROVE  bridge.told[t] + Cardinality(SlotOf(bridge, t)) = IF t \in accepted THEN 1 ELSE 0
    <3>1. Keeps(bridge, accepted, 0) /\ Owed(bridge, accepted, t)
      BY DEF IInv, Keeps
    <3>2. CASE Waits(bridge, t)
      <4>1. PICK i \in Slots : bridge.pending[i].tx = t
        BY <3>2 DEF Waits
      <4>2. SlotOf(bridge, t) = {i}
        BY <3>1, <4>1, Zenon DEF SlotOf, Keeps
      <4>3. Cardinality({i}) = 1
        BY FS_Singleton
      <4> QED BY <3>1, <3>2, <4>2, <4>3 DEF Owed
    <3>3. CASE ~Waits(bridge, t)
      <4>1. SlotOf(bridge, t) = {}
        BY <3>3, Zenon DEF SlotOf, Waits
      <4>2. Cardinality({}) = 0
        BY FS_EmptySet
      <4> QED BY <3>1, <3>3, <4>1, <4>2 DEF Owed
    <3> QED BY <3>2, <3>3
  <2> QED BY <2>1, <2>2 DEF AnsweredOnce
<1> QED BY <1>1, Invariance, PTL

(***************************************************************************)
(* What is on its way                                                      *)
(***************************************************************************)
Past    == {"presentPending", "presentPosted", "coreResult"}
Showing == {"presentPending", "presentPosted"}

(* The batches in the mount host's queue, but for those being executed.    *)
Rest(b, n) == (n + 1)..Len(b.queue)

(* A queued batch is of a transaction that is still being mounted, and     *)
(* they are in the order they were sent.                                   *)
Sent(b, n) ==
  /\ \A m \in Rest(b, n) : \E i \in Slots : /\ b.pending[i].tx = b.queue[m][1]
                                            /\ b.pending[i].phase \notin Past
                                            /\ b.queue[m][2] < b.pending[i].next
  /\ \A m, k \in Rest(b, n) :
       m < k /\ b.queue[m][1] = b.queue[k][1] => b.queue[m][2] < b.queue[k][2]

Numbered(b) ==
  \A i \in Slots : b.pending[i].tx \in Ids =>
    /\ b.pending[i].next <= Batches(b.pending[i].tx)
    /\ b.pending[i].active <= b.pending[i].next /\ b.pending[i].next <= b.pending[i].active + 1

(* Of two on one surface both are crowded.                                 *)
Sharing(b, cr) ==
  \A i, j \in Slots :
    /\ b.pending[i].tx \in Ids /\ b.pending[j].tx \in Ids /\ i # j
    /\ SurfaceOf(b.pending[i].tx) = SurfaceOf(b.pending[j].tx)
    => b.pending[i].tx \in cr

Whole(b, t) == b.applied[t] = 0..(Batches(t) - 1)

(* What waits to be shown is in its surface, unless that has gone.         *)
Presenting(b, cr) ==
  /\ \A t \in Ids : b.applied[t] \subseteq 0..(Batches(t) - 1)
  /\ \A i \in Slots :
       b.pending[i].phase \in Showing /\ b.pending[i].tx \in Ids \ cr
       => Whole(b, b.pending[i].tx) \/ b.phase[SurfaceOf(b.pending[i].tx)] = "none"

Underway(b, n, cr) == Sent(b, n) /\ Numbered(b) /\ Sharing(b, cr) /\ Presenting(b, cr)

(* No batch of t is on its way.                                            *)
Quiet(b, n, t) == \A m \in Rest(b, n) : b.queue[m][1] # t

(* What is past its batches has none on its way.                           *)
LEMMA PastIsQuiet ==
  ASSUME NEW b, NEW acc, NEW n \in Nat, NEW i, NEW cr, Taken(b, acc, n, i), Underway(b, n, cr),
         b.pending[i].phase \in Past
  PROVE  Quiet(b, n, b.pending[i].tx)
<1> SUFFICES ASSUME NEW m \in Rest(b, n), b.queue[m][1] = b.pending[i].tx PROVE FALSE
  BY Zenon DEF Quiet
<1>1. PICK j \in Slots : b.pending[j].tx = b.queue[m][1] /\ b.pending[j].phase \notin Past
  BY Zenon DEF Underway, Sent
<1>2. j = i
  BY <1>1, Zenon DEF Taken, Keeps
<1> QED BY <1>1, <1>2

(* A batch on its way is one of those its slot has sent.                   *)
LEMMA SentAreBelow ==
  ASSUME NEW b, NEW acc, NEW n \in Nat, NEW i, NEW cr, Taken(b, acc, n, i), Underway(b, n, cr),
         NEW m \in Rest(b, n), b.queue[m][1] = b.pending[i].tx
  PROVE  b.queue[m][2] < b.pending[i].next /\ b.pending[i].phase \notin Past
<1>1. PICK j \in Slots : /\ b.pending[j].tx = b.queue[m][1] /\ b.pending[j].phase \notin Past
                         /\ b.queue[m][2] < b.pending[j].next
  BY Zenon DEF Underway, Sent
<1>2. j = i
  BY <1>1, Zenon DEF Taken, Keeps
<1> QED BY <1>1, <1>2, Zenon

(* How the entry p of a slot may become q.                                 *)
Moves(b, n, p, q) ==
  \/ q = p
  \/ q = Free /\ Quiet(b, n, p.tx)
  \/ /\ q.tx = p.tx /\ p.next <= q.next
     /\ q.next <= Batches(q.tx) /\ q.active <= q.next /\ q.next <= q.active + 1
     /\ q.phase \in Past => Quiet(b, n, p.tx)
     /\ q.phase \in Showing => p.phase \in Showing \/ Whole(b, p.tx)

SameSurfaces(b, c) ==
  /\ c.queue = b.queue /\ c.applied = b.applied
  /\ \A t \in Ids : c.phase[SurfaceOf(t)] = "none" <=> b.phase[SurfaceOf(t)] = "none"

(* Slots that move on, one by one, keep what is underway.                  *)
LEMMA MovesKeep ==
  ASSUME NEW b, NEW c, NEW n \in Nat, NEW cr, Underway(b, n, cr), SameSurfaces(b, c),
         b \in Bridges, c \in Bridges,
         \A i \in Slots : Moves(b, n, b.pending[i], c.pending[i])
  PROVE  Underway(c, n, cr)
<1>1. Rest(c, n) = Rest(b, n)
  BY Zenon DEF Rest, SameSurfaces
<1>2. Free.tx \notin Ids /\ Free.phase \notin Past /\ Free.phase \notin Showing
  BY BridgeAssumption DEF Free, Past, Showing
<1>0. \A i \in Slots : b.pending[i] \in Entries /\ c.pending[i] \in Entries
  BY DEF Bridges
<1>3. \A m \in Rest(b, n) : b.queue[m][2] \in Nat /\ b.queue[m] \in Ids \X Nat
  BY DEF Rest, Bridges
<1>4. Sent(c, n)
  <2>1. ASSUME NEW m \in Rest(c, n)
        PROVE  \E i \in Slots : /\ c.pending[i].tx = c.queue[m][1]
                                /\ c.pending[i].phase \notin Past
                                /\ c.queue[m][2] < c.pending[i].next
    <3>1. PICK i \in Slots : /\ b.pending[i].tx = b.queue[m][1]
                             /\ b.pending[i].phase \notin Past
                             /\ b.queue[m][2] < b.pending[i].next
      BY <1>1, Zenon DEF Underway, Sent
    <3>2. ~Quiet(b, n, b.pending[i].tx)
      BY <1>1, <3>1, Zenon DEF Quiet
    <3>3. /\ c.pending[i].tx = b.pending[i].tx /\ c.pending[i].phase \notin Past
          /\ b.pending[i].next <= c.pending[i].next
      BY <1>0, <3>1, <3>2 DEF Moves, Entries
    <3>4. b.queue[m][2] < c.pending[i].next
      BY <1>0, <1>1, <1>3, <3>1, <3>3 DEF Entries
    <3> QED BY <3>1, <3>3, <3>4, Zenon DEF SameSurfaces
  <2> QED BY <1>1, <2>1, Zenon DEF Sent, Underway, SameSurfaces
<1>5. Numbered(c)
  <2> SUFFICES ASSUME NEW i \in Slots, c.pending[i].tx \in Ids
               PROVE  /\ c.pending[i].next <= Batches(c.pending[i].tx)
                      /\ c.pending[i].active <= c.pending[i].next
                      /\ c.pending[i].next <= c.pending[i].active + 1
    BY Zenon DEF Numbered
  <2>1. Moves(b, n, b.pending[i], c.pending[i])
    OBVIOUS
  <2> QED BY <1>2, <2>1, Zenon DEF Moves, Underway, Numbered
<1>6. \A i \in Slots : c.pending[i].tx \in Ids => c.pending[i].tx = b.pending[i].tx
  BY <1>2, Zenon DEF Moves
<1>7. Sharing(c, cr)
  BY <1>6, Zenon DEF Underway, Sharing
<1>8. Presenting(c, cr)
  <2>1. ASSUME NEW i \in Slots, c.pending[i].phase \in Showing, c.pending[i].tx \in Ids \ cr
        PROVE  \/ Whole(b, c.pending[i].tx)
               \/ b.phase[SurfaceOf(c.pending[i].tx)] = "none"
    <3>1. Moves(b, n, b.pending[i], c.pending[i])
      OBVIOUS
    <3> QED BY <1>2, <2>1, <3>1, Zenon DEF Moves, Underway, Presenting
  <2>2. \A t : Whole(c, t) <=> Whole(b, t)
    BY Zenon DEF Whole, SameSurfaces
  <2>3. \A i \in Slots : c.pending[i].tx \in Ids \ cr =>
          (c.phase[SurfaceOf(c.pending[i].tx)] = "none" <=>
           b.phase[SurfaceOf(c.pending[i].tx)] = "none")
    BY Zenon DEF SameSurfaces
  <2> QED BY <2>1, <2>2, <2>3, Zenon DEF Presenting, Underway, SameSurfaces
<1> QED BY <1>4, <1>5, <1>7, <1>8, Zenon DEF Underway

(***************************************************************************)
(* What comes to count as mounted                                          *)
(***************************************************************************)
(* All of t is in its surface, and shown if it is to be.                   *)
Arrived(b, t) ==
  /\ Whole(b, t)
  /\ Transactions[t].full /\ AutoPresent => b.phase[SurfaceOf(t)] = "visible"

(* Whatever counts as mounted and did not, in S, has arrived.              *)
Sound(b, S, cr) == \A t \in Success(b) \ (S \cup cr) : Arrived(b, t)

(* No slot comes to hold a success: nothing new counts as mounted.         *)
LEMMA SuccessStays ==
  ASSUME NEW b, NEW c, c.verdict = b.verdict,
         \A i \in Slots : c.pending[i].mounted =>
           b.pending[i].mounted /\ c.pending[i].tx = b.pending[i].tx
  PROVE  Success(c) \subseteq Success(b)
BY Zenon DEF Success

(* Another entry in a slot changes nothing else.                           *)
LEMMA PlacedFacts ==
  ASSUME NEW b \in Bridges, NEW i \in Slots, NEW e \in Entries
  PROVE  LET c == Placed(b, i, e)
         IN  /\ c \in Bridges
             /\ c.pending[i] = e /\ \A j \in Slots : j # i => c.pending[j] = b.pending[j]
             /\ c.queue = b.queue /\ c.applied = b.applied /\ c.phase = b.phase
             /\ c.verdict = b.verdict
BY DEF Placed, Bridges

(* A slot whose entry moves on.                                            *)
LEMMA PlacedUnderway ==
  ASSUME NEW b, NEW acc, NEW n \in Nat, NEW i, NEW cr, Taken(b, acc, n, i), Underway(b, n, cr),
         NEW e \in Entries, Moves(b, n, b.pending[i], e)
  PROVE  /\ Underway(Placed(b, i, e), n, cr)
         /\ (e.mounted => b.pending[i].mounted /\ e.tx = b.pending[i].tx)
            => Success(Placed(b, i, e)) \subseteq Success(b)
<1> DEFINE c == Placed(b, i, e)
<1>1. b \in Bridges /\ i \in Slots
  BY DEF Taken, Keeps
<1>2. /\ c \in Bridges
      /\ c.pending[i] = e /\ \A j \in Slots : j # i => c.pending[j] = b.pending[j]
      /\ c.queue = b.queue /\ c.applied = b.applied /\ c.phase = b.phase
      /\ c.verdict = b.verdict
  BY <1>1, PlacedFacts, Zenon
<1> HIDE DEF c
<1>3. \A j \in Slots : Moves(b, n, b.pending[j], c.pending[j])
  BY <1>2, Zenon DEF Moves
<1>4. Underway(c, n, cr)
  BY <1>1, <1>2, <1>3, MovesKeep, Zenon DEF SameSurfaces
<1>5. ASSUME e.mounted => b.pending[i].mounted /\ e.tx = b.pending[i].tx
      PROVE  Success(c) \subseteq Success(b)
  <2>1. \A j \in Slots : c.pending[j].mounted =>
          b.pending[j].mounted /\ c.pending[j].tx = b.pending[j].tx
    BY <1>2, <1>5, Zenon
  <2> QED BY <1>2, <2>1, SuccessStays, Zenon
<1> QED BY <1>4, <1>5, Zenon DEF c

(* A slot that is freed with the answer it was to give.                    *)
LEMMA TryCoreResultUnderway ==
  ASSUME NEW b, NEW acc, NEW n \in Nat, NEW i, NEW cr, Taken(b, acc, n, i), Underway(b, n, cr),
         Quiet(b, n, b.pending[i].tx), NEW c \in TryCoreResult(b, i)
  PROVE  /\ Underway(c, n, cr) /\ Success(c) \subseteq Success(b)
         /\ c.applied = b.applied /\ c.phase = b.phase
<1> DEFINE u == b.pending[i].tx
           v == IF b.pending[i].mounted THEN "mounted" ELSE "failed"
           a == Answered(b, i, v)
<1>1. c = b \/ c = a
  BY Zenon DEF TryCoreResult, Answered
<1>2. b \in Bridges /\ i \in Slots /\ u \in Ids /\ v \in {"mounted", "failed"}
  BY DEF Taken, Keeps
<1>3. Keeps(a, acc, n)
  BY <1>2, AnsweredKeeps, Zenon
<1>4. /\ a.pending[i] = Free /\ \A j \in Slots : j # i => a.pending[j] = b.pending[j]
      /\ a.queue = b.queue /\ a.applied = b.applied /\ a.phase = b.phase
      /\ a.verdict = [b.verdict EXCEPT ![u] = v]
  <2> HIDE DEF v
  <2> QED BY <1>2 DEF Answered, Bridges
<1>5. v = "mounted" => b.pending[i].mounted
  BY Zenon
<1>6. Free.mounted = FALSE
  BY DEF Free
<1> HIDE DEF a, v
<1>7. \A j \in Slots : Moves(b, n, b.pending[j], a.pending[j])
  BY <1>4, Zenon DEF Moves
<1>8. Underway(a, n, cr)
  BY <1>2, <1>3, <1>4, <1>7, MovesKeep, Zenon DEF SameSurfaces, Keeps
<1>9. Success(a) \subseteq Success(b)
  <2>1. \A t \in Ids : a.verdict[t] = "mounted" => t \in Success(b)
    <3> SUFFICES ASSUME NEW t \in Ids, a.verdict[t] = "mounted" PROVE t \in Success(b)
      BY Zenon
    <3>1. CASE t = u
      <4>1. v = "mounted"
        BY <1>2, <1>4, <3>1 DEF Bridges
      <4> QED BY <1>2, <1>5, <3>1, <4>1, Zenon DEF Success
    <3>2. CASE t # u
      <4>1. b.verdict[t] = "mounted"
        BY <1>2, <1>4, <3>2 DEF Bridges
      <4> QED BY <4>1, Zenon DEF Success
    <3> QED BY <3>1, <3>2
  <2>2. \A j \in Slots : a.pending[j].mounted => b.pending[j].mounted /\ a.pending[j] = b.pending[j]
    BY <1>4, <1>6, Zenon
  <2> QED BY <2>1, <2>2, Zenon DEF Success
<1> QED BY <1>1, <1>4, <1>8, <1>9, Zenon

(* The result of a transaction that has nothing on its way any more.       *)
LEMMA AnswerUnderway ==
  ASSUME NEW b, NEW acc, NEW n \in Nat, NEW i, NEW cr, Taken(b, acc, n, i), Underway(b, n, cr),
         Quiet(b, n, b.pending[i].tx), NEW m \in BOOLEAN,
         m => b.pending[i].tx \in cr \/ Arrived(b, b.pending[i].tx),
         NEW S, Success(b) \subseteq S, NEW c \in TryCoreResult(Settled(b, i, m), i)
  PROVE  Underway(c, n, cr) /\ Sound(c, S, cr)
<1> DEFINE p == b.pending[i]
           e == [p EXCEPT !.phase = "coreResult", !.mounted = m]
           d == Placed(b, i, e)
<1>1. b \in Bridges /\ i \in Slots /\ p \in Entries /\ p.tx \in Ids
  BY DEF Taken, Keeps, Bridges
<1>2. Settled(b, i, m) = d
  BY <1>1 DEF Settled, Placed, Bridges
<1>3. e \in Entries /\ e.tx = p.tx /\ e.phase = "coreResult" /\ e.mounted = m
      /\ e.next = p.next /\ e.active = p.active
  BY <1>1 DEF Entries
<1>4. Moves(b, n, p, e)
  <2>1. p.next <= Batches(p.tx) /\ p.active <= p.next /\ p.next <= p.active + 1
    BY <1>1, Zenon DEF Underway, Numbered
  <2>2. p.next <= p.next /\ "coreResult" \notin Showing
    BY <1>1 DEF Entries, Showing
  <2> HIDE DEF e, p
  <2> QED BY <1>3, <2>1, <2>2, Zenon DEF Moves, p
<1>5. Taken(d, acc, n, i)
  BY <1>2, SettledKeeps, Zenon
<1> HIDE DEF e
<1>6. Underway(d, n, cr)
  BY <1>3, <1>4, PlacedUnderway, Zenon
<1>7. /\ d.pending[i] = e /\ \A j \in Slots : j # i => d.pending[j] = b.pending[j]
      /\ d.queue = b.queue /\ d.applied = b.applied /\ d.phase = b.phase
      /\ d.verdict = b.verdict
  <2> HIDE DEF p
  <2>1. b \in Bridges /\ i \in Slots /\ e \in Entries
    BY <1>1, <1>3
  <2> QED BY <2>1, PlacedFacts, Zenon
<1> HIDE DEF d
<1>8. Quiet(d, n, d.pending[i].tx)
  BY <1>3, <1>7, Zenon DEF Quiet, Rest
<1>9. /\ Underway(c, n, cr) /\ Success(c) \subseteq Success(d)
      /\ c.applied = d.applied /\ c.phase = d.phase
  <2>1. c \in TryCoreResult(d, i)
    BY <1>2
  <2> HIDE DEF p
  <2> QED BY <1>5, <1>6, <1>8, <2>1, TryCoreResultUnderway
<1>10. \A t \in Success(d) : t \in S \/ (m /\ t = p.tx)
  <2>1. ASSUME NEW t \in Success(d) PROVE t \in Success(b) \/ (m /\ t = p.tx)
    <3>1. CASE t \in Ids /\ d.verdict[t] = "mounted"
      BY <1>7, <3>1, Zenon DEF Success
    <3>2. CASE \E j \in Slots : d.pending[j].mounted /\ t = d.pending[j].tx
      <4>1. PICK j \in Slots : d.pending[j].mounted /\ t = d.pending[j].tx
        BY <3>2
      <4>2. CASE j = i
        BY <1>3, <1>7, <4>1, <4>2, Zenon
      <4>3. CASE j # i
        BY <1>7, <4>1, <4>3, Zenon DEF Success
      <4> QED BY <4>2, <4>3
    <3> QED BY <3>1, <3>2, Zenon DEF Success
  <2> QED BY <2>1
<1>11. Sound(c, S, cr)
  <2>1. \A t \in Success(c) \ (S \cup cr) : m /\ t = p.tx
    BY <1>9, <1>10
  <2>2. \A t : Arrived(b, t) => Arrived(c, t)
    BY <1>7, <1>9, Zenon DEF Arrived, Whole
  <2> QED BY <2>1, <2>2, Zenon DEF Sound
<1> QED BY <1>9, <1>11, Zenon

(* A present is put off, taken, or refused for good.                       *)
LEMMA TryPresentUnderway ==
  ASSUME NEW b, NEW acc, NEW n \in Nat, NEW i, NEW cr, Taken(b, acc, n, i), Underway(b, n, cr),
         b.pending[i].phase = "presentPending",
         NEW S, Success(b) \subseteq S, NEW c \in TryPresent(b, i)
  PROVE  Underway(c, n, cr) /\ Sound(c, S, cr)
<1> DEFINE p == b.pending[i]
           e == [p EXCEPT !.phase = "presentPosted"]
           d == Placed(b, i, e)
           more == b.present \cup {p.tx}
           posted == [d EXCEPT !.present = more]
<1>1. b \in Bridges /\ i \in Slots /\ p \in Entries /\ p.tx \in Ids
  BY DEF Taken, Keeps, Bridges
<1>2. c = b \/ c = posted \/ c \in TryCoreResult(Settled(b, i, FALSE), i)
  <2>1. [b EXCEPT !.pending[i].phase = "presentPosted", !.present = @ \cup {b.pending[i].tx}]
          = posted
    BY <1>1 DEF Placed, Bridges
  <2> HIDE DEF posted
  <2> QED BY <2>1, Zenon DEF TryPresent
<1>3. Quiet(b, n, p.tx)
  BY PastIsQuiet DEF Past
<1>4. CASE c \in TryCoreResult(Settled(b, i, FALSE), i)
  BY <1>3, <1>4, AnswerUnderway, Zenon
<1>5. CASE c = b
  BY <1>5, Zenon DEF Sound
<1>6. CASE c = posted
  <2>1. e \in Entries /\ e.tx = p.tx /\ e.phase = "presentPosted" /\ e.mounted = p.mounted
        /\ e.next = p.next /\ e.active = p.active /\ p.next <= p.next
    BY <1>1 DEF Entries
  <2> HIDE DEF e, p
  <2>2. /\ d \in Bridges
        /\ d.pending[i] = e /\ \A j \in Slots : j # i => d.pending[j] = b.pending[j]
        /\ d.queue = b.queue /\ d.applied = b.applied /\ d.phase = b.phase
        /\ d.verdict = b.verdict
    BY <1>1, <2>1, PlacedFacts, Zenon
  <2> HIDE DEF d
  <2>3. more \in SUBSET Ids
    BY <1>1 DEF Bridges
  <2> HIDE DEF more
  <2>4. posted \in Bridges /\ posted.pending = d.pending /\ posted.queue = d.queue
        /\ posted.applied = d.applied /\ posted.phase = d.phase /\ posted.verdict = d.verdict
    BY <2>2, <2>3 DEF Bridges
  <2> HIDE DEF posted
  <2>5. p.next <= Batches(p.tx) /\ p.active <= p.next /\ p.next <= p.active + 1
    BY <1>1, Zenon DEF Underway, Numbered, p
  <2>6. Moves(b, n, p, e)
    BY <1>3, <2>1, <2>5, Zenon DEF Moves, Showing, p
  <2>7. \A j \in Slots : Moves(b, n, b.pending[j], posted.pending[j])
    BY <2>2, <2>4, <2>6, Zenon DEF Moves, p
  <2>8. Underway(posted, n, cr)
    BY <1>1, <2>2, <2>4, <2>7, MovesKeep, Zenon DEF SameSurfaces
  <2>9. \A j \in Slots : posted.pending[j].mounted =>
          b.pending[j].mounted /\ posted.pending[j].tx = b.pending[j].tx
    BY <2>1, <2>2, <2>4, Zenon DEF p
  <2>10. Success(posted) \subseteq Success(b)
    BY <2>2, <2>4, <2>9, SuccessStays, Zenon
  <2> QED BY <1>6, <2>8, <2>10, Zenon DEF Sound
<1> QED BY <1>2, <1>4, <1>5, <1>6

(* The entries that postBatch leaves.                                      *)
LEMMA BatchEntries ==
  ASSUME NEW p \in Entries
  PROVE  /\ Tried(p) \in Entries /\ Refused(p) \in Entries /\ Counted(p) \in Entries
         /\ \A e \in {Tried(p), Refused(p), Counted(p)} :
              /\ e.tx = p.tx /\ e.active = p.next /\ e.mounted = p.mounted
              /\ e.phase \notin Past
         /\ Tried(p).next = p.next /\ Refused(p).next = p.next /\ Counted(p).next = p.next + 1
<1>1. p.next + 1 \in Nat
  BY DEF Entries
<1> QED BY <1>1 DEF Tried, Refused, Counted, Entries, Past

(* One more batch of a transaction that is being mounted.                  *)
LEMMA QueuedUnderway ==
  ASSUME NEW b, NEW n \in Nat, NEW i \in Slots, NEW cr, Underway(b, n, cr), b \in Bridges,
         n <= Len(b.queue), NEW k \in Nat,
         b.pending[i].tx \in Ids, b.pending[i].phase \notin Past, k < b.pending[i].next,
         \A m \in Rest(b, n) : b.queue[m][1] = b.pending[i].tx => b.queue[m][2] < k
  PROVE  LET c == WithQueue(b, Append(b.queue, <<b.pending[i].tx, k>>))
         IN  Underway(c, n, cr) /\ Success(c) \subseteq Success(b)
<1> DEFINE x == <<b.pending[i].tx, k>>
           q == Append(b.queue, x)
           c == WithQueue(b, q)
           last == Len(b.queue) + 1
<1>1. x \in Ids \X Nat /\ x[1] = b.pending[i].tx /\ x[2] = k
  OBVIOUS
<1>2. b.queue \in Seq(Ids \X Nat) /\ Len(b.queue) \in Nat
  BY DEF Bridges
<1> HIDE DEF x
<1>3. /\ q \in Seq(Ids \X Nat) /\ Len(q) = last /\ q[last] = x
      /\ \A m \in 1..Len(b.queue) : q[m] = b.queue[m]
  BY <1>1, <1>2
<1> HIDE DEF q
<1>4. /\ c.queue = q /\ c.pending = b.pending /\ c.applied = b.applied /\ c.phase = b.phase
      /\ c.verdict = b.verdict
  BY DEF WithQueue, Bridges
<1> HIDE DEF c
<1>5. \A m \in Rest(c, n) : m = last \/ (m \in Rest(b, n) /\ q[m] = b.queue[m])
  <2>1. Len(c.queue) = last
    BY <1>3, <1>4
  <2>2. \A m \in Rest(c, n) : m = last \/ (m \in Rest(b, n) /\ m \in 1..Len(b.queue))
    BY <1>2, <2>1 DEF Rest
  <2> QED BY <1>3, <2>2, Zenon
<1>6. Sent(c, n)
  <2>1. ASSUME NEW m \in Rest(c, n)
        PROVE  \E j \in Slots : /\ c.pending[j].tx = c.queue[m][1]
                                /\ c.pending[j].phase \notin Past
                                /\ c.queue[m][2] < c.pending[j].next
    <3>1. CASE m = last
      BY <1>1, <1>3, <1>4, <3>1, Zenon
    <3>2. CASE m # last
      <4>1. m \in Rest(b, n) /\ c.queue[m] = b.queue[m]
        BY <1>4, <1>5, <3>2, Zenon
      <4> QED BY <1>4, <4>1, Zenon DEF Underway, Sent
    <3> QED BY <3>1, <3>2
  <2>2. ASSUME NEW m \in Rest(c, n), NEW l \in Rest(c, n), m < l, q[m][1] = q[l][1]
        PROVE  q[m][2] < q[l][2]
    <3>1. m \in Rest(b, n) /\ q[m] = b.queue[m]
      <4>1. m # last
        BY <1>2, <1>3, <1>4, <2>2 DEF Rest
      <4> QED BY <1>5, <4>1, Zenon
    <3>2. CASE l = last
      BY <1>1, <1>3, <2>2, <3>1, <3>2, Zenon
    <3>3. CASE l # last
      <4>1. l \in Rest(b, n) /\ q[l] = b.queue[l]
        BY <1>5, <3>3, Zenon
      <4> QED BY <2>2, <3>1, <4>1, Zenon DEF Underway, Sent
    <3> QED BY <3>2, <3>3
  <2> QED BY <1>4, <2>1, <2>2, Zenon DEF Sent
<1>7. Numbered(c) /\ Sharing(c, cr) /\ Presenting(c, cr)
  BY <1>4, Zenon DEF Underway, Numbered, Sharing, Presenting, Whole
<1>8. Success(c) \subseteq Success(b)
  BY <1>4, SuccessStays, Zenon
<1> QED BY <1>6, <1>7, <1>8, Zenon DEF Underway, c, q, x

(* The next batch is sent, kept for later, or refused.                     *)
LEMMA PostBatchUnderway ==
  ASSUME NEW b, NEW acc, NEW n \in Nat, NEW i, NEW cr, Taken(b, acc, n, i), Underway(b, n, cr),
         b.pending[i].next < Batches(b.pending[i].tx), NEW c \in PostBatch(b, i)
  PROVE  Underway(c, n, cr) /\ Success(c) \subseteq Success(b)
<1> DEFINE p == b.pending[i]
           d == Placed(b, i, Counted(p))
<1>1. b \in Bridges /\ i \in Slots /\ p \in Entries /\ p.tx \in Ids /\ p.next \in Nat
  BY DEF Taken, Keeps, Bridges, Entries
<1>2. Batches(p.tx) \in Nat
  BY <1>1, BridgeAssumption DEF Batches
<1> HIDE DEF p
<1>3. \A e \in {Tried(p), Refused(p), Counted(p)} :
        e \in Entries /\ Moves(b, n, p, e) /\ e.tx = p.tx /\ e.mounted = p.mounted
  <2> TAKE e \in {Tried(p), Refused(p), Counted(p)}
  <2>1. /\ e \in Entries /\ e.tx = p.tx /\ e.active = p.next /\ e.mounted = p.mounted
        /\ e.phase \notin Past /\ (e.next = p.next \/ e.next = p.next + 1)
    BY <1>1, BatchEntries, Zenon
  <2>2. /\ p.next <= e.next /\ e.next <= Batches(p.tx) /\ e.active <= e.next
        /\ e.next <= e.active + 1
    BY <1>1, <1>2, <2>1 DEF p
  <2>3. e.phase \notin Showing
    BY <2>1 DEF Past, Showing
  <2> QED BY <2>1, <2>2, <2>3, Zenon DEF Moves
<1>4. \A e \in {Tried(p), Refused(p), Counted(p)} :
        /\ Underway(Placed(b, i, e), n, cr)
        /\ Success(Placed(b, i, e)) \subseteq Success(b)
  BY <1>3, PlacedUnderway, Zenon DEF p
<1>5. \/ c = Placed(b, i, Tried(p)) \/ c = Placed(b, i, Refused(p))
      \/ c = WithQueue(d, Append(b.queue, <<p.tx, p.next>>))
  BY PostBatchOutcomes, Zenon DEF p
<1>6. CASE c = WithQueue(d, Append(b.queue, <<p.tx, p.next>>))
  <2>1. Counted(p) \in Entries
    BY <1>1, BatchEntries, Zenon
  <2>2. d \in Bridges /\ d.pending[i] = Counted(p) /\ d.queue = b.queue
    BY <1>1, <2>1, PlacedFacts, Zenon
  <2>3. /\ Counted(p).tx = p.tx /\ Counted(p).phase \notin Past
        /\ p.next < Counted(p).next
    <3>1. Counted(p).next = p.next + 1 /\ Counted(p).tx = p.tx /\ Counted(p).phase \notin Past
      BY <1>1, BatchEntries, Zenon
    <3> QED BY <1>1, <3>1
  <2>4. n <= Len(d.queue)
    BY <2>2, Zenon DEF Taken, Keeps
  <2>5. \A m \in Rest(d, n) : d.queue[m][1] = p.tx => d.queue[m][2] < p.next
    BY <2>2, SentAreBelow, Zenon DEF Rest, p
  <2>6. Underway(d, n, cr) /\ Success(d) \subseteq Success(b)
    BY <1>4, Zenon
  <2> HIDE DEF d
  <2>7. LET f == WithQueue(d, Append(d.queue, <<d.pending[i].tx, p.next>>))
        IN  Underway(f, n, cr) /\ Success(f) \subseteq Success(d)
    BY <1>1, <2>2, <2>3, <2>4, <2>5, <2>6, QueuedUnderway
  <2>8. d.pending[i].tx = p.tx
    BY <2>2, <2>3, Zenon
  <2> QED BY <1>6, <2>2, <2>6, <2>7, <2>8
<1> QED BY <1>4, <1>5, <1>6, Zenon

(* A surface that is committed, or shown, still is there.                  *)
LEMMA CommittedUnderway ==
  ASSUME NEW b, NEW acc, NEW n \in Nat, NEW i, NEW cr, Taken(b, acc, n, i), Underway(b, n, cr),
         NEW s \in Surfaces, b.phase[s] = "hiddenEmpty"
  PROVE  LET c == [b EXCEPT !.phase[s] = "hiddenMounted"]
         IN  /\ Taken(c, acc, n, i) /\ Underway(c, n, cr) /\ Success(c) \subseteq Success(b)
             /\ c \in Bridges /\ c.pending = b.pending /\ c.queue = b.queue
             /\ c.applied = b.applied
<1> DEFINE f == [b.phase EXCEPT ![s] = "hiddenMounted"]
           c == [b EXCEPT !.phase[s] = "hiddenMounted"]
<1>1. b \in Bridges /\ i \in Slots
  BY DEF Taken, Keeps
<1>2. /\ f \in [Surfaces -> {"hiddenEmpty", "hiddenMounted", "visible", "none"}]
      /\ \A u \in Surfaces : f[u] = "none" <=> b.phase[u] = "none"
  BY <1>1 DEF Bridges
<1>3. c = [b EXCEPT !.phase = f]
  BY <1>1 DEF Bridges
<1> HIDE DEF f
<1>4. /\ c \in Bridges /\ c.pending = b.pending /\ c.queue = b.queue /\ c.applied = b.applied
      /\ c.verdict = b.verdict /\ c.phase = f /\ c.told = b.told
  BY <1>1, <1>2, <1>3 DEF Bridges
<1> HIDE DEF c
<1>5. Taken(c, acc, n, i)
  BY <1>4, ElsewhereKeeps, Zenon DEF Taken, Keeps, Elsewhere
<1>6. \A t \in Ids : SurfaceOf(t) \in Surfaces
  BY BridgeAssumption DEF SurfaceOf
<1>7. Underway(c, n, cr)
  <2>1. SameSurfaces(b, c)
    BY <1>2, <1>4, <1>6, Zenon DEF SameSurfaces
  <2>2. \A j \in Slots : Moves(b, n, b.pending[j], c.pending[j])
    BY <1>4, Zenon DEF Moves
  <2> QED BY <1>1, <1>4, <2>1, <2>2, MovesKeep, Zenon
<1>8. Success(c) \subseteq Success(b)
  BY <1>4, SuccessStays, Zenon
<1> QED BY <1>4, <1>5, <1>7, <1>8, Zenon DEF c

(* The result of a batch that was on its way, before all others of its     *)
(* transaction.                                                            *)
LEMMA CompleteUnderway ==
  ASSUME NEW b, NEW acc, NEW n \in Nat, NEW i, NEW cr, Taken(b, acc, n, i), Underway(b, n, cr),
         NEW S, Success(b) \subseteq S, NEW k \in Nat, NEW success,
         b.pending[i].phase \notin Past, k < b.pending[i].next,
         \A m \in Rest(b, n) : b.queue[m][1] = b.pending[i].tx => k < b.queue[m][2],
         success /\ k = Batches(b.pending[i].tx) - 1 => Whole(b, b.pending[i].tx),
         NEW c \in Complete(b, i, k, success)
  PROVE  Underway(c, n, cr) /\ Sound(c, S, cr)
<1> DEFINE p == b.pending[i]
           s == SurfaceOf(p.tx)
           mounted == [b EXCEPT !.phase[s] = "hiddenMounted"]
           waiting == [mounted EXCEPT !.pending[i].phase = "presentPending"]
           refused == [b EXCEPT !.pending[i].phase = "rollback"]
<1>1. b \in Bridges /\ i \in Slots /\ p \in Entries /\ p.tx \in Ids
  BY DEF Taken, Keeps, Bridges
<1>2. /\ p.next \in Nat /\ p.active \in Nat /\ Batches(p.tx) \in Nat
      /\ p.next <= Batches(p.tx) /\ p.active <= p.next /\ p.next <= p.active + 1
      /\ s \in Surfaces
  <2>1. p.next \in Nat /\ p.active \in Nat
    BY <1>1 DEF Entries
  <2>2. Batches(p.tx) \in Nat /\ s \in Surfaces
    BY <1>1, BridgeAssumption DEF Batches, SurfaceOf
  <2>3. p.next <= Batches(p.tx) /\ p.active <= p.next /\ p.next <= p.active + 1
    BY <1>1, Zenon DEF Underway, Numbered
  <2> QED BY <2>1, <2>2, <2>3
<1>3. CASE c = b
  BY <1>3, Zenon DEF Sound
<1>4. CASE c = refused
  <2> DEFINE e == [p EXCEPT !.phase = "rollback"]
  <2>1. /\ e \in Entries /\ e.tx = p.tx /\ e.next = p.next /\ e.active = p.active
        /\ e.phase = "rollback" /\ e.mounted = p.mounted
    BY <1>1 DEF Entries
  <2>2. refused = Placed(b, i, e)
    BY <1>1 DEF Placed, Bridges
  <2>3. "rollback" \notin Past /\ "rollback" \notin Showing /\ p.next <= p.next
    BY <1>2 DEF Past, Showing
  <2> HIDE DEF e, refused, p
  <2>4. Moves(b, n, p, e)
    BY <1>2, <2>1, <2>3, Zenon DEF Moves
  <2>5. Underway(refused, n, cr) /\ Success(refused) \subseteq Success(b)
    BY <2>1, <2>2, <2>4, PlacedUnderway, Zenon DEF p
  <2> QED BY <1>4, <2>5, Zenon DEF Sound
<1>5. CASE c \in PostBatch(b, i) /\ k = p.active /\ ~Final(p)
  <2>1. p.next < Batches(p.tx)
    BY <1>2, <1>5 DEF Final
  <2>2. Underway(c, n, cr) /\ Success(c) \subseteq Success(b)
    BY <1>5, <2>1, PostBatchUnderway, Zenon
  <2> QED BY <2>2, Zenon DEF Sound
<1>6. ASSUME success, k = p.active, Final(p)
      PROVE  Whole(b, p.tx) /\ Quiet(b, n, p.tx)
  <2>1. k = Batches(p.tx) - 1
    BY <1>6 DEF Final
  <2>2. ASSUME NEW m \in Rest(b, n), b.queue[m][1] = p.tx PROVE FALSE
    <3>1. b.queue[m][2] < p.next /\ k < b.queue[m][2]
      BY <2>2, SentAreBelow, Zenon
    <3>2. b.queue[m][2] \in Nat
      BY <1>1, <2>2 DEF Bridges, Rest
    <3> QED BY <1>2, <2>1, <3>1, <3>2
  <2> QED BY <1>6, <2>1, <2>2, Zenon DEF Quiet
<1>7. CASE c \in TryCoreResult(Settled(b, i, TRUE), i) /\ success /\ k = p.active /\ Final(p)
           /\ ~Transactions[p.tx].full
  BY <1>6, <1>7, AnswerUnderway, Zenon DEF Arrived
<1>8. CASE c \in TryCoreResult(Settled(b, i, FALSE), i) /\ success /\ k = p.active /\ Final(p)
  BY <1>6, <1>8, AnswerUnderway, Zenon
<1>9. ASSUME success, k = p.active, Final(p), b.phase[s] = "hiddenEmpty"
      PROVE  /\ Taken(mounted, acc, n, i) /\ Underway(mounted, n, cr)
             /\ Success(mounted) \subseteq S
             /\ mounted \in Bridges /\ mounted.pending = b.pending
             /\ Whole(mounted, p.tx) /\ Quiet(mounted, n, p.tx)
  <2>1. /\ Taken(mounted, acc, n, i) /\ Underway(mounted, n, cr)
        /\ Success(mounted) \subseteq Success(b)
        /\ mounted \in Bridges /\ mounted.pending = b.pending /\ mounted.queue = b.queue
        /\ mounted.applied = b.applied
    BY <1>2, <1>9, CommittedUnderway, Zenon
  <2> HIDE DEF mounted
  <2>2. Whole(mounted, p.tx) /\ Quiet(mounted, n, p.tx)
    BY <1>6, <1>9, <2>1, Zenon DEF Whole, Quiet, Rest
  <2> QED BY <2>1, <2>2, Zenon
<1>10. CASE /\ c \in TryCoreResult(Settled(mounted, i, TRUE), i) /\ success /\ k = p.active
            /\ Final(p) /\ b.phase[s] = "hiddenEmpty" /\ ~AutoPresent
  <2>1. mounted.pending[i].tx = p.tx
    BY <1>9, <1>10
  <2> HIDE DEF mounted
  <2> QED BY <1>9, <1>10, <2>1, AnswerUnderway, Zenon DEF Arrived
<1>11. CASE /\ c \in TryPresent(waiting, i) /\ success /\ k = p.active
            /\ Final(p) /\ b.phase[s] = "hiddenEmpty"
  <2> DEFINE e == [p EXCEPT !.phase = "presentPending"]
  <2>1. /\ e \in Entries /\ e.tx = p.tx /\ e.next = p.next /\ e.active = p.active
        /\ e.phase = "presentPending" /\ e.mounted = p.mounted /\ p.next <= p.next
    BY <1>1, <1>2 DEF Entries
  <2> HIDE DEF mounted
  <2>2. waiting = Placed(mounted, i, e)
    BY <1>1, <1>9, <1>11 DEF Placed, Bridges
  <2> HIDE DEF e, waiting, p, s
  <2>3. Moves(mounted, n, p, e)
    BY <1>2, <1>9, <1>11, <2>1, Zenon DEF Moves
  <2>4. mounted.pending[i] = p
    BY <1>9, <1>11, Zenon DEF p
  <2>5. Underway(waiting, n, cr) /\ Success(waiting) \subseteq Success(mounted)
    BY <1>9, <1>11, <2>1, <2>2, <2>3, <2>4, PlacedUnderway, Zenon
  <2>6. Taken(waiting, acc, n, i)
    BY <1>9, <1>11, <2>1, <2>2, <2>4, PlacedKeeps, Zenon
  <2>7. waiting.pending[i].phase = "presentPending"
    BY <1>1, <1>9, <1>11, <2>1, <2>2, PlacedFacts, Zenon
  <2>8. Success(waiting) \subseteq S
    BY <1>9, <1>11, <2>5
  <2> QED BY <1>11, <2>5, <2>6, <2>7, <2>8, TryPresentUnderway, Zenon
<1>12. \/ c = b \/ c = refused
       \/ c \in PostBatch(b, i) /\ k = p.active /\ ~Final(p)
       \/ /\ success /\ k = p.active /\ Final(p)
          /\ \/ c \in TryCoreResult(Settled(b, i, TRUE), i) /\ ~Transactions[p.tx].full
             \/ c \in TryCoreResult(Settled(b, i, FALSE), i)
             \/ /\ b.phase[s] = "hiddenEmpty"
                /\ \/ c \in TryPresent(waiting, i)
                   \/ c \in TryCoreResult(Settled(mounted, i, TRUE), i) /\ ~AutoPresent
  BY Zenon DEF Complete, AnswersActive
<1> HIDE DEF mounted, waiting, refused, p, s
<1> QED BY <1>3, <1>4, <1>5, <1>7, <1>8, <1>10, <1>11, <1>12, Zenon

(* The result finds the slot of its transaction.                           *)
LEMMA CompleteForUnderway ==
  ASSUME NEW b, NEW acc, NEW n \in Nat, NEW cr, Keeps(b, acc, n), Underway(b, n, cr),
         NEW S, Success(b) \subseteq S, NEW t \in Ids, NEW k \in Nat, NEW success,
         \E i \in Slots : /\ b.pending[i].tx = t /\ b.pending[i].phase \notin Past
                          /\ k < b.pending[i].next,
         \A m \in Rest(b, n) : b.queue[m][1] = t => k < b.queue[m][2],
         success /\ k = Batches(t) - 1 => Whole(b, t),
         NEW c \in CompleteFor(b, t, k, success)
  PROVE  Underway(c, n, cr) /\ Sound(c, S, cr)
<1>1. PICK i \in Slots : /\ b.pending[i].tx = t /\ b.pending[i].phase \notin Past
                         /\ k < b.pending[i].next
  OBVIOUS
<1>2. \A j \in SlotOf(b, t) : j = i
  BY <1>1, Zenon DEF SlotOf, Keeps
<1>3. c \in Complete(b, i, k, success)
  BY <1>1, <1>2, Zenon DEF CompleteFor, SlotOf
<1>4. Taken(b, acc, n, i)
  BY <1>1, Zenon DEF Taken
<1> QED BY <1>1, <1>3, <1>4, CompleteUnderway, Zenon

(* The content of the surface of a transaction that is being mounted, or   *)
(* rolled back, may change: nothing on that surface waits to be shown but  *)
(* what is crowded.                                                        *)
LEMMA ContentUnderway ==
  ASSUME NEW b, NEW n \in Nat, NEW cr, b \in Bridges, Underway(b, n, cr),
         NEW j \in Slots, b.pending[j].tx \in Ids, b.pending[j].phase \notin Past,
         NEW a \in [Ids -> SUBSET Nat], \A t \in Ids : a[t] \subseteq 0..(Batches(t) - 1),
         \A t \in Ids : SurfaceOf(t) # SurfaceOf(b.pending[j].tx) => a[t] = b.applied[t]
  PROVE  LET c == WithContent(b, a)
         IN  /\ Underway(c, n, cr) /\ Success(c) \subseteq Success(b)
             /\ c.pending = b.pending /\ c.queue = b.queue /\ c.phase = b.phase
             /\ c.applied = a
<1> DEFINE c == WithContent(b, a)
<1>1. /\ c.pending = b.pending /\ c.queue = b.queue /\ c.phase = b.phase
      /\ c.applied = a /\ c.verdict = b.verdict
  BY DEF WithContent, Bridges
<1> HIDE DEF c
<1>2. Sent(c, n) /\ Numbered(c) /\ Sharing(c, cr)
  BY <1>1, Zenon DEF Underway, Sent, Numbered, Sharing, Rest
<1>3. ASSUME NEW i \in Slots, b.pending[i].phase \in Showing, b.pending[i].tx \in Ids \ cr
      PROVE  \/ a[b.pending[i].tx] = 0..(Batches(b.pending[i].tx) - 1)
             \/ b.phase[SurfaceOf(b.pending[i].tx)] = "none"
  <2>1. i # j
    BY <1>3 DEF Past, Showing
  <2>2. SurfaceOf(b.pending[i].tx) # SurfaceOf(b.pending[j].tx)
    BY <1>3, <2>1, Zenon DEF Underway, Sharing
  <2>3. a[b.pending[i].tx] = b.applied[b.pending[i].tx]
    BY <1>3, <2>2, Zenon
  <2> QED BY <1>3, <2>3, Zenon DEF Underway, Presenting, Whole
<1>4. Presenting(c, cr)
  BY <1>1, <1>3, Zenon DEF Presenting, Whole
<1>5. Success(c) \subseteq Success(b)
  BY <1>1, SuccessStays, Zenon
<1> QED BY <1>1, <1>2, <1>4, <1>5, Zenon DEF Underway, c

(* The surface of such a transaction may be emptied.                       *)
LEMMA EmptiedUnderway ==
  ASSUME NEW b, NEW n \in Nat, NEW cr, b \in Bridges, Underway(b, n, cr),
         NEW j \in Slots, b.pending[j].tx \in Ids, b.pending[j].phase \notin Past
  PROVE  LET c == Emptied(b, SurfaceOf(b.pending[j].tx))
         IN  /\ Underway(c, n, cr) /\ Success(c) \subseteq Success(b)
             /\ c.pending = b.pending /\ c.queue = b.queue /\ c.phase = b.phase
<1> DEFINE s == SurfaceOf(b.pending[j].tx)
           a == [t \in Ids |-> IF SurfaceOf(t) = s THEN {} ELSE b.applied[t]]
<1>1. /\ a \in [Ids -> SUBSET Nat]
      /\ \A t \in Ids : SurfaceOf(t) # s => a[t] = b.applied[t]
  BY DEF Bridges
<1>2. \A t \in Ids : a[t] \subseteq 0..(Batches(t) - 1)
  BY DEF Underway, Presenting
<1>3. Emptied(b, s) = WithContent(b, a)
  BY Zenon DEF Emptied, WithContent
<1> HIDE DEF a
<1> QED BY <1>1, <1>2, <1>3, ContentUnderway

(* A batch that was mounted; the last one completes its transaction.       *)
LEMMA MountedUnderway ==
  ASSUME NEW b, NEW n \in Nat, NEW cr, b \in Bridges, Underway(b, n, cr),
         NEW j \in Slots, b.pending[j].tx \in Ids, b.pending[j].phase \notin Past,
         NEW k \in Nat, k < Batches(b.pending[j].tx), MountSucceeds(b, b.pending[j].tx, k)
  PROVE  LET t == b.pending[j].tx
             c == Mounted(b, t, k)
         IN  /\ Underway(c, n, cr) /\ Success(c) \subseteq Success(b)
             /\ c.pending = b.pending /\ c.queue = b.queue /\ c.phase = b.phase
             /\ k = Batches(t) - 1 => Whole(c, t)
<1> DEFINE t == b.pending[j].tx
           A == [u \in Ids |-> IF SurfaceOf(u) = SurfaceOf(t) THEN {} ELSE b.applied[u]]
           first == k = 0 /\ Transactions[t].full
           old == IF first THEN A ELSE b.applied
           a == [old EXCEPT ![t] = old[t] \cup {k}]
<1>1. /\ b.applied \in [Ids -> SUBSET Nat] /\ A \in [Ids -> SUBSET Nat]
      /\ \A u \in Ids : SurfaceOf(u) # SurfaceOf(t) => A[u] = b.applied[u]
      /\ \A u \in Ids : A[u] \subseteq b.applied[u] /\ A[t] = {}
  BY DEF Bridges
<1>2. Batches(t) \in Nat
  BY BridgeAssumption DEF Batches
<1>3. \A u \in Ids : b.applied[u] \subseteq 0..(Batches(u) - 1)
  BY Zenon DEF Underway, Presenting
<1>4. Mounted(b, t, k) = WithContent(b, a)
  <2>1. Emptied(b, SurfaceOf(t)) = WithContent(b, A)
    BY Zenon DEF Emptied, WithContent
  <2> HIDE DEF A, t
  <2>2. CASE first
    <3>1. Mounted(b, t, k) = [WithContent(b, A) EXCEPT !.applied[t] = @ \cup {k}]
      BY <2>1, <2>2, Zenon DEF Mounted
    <3> QED BY <2>2, <3>1 DEF WithContent, Bridges
  <2>3. CASE ~first
    <3>1. Mounted(b, t, k) = [b EXCEPT !.applied[t] = @ \cup {k}]
      BY <2>3, Zenon DEF Mounted
    <3> QED BY <2>3, <3>1 DEF WithContent, Bridges
  <2> QED BY <2>2, <2>3
<1> HIDE DEF A
<1>5. /\ old \in [Ids -> SUBSET Nat]
      /\ \A u \in Ids : old[u] \subseteq b.applied[u]
      /\ \A u \in Ids : SurfaceOf(u) # SurfaceOf(t) => old[u] = b.applied[u]
      /\ first => old[t] = {}
      /\ ~first => old[t] = b.applied[t]
  BY <1>1
<1> HIDE DEF old, first
<1>6. /\ a \in [Ids -> SUBSET Nat]
      /\ a[t] = old[t] \cup {k} /\ \A u \in Ids : u # t => a[u] = old[u]
  BY <1>5
<1> HIDE DEF a, t
<1>7. \A u \in Ids : a[u] \subseteq 0..(Batches(u) - 1)
  <2> TAKE u \in Ids
  <2>1. old[u] \subseteq 0..(Batches(u) - 1)
    BY <1>3, <1>5
  <2>2. u = t => k \in 0..(Batches(u) - 1)
    BY <1>2 DEF t
  <2> QED BY <1>6, <2>1, <2>2
<1>8. \A u \in Ids : SurfaceOf(u) # SurfaceOf(t) => a[u] = b.applied[u]
  BY <1>5, <1>6, Zenon
<1>9. k = Batches(t) - 1 => a[t] = 0..(Batches(t) - 1)
  <2> SUFFICES ASSUME k = Batches(t) - 1 PROVE a[t] = 0..(Batches(t) - 1)
    OBVIOUS
  <2>1. 0..(k - 1) \subseteq b.applied[t]
    BY Zenon DEF MountSucceeds, t
  <2>2. 0..(k - 1) \subseteq old[t]
    <3>1. CASE first
      <4>1. k = 0
        BY <3>1 DEF first
      <4> QED BY <4>1
    <3>2. CASE ~first
      BY <1>5, <2>1, <3>2, Zenon
    <3> QED BY <3>1, <3>2
  <2>3. a[t] = old[t] \cup {k} /\ t \in Ids
    BY <1>6 DEF t
  <2>4. a[t] \subseteq 0..k
    BY <1>7, <2>3
  <2>5. 0..k \subseteq a[t]
    BY <2>2, <2>3
  <2> QED BY <2>4, <2>5
<1>10. LET c == WithContent(b, a)
       IN  /\ Underway(c, n, cr) /\ Success(c) \subseteq Success(b)
           /\ c.pending = b.pending /\ c.queue = b.queue /\ c.phase = b.phase
           /\ c.applied = a
  BY <1>6, <1>7, <1>8, ContentUnderway DEF t
<1> QED BY <1>4, <1>9, <1>10 DEF Whole, t

(* The batch that was executed leaves the queue.                           *)
LEMMA TailUnderway ==
  ASSUME NEW b, NEW cr, b \in Bridges, 1 <= Len(b.queue), Underway(b, 1, cr),
         NEW S, Sound(b, S, cr)
  PROVE  LET c == WithQueue(b, Tail(b.queue)) IN Underway(c, 0, cr) /\ Sound(c, S, cr)
<1> DEFINE q == Tail(b.queue)
           c == WithQueue(b, q)
<1>1. b.queue \in Seq(Ids \X Nat) /\ Len(b.queue) \in Nat /\ b.queue # <<>>
  BY DEF Bridges
<1>2. /\ q \in Seq(Ids \X Nat) /\ Len(q) = Len(b.queue) - 1
      /\ \A m \in 1..Len(q) : q[m] = b.queue[m + 1]
  BY <1>1
<1> HIDE DEF q
<1>3. /\ c.queue = q /\ c.pending = b.pending /\ c.applied = b.applied /\ c.phase = b.phase
      /\ c.verdict = b.verdict
  BY DEF WithQueue, Bridges
<1> HIDE DEF c
<1>4. \A m \in Rest(c, 0) : m \in Nat /\ m + 1 \in Rest(b, 1) /\ c.queue[m] = b.queue[m + 1]
  BY <1>1, <1>2, <1>3 DEF Rest
<1>5. \A m, k \in Rest(c, 0) : m < k => m + 1 < k + 1
  BY <1>4
<1>6. Sent(c, 0)
  <2>1. ASSUME NEW m \in Rest(c, 0)
        PROVE  \E i \in Slots : /\ c.pending[i].tx = c.queue[m][1]
                                /\ c.pending[i].phase \notin Past
                                /\ c.queue[m][2] < c.pending[i].next
    <3>1. m + 1 \in Rest(b, 1) /\ c.queue[m] = b.queue[m + 1]
      BY <1>4, <2>1, Zenon
    <3>2. PICK i \in Slots : /\ b.pending[i].tx = b.queue[m + 1][1]
                             /\ b.pending[i].phase \notin Past
                             /\ b.queue[m + 1][2] < b.pending[i].next
      BY <3>1, Zenon DEF Underway, Sent
    <3> QED BY <1>3, <3>1, <3>2, Zenon
  <2>2. ASSUME NEW m \in Rest(c, 0), NEW k \in Rest(c, 0), m < k, c.queue[m][1] = c.queue[k][1]
        PROVE  c.queue[m][2] < c.queue[k][2]
    <3>1. /\ m + 1 \in Rest(b, 1) /\ k + 1 \in Rest(b, 1) /\ m + 1 < k + 1
          /\ c.queue[m] = b.queue[m + 1] /\ c.queue[k] = b.queue[k + 1]
      BY <1>4, <1>5, <2>2, Zenon
    <3> QED BY <2>2, <3>1, Zenon DEF Underway, Sent
  <2> QED BY <2>1, <2>2, Zenon DEF Sent
<1>7. Numbered(c) /\ Sharing(c, cr) /\ Presenting(c, cr)
  BY <1>3, Zenon DEF Underway, Numbered, Sharing, Presenting, Whole
<1>8. Sound(c, S, cr)
  <2>1. Success(c) \subseteq Success(b)
    BY <1>3, SuccessStays, Zenon
  <2>2. \A t : Arrived(b, t) => Arrived(c, t)
    BY <1>3, Zenon DEF Arrived, Whole
  <2>3. \A t \in Success(c) \ (S \cup cr) : t \in Success(b) \ (S \cup cr)
    BY <2>1
  <2> QED BY <2>2, <2>3, Zenon DEF Sound
<1> QED BY <1>6, <1>7, <1>8, Zenon DEF Underway, c, q

(***************************************************************************)
(* The steps, again                                                        *)
(***************************************************************************)
Progress(S) == Underway(bridge, 0, crowded)' /\ Sound(bridge', S, crowded')

(* What is only known to be no new success is sound.                       *)
LEMMA NoSuccess ==
  ASSUME NEW b, NEW S, NEW cr, Success(b) \subseteq S
  PROVE  Sound(b, S, cr)
BY DEF Sound

(* Another transaction on the surface makes those in flight there crowded. *)
LEMMA CrowdedUnderway ==
  ASSUME NEW b, NEW n, NEW cr, Underway(b, n, cr), NEW dr, cr \subseteq dr
  PROVE  Underway(b, n, dr)
<1>1. Sharing(b, dr)
  BY Zenon DEF Underway, Sharing
<1>2. Presenting(b, dr)
  BY Zenon DEF Underway, Presenting
<1> QED BY <1>1, <1>2, Zenon DEF Underway

(* The new transaction has sent nothing when it takes its slot.            *)
LEMMA TakenUnderway ==
  ASSUME IInv, Underway(bridge, 0, crowded), NEW t \in Ids, Post(t), NEW i \in Slots,
         bridge.pending[i] = Free, NEW e \in Entries, e.tx = t, e.next = 0, e.active = 0,
         e.phase = "mountPending", e.mounted = FALSE
  PROVE  /\ Underway(Placed(bridge, i, e), 0, crowded')
         /\ Success(Placed(bridge, i, e)) \subseteq Success(bridge)
<1> DEFINE c == Placed(bridge, i, e)
<1>1. Keeps(bridge, accepted, 0) /\ bridge \in Bridges /\ t \notin accepted
  BY DEF IInv, Keeps, Post
<1>2. /\ c \in Bridges
      /\ c.pending[i] = e /\ \A j \in Slots : j # i => c.pending[j] = bridge.pending[j]
      /\ c.queue = bridge.queue /\ c.applied = bridge.applied /\ c.phase = bridge.phase
      /\ c.verdict = bridge.verdict
  BY <1>1, PlacedFacts, Zenon
<1> HIDE DEF c
<1>3. bridge.pending[i].tx \notin Ids /\ "mountPending" \notin Showing
  BY BridgeAssumption DEF Free, Showing
<1>4. \A j \in Slots : bridge.pending[j].tx # t
  BY <1>1, Zenon DEF Keeps, Owed, Waits
<1>5. crowded \subseteq crowded'
      /\ \A u \in InFlight : SurfaceOf(u) = SurfaceOf(t) => u \in crowded' /\ t \in crowded'
  BY DEF Post
<1>6. Underway(bridge, 0, crowded')
  BY <1>5, CrowdedUnderway, Zenon
<1>7. Sent(c, 0)
  <2>1. ASSUME NEW m \in Rest(c, 0)
        PROVE  \E j \in Slots : /\ c.pending[j].tx = c.queue[m][1]
                                /\ c.pending[j].phase \notin Past
                                /\ c.queue[m][2] < c.pending[j].next
    <3>1. m \in Rest(bridge, 0) /\ bridge.queue[m] \in Ids \X Nat
      BY <1>1, <1>2, <2>1 DEF Rest, Bridges
    <3>2. PICK j \in Slots : /\ bridge.pending[j].tx = bridge.queue[m][1]
                             /\ bridge.pending[j].phase \notin Past
                             /\ bridge.queue[m][2] < bridge.pending[j].next
      BY <3>1, Zenon DEF Underway, Sent
    <3>3. j # i
      BY <1>3, <3>1, <3>2
    <3> QED BY <1>2, <3>2, <3>3, Zenon
  <2>2. ASSUME NEW m \in Rest(c, 0), NEW k \in Rest(c, 0), m < k, c.queue[m][1] = c.queue[k][1]
        PROVE  c.queue[m][2] < c.queue[k][2]
    BY <1>2, <2>2, Zenon DEF Rest, Underway, Sent
  <2> QED BY <2>1, <2>2, Zenon DEF Sent
<1>8. Numbered(c)
  <2>1. Batches(t) \in Nat /\ 0 <= Batches(t)
    BY BridgeAssumption DEF Batches
  <2>2. e.next <= Batches(e.tx) /\ e.active <= e.next /\ e.next <= e.active + 1
    BY <2>1
  <2> QED BY <1>2, <2>2, Zenon DEF Underway, Numbered
<1>9. Sharing(c, crowded')
  <2> SUFFICES ASSUME NEW j \in Slots, NEW k \in Slots, j # k, c.pending[j].tx \in Ids,
                      c.pending[k].tx \in Ids,
                      SurfaceOf(c.pending[j].tx) = SurfaceOf(c.pending[k].tx)
               PROVE  c.pending[j].tx \in crowded'
    BY Zenon DEF Sharing
  <2>1. \A l \in Slots : bridge.pending[l].tx \in Ids => bridge.pending[l].tx \in InFlight
    BY BridgeAssumption DEF InFlight
  <2>2. CASE j = i
    <3>1. c.pending[k] = bridge.pending[k] /\ c.pending[j].tx = t
      BY <1>2, <2>2, Zenon
    <3> QED BY <1>5, <2>1, <3>1, Zenon
  <2>3. CASE k = i
    <3>1. c.pending[j] = bridge.pending[j] /\ c.pending[k].tx = t
      BY <1>2, <2>3, Zenon
    <3> QED BY <1>5, <2>1, <3>1, Zenon
  <2>4. CASE j # i /\ k # i
    BY <1>2, <1>6, <2>4, Zenon DEF Underway, Sharing
  <2> QED BY <2>2, <2>3, <2>4
<1>10. Presenting(c, crowded')
  <2>1. ASSUME NEW j \in Slots, c.pending[j].phase \in Showing, c.pending[j].tx \in Ids \ crowded'
        PROVE  \/ Whole(bridge, c.pending[j].tx)
               \/ bridge.phase[SurfaceOf(c.pending[j].tx)] = "none"
    <3>1. j # i
      BY <1>2, <1>3, <2>1, Zenon
    <3>2. c.pending[j] = bridge.pending[j]
      BY <1>2, <3>1, Zenon
    <3> QED BY <1>6, <2>1, <3>2, Zenon DEF Underway, Presenting
  <2>2. \A u : Whole(c, u) <=> Whole(bridge, u)
    BY <1>2, Zenon DEF Whole
  <2> QED BY <1>2, <1>6, <2>1, <2>2, Zenon DEF Underway, Presenting
<1>11. Success(c) \subseteq Success(bridge)
  <2>1. \A j \in Slots : c.pending[j].mounted =>
          bridge.pending[j].mounted /\ c.pending[j].tx = bridge.pending[j].tx
    BY <1>2, Zenon
  <2> QED BY <1>2, <2>1, SuccessStays, Zenon
<1> QED BY <1>7, <1>8, <1>9, <1>10, <1>11, Zenon DEF Underway, c

(* A post crowds whoever is on the surface already.                        *)
LEMMA PostProgress ==
  ASSUME IInv, Underway(bridge, 0, crowded), NEW t \in Ids, Post(t)
  PROVE  Progress(Success(bridge))
<1> DEFINE i == Min(FreeSlots)
           e == [Free EXCEPT !.tx = t, !.phase = "mountPending"]
           taken == Placed(bridge, i, e)
<1>1. i \in Slots /\ bridge.pending[i] = Free
  <2>1. FreeSlots \in SUBSET Nat /\ FreeSlots # {} /\ FreeSlots \subseteq Slots
    BY BridgeAssumption DEF Post, FreeSlots, Slots
  <2>2. i \in FreeSlots
    BY <2>1, MinIsMember, Zenon
  <2> QED BY <2>1, <2>2 DEF FreeSlots
<1>2. /\ e \in Entries /\ e.tx = t /\ e.next = 0 /\ e.active = 0 /\ e.phase = "mountPending"
      /\ e.mounted = FALSE
  BY DEF Free, Entries
<1>3. bridge' \in PostBatch(taken, i)
  BY Zenon DEF Post, Placed
<1> HIDE DEF i, e
<1>4. Keeps(bridge, accepted, 0) /\ bridge \in Bridges /\ t \notin accepted /\ 0 \in Nat
  BY DEF IInv, Keeps, Post
<1>5. Taken(taken, accepted \cup {t}, 0, i)
  BY <1>1, <1>2, <1>4, TakesSlot, Zenon
<1>6. Underway(taken, 0, crowded') /\ Success(taken) \subseteq Success(bridge)
  BY <1>1, <1>2, TakenUnderway, Zenon
<1>7. taken.pending[i] = e
  BY <1>1, <1>2, <1>4, PlacedFacts, Zenon
<1> HIDE DEF taken
<1>8. taken.pending[i].next < Batches(taken.pending[i].tx)
  BY <1>2, <1>7, BridgeAssumption DEF Batches
<1>9. Underway(bridge', 0, crowded') /\ Success(bridge') \subseteq Success(taken)
  BY <1>3, <1>4, <1>5, <1>6, <1>8, PostBatchUnderway, Zenon
<1>10. Sound(bridge', Success(bridge), crowded')
  BY <1>6, <1>9, NoSuccess
<1> QED BY <1>9, <1>10, Zenon DEF Progress

(* A slot that is served goes on with what it waited for.                  *)
LEMMA ServeProgress ==
  ASSUME IInv, Underway(bridge, 0, crowded), NEW i \in Slots, Serve(i)
  PROVE  Progress(Success(bridge))
<1> DEFINE p == bridge.pending[i]
<1>1. /\ Taken(bridge, accepted, 0, i) /\ 0 \in Nat /\ bridge \in Bridges /\ p.tx \in Ids
      /\ crowded' = crowded
  BY DEF IInv, Serve, FreeSlots, Taken, Keeps
<1>2. Success(bridge) \subseteq Success(bridge)
  OBVIOUS
<1> SUFFICES Underway(bridge', 0, crowded) /\ Sound(bridge', Success(bridge), crowded)
  BY <1>1, Zenon DEF Progress
<1>3. CASE p.next < Batches(p.tx) /\ bridge' \in PostBatch(bridge, i)
  BY <1>1, <1>3, PostBatchUnderway, NoSuccess, Zenon
<1>4. CASE p.phase = "rollback" /\ bridge' \in TryRollback(i)
  <2> DEFINE s == SurfaceOf(p.tx)
             d == Emptied(bridge, s)
  <2>1. CASE bridge' = bridge
    BY <1>2, <2>1, NoSuccess, Zenon
  <2>2. CASE /\ bridge' \in TryCoreResult(Settled(d, i, FALSE), i)
             /\ \A k \in DOMAIN bridge.queue : SurfaceOf(bridge.queue[k][1]) # s
    <3>1. Taken(d, accepted, 0, i)
      BY <1>1, EmptiedKeeps, Zenon DEF Taken
    <3>2. p.phase \notin Past
      BY <1>4 DEF Past
    <3>3. /\ Underway(d, 0, crowded) /\ Success(d) \subseteq Success(bridge)
          /\ d.pending = bridge.pending /\ d.queue = bridge.queue
      BY <1>1, <3>2, EmptiedUnderway, Zenon
    <3> HIDE DEF d
    <3>4. Quiet(d, 0, p.tx)
      <4>1. \A m \in Rest(bridge, 0) : m \in DOMAIN bridge.queue
        BY <1>1 DEF Rest, Bridges
      <4> QED BY <2>2, <3>3, <4>1, Zenon DEF Quiet, Rest
    <3> QED BY <1>1, <2>2, <3>1, <3>3, <3>4, AnswerUnderway, Zenon
  <2> QED BY <1>4, <2>1, <2>2, Zenon DEF TryRollback
<1>5. CASE p.phase = "presentPending" /\ bridge' \in TryPresent(bridge, i)
  BY <1>1, <1>2, <1>5, TryPresentUnderway, Zenon
<1>6. CASE p.phase = "coreResult" /\ bridge' \in TryCoreResult(bridge, i)
  <2>1. Quiet(bridge, 0, p.tx)
    BY <1>1, <1>6, PastIsQuiet DEF Past
  <2>2. Underway(bridge', 0, crowded) /\ Success(bridge') \subseteq Success(bridge)
    BY <1>1, <1>6, <2>1, TryCoreResultUnderway, Zenon
  <2> QED BY <2>2, NoSuccess, Zenon
<1> QED BY <1>3, <1>4, <1>5, <1>6, Zenon DEF Serve

(* The batch that is executed is of a slot, before all its others.         *)
LEMMA HeadUnderway ==
  ASSUME IInv, Underway(bridge, 0, crowded), bridge.queue # <<>>
  PROVE  LET t == Head(bridge.queue)[1]
             k == Head(bridge.queue)[2]
         IN  /\ t \in Ids /\ k \in Nat /\ Keeps(bridge, accepted, 1) /\ Underway(bridge, 1, crowded)
             /\ \E i \in Slots : /\ bridge.pending[i].tx = t /\ bridge.pending[i].phase \notin Past
                                 /\ k < bridge.pending[i].next /\ k < Batches(t)
             /\ \A m \in Rest(bridge, 1) : bridge.queue[m][1] = t => k < bridge.queue[m][2]
<1> DEFINE x == Head(bridge.queue)
<1>1. /\ Keeps(bridge, accepted, 0) /\ bridge \in Bridges
      /\ bridge.queue \in Seq(Ids \X Nat) /\ Len(bridge.queue) \in Nat
  BY DEF IInv, Keeps, Bridges
<1>2. 1 <= Len(bridge.queue) /\ x \in Ids \X Nat /\ x = bridge.queue[1]
  BY <1>1
<1> HIDE DEF x
<1>3. Keeps(bridge, accepted, 1)
  BY <1>1, <1>2, Zenon DEF Keeps
<1>4. 1 \in Rest(bridge, 0) /\ \A m \in Rest(bridge, 1) : m \in Rest(bridge, 0) /\ 1 < m
  BY <1>1, <1>2 DEF Rest
<1>5. Underway(bridge, 1, crowded)
  <2>1. Sent(bridge, 1)
    BY <1>4, Zenon DEF Underway, Sent
  <2> QED BY <2>1, Zenon DEF Underway
<1>6. PICK i \in Slots : /\ bridge.pending[i].tx = x[1] /\ bridge.pending[i].phase \notin Past
                         /\ x[2] < bridge.pending[i].next
  BY <1>2, <1>4, Zenon DEF Underway, Sent
<1>7. x[2] < Batches(x[1])
  <2>1. bridge.pending[i].next <= Batches(x[1]) /\ x[1] \in Ids /\ x[2] \in Nat
    BY <1>2, <1>6 DEF Underway, Numbered
  <2>2. bridge.pending[i].next \in Nat /\ Batches(x[1]) \in Nat
    BY <1>1, <2>1, BridgeAssumption DEF Bridges, Entries, Batches
  <2> QED BY <1>6, <2>1, <2>2
<1>8. \A m \in Rest(bridge, 1) : bridge.queue[m][1] = x[1] => x[2] < bridge.queue[m][2]
  BY <1>2, <1>4, Zenon DEF Underway, Sent
<1>9. x[1] \in Ids /\ x[2] \in Nat
  BY <1>2
<1> QED BY <1>3, <1>5, <1>6, <1>7, <1>8, <1>9, Zenon DEF x

(* The result of a batch the mount host has executed is acted on.          *)
LEMMA ExecuteProgress ==
  ASSUME IInv, Underway(bridge, 0, crowded), Execute
  PROVE  Progress(Success(bridge))
<1> DEFINE t == Head(bridge.queue)[1]
           k == Head(bridge.queue)[2]
           S == Success(bridge)
           emptied == Emptied(bridge, SurfaceOf(t))
           mounted == Mounted(bridge, t, k)
<1>1. /\ t \in Ids /\ k \in Nat /\ Keeps(bridge, accepted, 1) /\ Underway(bridge, 1, crowded)
      /\ \A m \in Rest(bridge, 1) : bridge.queue[m][1] = t => k < bridge.queue[m][2]
      /\ 1 \in Nat /\ bridge \in Bridges /\ crowded' = crowded
  BY HeadUnderway DEF Execute, Keeps
<1>2. PICK i \in Slots : /\ bridge.pending[i].tx = t /\ bridge.pending[i].phase \notin Past
                         /\ k < bridge.pending[i].next /\ k < Batches(t)
  BY HeadUnderway DEF Execute
<1>3. PICK b : /\ \/ b \in CompleteFor(emptied, t, k, FALSE)
                  \/ Batches(t) = 1 /\ b \in CompleteFor(bridge, t, k, FALSE)
                  \/ MountSucceeds(bridge, t, k) /\ b \in CompleteFor(mounted, t, k, TRUE)
               /\ bridge' = [b EXCEPT !.queue = Tail(b.queue)]
  BY Zenon DEF Execute
<1>4. ASSUME NEW d, Keeps(d, accepted, 1), Underway(d, 1, crowded), Success(d) \subseteq S,
             d.pending = bridge.pending, d.queue = bridge.queue,
             NEW success \in BOOLEAN, success /\ k = Batches(t) - 1 => Whole(d, t),
             b \in CompleteFor(d, t, k, success)
      PROVE  Underway(b, 1, crowded) /\ Sound(b, S, crowded) /\ Keeps(b, accepted, 1)
  <2>1. \A m \in Rest(d, 1) : d.queue[m][1] = t => k < d.queue[m][2]
    BY <1>1, <1>4, Zenon DEF Rest
  <2>2. \E j \in Slots : /\ d.pending[j].tx = t /\ d.pending[j].phase \notin Past
                         /\ k < d.pending[j].next
    BY <1>2, <1>4, Zenon
  <2>3. Keeps(b, accepted, 1)
    BY <1>1, <1>4, CompleteForKeeps, Zenon
  <2> HIDE DEF S, t, k
  <2>4. Underway(b, 1, crowded) /\ Sound(b, S, crowded)
    BY <1>1, <1>4, <2>1, <2>2, CompleteForUnderway, Zenon
  <2> QED BY <2>3, <2>4
<1>5. Underway(b, 1, crowded) /\ Sound(b, S, crowded) /\ Keeps(b, accepted, 1)
  <2>1. CASE b \in CompleteFor(emptied, t, k, FALSE)
    <3>1. Keeps(emptied, accepted, 1)
      BY <1>1, EmptiedKeeps, Zenon
    <3>2. /\ Underway(emptied, 1, crowded) /\ Success(emptied) \subseteq S
          /\ emptied.pending = bridge.pending /\ emptied.queue = bridge.queue
      BY <1>1, <1>2, EmptiedUnderway, Zenon
    <3> HIDE DEF emptied, S, t, k
    <3> QED BY <1>4, <2>1, <3>1, <3>2, Zenon
  <2>2. CASE b \in CompleteFor(bridge, t, k, FALSE)
    <3>1. Success(bridge) \subseteq S
      OBVIOUS
    <3> HIDE DEF S, t, k
    <3> QED BY <1>1, <1>4, <2>2, <3>1, Zenon
  <2>3. CASE MountSucceeds(bridge, t, k) /\ b \in CompleteFor(mounted, t, k, TRUE)
    <3>1. Keeps(mounted, accepted, 1)
      BY <1>1, MountedKeeps, Zenon
    <3>2. /\ Underway(mounted, 1, crowded) /\ Success(mounted) \subseteq S
          /\ mounted.pending = bridge.pending /\ mounted.queue = bridge.queue
          /\ k = Batches(t) - 1 => Whole(mounted, t)
      <4> HIDE DEF S, t, k
      <4>1. bridge.pending[i].tx = t /\ bridge.pending[i].tx \in Ids
        BY <1>1, <1>2, Zenon
      <4>2. k < Batches(bridge.pending[i].tx) /\ MountSucceeds(bridge, bridge.pending[i].tx, k)
        BY <1>2, <2>3, <4>1, Zenon
      <4>3. LET c == Mounted(bridge, bridge.pending[i].tx, k)
            IN  /\ Underway(c, 1, crowded) /\ Success(c) \subseteq Success(bridge)
                /\ c.pending = bridge.pending /\ c.queue = bridge.queue /\ c.phase = bridge.phase
                /\ k = Batches(bridge.pending[i].tx) - 1 => Whole(c, bridge.pending[i].tx)
        BY <1>1, <1>2, <4>1, <4>2, MountedUnderway, Zenon
      <4> QED BY <4>1, <4>3, Zenon DEF S
    <3> HIDE DEF mounted, S, t, k
    <3> QED BY <1>4, <2>3, <3>1, <3>2, Zenon
  <2> QED BY <1>3, <2>1, <2>2, <2>3, Zenon
<1> HIDE DEF t, k, S
<1>6. Underway(bridge', 0, crowded) /\ Sound(bridge', S, crowded)
  <2>1. b \in Bridges /\ 1 <= Len(b.queue)
    BY <1>5, Zenon DEF Keeps
  <2>2. bridge' = WithQueue(b, Tail(b.queue))
    BY <1>3, Zenon DEF WithQueue
  <2> QED BY <1>5, <2>1, <2>2, TailUnderway, Zenon
<1> QED BY <1>1, <1>6, Zenon DEF Progress, S

(* What is shown was in its surface as a whole.                            *)
LEMMA PresentedProgress ==
  ASSUME IInv, Underway(bridge, 0, crowded), NEW t \in Ids, Presented(t)
  PROVE  Progress(Success(bridge))
<1> DEFINE s == SurfaceOf(t)
           is(valid) == valid /\ bridge.phase[s] = "hiddenMounted"
           after(valid) == [bridge EXCEPT !.present = @ \ {t},
                                          !.phase[s] = IF is(valid) THEN "visible" ELSE @]
<1>0. PICK valid \in BOOLEAN :
        \/ bridge' = after(valid)
        \/ \E i \in Slots : /\ bridge.pending[i].tx = t /\ bridge.pending[i].phase = "presentPosted"
                            /\ bridge' \in TryCoreResult(Settled(after(valid), i, is(valid)), i)
  BY Zenon DEF Presented, SlotOf
<1> DEFINE shown == is(valid)
           P == bridge.present \ {t}
           F == [bridge.phase EXCEPT ![s] = IF shown THEN "visible" ELSE bridge.phase[s]]
           done == [bridge EXCEPT !.present = P, !.phase = F]
           S == Success(bridge)
<1>1. /\ Keeps(bridge, accepted, 0) /\ 0 \in Nat /\ bridge \in Bridges /\ crowded' = crowded
      /\ s \in Surfaces /\ \A u \in Ids : SurfaceOf(u) \in Surfaces
  BY BridgeAssumption DEF IInv, Keeps, Presented, SurfaceOf
<1>2. \/ bridge' = done
      \/ \E i \in Slots : /\ bridge.pending[i].tx = t /\ bridge.pending[i].phase = "presentPosted"
                          /\ bridge' \in TryCoreResult(Settled(done, i, shown), i)
  <2>1. done = after(valid)
    BY <1>1 DEF Bridges
  <2> HIDE DEF done, after, is
  <2> QED BY <1>0, <2>1, Zenon DEF shown
<1>3. /\ P \in SUBSET Ids
      /\ F \in [Surfaces -> {"hiddenEmpty", "hiddenMounted", "visible", "none"}]
      /\ \A u \in Surfaces : F[u] = "none" <=> bridge.phase[u] = "none"
      /\ shown => F[s] = "visible"
  BY <1>1 DEF Bridges
<1> HIDE DEF P, F
<1>4. /\ done \in Bridges /\ done.pending = bridge.pending /\ done.queue = bridge.queue
      /\ done.applied = bridge.applied /\ done.verdict = bridge.verdict /\ done.phase = F
      /\ done.told = bridge.told
  BY <1>1, <1>3 DEF Bridges
<1> HIDE DEF done
<1>5. \A i : Taken(bridge, accepted, 0, i) => Taken(done, accepted, 0, i)
  <2>1. 0 <= Len(done.queue) /\ Len(done.queue) <= MaxTransactions
    BY <1>1, <1>4, Zenon DEF Keeps
  <2> QED BY <1>1, <1>4, <2>1, ElsewhereKeeps, Zenon DEF Elsewhere
<1>6. Underway(done, 0, crowded)
  <2>1. SameSurfaces(bridge, done)
    BY <1>1, <1>3, <1>4, Zenon DEF SameSurfaces
  <2>2. \A j \in Slots : Moves(bridge, 0, bridge.pending[j], done.pending[j])
    BY <1>4, Zenon DEF Moves
  <2> QED BY <1>1, <1>4, <2>1, <2>2, MovesKeep, Zenon
<1>7. Success(done) \subseteq S
  BY <1>4, SuccessStays, Zenon
<1> SUFFICES Underway(bridge', 0, crowded) /\ Sound(bridge', S, crowded)
  BY <1>1, Zenon DEF Progress
<1>8. CASE bridge' = done
  BY <1>6, <1>7, <1>8, NoSuccess, Zenon
<1>9. ASSUME NEW i \in Slots, bridge.pending[i].tx = t, bridge.pending[i].phase = "presentPosted",
             bridge' \in TryCoreResult(Settled(done, i, shown), i)
      PROVE  Underway(bridge', 0, crowded) /\ Sound(bridge', S, crowded)
  <2>1. Taken(bridge, accepted, 0, i)
    BY <1>1, <1>9, Zenon DEF Taken
  <2>2. Taken(done, accepted, 0, i)
    BY <1>5, <2>1, Zenon
  <2>3. "presentPosted" \in Past /\ "presentPosted" \in Showing
    BY DEF Past, Showing
  <2>4. Quiet(bridge, 0, t)
    BY <1>1, <1>9, <2>1, <2>3, PastIsQuiet, Zenon
  <2>5. Quiet(done, 0, t)
    BY <1>4, <2>4, Zenon DEF Quiet, Rest
  <2>6. shown => t \in crowded \/ Arrived(done, t)
    <3> SUFFICES ASSUME shown, t \notin crowded PROVE Arrived(done, t)
      BY Zenon
    <3>1. Whole(bridge, t) \/ bridge.phase[s] = "none"
      BY <1>9, <2>3, Zenon DEF Underway, Presenting
    <3>2. Whole(bridge, t)
      BY <3>1
    <3> QED BY <1>3, <1>4, <3>2, Zenon DEF Arrived, Whole
  <2>7. shown \in BOOLEAN
    BY Zenon
  <2>8. done.pending[i].tx = t
    BY <1>4, <1>9
  <2> HIDE DEF shown, S
  <2> QED BY <1>1, <1>6, <1>7, <1>9, <2>2, <2>5, <2>6, <2>7, <2>8, AnswerUnderway, Zenon
<1> QED BY <1>2, <1>8, <1>9, Zenon

(* What waits to be shown on a surface that goes will not be.              *)
LEMMA DestroyedProgress ==
  ASSUME IInv, Underway(bridge, 0, crowded), NEW s \in Surfaces, SurfaceDestroyed(s)
  PROVE  Progress(Success(bridge))
<1> DEFINE a == [t \in Ids |-> IF SurfaceOf(t) = s THEN {} ELSE bridge.applied[t]]
           F == [bridge.phase EXCEPT ![s] = "none"]
           c == bridge'
<1>1. bridge \in Bridges /\ crowded' = crowded
  BY DEF IInv, Keeps, SurfaceDestroyed
<1>2. c = [bridge EXCEPT !.applied = a, !.phase = F]
  <2>1. Emptied(bridge, s) = [bridge EXCEPT !.applied = a]
    BY Zenon DEF Emptied
  <2>2. c = [Emptied(bridge, s) EXCEPT !.phase[s] = "none"]
    BY DEF SurfaceDestroyed
  <2> HIDE DEF a, c
  <2> QED BY <1>1, <2>1, <2>2 DEF Bridges
<1>3. /\ c.pending = bridge.pending /\ c.queue = bridge.queue /\ c.verdict = bridge.verdict
      /\ c.applied = a /\ c.phase = F
  <2> HIDE DEF a, F, c
  <2> QED BY <1>1, <1>2 DEF Bridges
<1> HIDE DEF c
<1>4. /\ F[s] = "none"
      /\ \A u \in Surfaces : u # s => F[u] = bridge.phase[u]
      /\ \A t \in Ids : SurfaceOf(t) \in Surfaces
  BY <1>1, BridgeAssumption DEF Bridges, SurfaceOf
<1>5. \A t \in Ids : a[t] \subseteq 0..(Batches(t) - 1)
  BY DEF Underway, Presenting
<1>6. \A t \in Ids : SurfaceOf(t) # s => a[t] = bridge.applied[t]
  OBVIOUS
<1> HIDE DEF a, F
<1>7. Sent(c, 0) /\ Numbered(c) /\ Sharing(c, crowded)
  BY <1>3, Zenon DEF Underway, Sent, Numbered, Sharing, Rest
<1>8. Presenting(c, crowded)
  <2>1. ASSUME NEW i \in Slots, c.pending[i].phase \in Showing, c.pending[i].tx \in Ids \ crowded
        PROVE  Whole(c, c.pending[i].tx) \/ c.phase[SurfaceOf(c.pending[i].tx)] = "none"
    <3> DEFINE t == c.pending[i].tx
    <3>1. CASE SurfaceOf(t) = s
      BY <1>3, <1>4, <3>1, Zenon
    <3>2. CASE SurfaceOf(t) # s
      <4>1. Whole(bridge, t) \/ bridge.phase[SurfaceOf(t)] = "none"
        BY <1>3, <2>1, Zenon DEF Underway, Presenting
      <4>2. t \in Ids
        BY <2>1
      <4> QED BY <1>3, <1>4, <1>6, <3>2, <4>1, <4>2, Zenon DEF Whole
    <3> QED BY <3>1, <3>2
  <2> QED BY <1>3, <1>5, <2>1, Zenon DEF Presenting
<1>9. Sound(c, Success(bridge), crowded)
  BY <1>3, SuccessStays, NoSuccess, Zenon
<1> QED BY <1>1, <1>7, <1>8, <1>9, Zenon DEF Progress, Underway, c

(* Every step goes on soundly.                                             *)
LEMMA StepProgress ==
  ASSUME IInv, Underway(bridge, 0, crowded), [Next]_vars
  PROVE  Progress(Success(bridge))
<1>1. CASE bridge' = bridge /\ crowded' = crowded
  <2>1. Sound(bridge, Success(bridge), crowded)
    BY NoSuccess
  <2> QED BY <1>1, <2>1, Zenon DEF Progress
<1>2. CASE Close
  BY <1>1, <1>2, Zenon DEF Close
<1>3. CASE UNCHANGED vars
  BY <1>1, <1>3, Zenon DEF vars
<1> QED BY <1>2, <1>3, PostProgress, ServeProgress, ExecuteProgress, PresentedProgress,
     DestroyedProgress, Zenon DEF Next

(* Nothing is on its way in the constructed bridge.                        *)
LEMMA InitUnderway == Init => Underway(bridge, 0, crowded)
<1> SUFFICES ASSUME Init PROVE Underway(bridge, 0, crowded)
  OBVIOUS
<1>1. Free.tx \notin Ids /\ \A i \in Slots : bridge.pending[i] = Free
  BY BridgeAssumption DEF Init, Free
<1>2. bridge.queue = <<>> /\ \A t \in Ids : bridge.applied[t] = {}
  BY DEF Init
<1>3. Rest(bridge, 0) = {}
  BY <1>2 DEF Rest
<1>4. Sent(bridge, 0)
  BY <1>3, Zenon DEF Sent
<1>5. Numbered(bridge) /\ Sharing(bridge, crowded)
  BY <1>1, Zenon DEF Numbered, Sharing
<1>6. Presenting(bridge, crowded)
  BY <1>1, <1>2 DEF Presenting
<1> QED BY <1>4, <1>5, <1>6, Zenon DEF Underway

(* When a transaction comes to count as mounted, every batch of it is in   *)
(* the content of its surface, and a full one that is to be shown is       *)
(* shown, unless it shared the surface in flight (CoreMountBridge::        *)
(* complete, postBatch, tryPresent and acceptSurfaceResult).               *)
THEOREM MountedIsComplete == Spec => MountedMeansComplete
<1> DEFINE J == Underway(bridge, 0, crowded)
           A == \A t \in Success(bridge') \ (Success(bridge) \cup crowded') :
                  /\ bridge'.applied[t] = 0..(Batches(t) - 1)
                  /\ Transactions[t].full /\ AutoPresent =>
                       bridge'.phase[SurfaceOf(t)] = "visible"
<1>1. Init => J
  BY InitUnderway
<1>2. IInv /\ J /\ [Next]_vars => J' /\ A
  <2> SUFFICES ASSUME IInv, J, [Next]_vars PROVE J' /\ A
    OBVIOUS
  <2>1. Progress(Success(bridge))
    BY StepProgress
  <2>2. J'
    BY <2>1, Zenon DEF Progress
  <2>3. A
    BY <2>1, Zenon DEF Progress, Sound, Arrived, Whole
  <2> QED BY <2>2, <2>3
<1>3. MountedMeansComplete <=> [][A]_vars
  BY DEF MountedMeansComplete
<1> HIDE DEF J, A
<1>4. Spec => [][A]_vars
  BY <1>1, <1>2, Invariance, PTL DEF Spec
<1> QED BY <1>3, <1>4
=============================================================================
