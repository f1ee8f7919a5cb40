-------------------------- MODULE SurfaceHostProofs -------------------------
(***************************************************************************)
(* Surfaces and page roots stay in step, every accepted command is         *)
(* answered once, a push or a close keeps the number of roots on the       *)
(* screen, a request is not taken twice, and a closed host is empty, for   *)
(* every number of surfaces, requests, slots and roots.                    *)
(***************************************************************************)
EXTENDS SurfaceHost, FiniteSetTheorems, TLAPS

Phases  == {"hiddenEmpty", "hiddenMounted", "visible", "hidden"}
Busy    == {"admitted", "queued", "resultPending", "delivered"}
Records == [root : 0..MaxRoots, phase : Phases \cup {"absent"}]

(* What a table of surfaces rec and a table of page roots rt keep.         *)
RootsSound(rec, rt) ==
  /\ rec \in [Surfaces -> Records]
  /\ rt \in [Handles -> {"none", "hidden", "shown"}]
  /\ \A s \in Surfaces : rec[s] = NoRecord \/ (rec[s].root \in Handles /\ rec[s].phase \in Phases)
  /\ \A s, t \in Surfaces :
       rec[s].root \in Handles /\ rec[s].root = rec[t].root => s = t
  /\ \A h \in Handles : rt[h] # "none" <=> \E s \in Surfaces : rec[s].root = h
  /\ \A s \in Surfaces :
       rec[s].root \in Handles => (rt[rec[s].root] = "shown" <=> rec[s].phase = "visible")

Flags == accepting \in BOOLEAN /\ closed \in BOOLEAN /\ overtaken \in BOOLEAN

Entries  == [state : Busy \cup {"free"}, command : Commands \cup {NoCommand},
             request : Requests \cup {NoRequest}]
Services == [at : Nat, left : Int, closing : BOOLEAN]

SoundEntry(e) ==
  /\ e \in Entries
  /\ e = FreeSlot \/ (e.state \in Busy /\ e.command \in Commands /\ e.request \in Requests)

SoundSlots(sl) ==
  /\ sl \in [Slots -> Entries]
  /\ \A i \in Slots : SoundEntry(sl[i])

Types ==
  /\ inside \in {"nobody", "checked", "admitted"}
  /\ SoundSlots(slot)
  /\ told \in [Slots -> Nat]

(* A slot is admitted just while the post that took it is inside, and      *)
(* queued just while the owner's queue holds it, once.                     *)
Queue ==
  /\ tasks \in Seq(Slots)
  /\ \A k \in 1..Len(tasks) : slot[tasks[k]].state = "queued"
  /\ \A k, l \in 1..Len(tasks) : tasks[k] = tasks[l] => k = l
  /\ inside = "admitted" <=> \E i \in Slots : slot[i].state = "admitted"
  /\ \A i, j \in Slots : slot[i].state = "admitted" /\ slot[j].state = "admitted" => i = j

Closing ==
  /\ service \in Services
  /\ closed \/ service.closing => ~accepting
  /\ closed => service = Idle
  /\ closed /\ ~overtaken => inside = "nobody"

(* The place of the request that was written in the ring age writes ago:   *)
(* the last requests cleared are the last ones written.                    *)
PlaceAt(at, age) == IF age < at THEN at - 1 - age ELSE at - 1 - age + MaxCompleted

RingHolds(ring, at, last) ==
  /\ ring \in [0..(MaxCompleted - 1) -> Requests \cup {NoRequest}]
  /\ at \in 0..(MaxCompleted - 1)
  /\ last \in Seq(Requests) /\ Len(last) <= MaxCompleted
  /\ \A n \in 1..Len(last) : ring[PlaceAt(at, Len(last) - n)] = last[n]

IInv ==
  /\ Flags /\ Types /\ RootsSound(record, root) /\ Queue /\ Closing
  /\ RingHolds(completed, cursor, recent)
  /\ AnsweredOnce /\ ClosedIsEmpty

(***************************************************************************)
(* Constants, sets and sequences                                           *)
(***************************************************************************)
LEMMA Constants ==
  /\ MaxRoots \in Nat \ {0} /\ MaxOperations \in Nat \ {0} /\ MaxCompleted \in Nat \ {0}
  /\ TaskCapacity \in Nat \ {0} /\ Budgets \subseteq Nat \ {0} /\ StorageCapacity \in Nat
  /\ NoRequest \notin Requests
  BY SurfaceAssumption DEF SurfaceAssumption

(* The least element of a set of natural numbers is in it.                 *)
LEMMA SetMinIsMember ==
  ASSUME NEW S \in SUBSET Nat, S # {}
  PROVE  SetMin(S) \in S
  <1>1. PICK n \in S : \A k \in S : ~(<<k, n>> \in OpToRel(<, Nat))
    BY NatLessThanWellFounded, WFMin
  <1>2. ASSUME NEW k \in S
        PROVE  n <= k
    <2>1. k \in Nat /\ n \in Nat
      OBVIOUS
    <2>2. <<k, n>> \in OpToRel(<, Nat) <=> k < n
      BY <2>1, Zenon DEF OpToRel
    <2>3. ~(k < n)
      BY <1>1, <2>2, Zenon
    <2> QED
      BY <2>1, <2>3
  <1> QED
    BY <1>2 DEF SetMin

LEMMA TakingTheHead ==
  ASSUME NEW S, NEW q \in Seq(S), q # <<>>
  PROVE  /\ Head(q) \in S /\ Head(q) = q[1] /\ 1 \in 1..Len(q)
         /\ Tail(q) \in Seq(S) /\ Len(Tail(q)) = Len(q) - 1
         /\ \A k \in 1..Len(Tail(q)) : Tail(q)[k] = q[k + 1] /\ k + 1 \in 1..Len(q)
  OBVIOUS

LEMMA Appending ==
  ASSUME NEW S, NEW q \in Seq(S), NEW e \in S
  PROVE  /\ Append(q, e) \in Seq(S) /\ Len(Append(q, e)) = Len(q) + 1 /\ Len(q) \in Nat
         /\ Append(q, e)[Len(q) + 1] = e
         /\ \A k \in 1..Len(q) : Append(q, e)[k] = q[k]
  OBVIOUS

(***************************************************************************)
(* Records and roots: the three changes every command is made of           *)
(***************************************************************************)
Phased(rec, s, phase) == [rec EXCEPT ![s].phase = phase]

Turned(rt, h, look) == [rt EXCEPT ![h] = look]

(* What SetHidden does to the root of a surface.                           *)
LEMMA SurfaceHasRoot ==
  ASSUME NEW rec, NEW rt, RootsSound(rec, rt), NEW s \in Surfaces, rec[s].phase # "absent"
  PROVE  /\ rec[s] # NoRecord /\ rec[s].root \in Handles
         /\ SetHidden(rt, rec[s].root, FALSE) = Turned(rt, rec[s].root, "shown")
         /\ SetHidden(rt, rec[s].root, TRUE) = Turned(rt, rec[s].root, "hidden")
  <1>1. rec[s] # NoRecord /\ rec[s].root \in Handles /\ rt[rec[s].root] # "none"
    BY DEF RootsSound, NoRecord
  <1> QED
    BY <1>1 DEF SetHidden, Turned

(* A surface whose phase changes together with the look of its root.       *)
LEMMA PhaseKeepsSound ==
  ASSUME NEW rec, NEW rt, RootsSound(rec, rt), NEW s \in Surfaces, rec[s].phase # "absent",
         NEW phase \in Phases, NEW look \in {"shown", "hidden"},
         look = "shown" <=> phase = "visible"
  PROVE  RootsSound(Phased(rec, s, phase), Turned(rt, rec[s].root, look))
PROOF
<1> DEFINE rec2 == [rec EXCEPT ![s].phase = phase]
           h    == rec[s].root
           rt2  == [rt EXCEPT ![h] = look]
<1>1. h \in Handles /\ rt[h] # "none" /\ rec[s] \in Records
  BY DEF RootsSound, NoRecord
<1>3. /\ rec2 \in [Surfaces -> Records]
      /\ rec2[s].root = h /\ rec2[s].phase = phase
      /\ \A t \in Surfaces : rec2[t].root = rec[t].root /\ (t # s => rec2[t] = rec[t])
  BY <1>1 DEF RootsSound, Records
<1>4. /\ rt2 \in [Handles -> {"none", "hidden", "shown"}] /\ rt2[h] = look
      /\ \A k \in Handles : k # h => rt2[k] = rt[k]
  BY <1>1 DEF RootsSound
<1>5. \A t \in Surfaces : rec2[t] = NoRecord \/ (rec2[t].root \in Handles /\ rec2[t].phase \in Phases)
  BY <1>1, <1>3 DEF RootsSound
<1>6. \A t, u \in Surfaces : rec2[t].root \in Handles /\ rec2[t].root = rec2[u].root => t = u
  BY <1>3 DEF RootsSound
<1>7. \A k \in Handles : rt2[k] # "none" <=> \E t \in Surfaces : rec2[t].root = k
  BY <1>1, <1>3, <1>4 DEF RootsSound
<1>8. \A t \in Surfaces :
        rec2[t].root \in Handles => (rt2[rec2[t].root] = "shown" <=> rec2[t].phase = "visible")
  <2>1. \A t \in Surfaces : t # s => rec[t].root # h
    BY <1>1 DEF RootsSound
  <2> QED
    BY <1>3, <1>4, <2>1 DEF RootsSound
<1> HIDE DEF rec2, rt2
<1>9. RootsSound(rec2, rt2)
  BY <1>3, <1>4, <1>5, <1>6, <1>7, <1>8 DEF RootsSound
<1> QED
  BY <1>9 DEF rec2, rt2, Phased, Turned

LEMMA ShowKeepsSound ==
  ASSUME NEW rec, NEW rt, RootsSound(rec, rt), NEW s \in Surfaces, rec[s].phase # "absent"
  PROVE  RootsSound(Phased(rec, s, "visible"), Turned(rt, rec[s].root, "shown"))
  BY PhaseKeepsSound DEF Phases

LEMMA HideKeepsSound ==
  ASSUME NEW rec, NEW rt, RootsSound(rec, rt), NEW s \in Surfaces, rec[s].phase # "absent"
  PROVE  RootsSound(Phased(rec, s, "hidden"), Turned(rt, rec[s].root, "hidden"))
  BY PhaseKeepsSound DEF Phases

(* A surface that goes with its root.                                      *)
LEMMA RemovalKeepsSound ==
  ASSUME NEW rec, NEW rt, RootsSound(rec, rt), NEW s \in Surfaces, rec[s] # NoRecord
  PROVE  /\ RootsSound([rec EXCEPT ![s] = NoRecord], DestroyRoot(rt, rec[s].root))
         /\ rec[s].root \in Handles
PROOF
<1> DEFINE rec2 == [rec EXCEPT ![s] = NoRecord]
           h    == rec[s].root
           rt2  == DestroyRoot(rt, h)
<1>1. h \in Handles
  BY DEF RootsSound
<1>2. NoRecord \in Records /\ NoRecord.root = 0 /\ 0 \notin Handles
  BY Constants DEF NoRecord, Records, Handles
<1>3. /\ rec2 \in [Surfaces -> Records] /\ rec2[s] = NoRecord
      /\ \A t \in Surfaces : t # s => rec2[t] = rec[t]
  BY <1>2 DEF RootsSound
<1>4. /\ rt2 \in [Handles -> {"none", "hidden", "shown"}] /\ rt2[h] = "none"
      /\ \A k \in Handles : k # h => rt2[k] = rt[k]
  BY <1>1 DEF RootsSound, DestroyRoot
<1>5. \A t \in Surfaces : rec2[t] = NoRecord \/ (rec2[t].root \in Handles /\ rec2[t].phase \in Phases)
  BY <1>3 DEF RootsSound
<1>6. \A t, u \in Surfaces : rec2[t].root \in Handles /\ rec2[t].root = rec2[u].root => t = u
  BY <1>2, <1>3 DEF RootsSound
<1>7. \A t \in Surfaces : t # s => rec[t].root # h
  BY <1>1 DEF RootsSound
<1>8. \A k \in Handles : rt2[k] # "none" <=> \E t \in Surfaces : rec2[t].root = k
  BY <1>1, <1>2, <1>3, <1>4, <1>7 DEF RootsSound
<1>9. \A t \in Surfaces :
        rec2[t].root \in Handles => (rt2[rec2[t].root] = "shown" <=> rec2[t].phase = "visible")
  BY <1>2, <1>3, <1>4, <1>7 DEF RootsSound
<1> HIDE DEF rec2, rt2
<1>10. RootsSound(rec2, rt2)
  BY <1>3, <1>4, <1>5, <1>6, <1>8, <1>9 DEF RootsSound
<1> QED
  BY <1>1, <1>10 DEF rec2, rt2

(* A surface that comes with a root nobody has.                            *)
LEMMA CreationKeepsSound ==
  ASSUME NEW rec, NEW rt, RootsSound(rec, rt), NEW s \in Surfaces, rec[s] = NoRecord,
         NEW h \in Handles, rt[h] = "none"
  PROVE  RootsSound([rec EXCEPT ![s] = [root |-> h, phase |-> "hiddenEmpty"]],
                    [rt EXCEPT ![h] = "hidden"])
PROOF
<1> DEFINE rec2 == [rec EXCEPT ![s] = [root |-> h, phase |-> "hiddenEmpty"]]
           rt2  == [rt EXCEPT ![h] = "hidden"]
<1>1. [root |-> h, phase |-> "hiddenEmpty"] \in Records
  BY DEF Records, Handles, Phases
<1>2. NoRecord.root = 0 /\ 0 \notin Handles
  BY DEF NoRecord, Handles
<1>3. /\ rec2 \in [Surfaces -> Records]
      /\ rec2[s].root = h /\ rec2[s].phase = "hiddenEmpty"
      /\ \A t \in Surfaces : t # s => rec2[t] = rec[t]
  BY <1>1 DEF RootsSound
<1>4. /\ rt2 \in [Handles -> {"none", "hidden", "shown"}] /\ rt2[h] = "hidden"
      /\ \A k \in Handles : k # h => rt2[k] = rt[k]
  BY DEF RootsSound
<1>5. \A t \in Surfaces : rec[t].root # h
  BY DEF RootsSound
<1>6. \A t \in Surfaces : rec2[t] = NoRecord \/ (rec2[t].root \in Handles /\ rec2[t].phase \in Phases)
  BY <1>3 DEF RootsSound, Phases
<1>7. \A t, u \in Surfaces : rec2[t].root \in Handles /\ rec2[t].root = rec2[u].root => t = u
  BY <1>3, <1>5 DEF RootsSound
<1>8. \A k \in Handles : rt2[k] # "none" <=> \E t \in Surfaces : rec2[t].root = k
  BY <1>2, <1>3, <1>4 DEF RootsSound
<1>9. \A t \in Surfaces :
        rec2[t].root \in Handles => (rt2[rec2[t].root] = "shown" <=> rec2[t].phase = "visible")
  BY <1>3, <1>4, <1>5 DEF RootsSound
<1> HIDE DEF rec2, rt2
<1>10. RootsSound(rec2, rt2)
  BY <1>3, <1>4, <1>6, <1>7, <1>8, <1>9 DEF RootsSound
<1> QED
  BY <1>10 DEF rec2, rt2

(***************************************************************************)
(* What a command leaves                                                   *)
(***************************************************************************)
ShownOf(rt) == {h \in Handles : rt[h] = "shown"}

Exchanges(c) == c.kind \in {"push", "close"}

LEMMA ExchangeKeepsCount ==
  ASSUME NEW S \in SUBSET Handles, NEW a \in S, NEW b \in Handles \ S
  PROVE  Cardinality((S \ {a}) \cup {b}) = Cardinality(S)
  <1>1. IsFiniteSet(Handles)
    BY Constants, FS_Interval DEF Handles
  <1>2. IsFiniteSet(S)
    BY <1>1, FS_Subset
  <1>3. Cardinality(S \ {a}) = Cardinality(S) - 1 /\ IsFiniteSet(S \ {a})
    BY <1>2, FS_RemoveElement
  <1>4. Cardinality((S \ {a}) \cup {b}) = Cardinality(S \ {a}) + 1
    BY <1>3, FS_AddElement
  <1>5. Cardinality(S) \in Nat
    BY <1>2, FS_CardinalityType
  <1> QED
    BY <1>3, <1>4, <1>5

LEMMA LiveSurface ==
  ASSUME RootsSound(record, root), NEW s \in Surfaces, record[s].phase # "absent"
  PROVE  /\ record[s] # NoRecord /\ record[s].root \in Handles /\ record[s].phase \in Phases
         /\ \A t \in Surfaces : t # s => record[t].root # record[s].root
  BY DEF RootsSound, NoRecord

(* Surface s comes to the screen, and another one leaves it.               *)
LEMMA PushIsSound ==
  ASSUME RootsSound(record, root), NEW s \in Surfaces, NEW source \in Surfaces, s # source,
         record[s].phase = "hiddenMounted", record[source].phase = "visible"
  PROVE  LET rt == SetHidden(SetHidden(root, RootOf(s), FALSE), RootOf(source), TRUE)
         IN  /\ RootsSound([Show(s) EXCEPT ![source].phase = "hidden"], rt)
             /\ Cardinality(ShownOf(rt)) = Cardinality(ShownOf(root))
PROOF
<1> DEFINE rec1 == Phased(record, s, "visible")
           rt1  == Turned(root, record[s].root, "shown")
           rt2  == Turned(rt1, record[source].root, "hidden")
<1>1. /\ record[s].root \in Handles /\ record[source].root \in Handles
      /\ record[s].root # record[source].root
  BY LiveSurface
<1>2. record[s].phase # "absent"
  OBVIOUS
<1>3. RootsSound(rec1, rt1) /\ SetHidden(root, record[s].root, FALSE) = rt1
  BY <1>2, ShowKeepsSound, SurfaceHasRoot
<1>4. rec1[source] = record[source] /\ rec1[source].phase # "absent"
  BY DEF RootsSound, Phased
<1>5. /\ RootsSound(Phased(rec1, source, "hidden"), rt2)
      /\ SetHidden(rt1, record[source].root, TRUE) = rt2
  <2> HIDE DEF rec1, rt1
  <2>1. RootsSound(Phased(rec1, source, "hidden"), Turned(rt1, rec1[source].root, "hidden"))
    BY <1>3, <1>4, HideKeepsSound, Zenon
  <2>2. SetHidden(rt1, rec1[source].root, TRUE) = Turned(rt1, rec1[source].root, "hidden")
    BY <1>3, <1>4, SurfaceHasRoot, Zenon
  <2>3. rec1[source].root = record[source].root
    BY <1>4
  <2> QED
    BY <2>1, <2>2, <2>3, Zenon
<1>6. ShownOf(rt2) = (ShownOf(root) \ {record[source].root}) \cup {record[s].root}
  BY <1>1 DEF RootsSound, ShownOf, Turned
<1>7. record[source].root \in ShownOf(root) /\ record[s].root \notin ShownOf(root)
  BY <1>1 DEF RootsSound, ShownOf
<1>8. Cardinality(ShownOf(rt2)) = Cardinality(ShownOf(root))
  <2>1. ShownOf(root) \in SUBSET Handles
    BY DEF ShownOf
  <2> HIDE DEF rt2
  <2> QED
    BY <1>1, <1>6, <1>7, <2>1, ExchangeKeepsCount
<1>9. Phased(rec1, source, "hidden") = [Show(s) EXCEPT ![source].phase = "hidden"]
  BY Zenon DEF Phased, Show
<1> HIDE DEF rec1, rt1, rt2
<1> QED
  BY <1>3, <1>5, <1>8, <1>9 DEF RootOf

(* Surface s goes, and the one under it comes to the screen.               *)
LEMMA CloseIsSound ==
  ASSUME RootsSound(record, root), NEW s \in Surfaces, NEW reveal \in Surfaces,
         CloseReady(s, reveal)
  PROVE  LET rt == SetHidden(DestroyRoot(root, RootOf(s)), RootOf(reveal), FALSE)
         IN  /\ RootsSound([record EXCEPT ![s] = NoRecord, ![reveal].phase = "visible"], rt)
             /\ Cardinality(ShownOf(rt)) = Cardinality(ShownOf(root))
PROOF
<1> DEFINE rec1 == [record EXCEPT ![s] = NoRecord]
           rt1  == DestroyRoot(root, record[s].root)
           rt2  == Turned(rt1, record[reveal].root, "shown")
<1>1. s # reveal /\ record[s].phase = "visible" /\ record[reveal].phase = "hidden"
  BY DEF CloseReady
<1>2. /\ record[s].root \in Handles /\ record[reveal].root \in Handles
      /\ record[s].root # record[reveal].root /\ record[s] # NoRecord
  BY <1>1, LiveSurface
<1>3. RootsSound(rec1, rt1)
  BY <1>2, RemovalKeepsSound
<1>4. rec1[reveal] = record[reveal] /\ rec1[reveal].phase # "absent"
  BY <1>1 DEF RootsSound
<1>5. RootsSound(Phased(rec1, reveal, "visible"), rt2) /\ SetHidden(rt1, record[reveal].root, FALSE) = rt2
  <2> HIDE DEF rec1, rt1
  <2> QED
    BY <1>3, <1>4, ShowKeepsSound, SurfaceHasRoot
<1>6. ShownOf(rt2) = (ShownOf(root) \ {record[s].root}) \cup {record[reveal].root}
  BY <1>2 DEF RootsSound, ShownOf, Turned, DestroyRoot
<1>7. record[s].root \in ShownOf(root) /\ record[reveal].root \notin ShownOf(root)
  BY <1>1, <1>2 DEF RootsSound, ShownOf
<1>8. Cardinality(ShownOf(rt2)) = Cardinality(ShownOf(root))
  <2>1. ShownOf(root) \in SUBSET Handles
    BY DEF ShownOf
  <2> HIDE DEF rt2
  <2> QED
    BY <1>2, <1>6, <1>7, <2>1, ExchangeKeepsCount
<1>9. Phased(rec1, reveal, "visible") = [record EXCEPT ![s] = NoRecord, ![reveal].phase = "visible"]
  BY Zenon DEF Phased
<1> HIDE DEF rec1, rt1, rt2
<1> QED
  BY <1>5, <1>8, <1>9 DEF RootOf, rt1

(* What an outcome leaves, and what a refusal leaves.                      *)
LEMMA OutcomeParts ==
  ASSUME NEW success, NEW records, NEW roots, NEW o, o = Outcome(success, records, roots)
  PROVE  o.record = records /\ o.root = roots
  BY DEF Outcome

LEMMA FailureLeavesAll == Failed.record = record /\ Failed.root = root
  BY DEF Outcome, Failed

LEMMA CreateIsSound ==
  ASSUME RootsSound(record, root), NEW s \in Surfaces, NEW o \in CreateOutcomes(s)
  PROVE  RootsSound(o.record, o.root)
PROOF
<1>1. CASE o = Failed
  BY <1>1, FailureLeavesAll
<1>2. CASE o # Failed
  <2>1. /\ record[s] = NoRecord /\ FreeHandles # {}
        /\ \E success : o = Outcome(success, [record EXCEPT ![s] = [root |-> SetMin(FreeHandles),
                                                    phase |-> "hiddenEmpty"]], CreateHidden)
    BY <1>2, Zenon DEF CreateOutcomes
  <2>2. SetMin(FreeHandles) \in FreeHandles
    BY <2>1, SetMinIsMember DEF FreeHandles, Handles
  <2>3. SetMin(FreeHandles) \in Handles /\ root[SetMin(FreeHandles)] = "none"
    BY <2>2 DEF FreeHandles
  <2>4. RootsSound([record EXCEPT ![s] = [root |-> SetMin(FreeHandles),
                                          phase |-> "hiddenEmpty"]], CreateHidden)
    BY <2>1, <2>3, CreationKeepsSound DEF CreateHidden
  <2> QED
    BY <2>1, <2>4, OutcomeParts
<1> QED
  BY <1>1, <1>2

LEMMA PresentRootIsSound ==
  ASSUME RootsSound(record, root), NEW s \in Surfaces, NEW o \in PresentRootOutcomes(s)
  PROVE  RootsSound(o.record, o.root)
PROOF
<1>1. CASE o = Failed
  BY <1>1, FailureLeavesAll
<1>2. CASE o # Failed
  <2>1. /\ record[s].phase = "hiddenMounted"
        /\ \E success : o = Outcome(success, Phased(record, s, "visible"), SetHidden(root, RootOf(s), FALSE))
    BY <1>2, Zenon DEF PresentRootOutcomes, Show, Phased
  <2>2. record[s].phase # "absent"
    BY <2>1
  <2>3. RootsSound(Phased(record, s, "visible"), SetHidden(root, RootOf(s), FALSE))
    <3>1. SetHidden(root, record[s].root, FALSE) = Turned(root, record[s].root, "shown")
      BY <2>2, SurfaceHasRoot, Zenon
    <3>2. RootsSound(Phased(record, s, "visible"), Turned(root, record[s].root, "shown"))
      BY <2>2, ShowKeepsSound, Zenon
    <3> QED
      BY <3>1, <3>2, Zenon DEF RootOf
  <2>4. \E success, records, roots : o = Outcome(success, records, roots) /\ RootsSound(records, roots)
    BY <2>1, <2>3, Zenon
  <2> QED
    BY <2>4, OutcomeParts
<1> QED
  BY <1>1, <1>2

LEMMA VisibilityIsSound ==
  ASSUME RootsSound(record, root), NEW s \in Surfaces,
         NEW o \in VisibilityOutcomes(s, "visible") \cup VisibilityOutcomes(s, "hidden")
  PROVE  RootsSound(o.record, o.root)
PROOF
<1>0. o \in VisibilityOutcomes(s, "visible") \/ o \in VisibilityOutcomes(s, "hidden")
  OBVIOUS
<1>1. CASE o = Failed
  BY <1>1, FailureLeavesAll
<1>2. CASE o # Failed /\ o \in VisibilityOutcomes(s, "visible")
  <2>1. /\ record[s].phase \in {"visible", "hidden"}
        /\ \E success : o = Outcome(success, Phased(record, s, "visible"),
                             SetHidden(root, RootOf(s), "visible" = "hidden"))
    BY <1>2, Zenon DEF VisibilityOutcomes, Phased
  <2>0. ("visible" = "hidden") = FALSE
    OBVIOUS
  <2>2. record[s].phase # "absent"
    BY <2>1
  <2>3. RootsSound(Phased(record, s, "visible"), SetHidden(root, RootOf(s), FALSE))
    <3>1. SetHidden(root, record[s].root, FALSE) = Turned(root, record[s].root, "shown")
      BY <2>2, SurfaceHasRoot, Zenon
    <3>2. RootsSound(Phased(record, s, "visible"), Turned(root, record[s].root, "shown"))
      BY <2>2, ShowKeepsSound, Zenon
    <3> QED
      BY <3>1, <3>2, Zenon DEF RootOf
  <2>4. \E success, records, roots : o = Outcome(success, records, roots) /\ RootsSound(records, roots)
    BY <2>0, <2>1, <2>3, Zenon
  <2> QED
    BY <2>4, OutcomeParts
<1>3. CASE o # Failed /\ o \in VisibilityOutcomes(s, "hidden")
  <2>1. /\ record[s].phase \in {"visible", "hidden"}
        /\ \E success : o = Outcome(success, Phased(record, s, "hidden"),
                             SetHidden(root, RootOf(s), "hidden" = "hidden"))
    BY <1>3, Zenon DEF VisibilityOutcomes, Phased
  <2>0. ("hidden" = "hidden") = TRUE
    OBVIOUS
  <2>2. record[s].phase # "absent"
    BY <2>1
  <2>3. RootsSound(Phased(record, s, "hidden"), SetHidden(root, RootOf(s), TRUE))
    <3>1. SetHidden(root, record[s].root, TRUE) = Turned(root, record[s].root, "hidden")
      BY <2>2, SurfaceHasRoot, Zenon
    <3>2. RootsSound(Phased(record, s, "hidden"), Turned(root, record[s].root, "hidden"))
      BY <2>2, HideKeepsSound, Zenon
    <3> QED
      BY <3>1, <3>2, Zenon DEF RootOf
  <2>4. \E success, records, roots : o = Outcome(success, records, roots) /\ RootsSound(records, roots)
    BY <2>0, <2>1, <2>3, Zenon
  <2> QED
    BY <2>4, OutcomeParts
<1> QED
  BY <1>0, <1>1, <1>2, <1>3, Zenon

LEMMA PresentPushIsSound ==
  ASSUME RootsSound(record, root), NEW s \in Surfaces, NEW source \in Surfaces,
         NEW o \in PresentPushOutcomes(s, source)
  PROVE  /\ RootsSound(o.record, o.root)
         /\ Cardinality(ShownOf(o.root)) = Cardinality(ShownOf(root))
PROOF
<1>1. CASE o = Failed
  BY <1>1, FailureLeavesAll
<1>2. CASE o # Failed
  <2>1. /\ s # source
        /\ record[s].phase = "hiddenMounted" /\ record[source].phase = "visible"
        /\ \E success : o = Outcome(success, [Show(s) EXCEPT ![source].phase = "hidden"],
                             SetHidden(SetHidden(root, RootOf(s), FALSE), RootOf(source), TRUE))
    BY <1>2, Zenon DEF PresentPushOutcomes
  <2> DEFINE rec == [Show(s) EXCEPT ![source].phase = "hidden"]
             rt  == SetHidden(SetHidden(root, RootOf(s), FALSE), RootOf(source), TRUE)
  <2>2. RootsSound(rec, rt) /\ Cardinality(ShownOf(rt)) = Cardinality(ShownOf(root))
    BY <2>1, PushIsSound, Zenon
  <2>3. \E success, records, roots :
          /\ o = Outcome(success, records, roots) /\ RootsSound(records, roots)
          /\ Cardinality(ShownOf(roots)) = Cardinality(ShownOf(root))
    BY <2>1, <2>2, Zenon
  <2> QED
    BY <2>3, OutcomeParts
<1> QED
  BY <1>1, <1>2

LEMMA CloseOutcomesAreSound ==
  ASSUME RootsSound(record, root), NEW s \in Surfaces, NEW reveal \in Surfaces,
         NEW o \in CloseOutcomes(s, reveal)
  PROVE  /\ RootsSound(o.record, o.root)
         /\ Cardinality(ShownOf(o.root)) = Cardinality(ShownOf(root))
PROOF
<1>1. CASE o = Failed
  BY <1>1, FailureLeavesAll
<1>2. CASE o # Failed
  <2>1. /\ CloseReady(s, reveal)
        /\ \E success : o = Outcome(success, [record EXCEPT ![s] = NoRecord, ![reveal].phase = "visible"],
                             SetHidden(DestroyRoot(root, RootOf(s)), RootOf(reveal), FALSE))
    BY <1>2, Zenon DEF CloseOutcomes
  <2> DEFINE rec == [record EXCEPT ![s] = NoRecord, ![reveal].phase = "visible"]
             rt  == SetHidden(DestroyRoot(root, RootOf(s)), RootOf(reveal), FALSE)
  <2>2. RootsSound(rec, rt) /\ Cardinality(ShownOf(rt)) = Cardinality(ShownOf(root))
    BY <2>1, CloseIsSound, Zenon
  <2>3. \E success, records, roots :
          /\ o = Outcome(success, records, roots) /\ RootsSound(records, roots)
          /\ Cardinality(ShownOf(roots)) = Cardinality(ShownOf(root))
    BY <2>1, <2>2, Zenon
  <2> QED
    BY <2>3, OutcomeParts
<1> QED
  BY <1>1, <1>2

LEMMA DestroyIsSound ==
  ASSUME RootsSound(record, root), NEW s \in Surfaces, NEW o \in DestroyOutcomes(s)
  PROVE  RootsSound(o.record, o.root)
PROOF
<1>1. CASE o = Failed
  BY <1>1, FailureLeavesAll
<1>2. CASE o # Failed
  <2>1. /\ record[s] # NoRecord
        /\ \E success \in BOOLEAN :
             o = Outcome(success, [record EXCEPT ![s] = NoRecord], DestroyRoot(root, RootOf(s)))
    BY <1>2, Zenon DEF DestroyOutcomes
  <2>2. RootsSound([record EXCEPT ![s] = NoRecord], DestroyRoot(root, RootOf(s)))
    BY <2>1, RemovalKeepsSound DEF RootOf
  <2> QED
    BY <2>1, <2>2, OutcomeParts
<1> QED
  BY <1>1, <1>2

(* Every outcome of every command keeps the tables in step, and a push or  *)
(* a close keeps the number of roots on the screen.                        *)
LEMMA OutcomesAreSound ==
  ASSUME RootsSound(record, root), NEW c \in Commands, NEW o \in Outcomes(c)
  PROVE  /\ RootsSound(o.record, o.root)
         /\ Exchanges(c) => Cardinality(ShownOf(o.root)) = Cardinality(ShownOf(root))
PROOF
<1>1. /\ c.surface \in Surfaces
      /\ c.kind \in {"create", "presentRoot", "show", "hide", "destroy", "push", "close"}
      /\ Exchanges(c) => c.other \in Surfaces
  BY DEF Commands, Exchanges
<1>2. CASE c.kind = "create"
  BY <1>1, <1>2, CreateIsSound DEF Outcomes, Exchanges
<1>3. CASE c.kind = "presentRoot"
  BY <1>1, <1>3, PresentRootIsSound DEF Outcomes, Exchanges
<1>4. CASE c.kind = "push"
  BY <1>1, <1>4, PresentPushIsSound DEF Outcomes, Exchanges
<1>5. CASE c.kind \in {"show", "hide"}
  BY <1>1, <1>5, VisibilityIsSound DEF Outcomes, Exchanges
<1>6. CASE c.kind = "close"
  BY <1>1, <1>6, CloseOutcomesAreSound DEF Outcomes, Exchanges
<1>7. CASE c.kind = "destroy"
  BY <1>1, <1>7, DestroyIsSound DEF Outcomes, Exchanges
<1> QED
  BY <1>1, <1>2, <1>3, <1>4, <1>5, <1>6, <1>7

(***************************************************************************)
(* The ring of completed requests                                          *)
(***************************************************************************)
LEMMA NextPlace ==
  ASSUME NEW at \in 0..(MaxCompleted - 1)
  PROVE  /\ at + 1 = MaxCompleted => (at + 1) % MaxCompleted = 0
         /\ at + 1 # MaxCompleted => (at + 1) % MaxCompleted = at + 1
PROOF
<1>1. MaxCompleted \in Nat \ {0}
  BY Constants
<1>2. CASE at + 1 = MaxCompleted
  BY <1>1, <1>2
<1>3. CASE at + 1 # MaxCompleted
  BY <1>1, <1>3
<1> QED
  BY <1>2, <1>3

LEMMA PlaceFacts ==
  ASSUME NEW at \in 0..(MaxCompleted - 1), NEW next,
         at + 1 = MaxCompleted => next = 0, at + 1 # MaxCompleted => next = at + 1
  PROVE  /\ next \in 0..(MaxCompleted - 1)
         /\ PlaceAt(next, 0) = at
         /\ \A age \in 0..(MaxCompleted - 1) : PlaceAt(at, age) \in 0..(MaxCompleted - 1)
         /\ \A age \in 0..(MaxCompleted - 2) :
              PlaceAt(next, age + 1) = PlaceAt(at, age) /\ PlaceAt(at, age) # at
  BY Constants DEF PlaceAt

(* What clearing a slot does to the ring.                                  *)
LEMMA RingKeepsHolding ==
  ASSUME NEW ring, NEW at, NEW last, RingHolds(ring, at, last), NEW r \in Requests
  PROVE  RingHolds([ring EXCEPT ![at] = r], (at + 1) % MaxCompleted,
                   IF Len(Append(last, r)) <= MaxCompleted THEN Append(last, r)
                   ELSE Tail(Append(last, r)))
PROOF
<1> DEFINE next  == (at + 1) % MaxCompleted
           ring2 == [ring EXCEPT ![at] = r]
           all   == Append(last, r)
<1>1. /\ at \in 0..(MaxCompleted - 1) /\ MaxCompleted \in Nat \ {0} /\ Len(last) \in Nat
      /\ last \in Seq(Requests) /\ Len(last) <= MaxCompleted
      /\ \A n \in 1..Len(last) : ring[PlaceAt(at, Len(last) - n)] = last[n]
  BY Constants DEF RingHolds
<1>2. /\ at + 1 = MaxCompleted => next = 0
      /\ at + 1 # MaxCompleted => next = at + 1
  BY <1>1, NextPlace
<1>3. /\ ring2 \in [0..(MaxCompleted - 1) -> Requests \cup {NoRequest}]
      /\ ring2[at] = r
      /\ \A n \in 0..(MaxCompleted - 1) : n # at => ring2[n] = ring[n]
  BY <1>1 DEF RingHolds
<1>4. /\ all \in Seq(Requests) /\ Len(all) = Len(last) + 1 /\ all[Len(last) + 1] = r
      /\ \A k \in 1..Len(last) : all[k] = last[k]
  BY <1>1
<1> HIDE DEF next, ring2, all
<1>5. /\ next \in 0..(MaxCompleted - 1) /\ PlaceAt(next, 0) = at
      /\ \A age \in 0..(MaxCompleted - 1) : PlaceAt(at, age) \in 0..(MaxCompleted - 1)
      /\ \A age \in 0..(MaxCompleted - 2) :
           PlaceAt(next, age + 1) = PlaceAt(at, age) /\ PlaceAt(at, age) # at
  BY <1>1, <1>2, PlaceFacts
<1>6. \A age \in 0..(MaxCompleted - 2) : ring2[PlaceAt(next, age + 1)] = ring[PlaceAt(at, age)]
  <2> TAKE age \in 0..(MaxCompleted - 2)
  <2>1. age \in 0..(MaxCompleted - 1)
    BY <1>1
  <2> QED
    BY <1>3, <1>5, <2>1
<1>7. CASE Len(all) <= MaxCompleted
  <2>1. \A n \in 1..Len(all) : ring2[PlaceAt(next, Len(all) - n)] = all[n]
    <3> TAKE n \in 1..Len(all)
    <3>1. CASE n = Len(last) + 1
      <4>1. Len(all) - n = 0
        BY <1>1, <1>4, <3>1
      <4> QED
        BY <1>3, <1>4, <1>5, <3>1, <4>1
    <3>2. CASE n \in 1..Len(last)
      <4>1. Len(last) - n \in 0..(MaxCompleted - 2) /\ Len(all) - n = (Len(last) - n) + 1
        BY <1>1, <1>4, <1>7, <3>2
      <4> QED
        BY <1>1, <1>4, <1>6, <3>2, <4>1
    <3> QED
      BY <1>1, <1>4, <3>1, <3>2
  <2> QED
    BY <1>3, <1>4, <1>5, <1>7, <2>1 DEF RingHolds, next, ring2, all
<1>8. CASE ~(Len(all) <= MaxCompleted)
  <2>1. Len(last) = MaxCompleted
    BY <1>1, <1>4, <1>8
  <2>2. /\ Tail(all) \in Seq(Requests) /\ Len(Tail(all)) = MaxCompleted
        /\ \A n \in 1..MaxCompleted : Tail(all)[n] = all[n + 1]
    BY <1>1, <1>4, <2>1
  <2>3. \A n \in 1..MaxCompleted : ring2[PlaceAt(next, MaxCompleted - n)] = all[n + 1]
    <3> TAKE n \in 1..MaxCompleted
    <3>1. CASE n = MaxCompleted
      <4>1. MaxCompleted - n = 0
        BY <1>1, <3>1
      <4> QED
        BY <1>3, <1>4, <1>5, <2>1, <3>1, <4>1
    <3>2. CASE n # MaxCompleted
      <4>1. /\ n + 1 \in 1..Len(last) /\ Len(last) - (n + 1) \in 0..(MaxCompleted - 2)
            /\ MaxCompleted - n = (Len(last) - (n + 1)) + 1
        BY <1>1, <2>1, <3>2
      <4> QED
        BY <1>1, <1>4, <1>6, <4>1
    <3> QED
      BY <3>1, <3>2
  <2>4. RingHolds(ring2, next, Tail(all))
    <3>1. PICK rest : rest = Tail(all)
      OBVIOUS
    <3>2. /\ rest \in Seq(Requests) /\ Len(rest) = MaxCompleted
          /\ \A n \in 1..MaxCompleted : ring2[PlaceAt(next, MaxCompleted - n)] = rest[n]
      BY <2>2, <2>3, <3>1
    <3>3. /\ Len(rest) <= MaxCompleted
          /\ \A n \in 1..Len(rest) : ring2[PlaceAt(next, Len(rest) - n)] = rest[n]
      BY <1>1, <3>2
    <3>4. RingHolds(ring2, next, rest)
      BY <1>3, <1>5, <3>2, <3>3, Zenon DEF RingHolds
    <3> QED
      BY <3>1, <3>4
  <2> QED
    BY <1>8, <2>4 DEF next, ring2, all
<1> QED
  BY <1>7, <1>8

(***************************************************************************)
(* Changes of one slot                                                     *)
(***************************************************************************)
Replaced(sl, i, e) == [sl EXCEPT ![i] = e]

LEMMA SlotReplaced ==
  ASSUME NEW sl, SoundSlots(sl), NEW i \in Slots, NEW e, SoundEntry(e)
  PROVE  /\ SoundSlots(Replaced(sl, i, e)) /\ Replaced(sl, i, e)[i] = e
         /\ \A j \in Slots : j # i => Replaced(sl, i, e)[j] = sl[j]
  <1>1. e \in Entries
    BY DEF SoundEntry
  <1> QED
    BY <1>1 DEF SoundSlots, Replaced

LEMMA FreeIsFree ==
  /\ FreeSlot \in Entries /\ FreeSlot.state = "free" /\ FreeSlot.request = NoRequest
  /\ "free" \notin Busy
  BY DEF FreeSlot, Entries, Busy

InState(sl, i, state) == [sl EXCEPT ![i].state = state]

LEMMA StateChanged ==
  ASSUME NEW sl, SoundSlots(sl), NEW i \in Slots, sl[i].state \in Busy, NEW x \in Busy
  PROVE  /\ SoundSlots(InState(sl, i, x)) /\ InState(sl, i, x)[i].state = x
         /\ InState(sl, i, x)[i].request = sl[i].request
         /\ \A j \in Slots : j # i => InState(sl, i, x)[j] = sl[j]
PROOF
<1>1. sl[i] \in Entries /\ sl[i].command \in Commands /\ sl[i].request \in Requests
  BY FreeIsFree DEF SoundSlots, SoundEntry
<1>2. PICK e : e = [sl[i] EXCEPT !.state = x]
  OBVIOUS
<1>3. SoundEntry(e) /\ e.state = x /\ e.request = sl[i].request
  BY <1>1, <1>2 DEF Entries, SoundEntry
<1>4. InState(sl, i, x) = Replaced(sl, i, e)
  BY <1>2 DEF SoundSlots, Replaced, InState
<1> QED
  BY <1>3, <1>4, SlotReplaced

LEMMA BusyMeansInFlight ==
  ASSUME IInv, NEW i \in Slots
  PROVE  /\ i \in InFlight <=> slot[i].state \in Busy
         /\ i \in InFlight => slot[i].command \in Commands /\ slot[i].request \in Requests
         /\ i \notin InFlight => slot[i] = FreeSlot
         /\ i \in InFlight <=> slot[i].state # "free"
  BY FreeIsFree DEF IInv, Types, SoundSlots, SoundEntry, InFlight

(***************************************************************************)
(* What an action leaves alone                                             *)
(***************************************************************************)
LEMMA Frames ==
  ASSUME IInv
  PROVE  /\ UNCHANGED <<accepting, closed, overtaken>> => Flags'
         /\ UNCHANGED <<inside, slot, told>> => Types'
         /\ UNCHANGED <<record, root>> => RootsSound(record, root)'
         /\ UNCHANGED <<tasks, slot, inside>> => Queue'
         /\ UNCHANGED <<service, accepting, closed, overtaken, inside>> => Closing'
         /\ UNCHANGED <<completed, cursor, recent>> => RingHolds(completed, cursor, recent)'
         /\ UNCHANGED <<slot, told>> => AnsweredOnce'
         /\ UNCHANGED <<closed, overtaken, record, root, slot, tasks>> => ClosedIsEmpty'
         /\ ~closed' => ClosedIsEmpty'
PROOF
<1>1. UNCHANGED <<accepting, closed, overtaken>> => Flags'
  BY DEF IInv, Flags
<1>2. UNCHANGED <<inside, slot, told>> => Types'
  BY DEF IInv, Types
<1>3. UNCHANGED <<record, root>> => RootsSound(record, root)'
  BY DEF IInv
<1>4. UNCHANGED <<tasks, slot, inside>> => Queue'
  BY DEF IInv, Queue
<1>5. UNCHANGED <<service, accepting, closed, overtaken, inside>> => Closing'
  <2>1. SUFFICES ASSUME UNCHANGED <<service, accepting, closed, overtaken, inside>>
                 PROVE  Closing'
    OBVIOUS
  <2>2. /\ service' = service /\ accepting' = accepting /\ closed' = closed
        /\ overtaken' = overtaken /\ inside' = inside
    BY <2>1, Zenon
  <2> QED
    BY <2>2, Zenon DEF IInv, Closing
<1>6. UNCHANGED <<completed, cursor, recent>> => RingHolds(completed, cursor, recent)'
  BY DEF IInv
<1>7. UNCHANGED <<slot, told>> => AnsweredOnce'
  BY DEF IInv, AnsweredOnce, InFlight
<1>8. UNCHANGED <<closed, overtaken, record, root, slot, tasks>> => ClosedIsEmpty'
  <2>1. SUFFICES ASSUME UNCHANGED <<closed, overtaken, record, root, slot, tasks>>
                 PROVE  ClosedIsEmpty'
    OBVIOUS
  <2>2. /\ closed' = closed /\ overtaken' = overtaken /\ tasks' = tasks
        /\ record' = record /\ root' = root /\ slot' = slot
    BY <2>1, Zenon
  <2>3. Live' = Live /\ Shown' = Shown /\ InFlight' = InFlight
    BY <2>2, Zenon DEF Live, Shown, InFlight
  <2> QED
    BY <2>2, <2>3, Zenon DEF IInv, ClosedIsEmpty
<1>9. ~closed' => ClosedIsEmpty'
  BY Zenon DEF ClosedIsEmpty
<1> QED
  BY <1>1, <1>2, <1>3, <1>4, <1>5, <1>6, <1>7, <1>8, <1>9, Zenon

LEMMA TheAdmittedSlot ==
  ASSUME IInv, inside = "admitted"
  PROVE  /\ Admitted \in Slots /\ slot[Admitted].state = "admitted"
         /\ \A i \in Slots : slot[i].state = "admitted" => i = Admitted
  <1>1. \E i \in Slots : slot[i].state = "admitted"
    BY DEF IInv, Queue
  <1>2. \A i, j \in Slots : slot[i].state = "admitted" /\ slot[j].state = "admitted" => i = j
    BY DEF IInv, Queue
  <1>3. Admitted \in Slots /\ slot[Admitted].state = "admitted"
    BY <1>1, Zenon DEF Admitted
  <1> QED
    BY <1>2, <1>3

(***************************************************************************)
(* A post                                                                  *)
(***************************************************************************)
LEMMA PostEnterKeeps ==
  ASSUME IInv, PostEnter
  PROVE  IInv'
  <1>1. Types'
    BY DEF IInv, Types, PostEnter
  <1>2. Queue'
    BY DEF IInv, Queue, PostEnter
  <1>3. Closing'
    BY Zenon DEF IInv, Closing, PostEnter
  <1> QED
    BY <1>1, <1>2, <1>3, Frames, Zenon DEF PostEnter, IInv

LEMMA PostRefusedKeeps ==
  ASSUME IInv, NEW c, NEW r, PostRefused(c, r)
  PROVE  IInv'
  <1>0. inside = "checked" /\ inside' = "nobody" /\ inside # "admitted" /\ inside # "nobody"
    BY DEF PostRefused
  <1>1. Types'
    BY DEF IInv, Types, PostRefused
  <1>2. Queue'
    BY DEF IInv, Queue, PostRefused
  <1>3. Closing'
    BY <1>0, Zenon DEF IInv, Closing, PostRefused
  <1> QED
    BY <1>1, <1>2, <1>3, Frames, Zenon DEF PostRefused, IInv

LEMMA PostAdmitKeeps ==
  ASSUME IInv, NEW c \in Commands, NEW r \in Requests, PostAdmit(c, r)
  PROVE  IInv'
PROOF
<1> DEFINE i == SetMin(Free)
<1>1. /\ i \in Slots /\ i \notin InFlight /\ inside = "checked" /\ inside' = "admitted"
      /\ inside # "admitted" /\ inside # "nobody"
  <2>1. Free \in SUBSET Nat /\ Free # {}
    BY DEF PostAdmit, Free, Slots
  <2>2. i \in Free
    BY <2>1, SetMinIsMember
  <2> QED
    BY <2>2 DEF Free, PostAdmit
<1>2. PICK e : e = [state |-> "admitted", command |-> c, request |-> r]
  OBVIOUS
<1>3. SoundEntry(e) /\ e.state = "admitted"
  BY <1>2 DEF Entries, Busy, SoundEntry
<1>4. slot' = Replaced(slot, i, e) /\ told' = [told EXCEPT ![i] = 0]
  BY <1>2 DEF PostAdmit, Replaced
<1> HIDE DEF i
<1>5. SoundSlots(slot') /\ slot'[i] = e /\ \A j \in Slots : j # i => slot'[j] = slot[j]
  <2>1. SoundSlots(slot)
    BY DEF IInv, Types
  <2> QED
    BY <1>1, <1>3, <1>4, <2>1, SlotReplaced
<1>6. /\ told' \in [Slots -> Nat] /\ told'[i] = 0
      /\ \A j \in Slots : j # i => told'[j] = told[j]
  BY <1>1, <1>4 DEF IInv, Types
<1>7. Types'
  BY <1>1, <1>5, <1>6 DEF Types
<1>8. slot[i].state = "free"
  BY <1>1 DEF InFlight
<1>9. Queue'
  <2>1. tasks' = tasks /\ tasks \in Seq(Slots) /\ \A k \in 1..Len(tasks) : tasks[k] \in Slots
    BY DEF PostAdmit, IInv, Queue
  <2>2. \A k \in 1..Len(tasks) : slot'[tasks[k]].state = "queued"
    BY <1>5, <1>8, <2>1 DEF IInv, Queue
  <2>3. \A j \in Slots : slot'[j].state = "admitted" <=> j = i
    BY <1>1, <1>3, <1>5 DEF IInv, Queue
  <2> QED
    BY <1>1, <2>1, <2>2, <2>3 DEF IInv, Queue
<1>10. AnsweredOnce'
  BY <1>3, <1>5, <1>6 DEF IInv, AnsweredOnce, InFlight
<1>11. Closing' /\ ClosedIsEmpty'
  BY <1>1, Zenon DEF IInv, Closing, ClosedIsEmpty, PostAdmit
<1> QED
  BY <1>7, <1>9, <1>10, <1>11, Frames, Zenon DEF PostAdmit, IInv

LEMMA PostTaskKeeps ==
  ASSUME IInv, PostTask
  PROVE  IInv'
PROOF
<1>1. inside = "admitted" /\ inside' = "nobody" /\ inside # "nobody"
  BY DEF PostTask
<1>2. PICK i \in Slots : /\ i = Admitted /\ slot[i].state = "admitted"
                         /\ \A j \in Slots : slot[j].state = "admitted" => j = i
  BY <1>1, TheAdmittedSlot
<1>3. slot' = InState(slot, i, "queued") /\ tasks' = Append(tasks, i)
  BY <1>2, Zenon DEF PostTask, InState
<1>4. /\ SoundSlots(slot') /\ slot'[i].state = "queued"
      /\ \A j \in Slots : j # i => slot'[j] = slot[j]
  <2>1. SoundSlots(slot) /\ slot[i].state \in Busy /\ "queued" \in Busy
    BY <1>2 DEF IInv, Types, Busy
  <2> QED
    BY <1>3, <2>1, StateChanged
<1>5. Types'
  BY <1>1, <1>4 DEF IInv, Types, PostTask
<1>6. /\ tasks' \in Seq(Slots) /\ Len(tasks') = Len(tasks) + 1 /\ Len(tasks) \in Nat
      /\ tasks'[Len(tasks) + 1] = i
      /\ \A k \in 1..Len(tasks) : tasks'[k] = tasks[k] /\ tasks[k] \in Slots
  BY <1>3, Appending DEF IInv, Queue
<1>7. \A k \in 1..Len(tasks) : tasks[k] # i /\ slot[tasks[k]].state = "queued"
  BY <1>2 DEF IInv, Queue
<1>8. Queue'
  <2>1. \A k \in 1..Len(tasks') : slot'[tasks'[k]].state = "queued"
    BY <1>4, <1>6, <1>7
  <2>2. \A k, l \in 1..Len(tasks') : tasks'[k] = tasks'[l] => k = l
    BY <1>6, <1>7 DEF IInv, Queue
  <2>3. \A j \in Slots : slot'[j].state # "admitted"
    BY <1>2, <1>4
  <2> QED
    BY <1>1, <1>6, <2>1, <2>2, <2>3 DEF Queue
<1>9. AnsweredOnce'
  BY <1>2, <1>4 DEF IInv, AnsweredOnce, InFlight, PostTask
<1>10. Closing' /\ ClosedIsEmpty'
  BY <1>1, Zenon DEF IInv, Closing, ClosedIsEmpty, PostTask
<1> QED
  BY <1>5, <1>8, <1>9, <1>10, Frames, Zenon DEF PostTask, IInv

LEMMA PostTaskRefusedKeeps ==
  ASSUME IInv, PostTaskRefused
  PROVE  IInv'
PROOF
<1>1. inside = "admitted" /\ inside' = "nobody" /\ inside # "nobody"
  BY DEF PostTaskRefused
<1>2. PICK i \in Slots : /\ i = Admitted /\ slot[i].state = "admitted"
                         /\ \A j \in Slots : slot[j].state = "admitted" => j = i
  BY <1>1, TheAdmittedSlot
<1>3. slot' = Replaced(slot, i, FreeSlot)
  BY <1>2, Zenon DEF PostTaskRefused, Replaced
<1>4. /\ SoundSlots(slot') /\ slot'[i] = FreeSlot
      /\ \A j \in Slots : j # i => slot'[j] = slot[j]
  <2>1. SoundSlots(slot) /\ SoundEntry(FreeSlot)
    BY FreeIsFree DEF IInv, Types, SoundEntry
  <2> QED
    BY <1>3, <2>1, SlotReplaced
<1>5. Types'
  BY <1>1, <1>4 DEF IInv, Types, PostTaskRefused
<1>6. tasks' = tasks /\ \A k \in 1..Len(tasks) : tasks[k] \in Slots
  BY DEF IInv, Queue, PostTaskRefused
<1>7. Queue'
  <2>1. \A k \in 1..Len(tasks) : slot'[tasks[k]].state = "queued"
    BY <1>2, <1>4, <1>6 DEF IInv, Queue
  <2>2. \A j \in Slots : slot'[j].state # "admitted"
    BY <1>2, <1>4, FreeIsFree
  <2> QED
    BY <1>1, <1>6, <2>1, <2>2 DEF IInv, Queue
<1>8. AnsweredOnce'
  BY <1>4, FreeIsFree DEF IInv, AnsweredOnce, InFlight, PostTaskRefused
<1>9. Closing' /\ ClosedIsEmpty'
  BY <1>1, Zenon DEF IInv, Closing, ClosedIsEmpty, PostTaskRefused
<1> QED
  BY <1>5, <1>7, <1>8, <1>9, Frames, Zenon DEF PostTaskRefused, IInv

(***************************************************************************)
(* The owner: commands and full mounts                                     *)
(***************************************************************************)
LEMMA HeadIsQueued ==
  ASSUME IInv, tasks # <<>>
  PROVE  /\ Head(tasks) \in Slots /\ slot[Head(tasks)].state = "queued"
         /\ slot[Head(tasks)].command \in Commands /\ Head(tasks) \in InFlight
         /\ Tail(tasks) \in Seq(Slots) /\ Len(Tail(tasks)) = Len(tasks) - 1 /\ Len(tasks) \in Nat
         /\ \A k \in 1..Len(Tail(tasks)) :
              /\ Tail(tasks)[k] = tasks[k + 1] /\ k + 1 \in 1..Len(tasks)
              /\ tasks[k + 1] \in Slots /\ tasks[k + 1] # Head(tasks)
PROOF
<1>1. /\ tasks \in Seq(Slots) /\ Len(tasks) \in Nat
      /\ \A k \in 1..Len(tasks) : slot[tasks[k]].state = "queued" /\ tasks[k] \in Slots
      /\ \A k, l \in 1..Len(tasks) : tasks[k] = tasks[l] => k = l
  BY DEF IInv, Queue
<1>2. /\ Head(tasks) \in Slots /\ Head(tasks) = tasks[1] /\ 1 \in 1..Len(tasks)
      /\ Tail(tasks) \in Seq(Slots) /\ Len(Tail(tasks)) = Len(tasks) - 1
      /\ \A k \in 1..Len(Tail(tasks)) : Tail(tasks)[k] = tasks[k + 1] /\ k + 1 \in 1..Len(tasks)
  BY <1>1, TakingTheHead
<1>3. slot[Head(tasks)].state = "queued" /\ Head(tasks) \in InFlight
  BY <1>1, <1>2 DEF InFlight
<1>4. slot[Head(tasks)].command \in Commands
  BY <1>2, <1>3, BusyMeansInFlight
<1>5. \A k \in 1..Len(Tail(tasks)) : tasks[k + 1] # Head(tasks)
  <2> TAKE k \in 1..Len(Tail(tasks))
  <2>1. k \in Nat /\ k + 1 # 1
    BY <1>1, <1>2
  <2> QED
    BY <1>1, <1>2, <2>1
<1> QED
  BY <1>1, <1>2, <1>3, <1>4, <1>5

LEMMA ExecuteKeeps ==
  ASSUME IInv, Execute
  PROVE  /\ IInv'
         /\ slot[Head(tasks)].command.kind \in {"push", "close"}
              => Cardinality(Shown') = Cardinality(Shown)
PROOF
<1>1. tasks # <<>> /\ tasks' = Tail(tasks)
  BY DEF Execute
<1>2. PICK i : i = Head(tasks)
  OBVIOUS
<1>3. /\ i \in Slots /\ slot[i].state = "queued" /\ slot[i].command \in Commands /\ i \in InFlight
      /\ Tail(tasks) \in Seq(Slots) /\ Len(Tail(tasks)) = Len(tasks) - 1 /\ Len(tasks) \in Nat
      /\ \A k \in 1..Len(Tail(tasks)) :
           /\ Tail(tasks)[k] = tasks[k + 1] /\ k + 1 \in 1..Len(tasks)
           /\ tasks[k + 1] \in Slots /\ tasks[k + 1] # i
  BY <1>1, <1>2, HeadIsQueued
<1>4. PICK o \in Outcomes(slot[i].command), answer \in Ingress :
        /\ record' = o.record /\ root' = o.root
        /\ slot' = InState(slot, i, AfterDelivery(answer))
        /\ Tell(i, answer)
  BY <1>2, Zenon DEF Execute, InState
<1>5. /\ RootsSound(record, root)'
      /\ slot[i].command.kind \in {"push", "close"} => Cardinality(Shown') = Cardinality(Shown)
  <2>1. /\ RootsSound(o.record, o.root)
        /\ Exchanges(slot[i].command) => Cardinality(ShownOf(o.root)) = Cardinality(ShownOf(root))
    BY <1>3, OutcomesAreSound DEF IInv
  <2>2. Shown = ShownOf(root) /\ Shown' = ShownOf(root')
    BY DEF Shown, ShownOf
  <2> QED
    BY <1>4, <2>1, <2>2 DEF Exchanges
<1>6. AfterDelivery(answer) \in {"resultPending", "delivered"} /\ AfterDelivery(answer) \in Busy
  BY DEF AfterDelivery, Busy
<1>7. /\ SoundSlots(slot') /\ slot'[i].state = AfterDelivery(answer)
      /\ \A j \in Slots : j # i => slot'[j] = slot[j]
  <2>1. SoundSlots(slot) /\ slot[i].state \in Busy
    BY <1>3 DEF IInv, Types, Busy
  <2> QED
    BY <1>3, <1>4, <1>6, <2>1, StateChanged
<1>8. /\ told' \in [Slots -> Nat]
      /\ \A j \in Slots : j # i => told'[j] = told[j]
      /\ told'[i] = IF AfterDelivery(answer) = "delivered" THEN 1 ELSE 0
  <2>1. told \in [Slots -> Nat] /\ told[i] = 0
    BY <1>3 DEF IInv, Types, AnsweredOnce
  <2> QED
    BY <1>3, <1>4, <2>1 DEF Tell, AfterDelivery
<1>9. inside' = inside
  BY DEF Execute
<1>10. Types'
  BY <1>7, <1>8, <1>9 DEF IInv, Types
<1>11. Queue'
  <2>1. \A k \in 1..Len(tasks') : slot'[tasks'[k]].state = "queued"
    BY <1>1, <1>3, <1>7 DEF IInv, Queue
  <2>2. \A k, l \in 1..Len(tasks') : tasks'[k] = tasks'[l] => k = l
    <3> SUFFICES ASSUME NEW k \in 1..Len(Tail(tasks)), NEW l \in 1..Len(Tail(tasks)),
                        tasks[k + 1] = tasks[l + 1]
                 PROVE  k = l
      BY <1>1, <1>3
    <3>1. k + 1 = l + 1
      BY <1>3 DEF IInv, Queue
    <3> QED
      BY <3>1, <1>3
  <2>3. \A j \in Slots : slot'[j].state = "admitted" <=> slot[j].state = "admitted"
    BY <1>3, <1>6, <1>7
  <2> QED
    BY <1>1, <1>3, <1>9, <2>1, <2>2, <2>3 DEF IInv, Queue
<1>12. AnsweredOnce'
  BY <1>7, <1>8 DEF IInv, AnsweredOnce, InFlight
<1>13. ClosedIsEmpty'
  BY <1>1, Zenon DEF IInv, ClosedIsEmpty, Execute
<1> QED
  BY <1>2, <1>5, <1>10, <1>11, <1>12, <1>13, Frames, Zenon DEF Execute, IInv

LEMMA MountCommittedKeeps ==
  ASSUME IInv, NEW s \in Surfaces, MountCommitted(s)
  PROVE  IInv'
PROOF
<1>1. record[s].phase = "hiddenEmpty" /\ record' = Phased(record, s, "hiddenMounted") /\ root' = root
  BY DEF MountCommitted, Phased
<1>2. RootsSound(record, root)
  BY DEF IInv
<1>3. /\ record[s].phase # "absent" /\ "hiddenMounted" \in Phases /\ "hidden" \in {"shown", "hidden"}
      /\ "hidden" = "shown" <=> "hiddenMounted" = "visible"
  BY <1>1 DEF Phases
<1>4. RootsSound(Phased(record, s, "hiddenMounted"), Turned(root, record[s].root, "hidden"))
  BY <1>2, <1>3, PhaseKeepsSound
<1>5. Turned(root, record[s].root, "hidden") = root
  <2>1. record[s].root \in Handles /\ root[record[s].root] = "hidden"
    BY <1>1, <1>2 DEF RootsSound, NoRecord
  <2> QED
    BY <1>2, <2>1 DEF RootsSound, Turned
<1>6. RootsSound(record, root)'
  BY <1>1, <1>4, <1>5
<1>7. Live # {}
  BY <1>1 DEF Live, NoRecord
<1>8. ClosedIsEmpty'
  BY <1>7, Zenon DEF IInv, ClosedIsEmpty, MountCommitted
<1> QED
  BY <1>6, <1>8, Frames, Zenon DEF MountCommitted, IInv

(***************************************************************************)
(* The owner: service and closing                                          *)
(***************************************************************************)
LEMMA ServiceTypes ==
  /\ Idle \in Services /\ ~Idle.closing
  /\ \A at \in Nat, left \in Int, closing \in BOOLEAN :
       [at |-> at, left |-> left, closing |-> closing] \in Services
  /\ \A s \in Services, at \in Nat, left \in Int :
       /\ [s EXCEPT !.at = at, !.left = left] \in Services
       /\ [s EXCEPT !.at = at, !.left = left].closing <=> s.closing
PROOF
<1>1. Idle \in Services /\ ~Idle.closing
  BY Constants DEF Idle, Services
<1>2. \A at \in Nat, left \in Int, closing \in BOOLEAN :
        [at |-> at, left |-> left, closing |-> closing] \in Services
  BY DEF Services
<1>3. ASSUME NEW s \in Services, NEW at \in Nat, NEW left \in Int
      PROVE  /\ [s EXCEPT !.at = at, !.left = left] \in Services
             /\ [s EXCEPT !.at = at, !.left = left].closing <=> s.closing
  BY DEF Services
<1> QED
  BY <1>1, <1>2, <1>3, Zenon

LEMMA TheServedSlot ==
  ASSUME IInv, Serving
  PROVE  /\ Served \in Slots /\ slot[Served].state \in {"resultPending", "delivered"}
         /\ ~closed /\ Served + 1 \in Nat /\ service \in Services /\ service.left \in Int
PROOF
<1>1. Waiting # {} /\ Waiting \in SUBSET Nat
  BY DEF Serving, Waiting, Slots
<1>2. Served \in Waiting
  BY <1>1, SetMinIsMember DEF Served
<1>3. Served \in Slots /\ slot[Served].state \in {"resultPending", "delivered"}
  BY <1>2 DEF Waiting
<1>4. ~closed /\ service \in Services
  BY Zenon DEF IInv, Closing, Serving
<1>5. service.left \in Int /\ Served + 1 \in Nat
  BY <1>3, <1>4 DEF Services, Slots
<1> QED
  BY <1>3, <1>4, <1>5

(* A slot the loop visits keeps the queue as it is.                        *)
LEMMA ServingKeepsQueue ==
  ASSUME IInv, NEW i \in Slots, slot[i].state \in {"resultPending", "delivered"},
         tasks' = tasks, inside' = inside,
         slot'[i].state \notin {"queued", "admitted"},
         \A j \in Slots : j # i => slot'[j] = slot[j]
  PROVE  Queue'
PROOF
<1>1. \A k \in 1..Len(tasks) : tasks[k] \in Slots /\ tasks[k] # i
  BY DEF IInv, Queue
<1>2. \A k \in 1..Len(tasks) : slot'[tasks[k]].state = "queued"
  BY <1>1 DEF IInv, Queue
<1>3. \A j \in Slots : slot'[j].state = "admitted" <=> slot[j].state = "admitted"
  OBVIOUS
<1> QED
  BY <1>2, <1>3 DEF IInv, Queue

LEMMA ClearSlotKeeps ==
  ASSUME IInv, Serving, NEW spent \in {0, 1}, ClearSlot(Served, spent),
         UNCHANGED <<accepting, closed, inside, record, root, tasks, overtaken>>,
         told' \in [Slots -> Nat], \A j \in Slots : j # Served => told'[j] = told[j]
  PROVE  IInv'
PROOF
<1>1. PICK i \in Slots : /\ i = Served /\ slot[i].state \in {"resultPending", "delivered"}
                         /\ i + 1 \in Nat
  BY TheServedSlot
<1>2. /\ slot' = Replaced(slot, i, FreeSlot)
      /\ Remember(slot[i].request)
      /\ service' = [service EXCEPT !.at = i + 1, !.left = service.left - 1 - spent]
  BY <1>1, Zenon DEF ClearSlot, Replaced
<1>3. /\ SoundSlots(slot') /\ slot'[i] = FreeSlot
      /\ \A j \in Slots : j # i => slot'[j] = slot[j]
  <2>1. SoundSlots(slot) /\ SoundEntry(FreeSlot)
    BY FreeIsFree DEF IInv, Types, SoundEntry
  <2> QED
    BY <1>2, <2>1, SlotReplaced
<1>4. /\ inside' = inside /\ tasks' = tasks /\ accepting' = accepting /\ closed' = closed
      /\ overtaken' = overtaken
  OBVIOUS
<1>5. Types'
  BY <1>3, <1>4 DEF IInv, Types
<1>6. Queue'
  BY <1>1, <1>3, <1>4, FreeIsFree, ServingKeepsQueue
<1>7. AnsweredOnce'
  BY <1>1, <1>3, FreeIsFree DEF IInv, AnsweredOnce, InFlight
<1>8. RingHolds(completed, cursor, recent)'
  <2>1. slot[i].request \in Requests
    BY <1>1, BusyMeansInFlight DEF InFlight
  <2>2. RingHolds(completed, cursor, recent)
    BY DEF IInv
  <2> QED
    BY <1>2, <2>1, <2>2, RingKeepsHolding, Zenon DEF Remember
<1>9. Closing'
  <2>1. service \in Services /\ service.left - 1 - spent \in Int
    BY TheServedSlot
  <2>2. service' \in Services /\ (service'.closing <=> service.closing)
    BY <1>1, <1>2, <2>1, ServiceTypes, Zenon
  <2>3. ~closed /\ (service.closing => ~accepting)
    BY TheServedSlot, Zenon DEF IInv, Closing
  <2>4. ~closed' /\ (accepting' <=> accepting)
    BY <1>4, <2>3
  <2> QED
    BY <2>2, <2>3, <2>4, Zenon DEF Closing
<1>10. ClosedIsEmpty'
  <2>1. ~closed
    BY TheServedSlot
  <2>2. ~closed'
    BY <1>4, <2>1
  <2> QED
    BY <2>2, Frames, Zenon
<1> QED
  BY <1>5, <1>6, <1>7, <1>8, <1>9, <1>10, Frames, Zenon DEF IInv

LEMMA KeepSlotKeeps ==
  ASSUME IInv, Serving, NEW state \in {"resultPending", "delivered"}, NEW spent \in {0, 1},
         KeepSlot(Served, state, spent),
         UNCHANGED <<accepting, closed, inside, record, root, tasks, overtaken>>,
         told' \in [Slots -> Nat], \A j \in Slots : j # Served => told'[j] = told[j],
         told'[Served] = IF state = "delivered" THEN 1 ELSE 0
  PROVE  IInv'
PROOF
<1>1. PICK i \in Slots : /\ i = Served /\ slot[i].state \in {"resultPending", "delivered"}
                         /\ i + 1 \in Nat
  BY TheServedSlot
<1>2. /\ slot' = InState(slot, i, state)
      /\ service' = [service EXCEPT !.at = i + 1, !.left = service.left - spent]
      /\ completed' = completed /\ cursor' = cursor /\ recent' = recent
  BY <1>1, Zenon DEF KeepSlot, InState
<1>3. /\ SoundSlots(slot') /\ slot'[i].state = state
      /\ \A j \in Slots : j # i => slot'[j] = slot[j]
  <2>1. SoundSlots(slot) /\ slot[i].state \in Busy /\ state \in Busy
    BY <1>1 DEF IInv, Types, Busy
  <2> QED
    BY <1>2, <2>1, StateChanged
<1>4. /\ inside' = inside /\ tasks' = tasks /\ accepting' = accepting /\ closed' = closed
      /\ overtaken' = overtaken
  OBVIOUS
<1>5. Types'
  BY <1>3, <1>4 DEF IInv, Types
<1>6. Queue'
  BY <1>1, <1>3, <1>4, ServingKeepsQueue
<1>7. AnsweredOnce'
  BY <1>1, <1>3 DEF IInv, AnsweredOnce, InFlight
<1>8. RingHolds(completed, cursor, recent)'
  BY <1>2, Zenon DEF IInv
<1>9. Closing'
  <2>1. service \in Services /\ service.left - spent \in Int
    BY TheServedSlot
  <2>2. service' \in Services /\ (service'.closing <=> service.closing)
    BY <1>1, <1>2, <2>1, ServiceTypes, Zenon
  <2>3. ~closed /\ (service.closing => ~accepting)
    BY TheServedSlot, Zenon DEF IInv, Closing
  <2>4. ~closed' /\ (accepting' <=> accepting)
    BY <1>4, <2>3
  <2> QED
    BY <2>2, <2>3, <2>4, Zenon DEF Closing
<1>10. ClosedIsEmpty'
  <2>1. ~closed
    BY TheServedSlot
  <2>2. ~closed'
    BY <1>4, <2>1
  <2> QED
    BY <2>2, Frames, Zenon
<1> QED
  BY <1>5, <1>6, <1>7, <1>8, <1>9, <1>10, Frames, Zenon DEF IInv

LEMMA ServeResultKeeps ==
  ASSUME IInv, NEW answer \in Ingress, ServeResult(answer)
  PROVE  IInv'
PROOF
<1>1. /\ Serving /\ slot[Served].state = "resultPending"
      /\ UNCHANGED <<accepting, closed, inside, record, root, tasks, overtaken>>
      /\ Tell(Served, answer)
  BY DEF ServeResult
<1>2. Served \in Slots /\ Served \in InFlight
  BY <1>1, TheServedSlot DEF InFlight
<1>3. /\ told' \in [Slots -> Nat] /\ \A j \in Slots : j # Served => told'[j] = told[j]
      /\ AfterDelivery(answer) = "delivered" => told'[Served] = 1
      /\ AfterDelivery(answer) = "resultPending" => told'[Served] = 0
  <2>1. told \in [Slots -> Nat] /\ told[Served] = 0
    BY <1>1, <1>2 DEF IInv, Types, AnsweredOnce
  <2> QED
    BY <1>1, <1>2, <2>1 DEF Tell, AfterDelivery
<1>4. CASE ClearSlot(Served, 1)
  BY <1>1, <1>3, <1>4, ClearSlotKeeps
<1>5. CASE AfterDelivery(answer) = "delivered" /\ KeepSlot(Served, "delivered", 1)
  BY <1>1, <1>3, <1>5, KeepSlotKeeps
<1>6. CASE AfterDelivery(answer) = "resultPending" /\ KeepSlot(Served, "resultPending", 0)
  BY <1>1, <1>3, <1>6, KeepSlotKeeps
<1> QED
  BY <1>4, <1>5, <1>6, Zenon DEF ServeResult

LEMMA ServeDeliveredKeeps ==
  ASSUME IInv, ServeDelivered
  PROVE  IInv'
PROOF
<1>1. /\ Serving /\ slot[Served].state = "delivered" /\ told' = told
      /\ UNCHANGED <<accepting, closed, inside, record, root, tasks, overtaken>>
  BY DEF ServeDelivered
<1>2. Served \in Slots /\ Served \in InFlight
  BY <1>1, TheServedSlot DEF InFlight
<1>3. told' \in [Slots -> Nat] /\ told'[Served] = 1 /\ \A j \in Slots : told'[j] = told[j]
  BY <1>1, <1>2 DEF IInv, Types, AnsweredOnce
<1>4. CASE ClearSlot(Served, 0)
  BY <1>1, <1>3, <1>4, ClearSlotKeeps
<1>5. CASE KeepSlot(Served, "delivered", 0)
  BY <1>1, <1>3, <1>5, KeepSlotKeeps
<1> QED
  BY <1>4, <1>5, Zenon DEF ServeDelivered

(* Nothing but where the service is changes.                               *)
LEMMA ServiceMoves ==
  ASSUME IInv, NEW s \in Services, service' = s, s.closing => ~accepting,
         closed => s = Idle,
         UNCHANGED <<accepting, closed, inside, slot, completed, cursor, record, root, tasks,
                     told, recent, overtaken>>
  PROVE  IInv'
  <1>1. accepting' = accepting /\ closed' = closed /\ inside' = inside /\ overtaken' = overtaken
    OBVIOUS
  <1>2. Closing'
    <2>1. (closed => ~accepting) /\ (closed /\ ~overtaken => inside = "nobody")
      BY Zenon DEF IInv, Closing
    <2>2. (closed' <=> closed) /\ (accepting' <=> accepting) /\ (overtaken' <=> overtaken)
      BY <1>1
    <2>3. service' \in Services /\ (service'.closing => ~accepting) /\ (closed => service' = Idle)
      BY Zenon
    <2> QED
      BY <1>1, <2>1, <2>2, <2>3, Zenon DEF Closing
  <1> QED
    BY <1>2, Frames, Zenon DEF IInv

LEMMA BeginServiceKeeps ==
  ASSUME IInv, NEW budget \in Budgets, BeginService(budget)
  PROVE  IInv'
  <1>1. PICK s : s = [at |-> 0, left |-> budget, closing |-> FALSE]
    OBVIOUS
  <1>2. s \in Services /\ ~s.closing
    BY <1>1, Constants DEF Services
  <1> QED
    BY <1>1, <1>2, ServiceMoves, Zenon DEF BeginService

LEMMA EndServiceKeeps ==
  ASSUME IInv, EndService \/ FinishCloseBusy
  PROVE  IInv'
  BY ServiceTypes, ServiceMoves, Zenon DEF EndService, FinishCloseBusy

LEMMA FinishCloseKeeps ==
  ASSUME IInv, FinishClose
  PROVE  IInv'
  <1>1. PICK s : s = [at |-> 0, left |-> StorageCapacity, closing |-> TRUE]
    OBVIOUS
  <1>2. s \in Services
    BY <1>1, Constants DEF Services
  <1> QED
    BY <1>1, <1>2, ServiceMoves, Zenon DEF FinishClose

LEMMA CloseKeeps ==
  ASSUME IInv, Close
  PROVE  IInv'
  <1>1. Closing' /\ Flags'
    BY Zenon DEF IInv, Closing, Flags, Close
  <1> QED
    BY <1>1, Frames, Zenon DEF IInv, Close

LEMMA FinishCloseDoneKeeps ==
  ASSUME IInv, FinishCloseDone
  PROVE  IInv'
PROOF
<1>1. InFlight = {} /\ service.closing /\ service # Idle
  BY DEF FinishCloseDone, MayFinish
<1>2. tasks = <<>>
  <2>1. tasks # <<>> => Head(tasks) \in InFlight
    BY HeadIsQueued
  <2> QED
    BY <1>1, <2>1
<1>3. \A s \in Surfaces : record'[s] = NoRecord
  BY DEF FinishCloseDone
<1>4. \A h \in Handles : root'[h] = "none"
  BY DEF FinishCloseDone, IInv, RootsSound
<1>5. RootsSound(record, root)'
  <2>1. NoRecord \in Records /\ NoRecord.root \notin Handles /\ NoRecord.root = 0
    BY Constants DEF NoRecord, Records, Handles
  <2>2. record' \in [Surfaces -> Records] /\ root' \in [Handles -> {"none", "hidden", "shown"}]
    BY <1>4, <2>1 DEF FinishCloseDone
  <2> QED
    BY <1>3, <1>4, <2>1, <2>2 DEF RootsSound
<1>6. Live' = {} /\ Shown' = {} /\ InFlight' = {} /\ tasks' = <<>>
  BY <1>1, <1>2, <1>3, <1>4 DEF Live, Shown, InFlight, FinishCloseDone
<1>7. ClosedIsEmpty'
  BY <1>4, <1>6, Zenon DEF ClosedIsEmpty
<1>8. Flags' /\ Closing'
  BY <1>1, ServiceTypes, Zenon DEF IInv, Flags, Closing, FinishCloseDone
<1> QED
  BY <1>5, <1>7, <1>8, Frames, Zenon DEF FinishCloseDone, IInv

(***************************************************************************)
(* The invariant                                                           *)
(***************************************************************************)
LEMMA InitIInv == Init => IInv
PROOF
<1> SUFFICES ASSUME Init PROVE IInv
  OBVIOUS
<1>1. Flags
  BY Zenon DEF Init, Flags
<1>2. SoundSlots(slot)
  <2>1. SoundEntry(FreeSlot)
    BY FreeIsFree DEF SoundEntry
  <2> QED
    BY <2>1 DEF Init, SoundSlots, SoundEntry
<1>3. Types
  BY <1>2 DEF Init, Types
<1>4. RootsSound(record, root)
  <2>1. NoRecord \in Records /\ NoRecord.root \notin Handles
    BY Constants DEF NoRecord, Records, Handles
  <2> QED
    BY <2>1 DEF Init, RootsSound
<1>5. \A i \in Slots : slot[i].state = "free"
  BY FreeIsFree DEF Init
<1>6. Queue
  BY <1>5 DEF Init, Queue
<1>7. Closing
  BY ServiceTypes, Zenon DEF Init, Closing
<1>8. RingHolds(completed, cursor, recent)
  BY Constants DEF Init, RingHolds
<1>9. AnsweredOnce
  BY <1>5 DEF AnsweredOnce, InFlight
<1>10. ClosedIsEmpty
  BY Zenon DEF Init, ClosedIsEmpty
<1> QED
  BY <1>1, <1>3, <1>4, <1>6, <1>7, <1>8, <1>9, <1>10 DEF IInv

LEMMA StutterKeeps ==
  ASSUME IInv, UNCHANGED vars
  PROVE  IInv'
  <1>1. /\ UNCHANGED <<accepting, closed, overtaken>>
        /\ UNCHANGED <<inside, slot, told>>
        /\ UNCHANGED <<record, root>>
        /\ UNCHANGED <<tasks, slot, inside>>
        /\ UNCHANGED <<service, accepting, closed, overtaken, inside>>
        /\ UNCHANGED <<completed, cursor, recent>>
        /\ UNCHANGED <<slot, told>>
        /\ UNCHANGED <<closed, overtaken, record, root, slot, tasks>>
    BY DEF vars
  <1> QED
    BY <1>1, Frames DEF IInv

LEMMA StepIInv == IInv /\ [Next]_vars => IInv'
PROOF
<1> SUFFICES ASSUME IInv, [Next]_vars PROVE IInv'
  OBVIOUS
<1>1. CASE UNCHANGED vars
  BY <1>1, StutterKeeps
<1>2. CASE Post
  BY <1>2, PostEnterKeeps, PostTaskKeeps, PostTaskRefusedKeeps, PostRefusedKeeps, PostAdmitKeeps
     DEF Post
<1>3. CASE Execute
  BY <1>3, ExecuteKeeps
<1>4. CASE \E s \in Surfaces : MountCommitted(s)
  BY <1>4, MountCommittedKeeps
<1>5. CASE \E budget \in Budgets : BeginService(budget)
  BY <1>5, BeginServiceKeeps
<1>6. CASE ServeStep
  BY <1>6, ServeResultKeeps, ServeDeliveredKeeps, EndServiceKeeps, FinishCloseDoneKeeps
     DEF ServeStep
<1>7. CASE Close \/ FinishClose
  BY <1>7, CloseKeeps, FinishCloseKeeps
<1> QED
  BY <1>1, <1>2, <1>3, <1>4, <1>5, <1>6, <1>7 DEF Next

(* Every reachable state satisfies the inductive invariant.                *)
THEOREM IInvHolds == Spec => []IInv
  BY InitIInv, StepIInv, PTL DEF Spec

(***************************************************************************)
(* What follows from it                                                    *)
(***************************************************************************)
(* After any commands, mounts and closings, every live surface has a page  *)
(* root of its own, no root is left without a surface, and a root is on    *)
(* the screen just when its surface is visible (executeOperation, and      *)
(* finishClose).                                                           *)
THEOREM TablesInStep == Spec => []RecordsOwnRoots
PROOF
<1>1. ASSUME IInv PROVE TypeOK
  <2>1. {accepting, closed, overtaken} \subseteq BOOLEAN
    BY <1>1, Zenon DEF IInv, Flags
  <2>2. /\ inside \in {"nobody", "checked", "admitted"}
        /\ \A i \in Slots :
             \/ slot[i] = FreeSlot
             \/ /\ slot[i].state \in {"admitted", "queued", "resultPending", "delivered"}
                /\ slot[i].command \in Commands /\ slot[i].request \in Requests
    BY <1>1 DEF IInv, Types, SoundSlots, SoundEntry, Busy
  <2>3. /\ \A s \in Surfaces :
             \/ record[s] = NoRecord
             \/ /\ record[s].root \in Handles
                /\ record[s].phase \in {"hiddenEmpty", "hiddenMounted", "visible", "hidden"}
        /\ root \in [Handles -> {"none", "hidden", "shown"}]
    BY <1>1 DEF IInv, RootsSound, Phases
  <2> QED
    BY <2>1, <2>2, <2>3 DEF TypeOK
<1>2. ASSUME IInv PROVE RecordsOwnRoots
  <2>1. RootsSound(record, root) /\ TypeOK
    BY <1>1, <1>2 DEF IInv
  <2>2. \A s \in Surfaces : s \in Live <=> record[s].root \in Handles
    BY <2>1, Constants DEF RootsSound, Live, NoRecord, Handles
  <2>3. Live \subseteq Surfaces
    BY DEF Live
  <2> QED
    BY <2>1, <2>2, <2>3 DEF RecordsOwnRoots, RootsSound
<1> QED
  BY <1>2, IInvHolds, PTL

(* The result of an accepted command leaves the host once: a slot is kept  *)
(* until its result is handed over, through full ingresses and locked      *)
(* admissions, and is not offered again after that (deliverResult and      *)
(* service).                                                               *)
THEOREM ResultsLeaveOnce == Spec => []AnsweredOnce
  <1>1. IInv => AnsweredOnce
    BY DEF IInv
  <1> QED
    BY <1>1, IInvHolds, PTL

(* finishClose says that the host is closed only when there is no surface, *)
(* no page root, no operation and no task, unless a post that had passed   *)
(* its check before the host stopped accepting was still inside.           *)
THEOREM NothingIsLeft == Spec => []ClosedIsEmpty
  <1>1. IInv => ClosedIsEmpty
    BY DEF IInv
  <1> QED
    BY <1>1, IInvHolds, PTL

(* A push or a close, successful or not, leaves as many roots on the       *)
(* screen as there were: presentPush and close put one surface in the      *)
(* place of another.                                                       *)
THEOREM ExchangesKeepTheScreen == Spec => TakesThePlace
PROOF
<1> DEFINE Kept == (/\ tasks # <<>> /\ tasks' = Tail(tasks)
                    /\ slot[Head(tasks)].command.kind \in {"push", "close"})
                   => Cardinality(Shown') = Cardinality(Shown)
<1>1. ASSUME IInv, [Next]_vars, tasks # <<>>, tasks' = Tail(tasks)
      PROVE  Execute
  <2>1. Len(tasks) \in Nat /\ Len(tasks') = Len(tasks) - 1
    BY <1>1, HeadIsQueued
  <2>2. tasks' # tasks
    BY <2>1
  <2>3. ~PostTask
    <3>1. PostTask => Len(tasks') = Len(tasks) + 1
      BY <1>1, TheAdmittedSlot, Appending DEF PostTask, IInv, Queue
    <3> QED
      BY <2>1, <3>1
  <2> QED
    BY <1>1, <2>2, <2>3 DEF Next, vars, Post, PostEnter, PostTaskRefused, PostRefused, PostAdmit,
       MountCommitted, BeginService, ServeStep, ServeResult, ServeDelivered, EndService,
       FinishCloseBusy, FinishCloseDone, Close, FinishClose
<1>2. IInv /\ [Next]_vars => Kept
  BY <1>1, ExecuteKeeps
<1>3. IInv /\ [Next]_vars => [Kept]_vars
  BY <1>2
<1> QED
  BY <1>3, IInvHolds, PTL DEF Spec, TakesThePlace

(* Only a post takes a free slot.                                          *)
LEMMA FreeUntilPosted ==
  ASSUME IInv, [Next]_vars, NEW i \in Slots, slot[i].state = "free", slot'[i].state = "admitted"
  PROVE  \E c \in Commands, r \in Requests : PostAdmit(c, r)
PROOF
<1> SUFFICES ASSUME slot'[i] # slot[i], ~\E c \in Commands, r \in Requests : PostAdmit(c, r)
             PROVE  FALSE
  OBVIOUS
<1>0. slot \in [Slots -> Entries]
  BY DEF IInv, Types, SoundSlots
<1>1. ASSUME NEW k \in Slots, slot[k].state # "free", NEW x, slot' = [slot EXCEPT ![k] = x]
      PROVE  FALSE
  BY <1>0, <1>1
<1>2. ASSUME NEW k \in Slots, slot[k].state # "free", NEW x, slot' = [slot EXCEPT ![k].state = x]
      PROVE  FALSE
  BY <1>0, <1>2
<1>3. CASE PostTask \/ PostTaskRefused
  <2>1. Admitted \in Slots /\ slot[Admitted].state # "free"
    BY <1>3, TheAdmittedSlot DEF PostTask, PostTaskRefused
  <2>2. CASE PostTask
    <3>1. slot' = [slot EXCEPT ![Admitted].state = "queued"]
      BY <2>2 DEF PostTask
    <3> QED
      BY <1>2, <2>1, <3>1, Zenon
  <2>3. CASE PostTaskRefused
    <3>1. slot' = [slot EXCEPT ![Admitted] = FreeSlot]
      BY <2>3 DEF PostTaskRefused
    <3> QED
      BY <1>1, <2>1, <3>1, Zenon
  <2> QED
    BY <1>3, <2>2, <2>3
<1>4. CASE Execute
  <2>1. Head(tasks) \in Slots /\ slot[Head(tasks)].state # "free"
    BY <1>4, HeadIsQueued DEF Execute
  <2>2. \E answer : slot' = [slot EXCEPT ![Head(tasks)].state = AfterDelivery(answer)]
    BY <1>4, Zenon DEF Execute
  <2> QED
    BY <1>2, <2>1, <2>2, Zenon
<1>5. CASE ServeDelivered \/ \E answer \in Ingress : ServeResult(answer)
  <2>1. Served \in Slots /\ slot[Served].state # "free"
    BY <1>5, TheServedSlot DEF ServeDelivered, ServeResult
  <2>2. \/ slot' = [slot EXCEPT ![Served] = FreeSlot]
        \/ \E x : slot' = [slot EXCEPT ![Served].state = x]
    BY <1>5, Zenon DEF ServeDelivered, ServeResult, ClearSlot, KeepSlot
  <2> QED
    BY <1>1, <1>2, <2>1, <2>2, Zenon
<1> QED
  BY <1>3, <1>4, <1>5 DEF Next, vars, Post, PostEnter, PostRefused, MountCommitted, BeginService,
     ServeStep, EndService, FinishCloseBusy, FinishCloseDone, Close, FinishClose

(* A request that is in flight or among the last completed is not taken    *)
(* again, at whatever point between the post, its result and the release   *)
(* of the slot it is posted again (post and clearOperation).               *)
THEOREM RequestsTakenOnce == Spec => NoReplay
PROOF
<1> DEFINE Taken == \A i \in Slots :
              (slot[i].state = "free" /\ slot'[i].state = "admitted")
              => /\ \A n \in DOMAIN recent : recent[n] # slot'[i].request
                 /\ \A j \in Slots \ {i} : slot[j].request # slot'[i].request
<1>1. ASSUME IInv, [Next]_vars, NEW i \in Slots,
             slot[i].state = "free", slot'[i].state = "admitted"
      PROVE  /\ \A n \in DOMAIN recent : recent[n] # slot'[i].request
             /\ \A j \in Slots \ {i} : slot[j].request # slot'[i].request
  <2>1. PICK c \in Commands, r \in Requests : PostAdmit(c, r)
    BY <1>1, FreeUntilPosted
  <2>2. slot'[i].request = r
    <3>1. PICK k, e : /\ e = [state |-> "admitted", command |-> c, request |-> r]
                      /\ slot' = [slot EXCEPT ![k] = e]
      BY <2>1 DEF PostAdmit
    <3>2. slot \in [Slots -> Entries] /\ slot'[i] # slot[i]
      BY <1>1 DEF IInv, Types, SoundSlots
    <3>3. slot'[i] = e
      BY <3>1, <3>2
    <3> QED
      BY <3>1, <3>3
  <2>3. /\ \A j \in InFlight : slot[j].request # r
        /\ \A n \in DOMAIN completed : completed[n] # r
    BY <2>1 DEF PostAdmit, Known
  <2>4. \A j \in Slots : slot[j].request # r
    <3> TAKE j \in Slots
    <3>1. CASE j \in InFlight
      BY <2>3, <3>1
    <3>2. CASE j \notin InFlight
      BY <1>1, <3>2, BusyMeansInFlight, FreeIsFree, Constants
    <3> QED
      BY <3>1, <3>2
  <2>5. \A n \in DOMAIN recent : recent[n] # r
    <3>1. RingHolds(completed, cursor, recent)
      BY <1>1 DEF IInv
    <3>2. DOMAIN recent = 1..Len(recent) /\ Len(recent) \in Nat /\ Len(recent) <= MaxCompleted
      BY <3>1 DEF RingHolds
    <3>3. \A age \in 0..(MaxCompleted - 1) : PlaceAt(cursor, age) \in 0..(MaxCompleted - 1)
      <4>1. cursor \in 0..(MaxCompleted - 1)
        BY <3>1 DEF RingHolds
      <4>2. \E next : /\ cursor + 1 = MaxCompleted => next = 0
                      /\ cursor + 1 # MaxCompleted => next = cursor + 1
        BY NextPlace, <4>1
      <4> QED
        BY <4>1, <4>2, PlaceFacts
    <3> TAKE n \in DOMAIN recent
    <3>4. n \in 1..Len(recent) /\ Len(recent) - n \in 0..(MaxCompleted - 1)
      BY <3>2, Constants
    <3>5. recent[n] = completed[PlaceAt(cursor, Len(recent) - n)]
      BY <3>1, <3>4 DEF RingHolds
    <3>6. PlaceAt(cursor, Len(recent) - n) \in DOMAIN completed
      BY <3>1, <3>3, <3>4 DEF RingHolds
    <3> QED
      BY <2>3, <3>5, <3>6
  <2> QED
    BY <2>2, <2>4, <2>5
<1>2. IInv /\ [Next]_vars => Taken
  BY <1>1
<1>3. IInv /\ [Next]_vars => [Taken]_vars
  BY <1>2
<1> QED
  BY <1>3, IInvHolds, PTL DEF Spec, NoReplay

=============================================================================
