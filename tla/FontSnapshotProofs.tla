------------------------- MODULE FontSnapshotProofs -------------------------
(***************************************************************************)
(* A snapshot that a reader was given stays as it is while the publisher   *)
(* is open, for every number of readers and of generations, and the        *)
(* generations are announced in order.  The count of a slot is what a      *)
(* reader and the owner agree on: a reader counts itself before it looks   *)
(* at the active slot again, so when the owner has found a count of zero   *)
(* no later reader gets past that second look.                             *)
(***************************************************************************)
EXTENDS FontSnapshot, FiniteSetTheorems, TLAPS

Counted == {"recheck", "recheckClosed", "sub", "reading"}
Past    == {"recheckClosed", "reading"}   \* found the slot active again
Writing == {"write", "written", "activate"}

(* The readers that have counted themselves in slot s.                     *)
Holders(s) == {r \in Readers : reader[r] \in Counted /\ held[r] = s}

Types ==
  /\ snapshot \in [Slots -> 0..Torn]
  /\ active \in Slots /\ generation \in 1..MaxGeneration
  /\ readers \in [Slots -> Nat] /\ counted \in 0..Cardinality(Readers)
  /\ accepting \in BOOLEAN /\ closed \in BOOLEAN /\ pending \in BOOLEAN
  /\ reader \in [Readers -> {"idle", "load", "add"} \cup Counted]
  /\ owner \in Writing \cup {"idle", "generation", "service", "serviceClosing", "count",
                             "countSecond", "close", "wipe", "gone"}
  /\ held \in [Readers -> Slots] /\ seen \in [Readers -> 0..Torn]
  /\ failures \in 0..MaxFailures

Attempts ==
  /\ attempt \in [Readers -> 0..2]
  /\ \A r \in Readers : reader[r] # "idle" => attempt[r] \in 0..1

ReadersCounted == \A s \in Slots : readers[s] = Cardinality(Holders(s))

(* Nobody is past the second look at a slot the owner is writing.          *)
NobodyPast ==
  owner \in Writing => \A r \in Readers : reader[r] \in Past => held[r] = active

(* What a publication has checked is so until it ends.                     *)
Publishes ==
  /\ owner \in Writing \cup {"generation"} => ~pending /\ generation < MaxGeneration
  /\ closed <=> owner \in {"wipe", "gone"}

(* The active slot holds the generation last written, and so does the other*)
(* one when it is about to become active.                                  *)
ActiveIsWhole ==
  ~closed =>
    /\ snapshot[active] = IF owner = "generation" THEN generation + 1 ELSE generation
    /\ owner = "activate" => snapshot[1 - active] = generation + 1

HeldIsWhole ==
  ~closed =>
    \A r \in Readers :
      /\ reader[r] \in Past => snapshot[held[r]] \in 1..MaxGeneration
      /\ reader[r] = "reading" => seen[r] = snapshot[held[r]]

(* Readers and owner.                                                      *)
SlotInv ==
  Types /\ Attempts /\ ReadersCounted /\ NobodyPast /\ Publishes /\ ActiveIsWhole /\ HeldIsWhole

(* What has been announced, and what is owed.                              *)
AnnouncedInv ==
  /\ sent \in Seq(Nat)
  /\ Len(sent) <= generation - 1 - IF pending THEN 1 ELSE 0
  /\ GenerationsAnnouncedInOrder

IInv == SlotInv /\ AnnouncedInv

(***************************************************************************)
(* Counting                                                                *)
(***************************************************************************)
LEMMA HoldersAreFinite ==
  ASSUME NEW s
  PROVE  /\ IsFiniteSet(Holders(s))
         /\ Cardinality(Holders(s)) \in Nat
         /\ Cardinality(Holders(s)) <= Cardinality(Readers)
  <1>1. Holders(s) \subseteq Readers
    BY DEF Holders
  <1> QED
    BY <1>1, ReadersAssumption, FS_Subset, FS_CardinalityType

(* An empty count means that nobody has counted himself.                   *)
LEMMA UncountedIsUnread ==
  ASSUME NEW s, Cardinality(Holders(s)) = 0
  PROVE  Holders(s) = {}
  BY HoldersAreFinite, FS_EmptySet

(* A step that moves nobody into or out of a count keeps the counts.       *)
LEMMA CountsKept ==
  ASSUME ReadersCounted, UNCHANGED readers,
         \A q \in Readers : /\ reader'[q] \in Counted <=> reader[q] \in Counted
                            /\ reader[q] \in Counted => held'[q] = held[q]
  PROVE  ReadersCounted'
  <1>1. \A s \in Slots : Holders(s)' = Holders(s)
    BY DEF Holders
  <1> QED
    BY <1>1 DEF ReadersCounted

(* A reader that has counted itself in its slot.                           *)
LEMMA CountsOneMore ==
  ASSUME Types, ReadersCounted, NEW r \in Readers, AddReader(r)
  PROVE  ReadersCounted'
  <1> SUFFICES ASSUME NEW s \in Slots PROVE readers'[s] = Cardinality(Holders(s)')
    BY DEF ReadersCounted
  <1>1. CASE s = held[r]
    <2>1. Holders(s)' = Holders(s) \cup {r} /\ r \notin Holders(s)
      BY <1>1 DEF AddReader, ReaderGoes, Holders, Counted, Types
    <2>2. Cardinality(Holders(s)') = Cardinality(Holders(s)) + 1
      BY <2>1, HoldersAreFinite, FS_AddElement
    <2> QED
      BY <1>1, <2>2 DEF AddReader, Types, ReadersCounted
  <1>2. CASE s # held[r]
    <2>1. Holders(s)' = Holders(s)
      BY <1>2 DEF AddReader, ReaderGoes, Holders, Counted, Types
    <2> QED
      BY <1>2, <2>1 DEF AddReader, Types, ReadersCounted
  <1> QED
    BY <1>1, <1>2

(* A reader that has given its slot back.                                  *)
LEMMA CountsOneLess ==
  ASSUME Types, ReadersCounted, NEW r \in Readers, GiveBack(r) \/ Release(r)
  PROVE  ReadersCounted' /\ readers' \in [Slots -> Nat]
  <1>1. ASSUME NEW s \in Slots, s = held[r]
        PROVE  readers'[s] = Cardinality(Holders(s)') /\ readers'[s] \in Nat
    <2>1. Holders(s)' = Holders(s) \ {r} /\ r \in Holders(s)
      BY <1>1 DEF GiveBack, Release, ReaderGoes, Holders, Counted, Types
    <2>2. Cardinality(Holders(s)') = Cardinality(Holders(s)) - 1 /\ IsFiniteSet(Holders(s)')
      BY <2>1, HoldersAreFinite, FS_RemoveElement
    <2>3. Cardinality(Holders(s)') \in Nat
      BY <2>2, FS_CardinalityType
    <2>4. readers'[s] = readers[s] - 1
      BY <1>1 DEF GiveBack, Release, Types
    <2> QED
      BY <2>2, <2>3, <2>4 DEF ReadersCounted
  <1>2. ASSUME NEW s \in Slots, s # held[r]
        PROVE  readers'[s] = Cardinality(Holders(s)') /\ readers'[s] \in Nat
    <2>1. Holders(s)' = Holders(s)
      BY <1>2 DEF GiveBack, Release, ReaderGoes, Holders, Counted, Types
    <2>2. readers'[s] = readers[s]
      BY <1>2 DEF GiveBack, Release, Types
    <2> QED
      BY <2>1, <2>2 DEF ReadersCounted, Types
  <1>3. readers' = [s \in Slots |-> readers'[s]]
    BY DEF GiveBack, Release, Types
  <1> QED
    BY <1>1, <1>2, <1>3 DEF ReadersCounted

(***************************************************************************)
(* Steps                                                                   *)
(***************************************************************************)
LEMMA InitSlotInv ==
  ASSUME Init
  PROVE  SlotInv
  <1>1. \A s \in Slots : Holders(s) = {}
    BY DEF Init, Holders, Counted
  <1>2. ReadersCounted
    BY <1>1, FS_EmptySet DEF Init, ReadersCounted
  <1>3. Types
    <2>1. Cardinality(Readers) \in Nat
      BY ReadersAssumption, FS_CardinalityType DEF ReadersAssumption
    <2>2. /\ snapshot \in [Slots -> 0..Torn] /\ readers \in [Slots -> Nat]
          /\ seen \in [Readers -> 0..Torn] /\ failures \in 0..MaxFailures
          /\ generation \in 1..MaxGeneration
      BY GenerationAssumption DEF GenerationAssumption, Init, Slots, Blank, Torn
    <2>3. accepting \in BOOLEAN /\ closed \in BOOLEAN /\ pending \in BOOLEAN
      BY DEF Init
    <2>4. /\ active \in Slots /\ counted \in 0..Cardinality(Readers)
          /\ held \in [Readers -> Slots]
      BY <2>1 DEF Init, Slots
    <2>5. /\ reader \in [Readers -> {"idle", "load", "add"} \cup Counted]
          /\ owner = "idle"
      BY DEF Init, Counted
    <2> QED
      BY <2>2, <2>3, <2>4, <2>5 DEF Types
  <1> QED
    BY <1>2, <1>3, GenerationAssumption
       DEF Init, SlotInv, Attempts, NobodyPast, Publishes, ActiveIsWhole, HeldIsWhole,
           Writing, Past, Slots

(* A reader takes a slot only where the owner does not write.              *)
LEMMA ReaderKeepsSlotInv ==
  ASSUME SlotInv, NEW r \in Readers, Acquire(r) \/ ReaderStep(r)
  PROVE  SlotInv'
PROOF
<1> USE GenerationAssumption DEF ReaderGoes, slots, closing, news, Slots, Counted, Past, Writing,
                                  Blank, Torn
<1>0. Types /\ Attempts /\ ReadersCounted /\ NobodyPast /\ Publishes /\ ActiveIsWhole
      /\ HeldIsWhole
  BY DEF SlotInv
<1>1. CASE Acquire(r)
  <2>1. Types' /\ Attempts'
    BY <1>0, <1>1 DEF Acquire, Types, Attempts
  <2>2. ReadersCounted'
    BY <1>0, <1>1, CountsKept DEF Acquire, Types
  <2>3. NobodyPast' /\ Publishes' /\ ActiveIsWhole' /\ HeldIsWhole'
    BY <1>0, <1>1 DEF Acquire, Types, NobodyPast, Publishes, ActiveIsWhole, HeldIsWhole
  <2> QED
    BY <2>1, <2>2, <2>3 DEF SlotInv
<1>2. CASE LoadActive(r)
  <2>1. Types' /\ Attempts'
    BY <1>0, <1>2 DEF LoadActive, Types, Attempts
  <2>2. ReadersCounted'
    BY <1>0, <1>2, CountsKept DEF LoadActive, Types
  <2>3. NobodyPast' /\ Publishes' /\ ActiveIsWhole' /\ HeldIsWhole'
    BY <1>0, <1>2 DEF LoadActive, Types, NobodyPast, Publishes, ActiveIsWhole, HeldIsWhole
  <2> QED
    BY <2>1, <2>2, <2>3 DEF SlotInv
<1>3. CASE AddReader(r)
  <2>1. Types' /\ Attempts'
    BY <1>0, <1>3 DEF AddReader, Types, Attempts
  <2>2. ReadersCounted'
    BY <1>0, <1>3, CountsOneMore
  <2>3. NobodyPast' /\ Publishes' /\ ActiveIsWhole' /\ HeldIsWhole'
    BY <1>0, <1>3 DEF AddReader, Types, NobodyPast, Publishes, ActiveIsWhole, HeldIsWhole
  <2> QED
    BY <2>1, <2>2, <2>3 DEF SlotInv
<1>4. CASE RecheckActive(r)
  <2>1. Types' /\ Attempts'
    BY <1>0, <1>4 DEF RecheckActive, Types, Attempts
  <2>2. ReadersCounted'
    BY <1>0, <1>4, CountsKept DEF RecheckActive, Types
  <2>3. NobodyPast' /\ Publishes' /\ ActiveIsWhole' /\ HeldIsWhole'
    BY <1>0, <1>4 DEF RecheckActive, Types, NobodyPast, Publishes, ActiveIsWhole, HeldIsWhole
  <2> QED
    BY <2>1, <2>2, <2>3 DEF SlotInv
<1>5. CASE RecheckClosed(r)
  <2>1. Types' /\ Attempts'
    BY <1>0, <1>5 DEF RecheckClosed, Types, Attempts
  <2>2. ReadersCounted'
    BY <1>0, <1>5, CountsKept DEF RecheckClosed, Types
  <2>3. NobodyPast' /\ Publishes' /\ ActiveIsWhole' /\ HeldIsWhole'
    BY <1>0, <1>5 DEF RecheckClosed, Types, NobodyPast, Publishes, ActiveIsWhole, HeldIsWhole
  <2> QED
    BY <2>1, <2>2, <2>3 DEF SlotInv
<1>6. CASE GiveBack(r)
  <2>1. ReadersCounted' /\ readers' \in [Slots -> Nat]
    BY <1>0, <1>6, CountsOneLess
  <2>2. Types' /\ Attempts'
    BY <1>0, <1>6, <2>1 DEF GiveBack, Types, Attempts
  <2>3. NobodyPast' /\ Publishes' /\ ActiveIsWhole' /\ HeldIsWhole'
    BY <1>0, <1>6 DEF GiveBack, Types, NobodyPast, Publishes, ActiveIsWhole, HeldIsWhole
  <2> QED
    BY <2>1, <2>2, <2>3 DEF SlotInv
<1>7. CASE Release(r)
  <2>1. ReadersCounted' /\ readers' \in [Slots -> Nat]
    BY <1>0, <1>7, CountsOneLess
  <2>2. Types' /\ Attempts'
    BY <1>0, <1>7, <2>1 DEF Release, Types, Attempts
  <2>3. NobodyPast' /\ Publishes' /\ ActiveIsWhole' /\ HeldIsWhole'
    BY <1>0, <1>7 DEF Release, Types, NobodyPast, Publishes, ActiveIsWhole, HeldIsWhole
  <2> QED
    BY <2>1, <2>2, <2>3 DEF SlotInv
<1> QED
  BY <1>1, <1>2, <1>3, <1>4, <1>5, <1>6, <1>7 DEF ReaderStep

(* The owner writes only the slot it has found uncounted.                  *)
LEMMA OwnerKeepsSlotInv ==
  ASSUME SlotInv, Publish \/ ServiceCalled \/ TryFinalizeClose \/ OwnerStep
  PROVE  SlotInv'
PROOF
<1> USE GenerationAssumption DEF GenerationAssumption, OwnerGoes, slots, closing, news, threads,
                                  Slots, Counted, Past, Writing, Blank, Torn
<1>0. Types /\ Attempts /\ ReadersCounted /\ NobodyPast /\ Publishes /\ ActiveIsWhole
      /\ HeldIsWhole
  BY DEF SlotInv
<1>1. CASE Publish
  <2>1. Types' /\ Attempts'
    BY <1>0, <1>1 DEF Publish, Types, Attempts
  <2>2. ReadersCounted'
    BY <1>0, <1>1, CountsKept DEF Publish
  <2>3. Holders(1 - active) = {}
    BY <1>0, <1>1, UncountedIsUnread DEF Publish, OtherSlotUnread, ReadersCounted, Types
  <2>4. \A r \in Readers : reader[r] \in Past => held[r] = active
    BY <1>0, <2>3 DEF Holders, Types
  <2>5. NobodyPast' /\ Publishes' /\ ActiveIsWhole' /\ HeldIsWhole'
    BY <1>0, <1>1, <2>4 DEF Publish, Publishable, Types, NobodyPast, Publishes, ActiveIsWhole,
                            HeldIsWhole
  <2> QED
    BY <2>1, <2>2, <2>5 DEF SlotInv
<1>2. CASE WriteBegin
  <2>1. Types' /\ Attempts'
    BY <1>0, <1>2 DEF WriteBegin, Types, Attempts
  <2>2. ReadersCounted'
    BY <1>0, <1>2, CountsKept DEF WriteBegin
  <2>3. NobodyPast' /\ Publishes' /\ ActiveIsWhole' /\ HeldIsWhole'
    BY <1>0, <1>2 DEF WriteBegin, Types, NobodyPast, Publishes, ActiveIsWhole, HeldIsWhole
  <2> QED
    BY <2>1, <2>2, <2>3 DEF SlotInv
<1>3. CASE WriteEnd
  <2>1. Types' /\ Attempts'
    BY <1>0, <1>3 DEF WriteEnd, Types, Attempts
  <2>2. ReadersCounted'
    BY <1>0, <1>3, CountsKept DEF WriteEnd
  <2>3. NobodyPast' /\ Publishes' /\ ActiveIsWhole' /\ HeldIsWhole'
    BY <1>0, <1>3 DEF WriteEnd, Types, NobodyPast, Publishes, ActiveIsWhole, HeldIsWhole
  <2> QED
    BY <2>1, <2>2, <2>3 DEF SlotInv
<1>4. CASE Activate
  <2>1. Types' /\ Attempts'
    BY <1>0, <1>4 DEF Activate, Types, Attempts
  <2>2. ReadersCounted'
    BY <1>0, <1>4, CountsKept DEF Activate
  <2>3. NobodyPast' /\ Publishes' /\ ActiveIsWhole' /\ HeldIsWhole'
    BY <1>0, <1>4 DEF Activate, Types, NobodyPast, Publishes, ActiveIsWhole, HeldIsWhole
  <2> QED
    BY <2>1, <2>2, <2>3 DEF SlotInv
<1>5. CASE StoreGeneration
  <2>1. Types' /\ Attempts'
    BY <1>0, <1>5 DEF StoreGeneration, Types, Attempts, Publishes
  <2>2. ReadersCounted'
    BY <1>0, <1>5, CountsKept DEF StoreGeneration
  <2>3. NobodyPast' /\ Publishes' /\ ActiveIsWhole' /\ HeldIsWhole'
    BY <1>0, <1>5 DEF StoreGeneration, Types, NobodyPast, Publishes, ActiveIsWhole, HeldIsWhole
  <2> QED
    BY <2>1, <2>2, <2>3 DEF SlotInv
<1>6. CASE ServiceCalled
  <2>1. Types' /\ Attempts'
    BY <1>0, <1>6 DEF ServiceCalled, Types, Attempts
  <2>2. ReadersCounted'
    BY <1>0, <1>6, CountsKept DEF ServiceCalled
  <2>3. NobodyPast' /\ Publishes' /\ ActiveIsWhole' /\ HeldIsWhole'
    BY <1>0, <1>6 DEF ServiceCalled, Types, NobodyPast, Publishes, ActiveIsWhole, HeldIsWhole
  <2> QED
    BY <2>1, <2>2, <2>3 DEF SlotInv
<1>7. CASE Service
  <2>0. /\ pending' \in BOOLEAN /\ (pending' => pending)
        /\ failures' \in 0..MaxFailures
    <3>1. CASE ~pending
      BY <1>0, <1>7, <3>1 DEF Service, Types
    <3>2. CASE pending
      <4>1. \/ pending' = FALSE /\ UNCHANGED failures
            \/ pending' = TRUE /\ UNCHANGED failures
            \/ failures > 0 /\ failures' = failures - 1 /\ pending' = FALSE
        BY <1>7, <3>2 DEF Service, Post, KeepsPending
      <4>2. failures \in 0..MaxFailures
        BY <1>0 DEF Types
      <4>3. failures' \in 0..MaxFailures
        BY <4>1, <4>2
      <4> QED
        BY <3>2, <4>1, <4>3
    <3> QED
      BY <3>1, <3>2
  <2>1. Types' /\ Attempts'
    BY <1>0, <1>7, <2>0 DEF Service, Types, Attempts
  <2>2. ReadersCounted'
    BY <1>0, <1>7, CountsKept DEF Service
  <2>3. NobodyPast' /\ Publishes' /\ ActiveIsWhole' /\ HeldIsWhole'
    BY <1>0, <1>7 DEF Service, Post, KeepsPending, Types, NobodyPast, Publishes, ActiveIsWhole,
         HeldIsWhole
  <2> QED
    BY <2>1, <2>2, <2>3 DEF SlotInv
<1>8. CASE TryFinalizeClose
  <2>1. Types' /\ Attempts'
    BY <1>0, <1>8 DEF TryFinalizeClose, Types, Attempts
  <2>2. ReadersCounted'
    BY <1>0, <1>8, CountsKept DEF TryFinalizeClose
  <2>3. NobodyPast' /\ Publishes' /\ ActiveIsWhole' /\ HeldIsWhole'
    BY <1>0, <1>8 DEF TryFinalizeClose, Types, NobodyPast, Publishes, ActiveIsWhole, HeldIsWhole
  <2> QED
    BY <2>1, <2>2, <2>3 DEF SlotInv
<1>9. CASE CountFirst
  <2>1. Types' /\ Attempts'
    BY <1>0, <1>9, HoldersAreFinite DEF CountFirst, Types, Attempts, ReadersCounted
  <2>2. ReadersCounted'
    BY <1>0, <1>9, CountsKept DEF CountFirst
  <2>3. NobodyPast' /\ Publishes' /\ ActiveIsWhole' /\ HeldIsWhole'
    BY <1>0, <1>9 DEF CountFirst, Types, NobodyPast, Publishes, ActiveIsWhole, HeldIsWhole
  <2> QED
    BY <2>1, <2>2, <2>3 DEF SlotInv
<1>10. CASE CountSecond
  <2>1. Types' /\ Attempts'
    BY <1>0, <1>10 DEF CountSecond, Types, Attempts
  <2>2. ReadersCounted'
    BY <1>0, <1>10, CountsKept DEF CountSecond
  <2>3. NobodyPast' /\ Publishes' /\ ActiveIsWhole' /\ HeldIsWhole'
    BY <1>0, <1>10 DEF CountSecond, Types, NobodyPast, Publishes, ActiveIsWhole, HeldIsWhole
  <2> QED
    BY <2>1, <2>2, <2>3 DEF SlotInv
<1>11. CASE CloseStore
  <2>1. Types' /\ Attempts'
    BY <1>0, <1>11 DEF CloseStore, Types, Attempts
  <2>2. ReadersCounted'
    BY <1>0, <1>11, CountsKept DEF CloseStore
  <2>3. NobodyPast' /\ Publishes' /\ ActiveIsWhole' /\ HeldIsWhole'
    BY <1>0, <1>11 DEF CloseStore, Types, NobodyPast, Publishes, ActiveIsWhole, HeldIsWhole
  <2> QED
    BY <2>1, <2>2, <2>3 DEF SlotInv
<1>12. CASE Wipe
  <2>1. Types' /\ Attempts'
    BY <1>0, <1>12 DEF Wipe, Types, Attempts
  <2>2. ReadersCounted'
    BY <1>0, <1>12, CountsKept DEF Wipe
  <2>3. NobodyPast' /\ Publishes' /\ ActiveIsWhole' /\ HeldIsWhole'
    BY <1>0, <1>12 DEF Wipe, Types, NobodyPast, Publishes, ActiveIsWhole, HeldIsWhole
  <2> QED
    BY <2>1, <2>2, <2>3 DEF SlotInv
<1> QED
  BY <1>1, <1>2, <1>3, <1>4, <1>5, <1>6, <1>7, <1>8, <1>9, <1>10, <1>11, <1>12 DEF OwnerStep

(* A generation is owed from the step that makes it to the one that tells. *)
LEMMA StepKeepsAnnounced ==
  ASSUME SlotInv, AnnouncedInv, [Next]_vars
  PROVE  AnnouncedInv'
PROOF
<1> USE GenerationAssumption DEF GenerationAssumption, GenerationsAnnouncedInOrder, OwnerGoes,
                                  ReaderGoes, slots, closing, news
<1>0. /\ sent \in Seq(Nat) /\ generation \in 1..MaxGeneration /\ pending \in BOOLEAN
      /\ failures \in 0..MaxFailures
  BY DEF AnnouncedInv, SlotInv, Types
<1>1. CASE StoreGeneration
  <2>1. ~pending /\ generation < MaxGeneration
    BY <1>1 DEF StoreGeneration, SlotInv, Publishes
  <2>2. UNCHANGED <<sent, failures>> /\ generation' = generation + 1 /\ pending'
    BY <1>1 DEF StoreGeneration
  <2> QED
    BY <1>0, <2>1, <2>2 DEF AnnouncedInv
<1>2. CASE Service
  <2>1. generation' = generation
    BY <1>2 DEF Service
  <2>2. CASE ~pending
    BY <1>0, <1>2, <2>1, <2>2 DEF Service, AnnouncedInv
  <2>3. CASE pending /\ sent' = Append(sent, generation) /\ pending' = FALSE /\ UNCHANGED failures
    <3>1. /\ sent' \in Seq(Nat) /\ Len(sent') = Len(sent) + 1
          /\ Len(sent') <= generation - 1
      BY <1>0, <2>3 DEF AnnouncedInv
    <3>2. GenerationsAnnouncedInOrder'
      <4> SUFFICES ASSUME failures = MaxFailures
                   PROVE  sent' = [i \in 1..(generation - 1) |-> i + 1]
        <5>1. generation' - 1 - (IF pending' THEN 1 ELSE 0) = generation - 1
          BY <1>0, <2>1, <2>3
        <5> QED
          BY <2>3, <5>1
      <4>1. sent = [i \in 1..(generation - 2) |-> i + 1]
        BY <1>0, <2>3 DEF AnnouncedInv
      <4>2. Len(sent) = generation - 2
        <5>1. CASE generation = 1
          BY <1>0, <2>3, <5>1 DEF AnnouncedInv
        <5>2. CASE generation > 1
          BY <1>0, <4>1, <5>2
        <5> QED
          BY <1>0, <5>1, <5>2
      <4>3. sent' \in [1..(generation - 1) -> Nat]
        BY <1>0, <3>1, <4>2
      <4>4. \A i \in 1..(generation - 1) : sent'[i] = i + 1
        BY <1>0, <2>3, <4>1, <4>2
      <4> QED
        BY <4>3, <4>4
    <3> QED
      BY <2>1, <2>3, <3>1, <3>2 DEF AnnouncedInv
  <2>4. CASE pending /\ pending' = TRUE /\ UNCHANGED <<sent, failures>>
    BY <1>0, <2>1, <2>4 DEF AnnouncedInv
  <2>5. CASE pending /\ failures' = failures - 1 /\ pending' = FALSE /\ UNCHANGED sent
    BY <1>0, <2>1, <2>5 DEF AnnouncedInv
  <2> QED
    BY <1>2, <2>2, <2>3, <2>4, <2>5 DEF Service, Post, KeepsPending
<1>3. CASE UNCHANGED <<sent, generation, pending, failures>>
  BY <1>3 DEF AnnouncedInv
<1>4. [Next]_vars => StoreGeneration \/ Service \/ UNCHANGED <<sent, generation, pending, failures>>
  BY DEF Next, vars, Acquire, ReaderStep, LoadActive, AddReader, RecheckActive, RecheckClosed,
         GiveBack, Release, Publish, ServiceCalled, TryFinalizeClose, OwnerStep, WriteBegin,
         WriteEnd, Activate, CountFirst, CountSecond, CloseStore, Wipe
<1> QED
  BY <1>1, <1>2, <1>3, <1>4

LEMMA Inductive ==
  Spec => []IInv
<1>1. Init => IInv
  <2> SUFFICES ASSUME Init PROVE AnnouncedInv
    BY InitSlotInv DEF IInv
  <2> QED
    BY DEF Init, AnnouncedInv, GenerationsAnnouncedInOrder
<1>2. IInv /\ [Next]_vars => IInv'
  <2> SUFFICES ASSUME IInv, [Next]_vars PROVE SlotInv'
    BY StepKeepsAnnounced DEF IInv
  <2>1. CASE Next
    BY <2>1, ReaderKeepsSlotInv, OwnerKeepsSlotInv DEF Next, IInv
  <2>2. CASE UNCHANGED vars
    <3>1. UNCHANGED <<slots, closing, news, threads, readers, owner, counted>>
      BY <2>2 DEF vars, slots, closing, news, threads
    <3>2. ReadersCounted'
      BY <2>2, CountsKept DEF vars, IInv, SlotInv
    <3> QED
      BY <2>2, <3>2 DEF vars, IInv, SlotInv, Types, Attempts, NobodyPast, Publishes,
                        ActiveIsWhole, HeldIsWhole
  <2> QED
    BY <2>1, <2>2
<1> QED
  BY <1>1, <1>2, PTL DEF Spec

(***************************************************************************)
(* Theorems                                                                *)
(***************************************************************************)
(* While the publisher is open, what a reader was given is complete and    *)
(* does not change, for every number of readers and generations.           *)
THEOREM SnapshotsAreStable == Spec => []HeldSnapshotIsStable
<1>1. IInv => HeldSnapshotIsStable
  <2> SUFFICES ASSUME IInv PROVE HeldSnapshotIsStable
    OBVIOUS
  <2>1. readers \in [Slots -> 0..Cardinality(Readers)]
    <3>1. \A s \in Slots : readers[s] \in 0..Cardinality(Readers)
      BY HoldersAreFinite, ReadersAssumption, FS_CardinalityType
         DEF IInv, SlotInv, Types, ReadersCounted, ReadersAssumption
    <3> QED
      BY <3>1 DEF IInv, SlotInv, Types
  <2>2. Len(sent) < MaxGeneration
    BY GenerationAssumption DEF GenerationAssumption, IInv, AnnouncedInv, SlotInv, Types
  <2>3. TypeOK
    BY <2>1, <2>2 DEF TypeOK, IInv, SlotInv, Types, Attempts
  <2> QED
    BY <2>3 DEF HeldSnapshotIsStable, IInv, SlotInv, HeldIsWhole, Past
<1> QED
  BY <1>1, Inductive, PTL

(* As long as the ingress only overflows, the generations are announced    *)
(* once each and in order, and only the last one may be owed.              *)
THEOREM AnnouncedInOrder == Spec => []GenerationsAnnouncedInOrder
<1>1. IInv => GenerationsAnnouncedInOrder
  BY DEF IInv, AnnouncedInv
<1> QED
  BY <1>1, Inductive, PTL
=============================================================================
