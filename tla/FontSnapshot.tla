---------------------------- MODULE FontSnapshot ----------------------------
(***************************************************************************)
(* FontSnapshotPublisher (src/measure/font_metrics.cpp): the owner         *)
(* publishes font metrics in two slots, any thread reads the active one    *)
(* under a counted guard, and nobody waits.  Every atomic access is a step *)
(* of its own, taken in the order of the code and seen by all threads at   *)
(* once; copying a snapshot, which is not atomic, takes two steps.         *)
(* Core's ingress, which the notifications go to, is external.             *)
(***************************************************************************)
EXTENDS Integers, Sequences, FiniteSets

CONSTANTS
  Readers,        \* threads that call acquire
  MaxGeneration,  \* numeric_limits<uint64_t>::max(): no generation follows it
  MaxFailures     \* bound: how often the ingress fails other than by overflow

ASSUME GenerationAssumption == MaxGeneration \in Nat \ {0} /\ MaxFailures \in Nat
ASSUME ReadersAssumption == IsFiniteSet(Readers)

VARIABLES
  snapshot,      \* snapshots_: the generation in each slot, Blank or Torn
  active,        \* active_slot_
  readers,       \* readers_
  generation,    \* generation_
  accepting, closed, pending,  \* accepting_, closed_, notification_pending_
  owner,         \* where the owner is
  counted,       \* pendingReaders(): what its first load returned
  reader,        \* where each reader is
  held,          \* the slot each reader is using
  attempt,       \* how many attempts its acquire has made
  seen,          \* history: the generation in the slot when the guard was given
  sent,          \* history: the generations announced to Core
  failures       \* how often the ingress may still fail

slots   == <<snapshot, active, generation>>
closing == <<accepting, closed>>
news    == <<pending, sent, failures>>
threads == <<reader, held, attempt, seen>>
vars    == <<snapshot, active, readers, generation, accepting, closed, pending, owner,
             counted, reader, held, attempt, seen, sent, failures>>

Slots == {0, 1}
Blank == 0
Torn  == MaxGeneration + 1

(* After initialize, which runs once and before any reader.                *)
Init ==
  /\ snapshot = [s \in Slots |-> IF s = 0 THEN 1 ELSE Blank]
  /\ active = 0 /\ generation = 1
  /\ readers = [s \in Slots |-> 0]
  /\ accepting = TRUE /\ closed = FALSE /\ pending = FALSE
  /\ owner = "idle" /\ counted = 0
  /\ reader = [r \in Readers |-> "idle"] /\ held = [r \in Readers |-> 0]
  /\ attempt = [r \in Readers |-> 0] /\ seen = [r \in Readers |-> Blank]
  /\ sent = <<>> /\ failures = MaxFailures

(***************************************************************************)
(* acquire and release                                                     *)
(***************************************************************************)
ReaderGoes(r, place) == reader' = [reader EXCEPT ![r] = place]

Acquire(r) ==
  /\ reader[r] = "idle" /\ ~closed
  /\ ReaderGoes(r, "load")
  /\ attempt' = [attempt EXCEPT ![r] = 0]
  /\ UNCHANGED <<slots, readers, closing, news, owner, counted, held, seen>>

LoadActive(r) ==
  /\ reader[r] = "load"
  /\ held' = [held EXCEPT ![r] = active]
  /\ ReaderGoes(r, "add")
  /\ UNCHANGED <<slots, readers, closing, news, owner, counted, attempt, seen>>

AddReader(r) ==
  /\ reader[r] = "add"
  /\ readers' = [readers EXCEPT ![held[r]] = @ + 1]
  /\ ReaderGoes(r, "recheck")
  /\ UNCHANGED <<slots, closing, news, owner, counted, held, attempt, seen>>

(* Mistake: the slot is not looked at a second time.                       *)
RecheckNothing(r) ==
  /\ reader[r] = "recheck"
  /\ ReaderGoes(r, "recheckClosed")
  /\ UNCHANGED <<slots, readers, closing, news, owner, counted, held, attempt, seen>>

RecheckActive(r) ==
  /\ reader[r] = "recheck"
  /\ ReaderGoes(r, IF held[r] = active THEN "recheckClosed" ELSE "sub")
  /\ UNCHANGED <<slots, readers, closing, news, owner, counted, held, attempt, seen>>

RecheckClosed(r) ==
  /\ reader[r] = "recheckClosed"
  /\ ReaderGoes(r, IF closed THEN "sub" ELSE "reading")
  /\ seen' = [seen EXCEPT ![r] = IF closed THEN Blank ELSE snapshot[held[r]]]
  /\ UNCHANGED <<slots, readers, closing, news, owner, counted, held, attempt>>

(* The attempt failed: give the slot back and try once more, or kBusy.     *)
GiveBack(r) ==
  /\ reader[r] = "sub"
  /\ readers' = [readers EXCEPT ![held[r]] = @ - 1]
  /\ attempt' = [attempt EXCEPT ![r] = @ + 1]
  /\ ReaderGoes(r, IF attempt[r] = 0 THEN "load" ELSE "idle")
  /\ UNCHANGED <<slots, closing, news, owner, counted, held, seen>>

Release(r) ==
  /\ reader[r] = "reading"
  /\ readers' = [readers EXCEPT ![held[r]] = @ - 1]
  /\ ReaderGoes(r, "idle")
  /\ seen' = [seen EXCEPT ![r] = Blank]
  /\ UNCHANGED <<slots, closing, news, owner, counted, held, attempt>>

(***************************************************************************)
(* publish                                                                 *)
(***************************************************************************)
OwnerGoes(place) == owner' = place

OtherSlotUnread == readers[1 - active] = 0

Publishable == accepting /\ ~closed /\ ~pending /\ generation # MaxGeneration

Publish ==
  /\ owner = "idle" /\ Publishable /\ OtherSlotUnread
  /\ OwnerGoes("write")
  /\ UNCHANGED <<slots, readers, closing, news, counted, threads>>

WriteBegin ==
  /\ owner = "write"
  /\ snapshot' = [snapshot EXCEPT ![1 - active] = Torn]
  /\ OwnerGoes("written")
  /\ UNCHANGED <<active, generation, readers, closing, news, counted, threads>>

WriteEnd ==
  /\ owner = "written"
  /\ snapshot' = [snapshot EXCEPT ![1 - active] = generation + 1]
  /\ OwnerGoes("activate")
  /\ UNCHANGED <<active, generation, readers, closing, news, counted, threads>>

Activate ==
  /\ owner = "activate"
  /\ active' = 1 - active
  /\ OwnerGoes("generation")
  /\ UNCHANGED <<snapshot, generation, readers, closing, news, counted, threads>>

StoreGeneration ==
  /\ owner = "generation"
  /\ generation' = generation + 1
  /\ pending' = TRUE
  /\ OwnerGoes("service")
  /\ UNCHANGED <<snapshot, active, readers, closing, sent, failures, counted, threads>>

(***************************************************************************)
(* serviceNotifications, alone, within publish and within tryFinalizeClose *)
(***************************************************************************)
ServiceCalled ==
  /\ owner = "idle" /\ pending
  /\ OwnerGoes("service")
  /\ UNCHANGED <<slots, readers, closing, news, counted, threads>>

(* Mistake: the announcement that met a full ingress is dropped.           *)
KeepsPendingNever == FALSE

KeepsPending == TRUE

(* The ingress takes the notification, is full, or fails.                  *)
Post ==
  \/ sent' = Append(sent, generation) /\ pending' = FALSE /\ UNCHANGED failures
  \/ pending' = KeepsPending /\ UNCHANGED <<sent, failures>>
  \/ failures > 0 /\ failures' = failures - 1 /\ pending' = FALSE /\ UNCHANGED sent

Service ==
  /\ owner \in {"service", "serviceClosing"}
  /\ IF pending THEN Post ELSE UNCHANGED news
  /\ OwnerGoes(IF owner = "service" THEN "idle" ELSE "count")
  /\ UNCHANGED <<slots, readers, closing, counted, threads>>

(***************************************************************************)
(* tryFinalizeClose                                                        *)
(***************************************************************************)
TryFinalizeClose ==
  /\ owner = "idle" /\ ~closed
  /\ accepting' = FALSE
  /\ OwnerGoes("serviceClosing")
  /\ UNCHANGED <<slots, readers, closed, news, counted, threads>>

CountFirst ==
  /\ owner = "count"
  /\ counted' = readers[0]
  /\ OwnerGoes(IF pending THEN "idle" ELSE "countSecond")
  /\ UNCHANGED <<slots, readers, closing, news, threads>>

CountSecond ==
  /\ owner = "countSecond"
  /\ OwnerGoes(IF counted + readers[1] = 0 THEN "close" ELSE "idle")
  /\ UNCHANGED <<slots, readers, closing, news, counted, threads>>

CloseStore ==
  /\ owner = "close"
  /\ closed' = TRUE
  /\ OwnerGoes("wipe")
  /\ UNCHANGED <<slots, readers, accepting, news, counted, threads>>

Wipe ==
  /\ owner = "wipe"
  /\ snapshot' = [s \in Slots |-> Blank]
  /\ OwnerGoes("gone")
  /\ UNCHANGED <<active, generation, readers, closing, news, counted, threads>>

ReaderStep(r) ==
  \/ LoadActive(r) \/ AddReader(r) \/ RecheckActive(r) \/ RecheckClosed(r) \/ GiveBack(r)
  \/ Release(r)

OwnerStep ==
  \/ WriteBegin \/ WriteEnd \/ Activate \/ StoreGeneration \/ Service
  \/ CountFirst \/ CountSecond \/ CloseStore \/ Wipe

Next ==
  \/ \E r \in Readers : Acquire(r) \/ ReaderStep(r)
  \/ Publish \/ ServiceCalled \/ TryFinalizeClose \/ OwnerStep

Spec == Init /\ [][Next]_vars

(***************************************************************************)
(* Properties                                                              *)
(***************************************************************************)
TypeOK ==
  /\ snapshot \in [Slots -> 0..Torn]
  /\ active \in Slots /\ generation \in 1..MaxGeneration
  /\ readers \in [Slots -> 0..Cardinality(Readers)]
  /\ counted \in 0..Cardinality(Readers)
  /\ {accepting, closed, pending} \subseteq BOOLEAN
  /\ held \in [Readers -> Slots] /\ attempt \in [Readers -> 0..2]
  /\ seen \in [Readers -> 0..Torn]
  /\ Len(sent) < MaxGeneration /\ failures \in 0..MaxFailures

(* While the publisher is open, a reader's snapshot is complete and stays  *)
(* the one it was given, however often the owner publishes meanwhile and   *)
(* wherever the reader was when the slots were swapped (acquire 139-146,   *)
(* publish 165-177).                                                       *)
HeldSnapshotIsStable ==
  /\ TypeOK
  /\ ~closed => \A r \in Readers :
                  reader[r] = "reading" => seen[r] \in 1..MaxGeneration
                                           /\ snapshot[held[r]] = seen[r]

(* lv_s06 V04: "Strict sequence, one pending signal": as long as the       *)
(* ingress only overflows, every generation but the first is announced     *)
(* once, in order, and at most the last one is still owed.                 *)
GenerationsAnnouncedInOrder ==
  failures = MaxFailures =>
    sent = [i \in 1..(generation - 1 - IF pending THEN 1 ELSE 0) |-> i + 1]

(* lv_s06 F07: "Publisher never overwrites a reader slot or allocates a    *)
(* third slot".  tryFinalizeClose counts the readers before it stores      *)
(* closed_ (213-216): a reader admitted in between keeps a guard to a slot *)
(* that is then overwritten (217-218).                                     *)
ReaderSlotNeverOverwritten ==
  \A r \in Readers : reader[r] = "reading" => snapshot[held[r]] = seen[r]
=============================================================================
