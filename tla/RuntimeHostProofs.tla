-------------------------- MODULE RuntimeHostProofs -------------------------
(***************************************************************************)
(* The host is not destroyed under a callback of Core, answers every call  *)
(* it accepted exactly once unless it could not open, reports what failed  *)
(* in the teardown, and drives the backend lifecycle as its contract       *)
(* allows, for every number of calls, slots and tasks.  What carries the   *)
(* proof is that a teardown which has found no callback pending lets none  *)
(* begin, since the state of the host already refuses controls, so the     *)
(* answer of that one look still holds many pumps later.                   *)
(***************************************************************************)
EXTENDS RuntimeHost, FiniteSetTheorems, TLAPS

(* What becomes of a call.                                                 *)
Fates == {"unused", "posted", "accepted", "refused", "cancelled"}

(* The stages of a pump that has found it may tear down.                   *)
Late == {"package", "begin", "drain", "finish", "end"}

Flags ==
  /\ startOwed \in BOOLEAN /\ teardownStarted \in BOOLEAN /\ startPending \in BOOLEAN
  /\ stopBegun \in BOOLEAN /\ startReady \in BOOLEAN /\ services \in BOOLEAN
  /\ prepared \in BOOLEAN /\ admits \in BOOLEAN /\ failed \in BOOLEAN

Data ==
  /\ hostState \in {"New", "Starting", "Running", "Destroying", "Failed", "Destroyed"}
  /\ destroyCall \in Calls \cup {NoCall}
  /\ lastSignal \in Signals \cup {"none"}
  /\ slot \in [Slots -> Controls \cup {Free}]
  /\ teardownResult \in {"ok", "failed"}
  /\ startResult \in {"presented", "unpresented", "failed"}
  /\ inbox \in Seq([call : Calls, signal : Signals]) /\ Len(inbox) <= TaskCapacity
  /\ package \in {"none", "open"}
  /\ lifecycle \in {"Constructed", "Running", "Stopping", "Closed"}
  /\ at \in Stages
  /\ busy \in 0..MaxBusy /\ interrupts \in 0..MaxInterrupts
  /\ status \in [Calls \cup {StartCall} -> Fates]
  /\ answers \in [Calls \cup {StartCall} -> Seq({"ok", "failed"})]

Types == Flags /\ Data

Cursors ==
  /\ cursor \in Nat
  /\ at = "tasks" => cursor <= TasksPerPump
  /\ at = "slots" => 1 <= cursor /\ cursor <= MaxPendingControls + 1
  /\ at \notin {"tasks", "slots"} => cursor = 0

(* Which states of the host leave Core something to call back about.       *)
Phases ==
  /\ hostState = "New" => at \in {"idle", "opening", "undo"} /\ lifecycle = "Constructed"
                         /\ package = "none" /\ ~services /\ ~startOwed
  /\ at \in {"opening", "undo"} => hostState = "New"
  /\ lifecycle = "Constructed" => hostState = "New"
  /\ startPending => startOwed /\ hostState \in {"Starting", "Destroying"}
  /\ startReady => startPending
  /\ \A i \in Slots : Active(i) => hostState \in {"Running", "Destroying"}
  /\ teardownStarted => hostState \in {"Destroying", "Failed"}

(* What a teardown has found and what it leaves behind it.                 *)
Closing ==
  /\ at \in Late => teardownStarted /\ ~CallbacksPending /\ ~services
  /\ at \in Late \ {"package"} => package = "none"
  /\ at = "drain" => lifecycle = "Stopping"
  /\ at = "end" => lifecycle = "Closed" /\ prepared
  /\ stopBegun \/ prepared \/ lifecycle = "Stopping" =>
       (teardownStarted \/ hostState = "Destroyed") /\ ~CallbacksPending
  /\ prepared => inbox = <<>> /\ lifecycle \in {"Stopping", "Closed"}
  /\ prepared \/ lifecycle = "Stopping" => ~admits
  /\ lifecycle = "Closed" => at = "end" \/ hostState = "Destroyed"
  /\ hostState = "Destroyed" => at = "idle" /\ lifecycle = "Closed" /\ ~CallbacksPending
                                /\ package = "none" /\ ~services /\ ~startOwed

(* Where each call is: with Core, in the queue, with the teardown, or      *)
(* answered.                                                               *)
InSlot(c)  == \E i \in Slots : Active(i) /\ slot[i].call = c
InInbox(c) == \E k \in 1..Len(inbox) : inbox[k].call = c
Owed(c)    == InSlot(c) \/ destroyCall = c

CallIsSomewhere(c) ==
  /\ Len(answers[c]) <= 1
  /\ status[c] # "accepted" => answers[c] = <<>> /\ ~Owed(c)
  /\ Owed(c) => answers[c] = <<>>
  /\ status[c] = "accepted" /\ answers[c] = <<>> => Owed(c)
  /\ status[c] = "posted" <=> InInbox(c)

StartIsSomewhere ==
  /\ Len(answers[StartCall]) <= 1 /\ status[StartCall] # "posted"
  /\ startOwed <=> status[StartCall] = "accepted" /\ answers[StartCall] = <<>>
  /\ status[StartCall] # "accepted" => answers[StartCall] = <<>>
  /\ hostState = "New" => status[StartCall] = "unused"

Unanswered == StartIsSomewhere /\ \A c \in Calls : CallIsSomewhere(c)

(* No call is in two places, and only the call that destroys is in a slot  *)
(* and with the teardown at once.                                          *)
Apart ==
  /\ \A i, j \in Slots : Active(i) /\ Active(j) /\ slot[i].call = slot[j].call => i = j
  /\ \A k, l \in 1..Len(inbox) : inbox[k].call = inbox[l].call => k = l
  /\ \A i \in Slots : Active(i) =>
       (slot[i].action = "shutdown" <=> slot[i].call = destroyCall)
  /\ destroyCall # NoCall => hostState = "Destroying"

(* The teardown's result tells whether something of it has failed.         *)
Results ==
  /\ failed => teardownStarted \/ hostState = "Destroyed"
  /\ teardownStarted => teardownResult = IF failed THEN "failed" ELSE "ok"
  /\ \A i \in Slots : slot[i].action = "shutdown" => ~teardownStarted

(* Nothing is accepted by a host that never opened, and no signal of one   *)
(* that did is cancelled.                                                  *)
Opened == lifecycle # "Constructed" /\ ~NeverOpened

Accepting ==
  /\ ~Opened => \A c \in Calls \cup {StartCall} : status[c] # "accepted"
  /\ Opened \/ (hostState = "New" /\ at # "undo") =>
       \A c \in Calls \cup {StartCall} : status[c] # "cancelled"

IInv == Types /\ Cursors /\ Phases /\ Closing /\ Unanswered /\ Apart /\ Results /\ Accepting

(***************************************************************************)
(* The model's operators                                                   *)
(***************************************************************************)
(* A set of natural numbers has a least one.                               *)
LEMMA LeastNatural ==
  ASSUME NEW S \in SUBSET Nat, S # {}
  PROVE  \E n \in S : \A k \in S : n <= k
  <1>1. PICK n \in S : \A k \in S : ~(<<k, n>> \in OpToRel(<, Nat))
    BY NatLessThanWellFounded, WFMin
  <1>2. ASSUME NEW k \in S
        PROVE  n <= k
    <2>1. k \in Nat /\ n \in Nat
      OBVIOUS
    <2>2. <<k, n>> \in OpToRel(<, Nat) <=> k < n
      BY <2>1, Zenon DEF OpToRel
    <2>3. ~(k < n)
      BY <1>1, <2>2, Zenon
    <2> QED
      BY <2>1, <2>3
  <1> QED
    BY <1>2

(* What beginControl does when Core takes the message: slot i holds it.    *)
Takes(i, c, a) ==
  /\ ~Active(i)
  /\ slot' = [slot EXCEPT ![i] = [call |-> c, action |-> a, ready |-> FALSE, ok |-> FALSE]]
  /\ hostState \in {"Starting", "Running"} /\ (hostState = "Starting" => a = "shutdown")
  /\ IF a = "shutdown" THEN hostState' = "Destroying" /\ destroyCall' = c
                       ELSE UNCHANGED <<hostState, destroyCall>>

LEMMA BeginControlTakesOneSlot ==
  ASSUME NEW c, NEW a, BeginControl(c, a)
  PROVE  \E i \in Slots : Takes(i, c, a)
  <1> DEFINE first == CHOOSE j \in FreeSlots : \A k \in FreeSlots : j <= k
  <1>1. FreeSlots \in SUBSET Nat /\ FreeSlots # {}
    BY HostAssumption DEF HostAssumption, BeginControl, CanControl, FreeSlots, Slots
  <1>2. first \in FreeSlots
    BY <1>1, LeastNatural
  <1> QED
    BY <1>2 DEF BeginControl, CanControl, FreeSlots, Takes

(* A slot is free, or holds a call of its own.                             *)
LEMMA SlotShape ==
  ASSUME Types, NEW i \in Slots
  PROVE  /\ Active(i) => /\ slot[i] \in Controls /\ slot[i].call \in Calls
                         /\ slot[i].action \in Signals /\ slot[i].call # NoCall
         /\ ~Active(i) => slot[i].call = NoCall /\ slot[i].action = "none" /\ ~slot[i].ready
  BY HostAssumption DEF HostAssumption, Types, Data, Active, Controls, Free

(* The calls that are neither the start nor none.                          *)
LEMMA CallsApart ==
  /\ StartCall \notin Calls /\ NoCall \notin Calls /\ NoCall # StartCall
  /\ MaxPendingControls \in Nat \ {0} /\ TasksPerPump \in Nat \ {0} /\ TaskCapacity \in Nat \ {0}
  /\ MaxBusy \in Nat /\ MaxInterrupts \in Nat
  BY HostAssumption DEF HostAssumption

(* A refused or repeated signal changes nothing of the host, an accepted   *)
(* one takes a slot.                                                       *)
LEMMA RunTaskOutcomes ==
  ASSUME RunTask
  PROVE  \/ \E i \in Slots : /\ Takes(i, Head(inbox).call, Head(inbox).signal)
                             /\ lastSignal' = Head(inbox).signal /\ UNCHANGED answers
         \/ /\ UNCHANGED <<control, lastSignal>>
            /\ \E r \in {"ok", "failed"} : Answer({Head(inbox).call}, r)
  BY BeginControlTakesOneSlot DEF RunTask, HandleRawSignal

LEMMA AnswerIsTyped ==
  ASSUME Types, NEW S, NEW r \in {"ok", "failed"}, Answer(S, r)
  PROVE  /\ answers' \in [Calls \cup {StartCall} -> Seq({"ok", "failed"})]
         /\ \A c \in Calls \cup {StartCall} :
              /\ c \in S => /\ answers'[c] = Append(answers[c], r) /\ answers'[c] # <<>>
                            /\ answers[c] = <<>> => Len(answers'[c]) = 1
              /\ c \notin S => answers'[c] = answers[c]
  <1>1. ASSUME NEW c \in Calls \cup {StartCall}
        PROVE  /\ answers[c] \in Seq({"ok", "failed"})
               /\ Append(answers[c], r) \in Seq({"ok", "failed"})
               /\ answers[c] = <<>> => Len(Append(answers[c], r)) = 1
               /\ Append(answers[c], r) # <<>>
    <2>1. answers[c] \in Seq({"ok", "failed"})
      BY DEF Types, Data
    <2> QED
      BY <2>1
  <1>2. DOMAIN answers = Calls \cup {StartCall}
    BY DEF Types, Data
  <1>3. answers' = [c \in Calls \cup {StartCall} |->
                      IF c \in S THEN Append(answers[c], r) ELSE answers[c]]
    BY <1>2 DEF Answer
  <1> QED
    BY <1>1, <1>3

LEMMA OneAnswer ==
  ASSUME NEW S, NEW q \in Seq(S), q # <<>>, Len(q) <= 1
  PROVE  Len(q) = 1
  <1>1. Len(q) \in Nat /\ (Len(q) = 0 => q = <<>>)
    OBVIOUS
  <1> QED
    BY <1>1

LEMMA TakingTheHead ==
  ASSUME NEW S, NEW q \in Seq(S), q # <<>>
  PROVE  /\ Head(q) \in S /\ Head(q) = q[1] /\ 1 \in 1..Len(q)
         /\ Tail(q) \in Seq(S) /\ Len(Tail(q)) = Len(q) - 1
         /\ \A k \in 1..Len(Tail(q)) : Tail(q)[k] = q[k + 1] /\ k + 1 \in 1..Len(q)
         /\ \A k \in 1..Len(q) : k # 1 => k - 1 \in 1..Len(Tail(q)) /\ Tail(q)[k - 1] = q[k]
  OBVIOUS

(***************************************************************************)
(* Types and cursors                                                       *)
(***************************************************************************)
LEMMA InitTypes ==
  ASSUME Init
  PROVE  Types /\ Cursors
  <1>1. /\ slot \in [Slots -> Controls \cup {Free}]
        /\ inbox \in Seq([call : Calls, signal : Signals]) /\ Len(inbox) <= TaskCapacity
        /\ status \in [Calls \cup {StartCall} -> Fates]
        /\ answers \in [Calls \cup {StartCall} -> Seq({"ok", "failed"})]
    BY CallsApart DEF Init, Fates
  <1>2. busy \in 0..MaxBusy /\ interrupts \in 0..MaxInterrupts
    BY CallsApart DEF Init
  <1>3. /\ startOwed \in BOOLEAN /\ teardownStarted \in BOOLEAN /\ startPending \in BOOLEAN
        /\ stopBegun \in BOOLEAN /\ startReady \in BOOLEAN /\ services \in BOOLEAN
        /\ prepared \in BOOLEAN /\ admits \in BOOLEAN /\ failed \in BOOLEAN
    BY DEF Init
  <1> QED
    BY <1>1, <1>2, <1>3 DEF Init, Types, Flags, Data, Cursors, Stages, Signals

LEMMA TakesKeepsTypes ==
  ASSUME Types, NEW i \in Slots, NEW c \in Calls, NEW a \in Signals, Takes(i, c, a)
  PROVE  /\ slot' \in [Slots -> Controls \cup {Free}]
         /\ hostState' \in {"New", "Starting", "Running", "Destroying", "Failed", "Destroyed"}
         /\ destroyCall' \in Calls \cup {NoCall}
  <1>1. [call |-> c, action |-> a, ready |-> FALSE, ok |-> FALSE] \in Controls
    BY DEF Controls
  <1> QED
    BY <1>1 DEF Takes, Types, Data

LEMMA StepKeepsTypes ==
  ASSUME Types, Cursors, Next
  PROVE  Types' /\ Cursors'
PROOF
<1> USE CallsApart DEF Types, Flags, Data, Cursors, Stages, Slots, Fates
<1>1. ASSUME Start
      PROVE  Types' /\ Cursors'
  BY <1>1 DEF Start, Mark, Goto, control, flags, backend, world, limits
<1>2. ASSUME StartOpens \/ StartOpenFails
      PROVE  Types' /\ Cursors'
  <2>1. Flags'
    BY <1>2 DEF StartOpens, StartOpenFails, flags, world
  <2>2. Data'
    BY <1>2 DEF StartOpens, StartOpenFails, Goto, control, world, limits
  <2>3. Cursors'
    BY <1>2 DEF StartOpens, StartOpenFails, Goto
  <2> QED
    BY <2>1, <2>2, <2>3
<1>14. ASSUME BindFails \/ OpenUndone
       PROVE  Types' /\ Cursors'
  BY <1>14 DEF BindFails, OpenUndone, CloseUnopened, Mark, Goto, control, flags, backend, world,
              limits
<1>15. ASSUME CancelTask
       PROVE  Types' /\ Cursors'
  <2>1. /\ inbox' \in Seq([call : Calls, signal : Signals]) /\ Len(inbox') <= TaskCapacity
    <3>1. /\ inbox # <<>> /\ inbox' = Tail(inbox)
          /\ Len(inbox) \in Nat /\ Len(inbox) <= TaskCapacity
      BY <1>15 DEF CancelTask
    <3>2. inbox' \in Seq([call : Calls, signal : Signals]) /\ Len(inbox') = Len(inbox) - 1
      BY <3>1, TakingTheHead
    <3> QED
      BY <3>1, <3>2
  <2>2. Flags'
    BY <1>15 DEF CancelTask, flags, backend, world
  <2>3. Data'
    <3>1. status' \in [Calls \cup {StartCall} -> Fates]
      BY <1>15 DEF CancelTask, Mark
    <3>2. UNCHANGED <<hostState, destroyCall, lastSignal, slot, teardownResult, startResult,
                      package, lifecycle, at, busy, interrupts, answers>>
      BY <1>15 DEF CancelTask, control, backend, world, limits
    <3> QED
      BY <2>1, <3>1, <3>2
  <2>4. Cursors'
    BY <1>15 DEF CancelTask
  <2> QED
    BY <2>2, <2>3, <2>4
<1>3. ASSUME NEW source \in {"none", "open"}, StartFails(source)
      PROVE  Types' /\ Cursors'
  <2>1. services' \in BOOLEAN /\ at' = "services" /\ cursor' = 0
    BY <1>3 DEF StartFails, Goto
  <2>2. status' \in [Calls \cup {StartCall} -> Fates]
    BY <1>3 DEF StartFails, Mark
  <2> QED BY <1>3, <2>1, <2>2 DEF StartFails, limits
<1>4. ASSUME NEW c \in Calls, NEW a \in Signals, Control(c, a)
      PROVE  Types' /\ Cursors'
  <2>1. /\ slot' \in [Slots -> Controls \cup {Free}]
        /\ hostState' \in {"New", "Starting", "Running", "Destroying", "Failed", "Destroyed"}
        /\ destroyCall' \in Calls \cup {NoCall}
    BY <1>4, BeginControlTakesOneSlot, TakesKeepsTypes DEF Control, control
  <2>8. Flags'
    BY <1>4 DEF Control, Mark, flags, backend, world, limits
  <2>9. Data' /\ Cursors'
    BY <1>4, <2>1 DEF Control, Mark, flags, backend, world, limits
  <2> QED
    BY <2>8, <2>9
<1>5. ASSUME NEW c \in Calls, NEW signal \in Signals, Post(c, signal)
      PROVE  Types' /\ Cursors'
  <2>1. /\ inbox' \in Seq([call : Calls, signal : Signals])
        /\ Len(inbox') <= TaskCapacity
    BY <1>5 DEF Post
  <2> QED
    BY <1>5, <2>1 DEF Post, Mark, control, flags, backend, world, limits
<1>6. ASSUME RunTask
      PROVE  Types' /\ Cursors'
  <2>1. /\ inbox' \in Seq([call : Calls, signal : Signals])
        /\ Len(inbox') <= TaskCapacity
        /\ Head(inbox).call \in Calls /\ Head(inbox).signal \in Signals
    <3>1. inbox # <<>> /\ inbox' = Tail(inbox)
      BY <1>6 DEF RunTask
    <3>2. /\ Head(inbox) \in [call : Calls, signal : Signals]
          /\ inbox' \in Seq([call : Calls, signal : Signals]) /\ Len(inbox') = Len(inbox) - 1
      BY <3>1, TakingTheHead
    <3>3. Len(inbox) \in Nat /\ Len(inbox) <= TaskCapacity
      OBVIOUS
    <3> QED
      BY <3>2, <3>3
  <2>2. /\ slot' \in [Slots -> Controls \cup {Free}]
        /\ hostState' \in {"New", "Starting", "Running", "Destroying", "Failed", "Destroyed"}
        /\ destroyCall' \in Calls \cup {NoCall}
        /\ lastSignal' \in Signals \cup {"none"}
        /\ answers' \in [Calls \cup {StartCall} -> Seq({"ok", "failed"})]
    BY <1>6, <2>1, RunTaskOutcomes, TakesKeepsTypes, AnswerIsTyped DEF control
  <2>8. Flags'
    BY <1>6 DEF RunTask, Mark, flags, backend, world, limits
  <2>9. Data'
    BY <1>6, <2>1, <2>2 DEF RunTask, Mark, flags, backend, world, limits
  <2>10. Cursors'
    BY <1>6 DEF RunTask, Mark, flags, backend, world, limits
  <2> QED
    BY <2>8, <2>9, <2>10
<1>7. ASSUME NEW r \in {"presented", "unpresented", "failed"}, OnCoreStart(r)
      PROVE  Types' /\ Cursors'
  BY <1>7 DEF OnCoreStart, control, flags, backend, world, limits
<1>8. ASSUME NEW i \in Slots, NEW ok \in BOOLEAN, OnCoreLifecycle(i, ok)
      PROVE  Types' /\ Cursors'
  <2>1. slot[i] \in Controls
    BY <1>8, SlotShape DEF OnCoreLifecycle
  <2>2. [slot[i] EXCEPT !.ready = TRUE, !.ok = ok] \in Controls
    BY <2>1 DEF Controls
  <2>3. slot' = [slot EXCEPT ![i] = [slot[i] EXCEPT !.ready = TRUE, !.ok = ok]]
    BY <1>8, <2>1 DEF OnCoreLifecycle, Controls
  <2>4. slot' \in [Slots -> Controls \cup {Free}]
    BY <2>2, <2>3
  <2>8. Flags'
    BY <1>8 DEF OnCoreLifecycle, flags, backend, world, limits
  <2>9. Data'
    <3>1. UNCHANGED <<hostState, destroyCall, lastSignal, teardownResult, startResult, inbox,
                      package, lifecycle, at, busy, interrupts, status, answers>>
      BY <1>8 DEF OnCoreLifecycle, backend, world, limits
    <3> QED
      BY <2>4, <3>1
  <2>10. Cursors'
    BY <1>8 DEF OnCoreLifecycle, flags, backend, world, limits
  <2> QED
    BY <2>8, <2>9, <2>10
<1>9. ASSUME PumpOnce \/ TasksEnd \/ SlotsEnd \/ NoTeardown \/ BeginStop \/ StopInterrupted
      PROVE  Types' /\ Cursors'
  <2>1. busy' \in 0..MaxBusy /\ interrupts' \in 0..MaxInterrupts
    BY <1>9 DEF PumpOnce, TasksEnd, SlotsEnd, NoTeardown, BeginStop, StopInterrupted, limits,
                AnsweredBusy
  <2>2. Flags'
    <3>1. UNCHANGED <<startOwed, flags, startReady, services, prepared, failed>>
      BY <1>9, Zenon DEF PumpOnce, TasksEnd, SlotsEnd, NoTeardown, BeginStop, StopInterrupted,
                         backend, world
    <3>2. admits' = admits \/ admits' = FALSE
      BY <1>9 DEF PumpOnce, TasksEnd, SlotsEnd, NoTeardown, BeginStop, StopInterrupted, backend
    <3> QED
      BY <3>1, <3>2 DEF flags
  <2>3. Data'
    BY <1>9, <2>1 DEF PumpOnce, TasksEnd, SlotsEnd, NoTeardown, BeginStop, StopInterrupted, Goto,
                      control, backend, world
  <2>4. Cursors'
    BY <1>9 DEF PumpOnce, TasksEnd, SlotsEnd, NoTeardown, BeginStop, StopInterrupted, Goto
  <2> QED
    BY <2>2, <2>3, <2>4
<1>10. ASSUME StartCompletes
       PROVE  Types' /\ Cursors'
  <2>1. answers' \in [Calls \cup {StartCall} -> Seq({"ok", "failed"})]
    BY <1>10, AnswerIsTyped DEF StartCompletes
  <2>2. /\ startReady' \in BOOLEAN /\ startPending' \in BOOLEAN /\ startOwed' \in BOOLEAN
        /\ teardownStarted' \in BOOLEAN /\ failed' \in BOOLEAN
        /\ teardownResult' \in {"ok", "failed"}
    BY <1>10 DEF StartCompletes
  <2>3. hostState' \in {"New", "Starting", "Running", "Destroying", "Failed", "Destroyed"}
    BY <1>10 DEF StartCompletes
  <2> QED
    BY <1>10, <2>1, <2>2, <2>3 DEF StartCompletes, backend, world, limits
<1>11. ASSUME SlotCompletes
       PROVE  Types' /\ Cursors'
  <2>1. CASE ~slot[cursor].ready
    BY <1>11, <2>1 DEF SlotCompletes, backend, world, limits
  <2>2. CASE slot[cursor].ready
    <3>1. slot[cursor].call \in Calls /\ cursor \in Slots
      BY <1>11, <2>2, SlotShape DEF SlotCompletes
    <3>2. slot' \in [Slots -> Controls \cup {Free}]
      BY <1>11, <2>2, <3>1 DEF SlotCompletes
    <3>3. answers' \in [Calls \cup {StartCall} -> Seq({"ok", "failed"})]
      BY <1>11, <2>2, AnswerIsTyped DEF SlotCompletes
    <3>4. /\ destroyCall' \in Calls \cup {NoCall} /\ teardownResult' \in {"ok", "failed"}
          /\ teardownStarted' \in BOOLEAN /\ failed' \in BOOLEAN
      BY <1>11, <2>2, <3>1 DEF SlotCompletes
    <3> QED
      BY <1>11, <3>1, <3>2, <3>3, <3>4 DEF SlotCompletes, backend, world, limits
  <2> QED
    BY <2>1, <2>2
<1>12. ASSUME NEW ok \in BOOLEAN, StopServices(ok) \/ ClosePackage(ok) \/ StopPrepared(ok)
                                  \/ FinishStop(ok)
       PROVE  Types' /\ Cursors'
  <2>1. teardownResult' \in {"ok", "failed"} /\ failed' \in BOOLEAN
    BY <1>12 DEF StopServices, ClosePackage, StopPrepared, FinishStop, Keep
  <2>5. /\ services' \in BOOLEAN /\ stopBegun' \in BOOLEAN /\ prepared' \in BOOLEAN
        /\ admits' \in BOOLEAN
    BY <1>12 DEF StopServices, ClosePackage, StopPrepared, FinishStop, flags, backend, world
  <2>2. busy' \in 0..MaxBusy /\ interrupts' \in 0..MaxInterrupts
    BY <1>12 DEF StopServices, ClosePackage, StopPrepared, FinishStop, limits, AnsweredBusy
  <2>3. /\ package' \in {"none", "open"} /\ UNCHANGED <<control, startOwed, lastSignal, startReady,
                    startResult, inbox, status, answers, teardownStarted, startPending>>
        /\ lifecycle' \in {"Constructed", "Running", "Stopping", "Closed"}
    BY <1>12 DEF StopServices, ClosePackage, StopPrepared, FinishStop, backend, world, flags
  <2>4. at' \in Stages /\ cursor' = 0 /\ at' \notin {"tasks", "slots"}
    BY <1>12 DEF StopServices, ClosePackage, StopPrepared, FinishStop, Goto
  <2> QED
    BY <2>1, <2>2, <2>3, <2>4, <2>5 DEF control
<1>13. ASSUME Destroyed
       PROVE  Types' /\ Cursors'
  <2>1. answers' \in [Calls \cup {StartCall} -> Seq({"ok", "failed"})]
    BY <1>13, AnswerIsTyped DEF Destroyed
  <2>8. Flags'
    BY <1>13 DEF Destroyed, Goto, backend, world, limits
  <2>9. Data' /\ Cursors'
    BY <1>13, <2>1 DEF Destroyed, Goto, backend, world, limits
  <2> QED
    BY <2>8, <2>9
<1> QED
  BY <1>1, <1>2, <1>3, <1>4, <1>5, <1>6, <1>7, <1>8, <1>9, <1>10, <1>11, <1>12, <1>13,
     <1>14, <1>15
     DEF Next, StartStep, PumpStep, CoreStep

(***************************************************************************)
(* How the steps change the slots                                          *)
(***************************************************************************)
LEMMA SlotsAfterTake ==
  ASSUME Types, NEW i \in Slots, NEW c \in Calls, NEW a \in Signals, Takes(i, c, a)
  PROVE  /\ slot'[i].call = c /\ slot'[i].action = a /\ Active(i)'
         /\ \A j \in Slots : j # i => slot'[j] = slot[j] /\ (Active(j)' <=> Active(j))
  BY CallsApart DEF Takes, Types, Data, Active, Free

LEMMA SlotsAfterCore ==
  ASSUME Types, NEW i \in Slots, NEW ok \in BOOLEAN, OnCoreLifecycle(i, ok)
  PROVE  \A j \in Slots : /\ slot'[j].call = slot[j].call /\ slot'[j].action = slot[j].action
                          /\ Active(j)' <=> Active(j)
PROOF
<1>1. slot[i] \in Controls /\ slot[i].call # NoCall
  BY SlotShape DEF OnCoreLifecycle
<1>2. slot' = [slot EXCEPT ![i] = [slot[i] EXCEPT !.ready = TRUE, !.ok = ok]]
  BY <1>1 DEF OnCoreLifecycle, Controls
<1>3. /\ slot'[i].call = slot[i].call /\ slot'[i].action = slot[i].action
      /\ \A j \in Slots : j # i => slot'[j] = slot[j]
  BY <1>1, <1>2 DEF Types, Data, Controls
<1>4. Active(i) /\ Active(i)'
  <2>1. Free.call = NoCall
    BY DEF Free
  <2> QED
    BY <1>1, <1>3, <2>1 DEF Active
<1> QED
  BY <1>3, <1>4 DEF Active

LEMMA SlotsAfterCompletion ==
  ASSUME Types, SlotCompletes
  PROVE  /\ \A j \in Slots : Active(j)' => Active(j) /\ slot'[j] = slot[j]
         /\ ~slot[cursor].ready => UNCHANGED slot
         /\ slot[cursor].ready =>
              /\ cursor \in Slots /\ Active(cursor) /\ slot'[cursor] = Free
              /\ slot[cursor].call \in Calls
              /\ \A j \in Slots : j # cursor => slot'[j] = slot[j] /\ (Active(j)' <=> Active(j))
PROOF
<1>1. cursor \in Slots
  BY DEF SlotCompletes
<1>2. CASE ~slot[cursor].ready
  BY <1>1, <1>2 DEF SlotCompletes, Active
<1>3. CASE slot[cursor].ready
  <2>1. Active(cursor) /\ slot[cursor].call \in Calls
    BY <1>1, <1>3, SlotShape
  <2>2. slot' = [slot EXCEPT ![cursor] = Free]
    BY <1>3 DEF SlotCompletes
  <2>3. slot'[cursor] = Free /\ \A j \in Slots : j # cursor => slot'[j] = slot[j]
    BY <1>1, <2>2 DEF Types, Data
  <2> QED
    BY <1>1, <1>3, <2>1, <2>3 DEF Active
<1> QED
  BY <1>2, <1>3

(***************************************************************************)
(* Phases and closing                                                      *)
(***************************************************************************)
(* A control is taken only before a teardown has begun.                    *)
LEMMA TakesKeepsPhases ==
  ASSUME Types, Phases, Closing, NEW i \in Slots, NEW c \in Calls, NEW a \in Signals,
         Takes(i, c, a),
         UNCHANGED <<flags, startOwed, startReady, backend, world>>,
         inbox' = inbox \/ inbox' = Tail(inbox), at' = at
  PROVE  Phases' /\ Closing'
PROOF
<1>1. hostState' \in {"Running", "Destroying"} /\ hostState \in {"Running", "Starting"}
  BY DEF Takes
<1>2. ~teardownStarted /\ at \notin Late /\ ~(stopBegun \/ prepared \/ lifecycle = "Stopping")
      /\ lifecycle = "Running"
  BY <1>1 DEF Phases, Closing, Types, Data, Late
<1>3. Phases'
  <2>1. startPending => hostState' = "Destroying"
    BY <1>1 DEF Takes, Phases
  <2> QED
    BY <1>1, <1>2, <2>1 DEF Phases, flags, backend
<1>4. Closing'
  BY <1>1, <1>2 DEF Closing, flags, backend, Late
<1> QED
  BY <1>3, <1>4

LEMMA InitPhases ==
  ASSUME Init
  PROVE  Phases /\ Closing
  BY DEF Init, Phases, Closing, CallbacksPending, Active, Late

LEMMA StepKeepsPhases ==
  ASSUME Types, Phases, Closing, Apart, Next
  PROVE  Phases' /\ Closing'
PROOF
<1>0. ASSUME UNCHANGED slot
      PROVE  \A i \in Slots : Active(i)' <=> Active(i)
  BY <1>0 DEF Active
<1>1. ASSUME Start
      PROVE  Phases' /\ Closing'
  <2>1. Phases'
    BY <1>0, <1>1 DEF Phases, Start, Goto, control, flags, backend, world, limits
  <2>2. Closing'
    BY <1>0, <1>1 DEF Phases, Closing, CallbacksPending, Late, Start, Goto, control, flags, backend,
         world, limits
  <2> QED
    BY <2>1, <2>2
<1>2. ASSUME StartOpens \/ StartOpenFails
      PROVE  Phases' /\ Closing'
  <2>1. Phases'
    BY <1>0, <1>2 DEF Phases, StartOpens, StartOpenFails, Goto, control, flags, backend, world
  <2>2. Closing'
    BY <1>0, <1>2 DEF Phases, Closing, CallbacksPending, Late, StartOpens, StartOpenFails, Goto,
         control, flags, backend, world
  <2> QED
    BY <2>1, <2>2
<1>22. ASSUME BindFails \/ OpenUndone
       PROVE  Phases' /\ Closing'
  <2>1. hostState = "New" /\ CloseUnopened
    BY <1>22 DEF BindFails, OpenUndone, Phases
  <2>2. Phases'
    BY <1>0, <2>1 DEF Phases, CloseUnopened, Goto, flags, world
  <2>3. Closing'
    BY <1>0, <2>1 DEF Phases, Closing, CallbacksPending, Late, CloseUnopened, Goto, flags, world
  <2> QED
    BY <2>2, <2>3
<1>23. ASSUME CancelTask
       PROVE  Phases' /\ Closing'
  <2>1. Phases'
    BY <1>0, <1>23 DEF Phases, CancelTask, control, flags, backend, world
  <2>2. Closing'
    BY <1>0, <1>23 DEF Phases, Closing, CallbacksPending, Late, CancelTask, control, flags,
         backend, world
  <2> QED
    BY <2>1, <2>2
<1>3. ASSUME NEW source \in {"none", "open"}, StartFails(source)
      PROVE  Phases' /\ Closing'
  <2>1. Phases'
    BY <1>0, <1>3 DEF Phases, StartFails, Goto, control, flags, backend, world, limits
  <2>2. Closing'
    BY <1>0, <1>3 DEF Phases, Closing, CallbacksPending, Late, StartFails, Goto, control, flags,
         backend, world, limits
  <2> QED
    BY <2>1, <2>2
<1>4. ASSUME NEW c \in Calls, NEW a \in Signals, Control(c, a)
      PROVE  Phases' /\ Closing'
  <2>1. CASE UNCHANGED control
    <3>1. Phases'
      BY <1>0, <1>4, <2>1 DEF Phases, Control, control, flags, backend, world
    <3>2. Closing'
      BY <1>0, <1>4, <2>1 DEF Closing, CallbacksPending, Late, Control, control, flags, backend,
                              world
    <3> QED
      BY <3>1, <3>2
  <2>2. CASE \E i \in Slots : Takes(i, c, a)
    BY <1>4, <2>2, TakesKeepsPhases DEF Control
  <2> QED
    BY <1>4, <2>1, <2>2, BeginControlTakesOneSlot DEF Control
<1>5. ASSUME NEW c \in Calls, NEW signal \in Signals, Post(c, signal)
      PROVE  Phases' /\ Closing'
  <2>1. Phases'
    BY <1>0, <1>5 DEF Phases, Post, control, flags, backend, world, limits
  <2>2. Closing'
    BY <1>0, <1>5 DEF Phases, Closing, CallbacksPending, Late, Post, control, flags, backend,
         world, limits
  <2> QED
    BY <2>1, <2>2
<1>6. ASSUME RunTask
      PROVE  Phases' /\ Closing'
  <2>1. /\ Head(inbox).call \in Calls /\ Head(inbox).signal \in Signals
        /\ inbox # <<>> /\ inbox' = Tail(inbox)
    <3>1. inbox # <<>> /\ inbox' = Tail(inbox) /\ inbox \in Seq([call : Calls, signal : Signals])
      BY <1>6 DEF RunTask, Types, Data
    <3>2. Head(inbox) \in [call : Calls, signal : Signals]
      BY <3>1, TakingTheHead
    <3> QED
      BY <3>1, <3>2
  <2>2. CASE UNCHANGED control
    <3>1. Phases'
      BY <1>0, <1>6, <2>1, <2>2 DEF Phases, RunTask, control, flags, backend, world
    <3>2. Closing'
      BY <1>0, <1>6, <2>1, <2>2 DEF Closing, CallbacksPending, Late, RunTask, control, flags,
                                    backend, world
    <3> QED
      BY <3>1, <3>2
  <2>3. CASE \E i \in Slots : Takes(i, Head(inbox).call, Head(inbox).signal)
    BY <1>6, <2>1, <2>3, TakesKeepsPhases DEF RunTask
  <2> QED
    BY <1>6, <2>2, <2>3, RunTaskOutcomes
<1>7. ASSUME NEW r \in {"presented", "unpresented", "failed"}, OnCoreStart(r)
      PROVE  Phases' /\ Closing'
  <2>1. Phases'
    BY <1>0, <1>7 DEF Phases, OnCoreStart, control, flags, backend, world, limits
  <2>2. Closing'
    BY <1>0, <1>7 DEF Phases, Closing, CallbacksPending, Late, OnCoreStart, control, flags,
         backend, world, limits
  <2> QED
    BY <2>1, <2>2
<1>8. ASSUME NEW i \in Slots, NEW ok \in BOOLEAN, OnCoreLifecycle(i, ok)
      PROVE  Phases' /\ Closing'
  <2>1. Phases'
    BY <1>8, SlotsAfterCore DEF Phases, OnCoreLifecycle, control, flags, backend, world, limits
  <2>2. Closing'
    BY <1>8, SlotsAfterCore DEF Phases, Closing, CallbacksPending, Late, OnCoreLifecycle,
         control, flags, backend, world, limits
  <2> QED
    BY <2>1, <2>2
<1>9. ASSUME PumpOnce
      PROVE  Phases' /\ Closing'
  <2>1. Phases'
    BY <1>0, <1>9 DEF Phases, PumpOnce, Goto, control, flags, backend, world, limits
  <2>2. Closing'
    BY <1>0, <1>9 DEF Phases, Closing, CallbacksPending, Late, PumpOnce, Goto, control, flags,
         backend, world, limits
  <2> QED
    BY <2>1, <2>2
<1>10. ASSUME TasksEnd
      PROVE  Phases' /\ Closing'
  <2>1. Phases'
    BY <1>0, <1>10 DEF Phases, TasksEnd, Goto, control, flags, backend, world, limits
  <2>2. Closing'
    BY <1>0, <1>10 DEF Phases, Closing, CallbacksPending, Late, TasksEnd, Goto, control, flags,
         backend, world, limits
  <2> QED
    BY <2>1, <2>2
<1>11. ASSUME StartCompletes
      PROVE  Phases' /\ Closing'
  <2>1. CASE ~startReady
    <3>1. Phases'
      BY <1>0, <1>11, <2>1 DEF Phases, StartCompletes, backend, world
    <3>2. Closing'
      BY <1>0, <1>11, <2>1 DEF Closing, CallbacksPending, Late, StartCompletes, backend, world
    <3> QED
      BY <3>1, <3>2
  <2>2. CASE startReady
    <3>1. /\ hostState \in {"Starting", "Destroying"} /\ startPending /\ at \notin Late
          /\ ~(stopBegun \/ prepared \/ lifecycle = "Stopping" \/ lifecycle = "Closed")
      BY <1>11, <2>2 DEF Phases, Closing, CallbacksPending, Late, StartCompletes
    <3>2. /\ UNCHANGED <<slot, destroyCall, stopBegun, inbox, world, backend>>
          /\ startPending' = FALSE /\ startReady' = FALSE /\ at' = "slots"
          /\ hostState' \in {"Running", "Failed", "Destroying"}
          /\ teardownStarted' => teardownStarted \/ hostState' = "Failed"
          /\ teardownStarted => hostState' \in {"Destroying", "Failed"}
          /\ hostState = "Destroying" => hostState' = "Destroying"
      BY <1>11, <2>2, <3>1 DEF StartCompletes, Presented, Phases
    <3>3. Phases'
      BY <1>0, <3>1, <3>2 DEF Phases, backend, world
    <3>4. Closing'
      BY <1>0, <3>1, <3>2 DEF Closing, CallbacksPending, Late, backend, world
    <3> QED
      BY <3>3, <3>4
  <2> QED
    BY <2>1, <2>2 DEF Types, Flags
<1>12. ASSUME SlotCompletes
      PROVE  Phases' /\ Closing'
  <2>1. teardownStarted' => hostState \in {"Destroying", "Failed"}
    <3>1. CASE UNCHANGED teardownStarted
      BY <3>1 DEF Phases
    <3>2. CASE slot[cursor].ready /\ slot[cursor].action = "shutdown"
      <4>1. cursor \in Slots /\ Active(cursor) /\ slot[cursor].call # NoCall
        BY <1>12, <3>2, SlotsAfterCompletion, CallsApart
      <4> QED
        BY <3>2, <4>1 DEF Apart
    <3> QED
      BY <1>12, <3>1, <3>2 DEF SlotCompletes
  <2>2. /\ at \notin Late /\ lifecycle # "Closed" /\ hostState \notin {"New", "Destroyed"}
        /\ UNCHANGED <<hostState, startOwed, startPending, stopBegun, startReady, inbox, world,
                       backend, at>>
        /\ teardownStarted => teardownStarted'
    BY <1>12 DEF SlotCompletes, Late, Phases, Closing
  <2>3. \A j \in Slots : Active(j)' => Active(j)
    BY <1>12, SlotsAfterCompletion
  <2>4. Phases'
    BY <2>1, <2>2, <2>3 DEF Phases, backend, world
  <2>5. Closing'
    BY <2>2, <2>3 DEF Closing, CallbacksPending, backend, world
  <2> QED
    BY <2>4, <2>5
<1>13. ASSUME SlotsEnd
      PROVE  Phases' /\ Closing'
  <2>1. Phases'
    BY <1>0, <1>13 DEF Phases, SlotsEnd, Goto, control, flags, backend, world, limits
  <2>2. Closing'
    BY <1>0, <1>13 DEF Phases, Closing, CallbacksPending, Late, SlotsEnd, Goto, control, flags,
         backend, world, limits
  <2> QED
    BY <2>1, <2>2
<1>14. ASSUME NoTeardown
      PROVE  Phases' /\ Closing'
  <2>1. Phases'
    BY <1>0, <1>14 DEF Phases, NoTeardown, Goto, control, flags, backend, world, limits
  <2>2. Closing'
    BY <1>0, <1>14 DEF Phases, Closing, CallbacksPending, Late, NoTeardown, Goto, control, flags,
         backend, world, limits
  <2> QED
    BY <2>1, <2>2
<1>15. ASSUME BeginStop
      PROVE  Phases' /\ Closing'
  <2>1. Phases'
    BY <1>0, <1>15 DEF Phases, BeginStop, Goto, control, flags, backend, world, limits
  <2>2. Closing'
    BY <1>0, <1>15 DEF Phases, Closing, CallbacksPending, Late, BeginStop, Goto, control, flags,
         backend, world, limits
  <2> QED
    BY <2>1, <2>2
<1>16. ASSUME StopInterrupted
      PROVE  Phases' /\ Closing'
  <2>1. Phases'
    BY <1>0, <1>16 DEF Phases, StopInterrupted, Goto, control, flags, backend, world, limits
  <2>2. Closing'
    BY <1>0, <1>16 DEF Phases, Closing, CallbacksPending, Late, StopInterrupted, Goto, control,
         flags, backend, world, limits
  <2> QED
    BY <2>1, <2>2
<1>17. ASSUME Destroyed
      PROVE  Phases' /\ Closing'
  <2>1. Phases'
    BY <1>0, <1>17 DEF Phases, Closing, CallbacksPending, Late, Destroyed, Goto, control, flags,
         backend, world, limits
  <2>2. Closing'
    BY <1>0, <1>17 DEF Phases, Closing, CallbacksPending, Late, Destroyed, Goto, control, flags,
         backend, world, limits
  <2> QED
    BY <2>1, <2>2
<1>18. ASSUME NEW ok \in BOOLEAN, StopServices(ok)
      PROVE  Phases' /\ Closing'
  <2>1. Phases'
    BY <1>0, <1>18 DEF Phases, StopServices, MayTearDown, Goto, control, flags, backend, world,
         limits
  <2>2. Closing'
    BY <1>0, <1>18 DEF Phases, Closing, CallbacksPending, Late, StopServices, MayTearDown, Goto,
         control, flags, backend, world, limits
  <2> QED
    BY <2>1, <2>2
<1>19. ASSUME NEW ok \in BOOLEAN, ClosePackage(ok)
      PROVE  Phases' /\ Closing'
  <2>1. Phases'
    BY <1>0, <1>19 DEF Phases, ClosePackage, Goto, control, flags, backend, world, limits
  <2>2. Closing'
    BY <1>0, <1>19 DEF Phases, Closing, CallbacksPending, Late, ClosePackage, Goto, control,
         flags, backend, world, limits
  <2> QED
    BY <2>1, <2>2
<1>20. ASSUME NEW ok \in BOOLEAN, StopPrepared(ok)
      PROVE  Phases' /\ Closing'
  <2>1. Phases'
    BY <1>0, <1>20 DEF Phases, StopPrepared, Goto, control, flags, backend, world, limits
  <2>2. Closing'
    BY <1>0, <1>20 DEF Phases, Closing, CallbacksPending, Late, StopPrepared, Goto, control,
         flags, backend, world, limits
  <2> QED
    BY <2>1, <2>2
<1>21. ASSUME NEW ok \in BOOLEAN, FinishStop(ok)
      PROVE  Phases' /\ Closing'
  <2>1. Phases'
    BY <1>0, <1>21 DEF Phases, FinishStop, Goto, control, flags, backend, world, limits
  <2>2. Closing'
    BY <1>0, <1>21 DEF Phases, Closing, CallbacksPending, Late, FinishStop, Goto, control, flags,
         backend, world, limits
  <2> QED
    BY <2>1, <2>2
<1> QED
  BY <1>1, <1>2, <1>3, <1>4, <1>5, <1>6, <1>7, <1>8, <1>9, <1>10, <1>11, <1>12, <1>13, <1>14,
       <1>15, <1>16, <1>17, <1>18, <1>19, <1>20, <1>21, <1>22, <1>23
     DEF Next, StartStep, PumpStep, CoreStep

(***************************************************************************)
(* Every call is somewhere                                                 *)
(***************************************************************************)
LEMMA InboxAfterPost ==
  ASSUME Types, Apart, NEW c \in Calls, NEW a \in Signals, ~InInbox(c),
         inbox' = Append(inbox, [call |-> c, signal |-> a])
  PROVE  /\ \A d : InInbox(d)' <=> InInbox(d) \/ d = c
         /\ \A k, l \in 1..Len(inbox') : inbox'[k].call = inbox'[l].call => k = l
PROOF
<1>1. inbox \in Seq([call : Calls, signal : Signals])
  BY DEF Types, Data
<1>2. /\ Len(inbox') = Len(inbox) + 1 /\ Len(inbox) \in Nat
      /\ \A k \in 1..Len(inbox) : inbox'[k] = inbox[k]
      /\ inbox'[Len(inbox) + 1].call = c
  BY <1>1
<1>3. \A k \in 1..Len(inbox') : k \in 1..Len(inbox) \/ k = Len(inbox) + 1
  BY <1>2
<1>4. \A k \in 1..Len(inbox) : k \in 1..Len(inbox') /\ inbox[k].call # c
  BY <1>2 DEF InInbox
<1>5. Len(inbox) + 1 \in 1..Len(inbox')
  BY <1>2
<1>6. ASSUME NEW d
      PROVE  InInbox(d)' <=> InInbox(d) \/ d = c
  BY <1>2, <1>3, <1>4, <1>5 DEF InInbox
<1>7. ASSUME NEW k \in 1..Len(inbox'), NEW l \in 1..Len(inbox'), inbox'[k].call = inbox'[l].call
      PROVE  k = l
  BY <1>2, <1>3, <1>4, <1>7 DEF Apart
<1> QED
  BY <1>6, <1>7

LEMMA InboxAfterRun ==
  ASSUME Types, Apart, inbox # <<>>, inbox' = Tail(inbox)
  PROVE  /\ Head(inbox).call \in Calls /\ Head(inbox).signal \in Signals
         /\ InInbox(Head(inbox).call)
         /\ \A d : InInbox(d)' <=> InInbox(d) /\ d # Head(inbox).call
         /\ \A k, l \in 1..Len(inbox') : inbox'[k].call = inbox'[l].call => k = l
PROOF
<1>1. inbox \in Seq([call : Calls, signal : Signals])
  BY DEF Types, Data
<1>2. /\ Head(inbox) \in [call : Calls, signal : Signals]
      /\ Head(inbox) = inbox[1] /\ 1 \in 1..Len(inbox)
      /\ \A k \in 1..Len(inbox') : inbox'[k] = inbox[k + 1] /\ k + 1 \in 1..Len(inbox)
      /\ \A k \in 1..Len(inbox) : k # 1 => k - 1 \in 1..Len(inbox') /\ inbox'[k - 1] = inbox[k]
  BY <1>1, TakingTheHead
<1>3. ASSUME NEW k \in 1..Len(inbox')
      PROVE  inbox'[k].call = inbox[k + 1].call /\ inbox[k + 1].call # Head(inbox).call
             /\ k + 1 \in 1..Len(inbox)
  BY <1>2 DEF Apart
<1>4. ASSUME NEW d
      PROVE  InInbox(d)' <=> InInbox(d) /\ d # Head(inbox).call
  <2>1. ASSUME InInbox(d)' PROVE InInbox(d) /\ d # Head(inbox).call
    BY <1>3, <2>1 DEF InInbox
  <2>2. ASSUME InInbox(d), d # Head(inbox).call PROVE InInbox(d)'
    <3>1. PICK k \in 1..Len(inbox) : inbox[k].call = d
      BY <2>2 DEF InInbox
    <3>2. k # 1
      BY <1>2, <2>2, <3>1
    <3> QED
      BY <1>2, <3>1, <3>2 DEF InInbox
  <2> QED
    BY <2>1, <2>2
<1>5. ASSUME NEW k \in 1..Len(inbox'), NEW l \in 1..Len(inbox'), inbox'[k].call = inbox'[l].call
      PROVE  k = l
  <2>1. k + 1 = l + 1
    BY <1>3, <1>5 DEF Apart
  <2> QED
    BY <2>1
<1> QED
  BY <1>2, <1>4, <1>5 DEF InInbox

(* A step that moves no call.                                              *)
LEMMA NothingMoves ==
  ASSUME Types, Unanswered, Apart,
         UNCHANGED <<status, answers, inbox, destroyCall, startOwed>>,
         \A i \in Slots : /\ slot'[i].call = slot[i].call /\ slot'[i].action = slot[i].action
                          /\ Active(i)' <=> Active(i),
         hostState' # "New" \/ hostState = "New",
         destroyCall # NoCall => hostState' = "Destroying"
  PROVE  Unanswered' /\ Apart'
PROOF
<1>1. \A c : (Owed(c)' <=> Owed(c)) /\ (InInbox(c)' <=> InInbox(c))
  BY DEF Owed, InSlot, InInbox
<1>2. Unanswered'
  BY <1>1 DEF Unanswered, StartIsSomewhere, CallIsSomewhere
<1>3. Apart'
  BY DEF Apart
<1> QED
  BY <1>2, <1>3

(* A call that was unused, or has just left the queue, moves into a slot.  *)
LEMMA CallMovesToSlot ==
  ASSUME Types, Phases, Unanswered, Apart, NEW i \in Slots, NEW c \in Calls, NEW a \in Signals,
         Takes(i, c, a), status[c] \in {"unused", "posted"}, Mark(c, "accepted"),
         UNCHANGED <<answers, startOwed>>,
         \A d : InInbox(d)' <=> InInbox(d) /\ d # c,
         \A k, l \in 1..Len(inbox') : inbox'[k].call = inbox'[l].call => k = l
  PROVE  Unanswered' /\ Apart'
PROOF
<1>1. /\ slot'[i].call = c /\ slot'[i].action = a /\ Active(i)'
      /\ \A j \in Slots : j # i => slot'[j] = slot[j] /\ (Active(j)' <=> Active(j))
      /\ ~Active(i)
  BY SlotsAfterTake DEF Takes
<1>2. /\ destroyCall = NoCall /\ c # NoCall /\ c # StartCall
      /\ destroyCall' = IF a = "shutdown" THEN c ELSE NoCall
      /\ hostState' # "New"
      /\ destroyCall' # NoCall => hostState' = "Destroying"
  BY CallsApart DEF Takes, Apart
<1>3. /\ status'[c] = "accepted" /\ \A d \in Calls \cup {StartCall} : d # c => status'[d] = status[d]
  BY DEF Mark, Types, Data
<1>4. /\ InSlot(c)' /\ ~InSlot(c)
      /\ \A d \in Calls : d # c => (InSlot(d)' <=> InSlot(d))
      /\ \A d \in Calls : destroyCall # d /\ (d # c => destroyCall' # d)
  BY <1>1, <1>2, CallsApart DEF InSlot, Unanswered, CallIsSomewhere, Owed
<1>5. ASSUME NEW d \in Calls
      PROVE  CallIsSomewhere(d)'
  BY <1>3, <1>4 DEF Unanswered, CallIsSomewhere, Owed
<1>6. StartIsSomewhere'
  BY <1>2, <1>3 DEF Unanswered, StartIsSomewhere
<1>7. Apart'
  <2>1. \A j \in Slots : Active(j) => slot[j].call # c /\ slot[j].action # "shutdown"
    BY <1>2, <1>4, SlotShape, CallsApart DEF Apart, InSlot
  <2>2. \A j, k \in Slots : Active(j)' /\ Active(k)' /\ slot'[j].call = slot'[k].call => j = k
    BY <1>1, <2>1 DEF Apart
  <2>3. \A j \in Slots : Active(j)' => (slot'[j].action = "shutdown" <=> slot'[j].call = destroyCall')
    BY <1>1, <1>2, <2>1, SlotShape
  <2> QED
    BY <1>2, <2>2, <2>3 DEF Apart
<1> QED
  BY <1>5, <1>6, <1>7 DEF Unanswered

(* A call leaves the queue with its answer.                                *)
LEMMA CallIsAnsweredAtOnce ==
  ASSUME Types, Unanswered, Apart, NEW c \in Calls, NEW r \in {"ok", "failed"},
         status[c] = "posted", Mark(c, "accepted"), Answer({c}, r),
         UNCHANGED <<slot, destroyCall, hostState, startOwed>>,
         \A d : InInbox(d)' <=> InInbox(d) /\ d # c,
         \A k, l \in 1..Len(inbox') : inbox'[k].call = inbox'[l].call => k = l
  PROVE  Unanswered' /\ Apart'
PROOF
<1>1. /\ status'[c] = "accepted" /\ \A d \in Calls \cup {StartCall} : d # c => status'[d] = status[d]
  BY DEF Mark, Types, Data
<1>2. /\ Len(answers'[c]) = 1 /\ answers'[c] # <<>>
      /\ \A d \in Calls \cup {StartCall} : d # c => answers'[d] = answers[d]
  <2>1. answers[c] = <<>>
    BY DEF Unanswered, CallIsSomewhere
  <2> QED
    BY <2>1, AnswerIsTyped
<1>3. \A d : (Owed(d)' <=> Owed(d))
  BY DEF Owed, InSlot, Active
<1>4. ASSUME NEW d \in Calls
      PROVE  CallIsSomewhere(d)'
  <2>1. CASE d = c
    <3>1. ~Owed(d)' /\ ~InInbox(d)'
      BY <1>3, <2>1 DEF Unanswered, CallIsSomewhere
    <3>2. status'[d] = "accepted" /\ Len(answers'[d]) = 1 /\ answers'[d] # <<>>
      BY <1>1, <1>2, <2>1
    <3> QED
      BY <3>1, <3>2 DEF CallIsSomewhere
  <2>2. CASE d # c
    BY <1>1, <1>2, <1>3, <2>2 DEF Unanswered, CallIsSomewhere
  <2> QED
    BY <2>1, <2>2
<1>5. StartIsSomewhere'
  BY <1>1, <1>2, CallsApart DEF Unanswered, StartIsSomewhere
<1>6. Apart'
  BY DEF Apart, Active
<1> QED
  BY <1>4, <1>5, <1>6 DEF Unanswered

(* A call that was unused is refused, or waits in the queue.               *)
LEMMA CallIsMarked ==
  ASSUME Types, Unanswered, Apart, NEW c \in Calls, status[c] = "unused",
         \/ Mark(c, "refused") /\ UNCHANGED inbox
         \/ Mark(c, "posted") /\ \E a \in Signals : inbox' = Append(inbox, [call |-> c, signal |-> a]),
         UNCHANGED <<slot, destroyCall, hostState, startOwed, answers>>
  PROVE  Unanswered' /\ Apart'
PROOF
<1>1. ~InInbox(c)
  BY DEF Unanswered, CallIsSomewhere
<1>2. /\ \A d : d # c => (InInbox(d)' <=> InInbox(d))
      /\ InInbox(c)' <=> status'[c] = "posted"
      /\ \A k, l \in 1..Len(inbox') : inbox'[k].call = inbox'[l].call => k = l
  <2>1. CASE Mark(c, "refused") /\ UNCHANGED inbox
    BY <1>1, <2>1 DEF InInbox, Apart, Mark, Types, Data
  <2>2. CASE Mark(c, "posted") /\ \E a \in Signals : inbox' = Append(inbox, [call |-> c, signal |-> a])
    BY <1>1, <2>2, InboxAfterPost DEF Mark, Types, Data
  <2> QED
    BY <2>1, <2>2
<1>3. /\ status'[c] \in {"refused", "posted"}
      /\ \A d \in Calls \cup {StartCall} : d # c => status'[d] = status[d]
  BY DEF Mark, Types, Data
<1>4. \A d : (Owed(d)' <=> Owed(d))
  BY DEF Owed, InSlot, Active
<1>5. ASSUME NEW d \in Calls
      PROVE  CallIsSomewhere(d)'
  BY <1>2, <1>3, <1>4 DEF Unanswered, CallIsSomewhere
<1>6. StartIsSomewhere'
  BY <1>3, CallsApart DEF Unanswered, StartIsSomewhere
<1>7. Apart'
  BY <1>2 DEF Apart, Active
<1> QED
  BY <1>5, <1>6, <1>7 DEF Unanswered

(* A call leaves the queue without an answer.                              *)
LEMMA CallIsCancelled ==
  ASSUME Types, Unanswered, Apart, CancelTask
  PROVE  Unanswered' /\ Apart'
PROOF
<1> DEFINE c == Head(inbox).call
<1>1. /\ inbox # <<>> /\ inbox' = Tail(inbox) /\ Mark(c, "cancelled")
      /\ UNCHANGED <<slot, destroyCall, hostState, startOwed, answers>>
  BY DEF CancelTask, control
<1>2. /\ c \in Calls /\ status[c] = "posted"
      /\ \A d : InInbox(d)' <=> InInbox(d) /\ d # c
      /\ \A k, l \in 1..Len(inbox') : inbox'[k].call = inbox'[l].call => k = l
  BY <1>1, InboxAfterRun DEF Unanswered, CallIsSomewhere
<1>3. /\ status'[c] = "cancelled"
      /\ \A d \in Calls \cup {StartCall} : d # c => status'[d] = status[d]
  BY <1>1, <1>2 DEF Mark, Types, Data
<1>4. \A d : (Owed(d)' <=> Owed(d))
  BY <1>1 DEF Owed, InSlot, Active
<1>5. ASSUME NEW d \in Calls
      PROVE  CallIsSomewhere(d)'
  BY <1>1, <1>2, <1>3, <1>4 DEF Unanswered, CallIsSomewhere
<1>6. StartIsSomewhere'
  BY <1>1, <1>2, <1>3, CallsApart DEF Unanswered, StartIsSomewhere
<1>7. Apart'
  BY <1>1, <1>2 DEF Apart, Active
<1> QED
  BY <1>5, <1>6, <1>7 DEF Unanswered

LEMMA InitUnanswered ==
  ASSUME Init
  PROVE  Unanswered /\ Apart
PROOF
<1>1. \A c : ~InSlot(c) /\ ~InInbox(c)
  BY DEF Init, InSlot, InInbox, Active
<1>2. \A c \in Calls \cup {StartCall} : answers[c] = <<>> /\ Len(answers[c]) = 0 /\ status[c] = "unused"
  BY DEF Init
<1>3. Unanswered
  BY <1>1, <1>2, CallsApart DEF Init, Unanswered, StartIsSomewhere, CallIsSomewhere, Owed
<1>4. Apart
  BY DEF Init, Apart, Active
<1> QED
  BY <1>3, <1>4

LEMMA SlotCompletesKeepsCalls ==
  ASSUME Types, Phases, Unanswered, Apart, SlotCompletes
  PROVE  Unanswered' /\ Apart'
PROOF
<1>0. PICK c : c = slot[cursor].call
  OBVIOUS
<1>1. CASE ~slot[cursor].ready
  BY <1>1, SlotsAfterCompletion, NothingMoves DEF SlotCompletes, Active, Apart
<1>2. CASE slot[cursor].ready
  <2>1. /\ cursor \in Slots /\ Active(cursor) /\ slot'[cursor] = Free /\ c \in Calls
        /\ \A j \in Slots : j # cursor => slot'[j] = slot[j] /\ (Active(j)' <=> Active(j))
        /\ \A j \in Slots : Active(j)' => Active(j) /\ slot'[j] = slot[j]
    BY <1>0, <1>2, SlotsAfterCompletion
  <2>2. \A j \in Slots : Active(j)' <=> Active(j) /\ j # cursor
    BY <2>1 DEF Active
  <2>3. /\ ~InSlot(c)' /\ InSlot(c)
        /\ \A d : d # c => (InSlot(d)' <=> InSlot(d))
    BY <1>0, <2>1, <2>2 DEF InSlot, Apart
  <2>4. UNCHANGED <<status, inbox, hostState, startOwed>>
    BY DEF SlotCompletes
  <2>5. \A d : InInbox(d)' <=> InInbox(d)
    BY <2>4 DEF InInbox
  <2>6. CASE slot[cursor].action = "shutdown"
    <3>1. UNCHANGED <<answers, destroyCall>> /\ destroyCall = c
      BY <1>0, <1>2, <2>1, <2>6 DEF SlotCompletes, Apart
    <3>2. \A d : Owed(d)' <=> Owed(d)
      BY <2>3, <3>1 DEF Owed
    <3>3. Unanswered'
      BY <2>4, <2>5, <3>1, <3>2 DEF Unanswered, StartIsSomewhere, CallIsSomewhere
    <3>4. Apart'
      BY <2>1, <2>2, <2>4, <3>1 DEF Apart
    <3> QED
      BY <3>3, <3>4
  <2>7. CASE slot[cursor].action # "shutdown"
    <3>1. UNCHANGED destroyCall /\ destroyCall # c /\ \E r \in {"ok", "failed"} : Answer({c}, r)
      BY <1>0, <1>2, <2>1, <2>7 DEF SlotCompletes, Apart
    <3>2. /\ Len(answers'[c]) = 1 /\ answers'[c] # <<>>
          /\ \A d \in Calls \cup {StartCall} : d # c => answers'[d] = answers[d]
      <4>1. answers[c] = <<>>
        BY <2>1, <2>3 DEF Unanswered, CallIsSomewhere, Owed
      <4> QED
        BY <2>1, <3>1, <4>1, AnswerIsTyped
    <3>3. ~Owed(c)' /\ \A d : d # c => (Owed(d)' <=> Owed(d))
      BY <2>3, <3>1 DEF Owed
    <3>4. status[c] = "accepted"
      BY <2>1, <2>3 DEF Unanswered, CallIsSomewhere, Owed, Types, Data
    <3>5. ASSUME NEW d \in Calls
          PROVE  CallIsSomewhere(d)'
      <4>1. CASE d = c
        <5>1. ~Owed(d)' /\ ~InInbox(d)'
          BY <2>5, <3>3, <3>4, <4>1 DEF Unanswered, CallIsSomewhere
        <5>2. status'[d] = "accepted" /\ Len(answers'[d]) = 1 /\ answers'[d] # <<>>
          BY <2>4, <3>2, <3>4, <4>1
        <5> QED
          BY <5>1, <5>2 DEF CallIsSomewhere
      <4>2. CASE d # c
        BY <2>4, <2>5, <3>2, <3>3, <4>2 DEF Unanswered, CallIsSomewhere
      <4> QED
        BY <4>1, <4>2
    <3>6. StartIsSomewhere'
      BY <2>1, <2>4, <3>2, CallsApart DEF Unanswered, StartIsSomewhere
    <3>7. Apart'
      BY <2>1, <2>2, <2>4, <3>1 DEF Apart
    <3> QED
      BY <3>5, <3>6, <3>7 DEF Unanswered
  <2> QED
    BY <2>6, <2>7
<1> QED
  BY <1>1, <1>2

LEMMA DestroyedKeepsCalls ==
  ASSUME Types, Phases, Closing, Unanswered, Apart, Destroyed
  PROVE  Unanswered' /\ Apart'
PROOF
<1> DEFINE owed == (IF startOwed THEN {StartCall} ELSE {}) \cup ({destroyCall} \ {NoCall})
<1>1. \A i \in Slots : ~Active(i) /\ ~Active(i)'
  BY DEF Destroyed, Closing, CallbacksPending, Late, Active
<1>2. /\ UNCHANGED <<status, inbox, slot>> /\ startOwed' = FALSE /\ destroyCall' = NoCall
      /\ hostState' = "Destroyed" /\ Answer(owed, teardownResult)
  BY DEF Destroyed
<1>3. \A d \in Calls : ~Owed(d)' /\ (Owed(d) <=> d = destroyCall)
  BY <1>1, <1>2, CallsApart DEF Owed, InSlot
<1>4. teardownResult \in {"ok", "failed"} /\ destroyCall \in Calls \cup {NoCall}
  BY DEF Types, Data
<1>5. \A d \in Calls \cup {StartCall} :
        /\ d \notin owed => answers'[d] = answers[d]
        /\ d \in owed => answers'[d] # <<>> /\ (answers[d] = <<>> => Len(answers'[d]) = 1)
  BY <1>2, <1>4, AnswerIsTyped
<1>6. ASSUME NEW d \in Calls
      PROVE  CallIsSomewhere(d)'
  <2>1. InInbox(d)' <=> InInbox(d)
    BY <1>2 DEF InInbox
  <2>2. CASE d = destroyCall
    <3>1. answers[d] = <<>> /\ status[d] = "accepted" /\ ~InInbox(d)
      BY <1>3, <2>2 DEF Unanswered, CallIsSomewhere, Types, Data
    <3>2. d \in owed
      BY <2>2, CallsApart
    <3>3. answers'[d] # <<>> /\ Len(answers'[d]) = 1
      BY <1>5, <3>1, <3>2
    <3> QED
      BY <1>2, <1>3, <2>1, <3>1, <3>3 DEF CallIsSomewhere
  <2>3. CASE d # destroyCall
    <3>1. d \notin owed
      BY <2>3, CallsApart
    <3> QED
      BY <1>2, <1>3, <1>5, <2>1, <2>3, <3>1 DEF Unanswered, CallIsSomewhere
  <2> QED
    BY <2>2, <2>3
<1>7. StartIsSomewhere'
  <2>1. StartCall \in owed <=> startOwed
    BY <1>4, CallsApart
  <2>2. CASE startOwed
    <3>1. status[StartCall] = "accepted" /\ answers[StartCall] = <<>>
      BY <2>2 DEF Unanswered, StartIsSomewhere
    <3>2. answers'[StartCall] # <<>> /\ Len(answers'[StartCall]) = 1
      BY <1>5, <2>1, <2>2, <3>1
    <3> QED
      BY <1>2, <3>1, <3>2 DEF StartIsSomewhere
  <2>3. CASE ~startOwed
    BY <1>2, <1>5, <2>1, <2>3 DEF Unanswered, StartIsSomewhere
  <2> QED
    BY <2>2, <2>3
<1>8. Apart'
  BY <1>1, <1>2 DEF Apart
<1> QED
  BY <1>6, <1>7, <1>8 DEF Unanswered

LEMMA StartKeepsCalls ==
  ASSUME Types, Phases, Unanswered, Apart,
         Start \/ BindFails \/ OpenUndone \/ \E source \in {"none", "open"} : StartFails(source)
  PROVE  Unanswered' /\ Apart'
PROOF
<1>1. /\ UNCHANGED <<slot, inbox, destroyCall, answers>> /\ hostState = "New" /\ hostState' # "New"
      /\ \/ Mark(StartCall, "accepted") /\ startOwed' = TRUE
         \/ Mark(StartCall, "refused") /\ UNCHANGED startOwed
  BY DEF Phases, Start, BindFails, OpenUndone, CloseUnopened, StartFails
<1>2. status[StartCall] = "unused" /\ destroyCall = NoCall
  BY <1>1 DEF Unanswered, StartIsSomewhere, Apart
<1>3. /\ \A d \in Calls : status'[d] = status[d]
      /\ \/ status'[StartCall] = "accepted" /\ startOwed' = TRUE
         \/ status'[StartCall] = "refused" /\ UNCHANGED startOwed
  BY <1>1, CallsApart DEF Mark, Types, Data
<1>4. \A d : (Owed(d)' <=> Owed(d)) /\ (InInbox(d)' <=> InInbox(d))
  BY <1>1 DEF Owed, InSlot, InInbox, Active
<1>5. ASSUME NEW d \in Calls
      PROVE  CallIsSomewhere(d)'
  BY <1>1, <1>3, <1>4 DEF Unanswered, CallIsSomewhere
<1>6. StartIsSomewhere'
  BY <1>1, <1>2, <1>3 DEF Unanswered, StartIsSomewhere
<1>7. Apart'
  BY <1>1, <1>2 DEF Apart, Active
<1> QED
  BY <1>5, <1>6, <1>7 DEF Unanswered

LEMMA StartCompletesKeepsCalls ==
  ASSUME Types, Phases, Unanswered, Apart, StartCompletes
  PROVE  Unanswered' /\ Apart'
PROOF
<1>1. /\ UNCHANGED <<slot, inbox, destroyCall, status>>
      /\ hostState' # "New" \/ hostState = "New"
  BY DEF StartCompletes
<1>2. hostState = "Destroying" => hostState' = "Destroying"
  BY DEF StartCompletes, Presented
<1>3. CASE UNCHANGED <<answers, startOwed>>
  BY <1>1, <1>2, <1>3, NothingMoves DEF Active, Apart
<1>4. CASE startReady /\ Presented /\ Answer({StartCall}, "ok") /\ startOwed' = FALSE
  <2>1. startPending /\ hostState = "Starting" /\ hostState' = "Running"
    BY <1>4 DEF Phases, StartCompletes, Presented
  <2>2. /\ \A d \in Calls : answers'[d] = answers[d]
        /\ answers'[StartCall] # <<>>
        /\ answers[StartCall] = <<>> => Len(answers'[StartCall]) = 1
    BY <1>4, AnswerIsTyped, CallsApart
  <2>3. startOwed
    BY <2>1 DEF Phases
  <2>4. \A d : (Owed(d)' <=> Owed(d)) /\ (InInbox(d)' <=> InInbox(d))
    BY <1>1 DEF Owed, InSlot, InInbox, Active
  <2>5. ASSUME NEW d \in Calls
        PROVE  CallIsSomewhere(d)'
    BY <1>1, <2>2, <2>4 DEF Unanswered, CallIsSomewhere
  <2>6. StartIsSomewhere'
    <3>1. status[StartCall] = "accepted" /\ answers[StartCall] = <<>>
      BY <2>3 DEF Unanswered, StartIsSomewhere
    <3>2. Len(answers'[StartCall]) = 1
      BY <2>2, <3>1
    <3> QED
      BY <1>1, <1>4, <2>1, <2>2, <3>1, <3>2 DEF StartIsSomewhere
  <2>7. Apart'
    BY <1>1, <1>2 DEF Apart, Active
  <2> QED
    BY <2>5, <2>6, <2>7 DEF Unanswered
<1> QED
  BY <1>3, <1>4 DEF StartCompletes

LEMMA StepKeepsCalls ==
  ASSUME Types, Phases, Closing, Unanswered, Apart, Next
  PROVE  Unanswered' /\ Apart'
PROOF
<1>1. ASSUME NEW c \in Calls, NEW a \in Signals, Control(c, a)
      PROVE  Unanswered' /\ Apart'
  <2>1. status[c] = "unused" /\ UNCHANGED <<answers, inbox, startOwed>>
    BY <1>1 DEF Control
  <2>2. ~InInbox(c)
    BY <2>1 DEF Unanswered, CallIsSomewhere
  <2>3. \A d : InInbox(d)' <=> InInbox(d) /\ d # c
    BY <2>1, <2>2 DEF InInbox
  <2>4. CASE Mark(c, "refused") /\ UNCHANGED control
    BY <2>1, <2>4, CallIsMarked DEF control
  <2>5. CASE Mark(c, "accepted") /\ BeginControl(c, a)
    <3>1. PICK i \in Slots : Takes(i, c, a)
      BY <2>5, BeginControlTakesOneSlot
    <3>2. \A k, l \in 1..Len(inbox') : inbox'[k].call = inbox'[l].call => k = l
      BY <2>1 DEF Apart
    <3> QED
      BY <2>1, <2>3, <2>5, <3>1, <3>2, CallMovesToSlot
  <2> QED
    BY <1>1, <2>4, <2>5 DEF Control
<1>2. ASSUME NEW c \in Calls, NEW a \in Signals, Post(c, a)
      PROVE  Unanswered' /\ Apart'
  BY <1>2, CallIsMarked DEF Post, control
<1>3. ASSUME RunTask
      PROVE  Unanswered' /\ Apart'
  <2> DEFINE c == Head(inbox).call
  <2>1. inbox # <<>> /\ inbox' = Tail(inbox) /\ Mark(c, "accepted") /\ UNCHANGED startOwed
    BY <1>3 DEF RunTask
  <2>2. /\ c \in Calls /\ Head(inbox).signal \in Signals /\ status[c] = "posted"
        /\ \A d : InInbox(d)' <=> InInbox(d) /\ d # c
        /\ \A k, l \in 1..Len(inbox') : inbox'[k].call = inbox'[l].call => k = l
    BY <2>1, InboxAfterRun DEF Unanswered, CallIsSomewhere
  <2>3. CASE \E i \in Slots : Takes(i, c, Head(inbox).signal) /\ UNCHANGED answers
    BY <2>1, <2>2, <2>3, CallMovesToSlot
  <2>4. CASE UNCHANGED control /\ \E r \in {"ok", "failed"} : Answer({c}, r)
    BY <2>1, <2>2, <2>4, CallIsAnsweredAtOnce DEF control
  <2> QED
    BY <1>3, <2>3, <2>4, RunTaskOutcomes
<1>4. ASSUME NEW i \in Slots, NEW ok \in BOOLEAN, OnCoreLifecycle(i, ok)
      PROVE  Unanswered' /\ Apart'
  <2>1. UNCHANGED <<status, answers, inbox, destroyCall, startOwed, hostState>>
    BY <1>4 DEF OnCoreLifecycle
  <2> QED
    BY <1>4, <2>1, SlotsAfterCore, NothingMoves DEF Apart
<1>5. CASE UNCHANGED <<slot, status, answers, inbox, destroyCall, startOwed, hostState>>
  BY <1>5, NothingMoves DEF Active, Apart
<1>6. \/ \E c \in Calls, a \in Signals : Control(c, a) \/ Post(c, a)
      \/ Start \/ BindFails \/ OpenUndone \/ \E source \in {"none", "open"} : StartFails(source)
      \/ CancelTask \/ RunTask \/ StartCompletes \/ SlotCompletes \/ Destroyed
      \/ \E i \in Slots, ok \in BOOLEAN : OnCoreLifecycle(i, ok)
      \/ UNCHANGED <<slot, status, answers, inbox, destroyCall, startOwed, hostState>>
  BY DEF Next, StartStep, PumpStep, CoreStep, StartOpens, StartOpenFails, PumpOnce, TasksEnd, SlotsEnd, NoTeardown, BeginStop,
         StopInterrupted, StopServices, ClosePackage, StopPrepared, FinishStop, OnCoreStart, control
<1> QED
  BY <1>1, <1>2, <1>3, <1>4, <1>5, <1>6, StartKeepsCalls, CallIsCancelled,
     StartCompletesKeepsCalls, SlotCompletesKeepsCalls, DestroyedKeepsCalls

(***************************************************************************)
(* The result of a teardown                                                *)
(***************************************************************************)
LEMMA TakesKeepsResults ==
  ASSUME Types, Phases, Results, NEW i \in Slots, NEW c \in Calls, NEW a \in Signals,
         Takes(i, c, a), UNCHANGED <<flags, failed, teardownResult>>
  PROVE  Results'
PROOF
<1>1. ~teardownStarted /\ ~failed
  BY DEF Takes, Phases, Results
<1> QED
  BY <1>1 DEF Results, flags

LEMMA StepKeepsResults ==
  ASSUME Types, Phases, Closing, Unanswered, Apart, Results, Next
  PROVE  Results'
PROOF
<1>1. ASSUME NEW c \in Calls, NEW a \in Signals, Control(c, a)
      PROVE  Results'
  <2>1. CASE UNCHANGED control
    BY <1>1, <2>1 DEF Control, control, flags, Results
  <2>2. CASE BeginControl(c, a)
    BY <1>1, <2>2, BeginControlTakesOneSlot, TakesKeepsResults DEF Control
  <2> QED
    BY <1>1, <2>1, <2>2 DEF Control
<1>2. ASSUME RunTask
      PROVE  Results'
  <2>1. Head(inbox).call \in Calls /\ Head(inbox).signal \in Signals
    BY <1>2, InboxAfterRun DEF RunTask
  <2>2. CASE UNCHANGED control
    BY <1>2, <2>2 DEF RunTask, control, flags, Results
  <2>3. CASE \E i \in Slots : Takes(i, Head(inbox).call, Head(inbox).signal)
    BY <1>2, <2>1, <2>3, TakesKeepsResults DEF RunTask
  <2> QED
    BY <1>2, <2>2, <2>3, RunTaskOutcomes
<1>3. ASSUME NEW i \in Slots, NEW ok \in BOOLEAN, OnCoreLifecycle(i, ok)
      PROVE  Results'
  <2>1. UNCHANGED <<failed, teardownStarted, teardownResult, hostState>>
    BY <1>3 DEF OnCoreLifecycle, flags
  <2> QED
    BY <1>3, <2>1, SlotsAfterCore DEF Results
<1>4. CASE Start \/ BindFails \/ OpenUndone \/ \E source \in {"none", "open"} : StartFails(source)
  <2>0. hostState = "New"
    BY <1>4 DEF Phases, Start, BindFails, OpenUndone, StartFails
  <2>1. \A i \in Slots : slot[i].action # "shutdown"
    BY <2>0, SlotShape DEF Phases
  <2>2. ~failed /\ ~teardownStarted
    BY <2>0 DEF Phases, Results
  <2>3. UNCHANGED slot
    BY <1>4 DEF Start, BindFails, OpenUndone, CloseUnopened, StartFails
  <2>4. CASE UNCHANGED <<teardownStarted, failed>>
    BY <2>1, <2>2, <2>3, <2>4 DEF Results
  <2>5. CASE teardownStarted' /\ failed' /\ teardownResult' = "failed"
    BY <2>1, <2>3, <2>5 DEF Results
  <2> QED
    BY <1>4, <2>4, <2>5 DEF Start, BindFails, OpenUndone, CloseUnopened, StartFails, flags
<1>5. CASE StartCompletes
  <2>1. CASE UNCHANGED <<teardownStarted, teardownResult, failed>>
    <3>1. hostState # "Destroyed"
      BY <1>5 DEF StartCompletes, Phases, Closing
    <3>2. UNCHANGED slot
      BY <1>5 DEF StartCompletes
    <3> QED
      BY <2>1, <3>1, <3>2 DEF Results
  <2>2. CASE /\ startReady /\ hostState # "Destroying"
             /\ teardownStarted' = TRUE /\ teardownResult' = "failed" /\ failed' = TRUE
    <3>1. hostState = "Starting"
      BY <2>2 DEF Phases
    <3>2. \A i \in Slots : slot[i].action # "shutdown"
      BY <3>1, SlotShape DEF Phases
    <3> QED
      BY <1>5, <2>2, <3>2 DEF StartCompletes, Results
  <2> QED
    BY <1>5, <2>1, <2>2 DEF StartCompletes
<1>6. CASE SlotCompletes
  <2>1. \A j \in Slots : slot'[j].action = "shutdown" => Active(j)' /\ slot[j].action = "shutdown"
                                                          /\ slot'[j] = slot[j]
    <3>1. \A j \in Slots : slot'[j] = slot[j] \/ slot'[j] = Free
      BY <1>6, SlotsAfterCompletion DEF Types, Data
    <3>2. Free.action = "none"
      BY DEF Free
    <3> QED
      BY <3>1, <3>2 DEF Active
  <2>2. CASE UNCHANGED <<teardownStarted, teardownResult, failed>>
    BY <1>6, <2>1, <2>2 DEF SlotCompletes, Results
  <2>3. CASE slot[cursor].ready /\ slot[cursor].action = "shutdown"
    <3>1. /\ cursor \in Slots /\ Active(cursor) /\ slot[cursor].call \in Calls
          /\ slot'[cursor] = Free
      BY <1>6, <2>3, SlotsAfterCompletion
    <3>2. ~teardownStarted /\ ~failed
      BY <2>3, <3>1 DEF Results, Phases
    <3>3. \A j \in Slots : slot'[j].action # "shutdown"
      <4> SUFFICES ASSUME NEW j \in Slots, slot'[j].action = "shutdown" PROVE FALSE
        OBVIOUS
      <4>1. Active(j) /\ slot[j].call = destroyCall /\ slot[cursor].call = destroyCall
        BY <1>6, <2>1, <2>3, <3>1, SlotsAfterCompletion DEF Apart
      <4>2. j = cursor
        BY <3>1, <4>1 DEF Apart
      <4> QED
        BY <2>1, <3>1, <4>2 DEF Free
    <3>4. teardownStarted' /\ (failed' <=> ~slot[cursor].ok)
          /\ teardownResult' = IF slot[cursor].ok THEN "ok" ELSE "failed"
      BY <1>6, <2>3, <3>2 DEF SlotCompletes
    <3> QED
      BY <3>3, <3>4 DEF Results
  <2> QED
    BY <1>6, <2>2, <2>3 DEF SlotCompletes
<1>7. ASSUME NEW ok \in BOOLEAN, StopServices(ok) \/ ClosePackage(ok) \/ StopPrepared(ok)
                                 \/ FinishStop(ok)
      PROVE  Results'
  <2>1. teardownStarted /\ UNCHANGED <<teardownStarted, slot, hostState>>
    BY <1>7 DEF StopServices, ClosePackage, StopPrepared, FinishStop, MayTearDown, Closing, Late,
                flags, control
  <2>2. Keep(ok) \/ UNCHANGED <<failed, teardownResult>>
    BY <1>7 DEF StopServices, ClosePackage, StopPrepared, FinishStop
  <2>3. CASE ok \/ UNCHANGED <<failed, teardownResult>>
    <3>1. UNCHANGED teardownResult /\ (failed' <=> failed)
      <4>1. CASE UNCHANGED <<failed, teardownResult>>
        BY <4>1
      <4>2. CASE ok /\ Keep(ok)
        BY <4>2 DEF Keep
      <4> QED
        BY <2>2, <2>3, <4>1, <4>2
    <3>2. teardownResult' = IF failed' THEN "failed" ELSE "ok"
      BY <2>1, <3>1 DEF Results
    <3> QED
      BY <2>1, <3>1, <3>2 DEF Results
  <2>4. CASE ~ok /\ Keep(ok)
    BY <2>1, <2>4 DEF Keep, Results
  <2> QED
    BY <2>2, <2>3, <2>4
<1>8. CASE Destroyed
  BY <1>8 DEF Destroyed, Results
<1>9. CASE UNCHANGED <<slot, hostState, teardownStarted, failed, teardownResult>>
  BY <1>9 DEF Results
<1>10. \/ \E c \in Calls, a \in Signals : Control(c, a)
       \/ Start \/ BindFails \/ OpenUndone \/ \E source \in {"none", "open"} : StartFails(source)
       \/ RunTask \/ StartCompletes \/ SlotCompletes \/ Destroyed
       \/ \E i \in Slots, ok \in BOOLEAN : OnCoreLifecycle(i, ok)
       \/ \E ok \in BOOLEAN : StopServices(ok) \/ ClosePackage(ok) \/ StopPrepared(ok)
                              \/ FinishStop(ok)
       \/ UNCHANGED <<slot, hostState, teardownStarted, failed, teardownResult>>
  BY DEF Next, StartStep, PumpStep, CoreStep, StartOpens, StartOpenFails, CancelTask, Post, PumpOnce, TasksEnd, SlotsEnd, NoTeardown, BeginStop,
         StopInterrupted, OnCoreStart, control, flags
<1> QED
  BY <1>1, <1>2, <1>3, <1>4, <1>5, <1>6, <1>7, <1>8, <1>9, <1>10

(***************************************************************************)
(* What is accepted and what is cancelled                                  *)
(***************************************************************************)
(* A call is accepted by Core, or run by the queue, only once the host is  *)
(* open.                                                                   *)
LEMMA OnlyAnOpenHostAccepts ==
  ASSUME Phases, Closing, Types,
         \/ at \in {"tasks", "drain"}
         \/ at = "idle" /\ hostState \in {"Starting", "Running"}
  PROVE  Opened
  BY DEF Phases, Closing, Opened, NeverOpened

LEMMA StepKeepsAccepting ==
  ASSUME Types, Phases, Closing, Unanswered, Apart, Accepting, Next
  PROVE  Accepting'
PROOF
<1> USE DEF Accepting
<1>1. ASSUME NEW c \in Calls \cup {StartCall}, NEW s \in Fates, Mark(c, s)
      PROVE  \A d \in Calls \cup {StartCall} : status'[d] = IF d = c THEN s ELSE status[d]
  BY <1>1 DEF Mark, Types, Data
<1>2. CASE RunTask
  <2>1. Opened /\ (Opened' <=> Opened)
    BY <1>2, OnlyAnOpenHostAccepts DEF RunTask, Opened, NeverOpened, backend
  <2>2. Head(inbox).call \in Calls /\ Mark(Head(inbox).call, "accepted")
    BY <1>2, InboxAfterRun DEF RunTask
  <2> QED
    BY <1>1, <2>1, <2>2 DEF Fates
<1>3. ASSUME NEW c \in Calls, NEW a \in Signals, Control(c, a)
      PROVE  Accepting'
  <2>1. UNCHANGED <<lifecycle, prepared, at>> /\ (Opened' <=> Opened)
    BY <1>3 DEF Control, Opened, NeverOpened, backend
  <2>2. CASE Mark(c, "refused") /\ UNCHANGED control
    BY <1>1, <2>1, <2>2 DEF control, Fates
  <2>3. CASE Mark(c, "accepted") /\ BeginControl(c, a)
    <3>1. Opened
      BY <1>3, <2>3, OnlyAnOpenHostAccepts DEF Control, BeginControl, CanControl
    <3> QED
      BY <1>1, <2>1, <2>3, <3>1 DEF Fates
  <2> QED
    BY <1>3, <2>2, <2>3 DEF Control
<1>4. ASSUME NEW c \in Calls, NEW a \in Signals, Post(c, a)
      PROVE  Accepting'
  <2>1. Mark(c, "posted") /\ UNCHANGED <<lifecycle, prepared, at, hostState>>
    BY <1>4 DEF Post, backend, control
  <2> QED
    BY <1>1, <2>1 DEF Fates, Opened, NeverOpened
<1>5. CASE CancelTask
  <2>1. /\ at = "undo" /\ ~Opened /\ ~Opened' /\ at' = "undo"
    BY <1>5 DEF CancelTask, Phases, Opened, NeverOpened, backend
  <2>2. Head(inbox).call \in Calls /\ Mark(Head(inbox).call, "cancelled")
    BY <1>5, InboxAfterRun DEF CancelTask
  <2> QED
    BY <1>1, <2>1, <2>2 DEF Fates
<1>6. CASE StartOpens \/ StartOpenFails
  <2>1. UNCHANGED <<status, lifecycle, prepared, hostState>> /\ (Opened' <=> Opened)
    BY <1>6 DEF StartOpens, StartOpenFails, control, Opened, NeverOpened
  <2>2. hostState = "New" /\ (at # "undo" \/ at' = "undo")
    BY <1>6 DEF StartOpens, StartOpenFails, Goto, Phases
  <2> QED
    BY <1>6, <2>1, <2>2 DEF Phases, Opened
<1>7. CASE Start \/ \E source \in {"none", "open"} : StartFails(source)
  <2>1. hostState = "New" /\ at # "undo" /\ Opened'
    BY <1>7 DEF Start, StartFails, Phases, Opened, NeverOpened
  <2>2. Mark(StartCall, "accepted") \/ Mark(StartCall, "refused")
    BY <1>7 DEF Start, StartFails
  <2> QED
    BY <1>1, <2>1, <2>2 DEF Fates
<1>8. CASE BindFails \/ OpenUndone
  <2>1. hostState = "New" /\ CloseUnopened
    BY <1>8 DEF BindFails, OpenUndone, Phases
  <2>2. ~Opened /\ ~Opened' /\ hostState' # "New" /\ Mark(StartCall, "refused")
    BY <2>1 DEF CloseUnopened, Opened, NeverOpened, Phases, Closing
  <2> QED
    BY <1>1, <2>2 DEF Fates
<1>9. CASE /\ UNCHANGED <<status, lifecycle, prepared>>
           /\ hostState' = "New" => hostState = "New" /\ at = at'
  BY <1>9 DEF Opened, NeverOpened
<1>10. CASE BeginStop \/ \E ok \in BOOLEAN : StopPrepared(ok) \/ FinishStop(ok)
  <2>1. UNCHANGED <<status, hostState>> /\ hostState # "New"
    BY <1>10 DEF BeginStop, StopPrepared, FinishStop, control, Phases
  <2>2. Opened' <=> Opened
    BY <1>10 DEF BeginStop, MustBeginStop, StopPrepared, FinishStop, Closing, Opened, NeverOpened
  <2> QED
    BY <2>1, <2>2
<1>11. \/ RunTask \/ \E c \in Calls, a \in Signals : Control(c, a) \/ Post(c, a)
       \/ CancelTask \/ StartOpens \/ StartOpenFails \/ Start \/ BindFails \/ OpenUndone
       \/ \E source \in {"none", "open"} : StartFails(source)
       \/ BeginStop \/ \E ok \in BOOLEAN : StopPrepared(ok) \/ FinishStop(ok)
       \/ /\ UNCHANGED <<status, lifecycle, prepared>>
          /\ hostState' = "New" => hostState = "New" /\ at = at'
  BY DEF Next, StartStep, PumpStep, CoreStep, PumpOnce, TasksEnd, StartCompletes, SlotCompletes,
         SlotsEnd, NoTeardown, StopInterrupted, Destroyed, StopServices, ClosePackage,
         OnCoreStart, OnCoreLifecycle, Presented, Phases, control, backend
<1> QED
  BY <1>2, <1>3, <1>4, <1>5, <1>6, <1>7, <1>8, <1>9, <1>10, <1>11

(***************************************************************************)
(* Theorems                                                                *)
(***************************************************************************)
LEMMA Inductive ==
  Spec => []IInv
<1>1. Init => IInv
  <2> SUFFICES ASSUME Init PROVE Results /\ Accepting
    BY InitTypes, InitPhases, InitUnanswered DEF IInv
  <2> QED
    BY DEF Init, Results, Free, Accepting
<1>2. IInv /\ [Next]_vars => IInv'
  <2> SUFFICES ASSUME IInv, [Next]_vars PROVE IInv'
    OBVIOUS
  <2>1. CASE Next
    BY <2>1, StepKeepsTypes, StepKeepsPhases, StepKeepsCalls, StepKeepsResults,
       StepKeepsAccepting DEF IInv
  <2>2. CASE UNCHANGED vars
    <3>1. Types' /\ Cursors'
      BY <2>2 DEF vars, IInv, Types, Flags, Data, Cursors
    <3>2. Phases' /\ Closing'
      BY <2>2 DEF vars, IInv, Phases, Closing, CallbacksPending, Active
    <3>3. Unanswered' /\ Apart'
      BY <2>2, NothingMoves DEF vars, IInv, Active, Apart
    <3>4. Results'
      BY <2>2 DEF vars, IInv, Results
    <3>5. Accepting'
      BY <2>2 DEF vars, IInv, Accepting, Opened, NeverOpened
    <3> QED
      BY <3>1, <3>2, <3>3, <3>4, <3>5 DEF IInv
  <2> QED
    BY <2>1, <2>2
<1> QED
  BY <1>1, <1>2, PTL DEF Spec

(* While the backends stop, and once the host is destroyed, Core holds no  *)
(* context it could call back with.                                        *)
THEOREM NobodyCallsBack == Spec => []NoCallbackIntoDestroyedHost
<1>1. IInv => NoCallbackIntoDestroyedHost
  BY DEF IInv, NoCallbackIntoDestroyedHost, Closing, CallbacksPending
<1> QED
  BY <1>1, Inductive, PTL

(* No completion is called twice or for a call that was not accepted, and  *)
(* a destroyed host has answered every call it accepted and released what  *)
(* it opened, and cancelled nothing unless its open failed.                *)
THEOREM AnsweredOnce == Spec => []AnsweredExactlyOnce
<1>1. IInv => AnsweredExactlyOnce
  <2> SUFFICES ASSUME IInv PROVE AnsweredExactlyOnce
    OBVIOUS
  <2>1. TypeOK
    <3>1. cursor \in 0..(MaxPendingControls + TasksPerPump + 1)
      BY CallsApart DEF IInv, Cursors
    <3> QED
      BY <3>1 DEF IInv, Types, Flags, Data, TypeOK, Fates
  <2>2. ASSUME NEW c \in DOMAIN answers
        PROVE  /\ Len(answers[c]) <= 1
               /\ status[c] # "accepted" => answers[c] = <<>>
               /\ hostState = "Destroyed" /\ status[c] = "accepted" => Len(answers[c]) = 1
               /\ hostState = "Destroyed" /\ NeverOpened => status[c] # "accepted"
               /\ hostState = "Destroyed" /\ ~NeverOpened =>
                    status[c] \notin {"posted", "cancelled"}
    <3>1. c \in Calls \cup {StartCall} /\ answers[c] \in Seq({"ok", "failed"})
      BY DEF IInv, Types, Data
    <3>2. Len(answers[c]) <= 1 /\ (status[c] # "accepted" => answers[c] = <<>>)
      BY <3>1 DEF IInv, Unanswered, CallIsSomewhere, StartIsSomewhere
    <3>3. hostState = "Destroyed" => (NeverOpened <=> ~Opened)
      BY DEF IInv, Closing, Opened
    <3>4. /\ hostState = "Destroyed" /\ NeverOpened => status[c] # "accepted"
          /\ hostState = "Destroyed" /\ ~NeverOpened => status[c] # "cancelled"
      BY <3>1, <3>3 DEF IInv, Accepting
    <3>5. hostState = "Destroyed" /\ ~NeverOpened => status[c] # "posted"
      <4> SUFFICES ASSUME hostState = "Destroyed", ~NeverOpened PROVE status[c] # "posted"
        OBVIOUS
      <4>1. inbox = <<>>
        BY DEF IInv, Closing, NeverOpened
      <4>2. ~InInbox(c)
        BY <4>1 DEF InInbox
      <4> QED
        BY <3>1, <4>2 DEF IInv, Unanswered, CallIsSomewhere, StartIsSomewhere
    <3>6. hostState = "Destroyed" /\ status[c] = "accepted" => answers[c] # <<>>
      <4>1. CASE c \in Calls
        <5>1. hostState = "Destroyed" => ~Owed(c)
          BY <4>1, CallsApart DEF IInv, Closing, Apart, CallbacksPending, Owed, InSlot
        <5> QED
          BY <4>1, <5>1 DEF IInv, Unanswered, CallIsSomewhere
      <4>2. CASE c = StartCall
        BY <4>2 DEF IInv, Closing, Unanswered, StartIsSomewhere
      <4> QED
        BY <3>1, <4>1, <4>2
    <3>7. answers[c] # <<>> => Len(answers[c]) = 1
      BY <3>1, <3>2, OneAnswer
    <3> QED
      BY <3>2, <3>4, <3>5, <3>6, <3>7
  <2>3. hostState = "Destroyed" =>
          /\ package = "none" /\ ~services /\ lifecycle = "Closed"
          /\ ~NeverOpened => inbox = <<>>
    BY DEF IInv, Closing, NeverOpened
  <2> QED
    BY <2>1, <2>2, <2>3 DEF AnsweredExactlyOnce
<1> QED
  BY <1>1, Inductive, PTL

(* The call that destroys is told of any failure met on the way, whatever  *)
(* succeeded after it.                                                     *)
THEOREM FailureIsReported == Spec => TeardownFailureIsReported
<1>1. IInv /\ [Next]_vars =>
        [at = "end" =>
           \A c \in DOMAIN answers :
             answers'[c] # answers[c] => answers'[c] = <<IF failed THEN "failed" ELSE "ok">>]_vars
  <2> SUFFICES ASSUME IInv, Next, at = "end", NEW c \in DOMAIN answers, answers'[c] # answers[c]
               PROVE  answers'[c] = <<IF failed THEN "failed" ELSE "ok">>
    OBVIOUS
  <2>1. Destroyed
    BY DEF Next, StartStep, PumpStep, CoreStep, StartOpens, BindFails, Start, StartOpenFails,
           CancelTask, OpenUndone, StartFails, Control, Post, PumpOnce,
           RunTask, TasksEnd, StartCompletes, SlotCompletes, SlotsEnd, NoTeardown, BeginStop,
           StopInterrupted, StopServices, ClosePackage, StopPrepared, FinishStop, OnCoreStart,
           OnCoreLifecycle
  <2>2. teardownResult = IF failed THEN "failed" ELSE "ok"
    BY DEF IInv, Closing, Results, Late
  <2>3. /\ c \in Calls \cup {StartCall}
        /\ (c = StartCall /\ startOwed) \/ c = destroyCall
        /\ answers'[c] = Append(answers[c], teardownResult)
    BY <2>1 DEF Destroyed, Answer, IInv, Types, Data
  <2>4. answers[c] = <<>>
    <3>1. CASE c = StartCall /\ startOwed
      BY <3>1 DEF IInv, Unanswered, StartIsSomewhere
    <3>2. CASE c = destroyCall /\ c # StartCall
      BY <2>3, <3>2 DEF IInv, Unanswered, CallIsSomewhere, Owed
    <3>3. c = destroyCall => c # StartCall
      BY CallsApart DEF IInv, Types, Data
    <3> QED
      BY <2>3, <3>1, <3>2, <3>3
  <2>5. answers'[c] = <<teardownResult>>
    BY <2>3, <2>4
  <2> QED
    BY <2>2, <2>5
<1> QED
  BY <1>1, Inductive, PTL DEF Spec, TeardownFailureIsReported

(* Every step of the host is a step of the contract of the backend         *)
(* lifecycle, or none.                                                     *)
THEOREM HostFollowsContract == Spec => FollowsContract
<1>1. Init => Contract!Init
  BY DEF Init, Contract!Init
<1>2. IInv /\ [Next]_vars => [Contract!Next]_Contract!contractVars
  <2> SUFFICES ASSUME IInv, [Next]_vars
               PROVE  Contract!Next \/ UNCHANGED <<lifecycle, prepared>>
    BY DEF Contract!contractVars
  <2>1. CASE Start \/ BindFails \/ OpenUndone \/ \E source \in {"none", "open"} : StartFails(source)
    BY <2>1 DEF Start, BindFails, OpenUndone, CloseUnopened, StartFails, IInv, Phases,
                Contract!Next, Contract!Open, Contract!OpenFails
  <2>2. CASE BeginStop
    BY <2>2 DEF BeginStop, MustBeginStop, Contract!Next, Contract!Begin
  <2>3. ASSUME NEW ok \in BOOLEAN, StopPrepared(ok)
        PROVE  Contract!Next
    BY <2>3 DEF StopPrepared, IInv, Closing, Contract!Next, Contract!Prepare
  <2>4. ASSUME NEW ok \in BOOLEAN, FinishStop(ok)
        PROVE  Contract!Next \/ UNCHANGED <<lifecycle, prepared>>
    BY <2>4 DEF FinishStop, Contract!Next, Contract!Finish
  <2>5. CASE UNCHANGED <<lifecycle, prepared>>
    BY <2>5
  <2>6. \/ Start \/ BindFails \/ OpenUndone \/ \E source \in {"none", "open"} : StartFails(source)
        \/ BeginStop \/ \E ok \in BOOLEAN : StopPrepared(ok) \/ FinishStop(ok)
        \/ UNCHANGED <<lifecycle, prepared>>
    BY DEF Next, vars, StartStep, PumpStep, CoreStep, StartOpens, StartOpenFails, CancelTask, Control, Post, PumpOnce, RunTask, TasksEnd,
           StartCompletes, SlotCompletes, SlotsEnd, NoTeardown, StopInterrupted, StopServices,
           ClosePackage, Destroyed, OnCoreStart, OnCoreLifecycle, backend
  <2> QED
    BY <2>1, <2>2, <2>3, <2>4, <2>5, <2>6
<1> QED
  BY <1>1, <1>2, Inductive, PTL DEF Spec, FollowsContract, Contract!Spec
=============================================================================
