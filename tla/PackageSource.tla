--------------------------- MODULE PackageSource ----------------------------
(***************************************************************************)
(* The package sources: LibuvFilePackageSource, which reads a file with    *)
(* requests of libuv (src/backends/libuv_file_package_source.cpp), and     *)
(* MemoryPackageSource, which copies (src/package_source.cpp).  Both give  *)
(* the completion of a read to a port that calls it back later.  Opening,  *)
(* serving and closing the file source are what RuntimeHost does with it.  *)
(* libuv and the port are external.                                        *)
(***************************************************************************)
EXTENDS PackageReads

vars == <<file, memory, operations, requests, posted, stopping, admission, calls>>

FreeSlot == [read |-> NoRead, state |-> "free", good |-> FALSE]

Init ==
  /\ file = "absent" /\ memory = "open"
  /\ operations = [s \in ReadSlots |-> FreeSlot]
  /\ requests = {} /\ posted = {} /\ stopping = FALSE
  /\ admission = [r \in Reads |-> "none"]
  /\ calls = [r \in Reads |-> 0]

(***************************************************************************)
(* The completion port, external                                           *)
(***************************************************************************)
PortFull == Cardinality(posted) >= PortCapacity

(* One run of the port: a completion is called back.                       *)
PortRun(d) ==
  /\ posted' = posted \ {d}
  /\ calls' = [calls EXCEPT ![d[1]] = @ + 1]
  /\ UNCHANGED <<file, memory, operations, requests, stopping, admission>>

PortStop ==
  /\ ~stopping
  /\ stopping' = TRUE
  /\ UNCHANGED <<file, memory, operations, requests, posted, admission, calls>>

(* deliverImmediate, deliver: the completion goes to the port and readAt   *)
(* returns status, or the port's refusal.  A port may be busy at any time. *)
Deliver(r, good, status) ==
  \/ /\ ~stopping /\ ~PortFull
     /\ posted' = posted \cup {<<r, good>>}
     /\ admission' = [admission EXCEPT ![r] = status]
  \/ /\ admission' \in {[admission EXCEPT ![r] = refusal] :
          refusal \in IF stopping THEN {"closed"}
                      ELSE {"busy"} \cup IF PortFull THEN {"capacityExhausted"} ELSE {}}
     /\ UNCHANGED posted

(***************************************************************************)
(* The file source                                                         *)
(***************************************************************************)
Fresh(r) == admission[r] = "none"

(* LibuvFilePackageSource::open, when the file and its size are there and  *)
(* the source is allocated; a failed open leaves nothing behind.           *)
Open ==
  /\ file = "absent"
  /\ file' = "open"
  /\ UNCHANGED <<memory, operations, requests, posted, stopping, admission, calls>>

Exists == file \notin {"absent", "destroyed"}

(* readAt with no callback                                                 *)
ReadWithoutCallback(r) ==
  /\ Fresh(r) /\ Exists
  /\ admission' = [admission EXCEPT ![r] = "invalid"]
  /\ UNCHANGED <<file, memory, operations, requests, posted, stopping, calls>>

(* readAt after close was called                                           *)
ReadClosed(r) ==
  /\ Fresh(r) /\ file \in {"closing", "closed"}
  /\ Deliver(r, FALSE, "closed")
  /\ UNCHANGED <<file, memory, operations, requests, stopping, calls>>

(* readAt that ends at once: a range outside the file, an empty one, no    *)
(* memory for the bytes, a request libuv does not take.                    *)
ReadAtOnce(r, good) ==
  /\ Fresh(r) /\ file = "open"
  /\ Deliver(r, good, "accepted")
  /\ UNCHANGED <<file, memory, operations, requests, stopping, calls>>

(* freeOperation *)
FreeOperation == IF Cardinality(InFlight) < MaxInFlight THEN ReadSlots \ InFlight ELSE {}

ReadExhausted(r) ==
  /\ Fresh(r) /\ file = "open" /\ FreeOperation = {}
  /\ admission' = [admission EXCEPT ![r] = "capacityExhausted"]
  /\ UNCHANGED <<file, memory, operations, requests, posted, stopping, calls>>

ReadStart(r, s) ==
  /\ Fresh(r) /\ file = "open" /\ s \in FreeOperation
  /\ operations' = [operations EXCEPT ![s] = [read |-> r, state |-> "reading", good |-> FALSE]]
  /\ requests' = requests \cup {s}
  /\ admission' = [admission EXCEPT ![r] = "accepted"]
  /\ UNCHANGED <<file, memory, posted, stopping, calls>>

(* onRead, called by a turn of the loop: a short read is a failure.        *)
OnRead(s, complete) ==
  /\ s \in requests
  /\ requests' = requests \ {s}
  /\ operations' = [operations EXCEPT ![s].state = "pendingDelivery", ![s].good = complete]
  /\ UNCHANGED <<file, memory, posted, stopping, admission, calls>>

Pending == {s \in ReadSlots : operations[s].state = "pendingDelivery"}

Deliveries(D) == {<<operations[s].read, operations[s].good>> : s \in D}

(* Mistake: a slot is given back when the port refuses its delivery too.   *)
FreedAll(D) == [s \in ReadSlots |-> IF s \in Pending THEN FreeSlot ELSE operations[s]]

(* Only the slots whose delivery the port took are given back.             *)
Freed(D) == [s \in ReadSlots |-> IF s \in D THEN FreeSlot ELSE operations[s]]

(* Mistake: nothing is delivered any more once close was called.           *)
DeliverableWhileOpen ==
  IF stopping \/ file = "closing" THEN {{}}
  ELSE {D \in SUBSET Pending : Cardinality(posted) + Cardinality(D) <= PortCapacity}

(* What one serviceCompletions may deliver                                 *)
Deliverable ==
  IF stopping THEN {{}}
  ELSE {D \in SUBSET Pending : Cardinality(posted) + Cardinality(D) <= PortCapacity}

(* serviceCompletions, called by every pump                                *)
ServiceCompletions ==
  /\ Exists
  /\ \E D \in Deliverable :
       /\ operations' = Freed(D)
       /\ posted' = posted \cup Deliveries(D)
  /\ UNCHANGED <<file, memory, requests, stopping, admission, calls>>

(* Mistake: only a request libuv still holds keeps the source busy.        *)
BusyReading(D) == requests # {}

(* close is busy while a slot is taken.                                    *)
Busy(D) == InFlight \ D # {}

(* close: closing the file may fail, and be tried again.                   *)
Close ==
  /\ file \in {"open", "closing"}
  /\ file' \in {"closing"} \cup IF Busy({}) THEN {} ELSE {"closed"}
  /\ UNCHANGED <<memory, operations, requests, posted, stopping, admission, calls>>

(* The teardown of RuntimeHost: serve, close, and destroy the source when  *)
(* close was not busy, even when closing the file failed.                  *)
Teardown ==
  /\ Exists
  /\ \E D \in Deliverable :
       /\ operations' = Freed(D)
       /\ posted' = posted \cup Deliveries(D)
       /\ file' = IF Busy(D) THEN "closing" ELSE "destroyed"
  /\ UNCHANGED <<memory, requests, stopping, admission, calls>>

(***************************************************************************)
(* The memory source: every read ends at once and none is in flight.       *)
(***************************************************************************)
MemoryRead(r, good) ==
  /\ Fresh(r)
  /\ IF memory = "open" THEN Deliver(r, good, "accepted") ELSE Deliver(r, FALSE, "closed")
  /\ UNCHANGED <<file, memory, operations, requests, stopping, calls>>

MemoryClose ==
  /\ memory = "open"
  /\ memory' = "closed"
  /\ UNCHANGED <<file, operations, requests, posted, stopping, admission, calls>>

Read(r) ==
  \/ ReadWithoutCallback(r)
  \/ ReadClosed(r)
  \/ ReadExhausted(r)
  \/ \E good \in BOOLEAN : ReadAtOnce(r, good) \/ MemoryRead(r, good)
  \/ \E s \in ReadSlots : ReadStart(r, s)

Next ==
  \/ Open
  \/ \E r \in Reads : Read(r)
  \/ \E s \in ReadSlots, complete \in BOOLEAN : OnRead(s, complete)
  \/ ServiceCompletions
  \/ Close
  \/ Teardown
  \/ MemoryClose
  \/ \E d \in posted : PortRun(d)
  \/ PortStop

Spec == Init /\ [][Next]_vars

(* libuv answers each request, the port runs what it holds, and the host's *)
(* pump serves again and again, a teardown that has begun too; a port that *)
(* was busy or full takes what it is offered in the end.                   *)
Fairness ==
  /\ \A s \in ReadSlots : WF_vars(\E complete \in BOOLEAN : OnRead(s, complete))
  /\ \A r \in Reads, good \in BOOLEAN : WF_vars(<<r, good>> \in posted /\ PortRun(<<r, good>>))
  /\ SF_vars(ServiceCompletions)
  /\ SF_vars(file = "closing" /\ Teardown)

FairSpec == Spec /\ Fairness

(* Unless the port stops, a read that was accepted is called back and a    *)
(* close that was busy ends: the two wait for each other at no point.      *)
ReadsAndCloseConverge ==
  /\ \A r \in Reads : admission[r] = "accepted" ~> (calls[r] = 1 \/ stopping)
  /\ file = "closing" ~> (file \in {"closed", "destroyed"} \/ stopping)
=============================================================================
