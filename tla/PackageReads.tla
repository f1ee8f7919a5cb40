---------------------------- MODULE PackageReads ----------------------------
(***************************************************************************)
(* What the package sources and their port keep of each read, and what     *)
(* holds of it at any time; PackageSource is how it comes about.           *)
(*                                                                         *)
(* Bytes are left out: a completion is good or bad, as the range, the      *)
(* allocation and the length that was read made it.                        *)
(***************************************************************************)
EXTENDS Integers, FiniteSets

CONSTANTS
  Reads,          \* calls of readAt, each with a completion of its own
  ReadSlots,      \* operations_
  MaxInFlight,    \* max_in_flight_ of this source
  PortCapacity,   \* of the completion port
  NoRead

ASSUME PackageAssumption ==
  /\ IsFiniteSet(ReadSlots) /\ NoRead \notin Reads
  /\ MaxInFlight \in 1..Cardinality(ReadSlots)
  /\ PortCapacity \in Nat \ {0}

VARIABLES
  file,        \* the file source: closing_, closed_, and its lifetime
  memory,      \* closed_ of the memory source
  operations,  \* operations_: read, state and result of each slot
  requests,    \* slots whose request libuv holds
  posted,      \* the port: reads whose completion it holds, with the result
  stopping,    \* the port takes no more
  admission,   \* history: what readAt returned
  calls        \* history: how often each read was called back

(* inFlight: the slots that are taken                                      *)
InFlight == {s \in ReadSlots : operations[s].state # "free"}

(***************************************************************************)
(* Properties                                                              *)
(***************************************************************************)
ReadTypes ==
  /\ file \in {"absent", "open", "closing", "closed", "destroyed"}
  /\ memory \in {"open", "closed"}
  /\ operations \in
       [ReadSlots -> [read : Reads \cup {NoRead},
                      state : {"free", "reading", "pendingDelivery"}, good : BOOLEAN]]
  /\ requests \subseteq ReadSlots
  /\ posted \subseteq Reads \X BOOLEAN
  /\ stopping \in BOOLEAN
  /\ admission \in
       [Reads -> {"none", "accepted", "busy", "capacityExhausted", "closed", "invalid"}]
  /\ calls \in [Reads -> Nat]

(* libuv holds a request for exactly the slots that are reading, so no     *)
(* slot is taken again under a request; and a source that is closed or     *)
(* destroyed, whose file and buffers are gone, has none: a source that     *)
(* refuses to close is the only thing that keeps libuv out of freed memory.*)
NothingReadsIntoClosedSource ==
  /\ requests = {s \in ReadSlots : operations[s].state = "reading"}
  /\ file \in {"absent", "closed", "destroyed"} => InFlight = {}

Held(r)     == \E s \in InFlight : operations[s].read = r
IsPosted(r) == \E good \in BOOLEAN : <<r, good>> \in posted

(* A read that readAt accepted is in one place, a slot, the port or back   *)
(* with its caller, and is called back once; one that was refused as busy, *)
(* full or invalid is nowhere and is never called back, so that the caller *)
(* may repeat it.  Only "closed" says nothing: the failure may have been   *)
(* posted or not.                                                          *)
ReadsAnsweredOnce ==
  /\ ReadTypes
  /\ \A s, u \in InFlight : operations[s].read = operations[u].read => s = u
  /\ \A d, e \in posted : d[1] = e[1] => d = e
  /\ \A s \in InFlight : operations[s].read \in Reads
  /\ \A r \in Reads :
       /\ calls[r] \in {0, 1}
       /\ Held(r) => admission[r] = "accepted" /\ ~IsPosted(r) /\ calls[r] = 0
       /\ IsPosted(r) => admission[r] \in {"accepted", "closed"} /\ calls[r] = 0
       /\ calls[r] = 1 => admission[r] \in {"accepted", "closed"}
       /\ admission[r] = "accepted" => Held(r) \/ IsPosted(r) \/ calls[r] = 1
=============================================================================
