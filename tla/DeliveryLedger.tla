--------------------------- MODULE DeliveryLedger ---------------------------
(***************************************************************************)
(* The delivery ledger for one event key (object_storage_adapters.py,      *)
(* class ObjectStorageDeliveryLedgerAdapter): concurrent invocations of    *)
(* the exporter call reserve and mark_delivered, each a bounded loop of an *)
(* Object Storage read and a conditional write.  A step is one request, so *)
(* other callers step between the read and the write it decides.           *)
(*                                                                         *)
(* Keys do not interact: each has an object of its own.  A request may     *)
(* raise, whether or not Object Storage applied it, and an invocation may  *)
(* end at any time; a caller that ended starts again as a new invocation.  *)
(***************************************************************************)
EXTENDS Integers

CONSTANTS
    Callers,          \* Function invocations, over and over
    Lease,            \* reservation_lease (10 minutes)
    FunctionTimeout,  \* the platform ends an invocation after this long
    MaxTries,         \* rounds of the read / write loop (4)
    MaxTime           \* bound of the model: the clock stops here

\* Ten minutes of lease against the 300 seconds that Terraform allows a
\* Function (stack/modules/splunk_evidence_exporter/variables.tf:157).
ASSUME TimesAssumption ==
    /\ Lease \in Nat /\ FunctionTimeout \in Nat /\ FunctionTimeout < Lease
    /\ MaxTime \in Nat

ASSUME TriesAssumption == MaxTries \in Nat /\ MaxTries >= 2

VARIABLES
    clock,     \* wall-clock time
    document,  \* content of the key's object
    version,   \* its ETag; 0 while the object does not exist
    pc,        \* where each caller is
    started,   \* when its invocation started
    now,       \* the clock value it passes to reserve
    seen,      \* the ETag of its last read
    tries      \* writes of the current call that returned 412

vars == <<clock, document, version, pc, started, now, seen, tries>>

Absent           == [state |-> "absent", expires |-> 0]
Delivered        == [state |-> "delivered", expires |-> 0]
\* Mutant: the document lacks its lease_expires_at.
WithoutExpiry(end) == [state |-> "reserved"]

Reservation(end) == [state |-> "reserved", expires |-> end]

Reserving == {"reserve_get", "reserve_put"}
Marking   == {"mark_get", "mark_put"}
Holding   == {"holds"} \cup Marking
Live(i)   == pc[i] \in {"started"} \cup Reserving \cup Holding

Goto(i, from, to) == pc[i] = from /\ pc' = [pc EXCEPT ![i] = to]

Init ==
    /\ clock = 0 /\ document = Absent /\ version = 0
    /\ pc = [i \in Callers |-> "idle"]
    /\ started = [i \in Callers |-> 0] /\ now = [i \in Callers |-> 0]
    /\ seen = [i \in Callers |-> 0] /\ tries = [i \in Callers |-> 0]

\* No invocation outlives its timeout.
Tick ==
    /\ clock < MaxTime
    /\ \A i \in Callers : Live(i) => clock < started[i] + FunctionTimeout
    /\ clock' = clock + 1
    /\ UNCHANGED <<document, version, pc, started, now, seen, tries>>

Start(i) ==
    /\ ~Live(i)
    /\ pc' = [pc EXCEPT ![i] = "started"]
    /\ started' = [started EXCEPT ![i] = clock]
    /\ UNCHANGED <<clock, document, version, now, seen, tries>>

\* export() reads the clock once, then reserves the keys of its rows.
CallReserve(i) ==
    /\ Goto(i, "started", "reserve_get") \/ Goto(i, "started", "left")
    /\ now' = [now EXCEPT ![i] = clock]
    /\ tries' = [tries EXCEPT ![i] = 0]
    /\ UNCHANGED <<clock, document, version, started, seen>>

\* Mutant: an unexpired lease does not protect a reservation.
TakesAnyLease(doc, time) == doc.state # "delivered"

\* Mutant: a delivered document is treated as an expired reservation.
TakesDelivered(doc, time) == doc.expires <= time

Reservable(doc, time) ==
    \/ doc.state = "absent"
    \/ doc.state = "reserved" /\ doc.expires <= time

\* _get, and the early returns that answer False.
ReserveGet(i) ==
    /\ Goto(i, "reserve_get",
            IF Reservable(document, now[i]) THEN "reserve_put" ELSE "left")
    /\ seen' = [seen EXCEPT ![i] = version]
    /\ UNCHANGED <<clock, document, version, started, now, tries>>

\* Mutant: the write is not conditional.
AlwaysMatches(i) == TRUE

\* if_none_match "*" while the object is absent, if_match afterwards.
Matches(i) == seen[i] = version

\* The write is applied: the caller learns of it, or its request raises.
Write(i, doc, next) ==
    /\ Matches(i)
    /\ document' = doc /\ version' = version + 1
    /\ Goto(i, pc[i], next) \/ Goto(i, pc[i], "lost")
    /\ UNCHANGED tries

\* The write answers 412: read again, or give up after the last round.
Conflict(i, again, exhausted) ==
    /\ ~Matches(i)
    /\ tries' = [tries EXCEPT ![i] = @ + 1]
    /\ Goto(i, pc[i], IF tries[i] + 1 < MaxTries THEN again ELSE exhausted)
    /\ UNCHANGED <<document, version>>

ReservePut(i) ==
    /\ pc[i] = "reserve_put"
    /\ \/ Write(i, Reservation(now[i] + Lease), "holds")
       \/ Conflict(i, "reserve_get", "left")
    /\ UNCHANGED <<clock, started, now, seen>>

\* The sink confirmed the event: its holder marks it.
CallMark(i) ==
    /\ Goto(i, "holds", "mark_get")
    /\ tries' = [tries EXCEPT ![i] = 0]
    /\ UNCHANGED <<clock, document, version, started, now, seen>>

\* A missing document raises, a delivered one returns.
MarkGet(i) ==
    /\ Goto(i, "mark_get", CASE document.state = "absent"    -> "lost"
                             [] document.state = "delivered" -> "left"
                             [] document.state = "reserved"  -> "mark_put")
    /\ seen' = [seen EXCEPT ![i] = version]
    /\ UNCHANGED <<clock, document, version, started, now, tries>>

MarkPut(i) ==
    /\ pc[i] = "mark_put"
    /\ Write(i, Delivered, "left") \/ Conflict(i, "mark_get", "lost")
    /\ UNCHANGED <<clock, started, now, seen>>

\* The invocation ends: a request raised, or the platform killed it.
End(i) ==
    /\ Live(i)
    /\ Goto(i, pc[i], IF pc[i] = "started" THEN "left" ELSE "lost")
    /\ UNCHANGED <<clock, document, version, started, now, seen, tries>>

Next ==
    \/ Tick
    \/ \E i \in Callers :
           \/ Start(i) \/ CallReserve(i) \/ ReserveGet(i) \/ ReservePut(i)
           \/ CallMark(i) \/ MarkGet(i) \/ MarkPut(i) \/ End(i)

Spec == Init /\ [][Next]_vars
-----------------------------------------------------------------------------
(* What the ledger promises.                                               *)

\* The shape of the object and of a caller's locals.
TypeOK ==
    /\ clock \in Nat /\ version \in Nat
    /\ document \in [state : {"absent", "reserved", "delivered"}, expires : Nat]
    /\ pc \in [Callers -> {"idle", "started", "left", "lost"} \cup Reserving \cup Holding]
    /\ started \in [Callers -> Nat] /\ now \in [Callers -> Nat]
    /\ seen \in [Callers -> Nat] /\ tries \in [Callers -> Nat]

\* At most one live caller holds the key, and its reservation stands under an
\* unexpired lease until it marks it: mark_delivered never finds the document
\* missing, taken over or delivered by somebody else.
SoleHolder ==
    \A i \in Callers : pc[i] \in Holding =>
        /\ document.state = "reserved" /\ document.expires > clock
        /\ \A j \in Callers \ {i} : pc[j] \notin Holding

\* The bounded loops never run out of rounds: reserve loses at most one
\* conditional write, since the winner's lease or mark refuses it on the next
\* read, and mark_delivered loses none.  So reserve's final "return False"
\* cannot leave out a key that nobody holds, and mark_delivered cannot fail
\* on contention.
ContentionIsSettled ==
    \A i \in Callers :
        /\ pc[i] \in Reserving => tries[i] <= 1
        /\ pc[i] \in Marking => tries[i] = 0

\* "A delivered record is permanent" (object_storage_adapters.py:135).
DeliveredStays == document = Delivered => document' = Delivered
DeliveredIsPermanent == [][DeliveredStays]_vars

\* A place in the loops, seen from outside.
StageAt(place) ==
    IF place \in Reserving THEN "reserve"
    ELSE IF place \in Holding THEN "holds" ELSE place

Atomic == INSTANCE AtomicLedger WITH stage <- [i \in Callers |-> StageAt(pc[i])]

\* The loops implement the one-step reserve and mark of AtomicLedger.
ImplementsAtomicLedger == Atomic!Spec
=============================================================================
