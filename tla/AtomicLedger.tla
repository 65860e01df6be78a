---------------------------- MODULE AtomicLedger ----------------------------
(***************************************************************************)
(* What the delivery ledger promises for one event key: reserve and        *)
(* mark_delivered behave as if each were a single step on the key's        *)
(* document, and reserve answers False only when the key is delivered or   *)
(* under an unexpired lease.  DeliveryLedger implements this promise with  *)
(* reads and conditional writes; EvidenceExport is written against it.     *)
(***************************************************************************)
EXTENDS Integers

CONSTANTS
    Callers,          \* Function invocations, over and over
    Lease,            \* reservation_lease
    FunctionTimeout,  \* the platform ends an invocation after this long
    MaxTime           \* bound of the model: the clock stops here

VARIABLES
    clock,     \* wall-clock time
    document,  \* the key's ledger document
    stage,     \* each caller's business with the key
    started,   \* when its invocation started
    now        \* the clock value it passes to reserve

vars == <<clock, document, stage, started, now>>

Absent           == [state |-> "absent", expires |-> 0]
Delivered        == [state |-> "delivered", expires |-> 0]
Reservation(end) == [state |-> "reserved", expires |-> end]

Reservable(doc, time) ==
    \/ doc.state = "absent"
    \/ doc.state = "reserved" /\ doc.expires <= time

\* "left": never asked, was refused, or marked it.  "lost": its invocation
\* ended while it asked for or held the key.
Live(i) == stage[i] \in {"started", "reserve", "holds"}

Move(i, from, to) == stage[i] = from /\ stage' = [stage EXCEPT ![i] = to]

Init ==
    /\ clock = 0 /\ document = Absent
    /\ stage = [i \in Callers |-> "idle"]
    /\ started = [i \in Callers |-> 0] /\ now = [i \in Callers |-> 0]

Tick ==
    /\ clock < MaxTime
    /\ \A i \in Callers : Live(i) => clock < started[i] + FunctionTimeout
    /\ clock' = clock + 1
    /\ UNCHANGED <<document, stage, started, now>>

Start(i) ==
    /\ ~Live(i)
    /\ stage' = [stage EXCEPT ![i] = "started"]
    /\ started' = [started EXCEPT ![i] = clock]
    /\ UNCHANGED <<clock, document, now>>

\* The clock is read once; the rows need not contain the key.
Ask(i) ==
    /\ Move(i, "started", "reserve") \/ Move(i, "started", "left")
    /\ now' = [now EXCEPT ![i] = clock]
    /\ UNCHANGED <<clock, document, started>>

\* Granted, even if the caller never learns of it.
Grant(i) ==
    /\ Reservable(document, now[i])
    /\ Move(i, "reserve", "holds") \/ Move(i, "reserve", "lost")
    /\ document' = Reservation(now[i] + Lease)
    /\ UNCHANGED <<clock, started, now>>

Refuse(i) ==
    /\ ~Reservable(document, now[i])
    /\ Move(i, "reserve", "left")
    /\ UNCHANGED <<clock, document, started, now>>

Mark(i) ==
    /\ document.state # "absent"
    /\ Move(i, "holds", "left") \/ Move(i, "holds", "lost")
    /\ document' = Delivered
    /\ UNCHANGED <<clock, started, now>>

End(i) ==
    /\ Move(i, "started", "left") \/ Move(i, "reserve", "lost") \/ Move(i, "holds", "lost")
    /\ UNCHANGED <<clock, document, started, now>>

Next ==
    \/ Tick
    \/ \E i \in Callers : Start(i) \/ Ask(i) \/ Grant(i) \/ Refuse(i) \/ Mark(i) \/ End(i)

Spec == Init /\ [][Next]_vars
=============================================================================
