--------------------------- MODULE AtomicDelivery ---------------------------
(***************************************************************************)
(* What a delivery promises its caller: batches are handed over one at a   *)
(* time, each attempt at one is a single step, and it is answered success  *)
(* only in a step after which the sink has every event of it.  A failed    *)
(* attempt may leave any part of the batch behind, and there are at most   *)
(* MaxAttempts of them.  EvidenceDelivery implements this promise with     *)
(* posts and polls; EvidenceExport and EvidenceReplay are written against  *)
(* it.                                                                     *)
(***************************************************************************)
EXTENDS Naturals

CONSTANTS
    Events,        \* event keys
    MaxAttempts    \* maximum_attempts

VARIABLES
    sink,       \* events the sink has received at least once, from anybody
    batch,      \* the batch in delivery
    failures,   \* its failed attempts
    outcome     \* "pending", or what the last delivery came to

vars == <<sink, batch, failures, outcome>>

Init ==
    /\ sink = {} /\ failures = 0
    /\ \/ outcome = "idle" /\ batch = {}
       \/ outcome = "pending" /\ batch \in SUBSET Events

HandOver ==
    /\ outcome # "pending" /\ outcome' = "pending"
    /\ batch' \in SUBSET Events
    /\ failures' = 0
    /\ UNCHANGED sink

\* The batch leaves the caller's hands with this outcome.
Settle(result) ==
    /\ outcome = "pending" /\ outcome' = result
    /\ batch' = {} /\ failures' = 0

Succeed ==
    /\ Settle("success")
    /\ sink' = sink \cup batch

Retry ==
    /\ outcome = "pending" /\ failures + 1 < MaxAttempts
    /\ \E taken \in SUBSET batch : sink' = sink \cup taken
    /\ failures' = failures + 1
    /\ UNCHANGED <<batch, outcome>>

Fail ==
    /\ Settle("failed")
    /\ \E taken \in SUBSET batch : sink' = sink \cup taken

\* The caller ends, or goes on to other things.
Leave ==
    /\ outcome' = "idle" /\ batch' = {} /\ failures' = 0
    /\ UNCHANGED sink

\* The sink takes in events: of this batch, at any time, or from elsewhere.
TakeIn ==
    /\ sink \subseteq sink' /\ sink' \subseteq Events
    /\ UNCHANGED <<batch, failures, outcome>>

Next == HandOver \/ Succeed \/ Retry \/ Fail \/ Leave \/ TakeIn

Spec == Init /\ [][Next]_vars
=============================================================================
