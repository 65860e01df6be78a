-------------------------- MODULE EvidenceDelivery --------------------------
(***************************************************************************)
(* Delivery of one batch: the attempt loop (_delivery_outcome), one post   *)
(* per attempt to the HTTP Event Collector (hec_adapter.py) or to OCI      *)
(* Streaming (streaming_adapter.py), the polling of the indexers'          *)
(* acknowledgement where the adapter waits for it, and the classification  *)
(* of what came back (retry.py).                                           *)
(*                                                                         *)
(* The sink takes in none, some or all of a post whatever it answers,      *)
(* indexes what it took in later or never, and time passes between any two *)
(* steps: the socket timeout bounds one blocking call, not a whole post.   *)
(***************************************************************************)
EXTENDS Integers

CONSTANTS
    Events,        \* the batch
    Sinks,         \* adapters considered: "response", "indexer_ack", "stream"
    MaxAttempts,   \* maximum_attempts
    MaxPolls,      \* _MAX_ACK_POLLS
    Timeout,       \* timeout_seconds: for all polls of one post together
    MaxTime        \* bound of the model: the clock stops here

ASSUME DeliveryAssumption ==
    /\ Events # {} /\ Sinks \subseteq {"response", "indexer_ack", "stream"}
    /\ MaxAttempts \in Nat \ {0} /\ MaxPolls \in Nat \ {0}
    /\ Timeout \in Nat \ {0} /\ MaxTime \in Nat

VARIABLES
    sink,       \* the adapter in use
    clock,      \* monotonic time
    taken,      \* events of each attempt's post the sink took in
    indexed,    \* attempts whose post the indexers have indexed
    pc,         \* where the delivery is
    attempt,    \* the current attempt
    replies,    \* what each attempt's post came back with
    polls,      \* polls of the current attempt's acknowledgement
    deadline,   \* when they end
    acked,      \* attempts whose acknowledgement was confirmed
    outcome     \* classification of the last attempt

vars == <<sink, clock, taken, indexed, pc, attempt, replies, polls, deadline,
          acked, outcome>>

Attempts == 1 .. MaxAttempts
Outcomes == {"success", "retryable", "quarantine"}

\* "complete": 2xx and code 0, with an ackId where one is awaited; "partial": a
\* put_messages result with failures; "bad_ack_id": 2xx and code 0 without a
\* usable ackId; "bad_body": 2xx with any other body; "busy": 408, 429, 5xx;
\* "refused": any other status; "unreachable": any other exception, a missing
\* token included.
Replies == {"complete", "partial", "bad_ack_id", "bad_body", "busy", "refused",
            "timed_out", "unreachable"}

RepliesOf(s) ==
    Replies \ CASE s = "response"    -> {"partial", "bad_ack_id"}
                [] s = "indexer_ack" -> {"partial"}
                [] s = "stream"      -> {"bad_ack_id", "bad_body"}

Init ==
    /\ sink \in Sinks
    /\ clock = 0 /\ indexed = {} /\ acked = {}
    /\ taken = [k \in Attempts |-> {}]
    /\ replies = [k \in Attempts |-> "none"]
    /\ pc = "post" /\ attempt = 1 /\ polls = 0 /\ deadline = 0
    /\ outcome = "retryable"

-----------------------------------------------------------------------------
(* Time and the sink.                                                      *)

Tick ==
    /\ clock < MaxTime /\ clock' = clock + 1
    /\ UNCHANGED <<sink, taken, indexed, pc, attempt, replies, polls, deadline,
                   acked, outcome>>

Index(k) ==
    /\ taken[k] = Events
    /\ indexed' = indexed \cup {k}
    /\ UNCHANGED <<sink, clock, taken, pc, attempt, replies, polls, deadline,
                   acked, outcome>>

-----------------------------------------------------------------------------
(* One attempt.                                                            *)

\* What all sinks are trusted with: they report a post as complete (HEC with 2xx
\* and code 0, put_messages with one entry per message and no failure) only when
\* they took in every event.
MayReportComplete(t) == t = Events

\* deliver polls for whatever integer came as ackId, usable or not.
PollsFor(r) ==
    IF sink # "indexer_ack" THEN {FALSE}
    ELSE CASE r = "complete" -> {TRUE}
           [] r \in {"bad_ack_id", "bad_body"} -> BOOLEAN
           [] OTHER -> {FALSE}

\* _post of the events, or put_messages.
Post ==
    \E r \in RepliesOf(sink), t \in SUBSET Events : \E polled \in PollsFor(r) :
        /\ pc = "post"
        /\ r \in {"complete", "bad_ack_id"} => MayReportComplete(t)
        /\ taken' = [taken EXCEPT ![attempt] = t]
        /\ replies' = [replies EXCEPT ![attempt] = r]
        /\ IF polled
           THEN pc' = "poll" /\ polls' = 0 /\ deadline' = clock + Timeout
           ELSE pc' = "classify" /\ UNCHANGED <<polls, deadline>>
        /\ UNCHANGED <<sink, clock, indexed, attempt, acked, outcome>>

\* _confirm_indexer_ack gives up when no time or no poll is left.
PollOrGiveUp ==
    /\ pc = "poll"
    /\ pc' = IF clock < deadline /\ polls < MaxPolls THEN "ask" ELSE "classify"
    /\ UNCHANGED <<sink, clock, taken, indexed, attempt, replies, polls,
                   deadline, acked, outcome>>

\* Mutant: the poll counter restarts with every answer.
PollsRestarted == 1

PollsMade == polls + 1

\* One poll: confirmed; refused with 4xx, which ends the polling; or not
\* confirmed, not answered or failed, which leads to the next.  After a poll
\* that outlasted the deadline there is none.
Ask ==
    /\ pc = "ask"
    /\ polls' = PollsMade
    /\ \/ attempt \in indexed /\ acked' = acked \cup {attempt} /\ pc' = "classify"
       \/ UNCHANGED acked /\ pc' \in {"poll", "classify"}
    /\ UNCHANGED <<sink, clock, taken, indexed, attempt, replies, deadline, outcome>>

-----------------------------------------------------------------------------
(* Classification and retry.                                               *)

\* Mutant: an ackId is taken for the acknowledgement.
ConfirmedByAckId == replies[attempt] = "complete"

\* Mutant: the failures of a put_messages result are not looked at.
ConfirmedByAnyResult ==
    /\ replies[attempt] \in {"complete", "partial"}
    /\ sink = "indexer_ack" => attempt \in acked

Confirmed ==
    replies[attempt] = "complete" /\ (sink = "indexer_ack" => attempt \in acked)

\* Mutant: a refusal is retried like an overload.
RetryableStatus == replies[attempt] \notin {"bad_ack_id", "bad_body", "unreachable"}

\* A Streaming result with failures is a 500.  An exception of the Streaming
\* client that has no status, a timeout among them, is a RuntimeError.
Retryable ==
    \/ replies[attempt] \in {"complete", "partial", "busy"}
    \/ replies[attempt] = "timed_out" /\ sink # "stream"

\* classify_hec_failure of what the adapter made of the reply.
Classified == CASE Confirmed -> "success"
                [] ~Confirmed /\ Retryable -> "retryable"
                [] OTHER -> "quarantine"

\* Mutant: one attempt too many.
OneMoreAttempt == attempt <= MaxAttempts

\* Mutant: one attempt too few.
OneFewerAttempt == attempt + 1 < MaxAttempts

AttemptsLeft == attempt < MaxAttempts

Classify ==
    /\ pc = "classify"
    /\ outcome' = Classified
    /\ IF outcome' = "retryable" /\ AttemptsLeft
       THEN pc' = "post" /\ attempt' = attempt + 1
       ELSE pc' = "done" /\ UNCHANGED attempt
    /\ UNCHANGED <<sink, clock, taken, indexed, replies, polls, deadline, acked>>

Step == Post \/ PollOrGiveUp \/ Ask \/ Classify

Next == Tick \/ Step \/ \E k \in Attempts : Index(k)

Spec == Init /\ [][Next]_vars

\* The Function keeps running, and no blocking call lasts for ever.  Neither
\* the passing of time nor indexing is assumed.
LiveSpec == Spec /\ WF_vars(Step)

-----------------------------------------------------------------------------
(* What delivery promises its caller.                                      *)

\* The shape of the loop's locals and of what the sink did.
TypeOK ==
    /\ sink \in Sinks /\ clock \in Nat
    /\ taken \in [Attempts -> SUBSET Events]
    /\ indexed \subseteq Attempts /\ acked \subseteq Attempts
    /\ pc \in {"post", "poll", "ask", "classify", "done"}
    /\ attempt \in Attempts
    /\ replies \in [Attempts -> Replies \cup {"none"}]
    /\ polls \in 0 .. MaxPolls /\ deadline \in Nat
    /\ outcome \in Outcomes

\* A batch reported as delivered is with the sink, every event of it and from
\* one post; in indexer-ack mode it is indexed: "checkpoint waits for
\* /services/collector/ack confirmation, not only ackId issuance"
\* (src/docs/SPLUNK_EVIDENCE_EXPORT_RUNBOOK.md:218).
SuccessIsConfirmed ==
    pc = "done" /\ outcome = "success" =>
        \E k \in Attempts :
            taken[k] = Events /\ (sink = "indexer_ack" => k \in indexed)

\* Events are sent again, at the price of duplicates, only while nothing said
\* that the sink holds them and nothing said that it never will: no attempt
\* follows a confirmed one or a refused one.
RepeatsAreJustified ==
    \A k \in Attempts : k < attempt =>
        /\ replies[k] = "complete" => sink = "indexer_ack" /\ k \notin acked
        /\ replies[k] # "refused"

\* A batch is handed to quarantine as retryable only after every attempt was
\* made, each of them without an answer that settles it.
RetryableIsExhausted ==
    pc = "done" /\ outcome = "retryable" =>
        \A k \in Attempts : replies[k] \in {"complete", "partial", "busy", "timed_out"}

\* What AtomicDelivery sees of a delivery.
Received == UNION {taken[k] : k \in Attempts}
InHand   == IF pc = "done" THEN {} ELSE Events
Failures == IF pc = "done" THEN 0 ELSE attempt - 1
Verdict  == IF pc # "done" THEN "pending"
            ELSE IF outcome = "success" THEN "success" ELSE "failed"

Atomic == INSTANCE AtomicDelivery WITH
    sink <- Received, batch <- InHand, failures <- Failures, outcome <- Verdict

\* The delivery, however its posts, polls and retries go, is one of those
\* that AtomicDelivery allows: an attempt may be taken for a single step, as
\* EvidenceExport does (service.py:60-91).
ImplementsAtomicDelivery == Atomic!Spec

\* The loop ends whatever the sink answers, and even if the clock stands still
\* while acknowledgements are polled.
DeliverySettles == <>(pc = "done")

\* "Splunk outage: Retry and DLQ" (src/docs/SPLUNK_PARALLEL_DESIGN.md:371): a
\* sink that cannot be reached is tried again before the batch is quarantined.
OutageIsRetried ==
    pc = "done" /\ replies[attempt] = "unreachable" => attempt = MaxAttempts
=============================================================================
