--------------------------- MODULE EvidenceExport ---------------------------
(***************************************************************************)
(* The Splunk evidence exporter: concurrent invocations of one OCI         *)
(* Function, each exporting the evidence behind one alarm notification of  *)
(* one detection (src/scripts/splunk_evidence_exporter/service.py), over   *)
(* the state they share in Object Storage: the query checkpoint with its   *)
(* ETag, one delivery-ledger object per event key, and the dead letters.   *)
(* Meanwhile operators may replay dead letters.                            *)
(*                                                                         *)
(* A step is one remote call.  Between two steps of an invocation any      *)
(* other invocation may step, the clock may advance, and the invocation    *)
(* may end: a call raises, or the platform kills the Function.             *)
(*                                                                         *)
(* An event stands for its event key, which does not depend on the query   *)
(* window, so two overlapping exports see the same event.  A ledger call   *)
(* (a bounded read / compare-and-swap loop) is one step here.              *)
(***************************************************************************)
EXTENDS Integers, FiniteSets

CONSTANTS
    Invocations,      \* Function invocations, each serving one notification
    Events,           \* event keys the detection's query can return
    EventTime,        \* [Events -> Nat], the log time the query filters on
    Alarms,           \* alarm_end times the alarm can be notified with
    IndexDelay,       \* how late after its time Log Analytics may index an event
    Lookback,         \* window length when there is no checkpoint
    Overlap,          \* how far a window reaches back behind the checkpoint
    MaximumWindow,    \* longest window the exporter will query
    MaxRows,          \* row limit of one query
    MaxBatchEvents,   \* events sent to the sink at once
    MaxAttempts,      \* delivery attempts for a batch
    MaxSaves,         \* conditional writes save_checkpoint tries (3)
    Lease,            \* reservation_lease (10 minutes)
    FunctionTimeout,  \* the platform ends an invocation after this long
    MaxTime           \* bound of the model: the clock stops here

\* Durations and limits the constructors and window.py insist on.
ASSUME DurationsAssumption ==
    /\ Lookback \in Nat \ {0} /\ Overlap \in Nat /\ MaximumWindow \in Nat \ {0}
    /\ MaxRows \in Nat \ {0} /\ MaxBatchEvents \in Nat \ {0}
    /\ MaxAttempts \in Nat \ {0} /\ MaxSaves \in Nat \ {0} /\ MaxTime \in Nat

ASSUME DataAssumption ==
    /\ EventTime \in [Events -> Nat]
    /\ Alarms \subseteq Nat
    /\ IsFiniteSet(Events)
    /\ IndexDelay \in Nat

\* Ten minutes of lease against the 300 seconds that Terraform allows a
\* Function (stack/modules/splunk_evidence_exporter/variables.tf:157).
ASSUME LeaseAssumption ==
    /\ FunctionTimeout \in Nat
    /\ Lease \in Nat
    /\ FunctionTimeout < Lease

VARIABLES
    clock,        \* wall-clock time, the same for every invocation
    indexed,      \* events Log Analytics can return by now
    sink,         \* events Splunk (or the stream) has received at least once
    checkpoint,   \* the watermark object's content, or NoCheckpoint
    etag,         \* its version; 0 while the object does not exist
    ledger,       \* state of each event's ledger object
    lease,        \* lease_expires_at of each reserved ledger object
    dlq,          \* dead-letter records
    pc,           \* where each invocation is
    status,       \* the receipt each invocation returned
    alarm,        \* its trigger.alarm_end
    started,      \* when the platform started it
    known,        \* the checkpoint ETag it remembers
    windowStart,  \* start of its query window
    now,          \* the clock value its reservations use
    toReserve,    \* queried events it has yet to reserve
    pending,      \* events it reserved that are in no batch yet
    batch,        \* events of the current batch, not yet marked delivered
    confirmed,    \* delivered_event_keys: events the sink confirmed to it
    attempt,      \* failed attempts of the current batch
    conflicts     \* conditional checkpoint writes that returned 412

store == <<checkpoint, etag, ledger, lease, dlq>>
world == <<clock, indexed, sink>>
run   == <<alarm, started, known, windowStart, now, status>>
work  == <<toReserve, pending, batch, confirmed, attempt, conflicts>>
vars  == <<clock, indexed, sink, checkpoint, etag, ledger, lease, dlq, pc,
           status, alarm, started, known, windowStart, now, toReserve, pending,
           batch, confirmed, attempt, conflicts>>

NoCheckpoint == -1   \* get_object answered 404; every real time is >= 0

Ended    == {"idle", "done", "raised"}
Stages   == Ended \cup {"load", "query", "reserve", "batch", "deliver",
                        "quarantine", "mark", "save", "reload"}
Receipts == {"none", "no_evidence", "delivered", "delivery_failed"}

Running(i)  == pc[i] \notin Ended
Held(i)     == pending[i] \cup batch[i]    \* reserved, not yet marked
Reserved(i) == Held(i) \cup confirmed[i]   \* everything i ever reserved

DeadLetters == [invocation : Invocations, checkpoint : Nat,
                confirmed : SUBSET Events, remaining : SUBSET Events]

Goto(i, from, to) == pc[i] = from /\ pc' = [pc EXCEPT ![i] = to]

Return(i, receipt) ==
    /\ pc' = [pc EXCEPT ![i] = "done"]
    /\ status' = [status EXCEPT ![i] = receipt]

-----------------------------------------------------------------------------
(* The query window, and what Log Analytics answers.                       *)

WindowFrom(end, watermark) ==
    IF watermark = NoCheckpoint THEN end - Lookback - Overlap
                                ELSE watermark - Overlap

WindowAllowed(start, end) == start <= end /\ end - start <= MaximumWindow

\* The rows of a window: every indexed event in it, or any MaxRows of them.
QueryResults(start, end) ==
    LET matching == {e \in indexed : start <= EventTime[e] /\ EventTime[e] <= end}
    IN  IF Cardinality(matching) <= MaxRows
        THEN {matching}
        ELSE {rows \in SUBSET matching : Cardinality(rows) = MaxRows}

\* batch_events cuts what is left into batches of at most MaxBatchEvents.
NextBatches(left) ==
    IF Cardinality(left) <= MaxBatchEvents
    THEN {left}
    ELSE {b \in SUBSET left : Cardinality(b) = MaxBatchEvents}

-----------------------------------------------------------------------------
Init ==
    /\ clock = 0 /\ indexed = {} /\ sink = {}
    /\ checkpoint = NoCheckpoint /\ etag = 0
    /\ ledger = [e \in Events |-> "absent"] /\ lease = [e \in Events |-> 0]
    /\ dlq = {}
    /\ pc = [i \in Invocations |-> "idle"]
    /\ status = [i \in Invocations |-> "none"]
    /\ alarm = [i \in Invocations |-> 0] /\ started = [i \in Invocations |-> 0]
    /\ known = [i \in Invocations |-> 0] /\ windowStart = [i \in Invocations |-> 0]
    /\ now = [i \in Invocations |-> 0]
    /\ toReserve = [i \in Invocations |-> {}] /\ pending = [i \in Invocations |-> {}]
    /\ batch = [i \in Invocations |-> {}] /\ confirmed = [i \in Invocations |-> {}]
    /\ attempt = [i \in Invocations |-> 0] /\ conflicts = [i \in Invocations |-> 0]

\* Time passes, but no invocation outlives its timeout and no event is
\* indexed later than IndexDelay allows.
Tick ==
    /\ clock < MaxTime
    /\ \A e \in Events \ indexed : clock < EventTime[e] + IndexDelay
    /\ \A i \in Invocations : Running(i) => clock < started[i] + FunctionTimeout
    /\ clock' = clock + 1
    /\ UNCHANGED <<indexed, sink, store, pc, run, work>>

\* An event becomes searchable, at its log time or (late arrival) after it.
Index(e) ==
    /\ e \notin indexed /\ EventTime[e] <= clock
    /\ indexed' = indexed \cup {e}
    /\ UNCHANGED <<clock, sink, store, pc, run, work>>

\* Notifications delivers an alarm: at least once, in any order, any delay.
Notify(i) ==
    \E end \in Alarms :
        /\ end <= clock
        /\ Goto(i, "idle", "load")
        /\ alarm' = [alarm EXCEPT ![i] = end]
        /\ started' = [started EXCEPT ![i] = clock]
        /\ UNCHANGED <<world, store, known, windowStart, now, status, work>>

\* load_checkpoint remembers the ETag; calculate_window bounds the window.
LoadCheckpoint(i) ==
    LET start == WindowFrom(alarm[i], checkpoint) IN
    /\ Goto(i, "load", IF WindowAllowed(start, alarm[i]) THEN "query" ELSE "raised")
    /\ known' = [known EXCEPT ![i] = etag]
    /\ windowStart' = [windowStart EXCEPT ![i] = start]
    /\ UNCHANGED <<world, store, alarm, started, now, status, work>>

\* query_evidence, then the clock is read once for all the reservations.
Query(i) ==
    \E rows \in QueryResults(windowStart[i], alarm[i]) :
        /\ Goto(i, "query", IF rows = {} THEN "batch" ELSE "reserve")
        /\ toReserve' = [toReserve EXCEPT ![i] = rows]
        /\ now' = [now EXCEPT ![i] = clock]
        /\ UNCHANGED <<world, store, alarm, started, known, windowStart, status,
                       pending, batch, confirmed, attempt, conflicts>>

\* Mutant: a reservation is taken over without looking at its lease.
ReservableAnyLease(e, time) == ledger[e] # "delivered"

Reservable(e, time) ==
    \/ ledger[e] = "absent"
    \/ ledger[e] = "reserved" /\ lease[e] <= time

\* Mutant: the lease runs from the alarm instead of from the reservation.
LeaseFromAlarm(i) == alarm[i] + Lease

LeaseExpiry(i) == now[i] + Lease

\* reserve: take the event, or leave it to whoever holds or delivered it.
Reserve(i) ==
    \E e \in toReserve[i] :
        LET taken == Reservable(e, now[i]) IN
        /\ Goto(i, "reserve", IF toReserve[i] = {e} THEN "batch" ELSE "reserve")
        /\ toReserve' = [toReserve EXCEPT ![i] = @ \ {e}]
        /\ ledger' = IF taken THEN [ledger EXCEPT ![e] = "reserved"] ELSE ledger
        /\ lease' = IF taken THEN [lease EXCEPT ![e] = LeaseExpiry(i)] ELSE lease
        /\ pending' = IF taken THEN [pending EXCEPT ![i] = @ \cup {e}] ELSE pending
        /\ UNCHANGED <<world, checkpoint, etag, dlq, run, batch, confirmed,
                       attempt, conflicts>>

\* Every row was delivered or is reserved elsewhere, or there was no row.
NoEvidence(i) ==
    /\ pc[i] = "batch" /\ Reserved(i) = {}
    /\ Return(i, "no_evidence")
    /\ UNCHANGED <<world, store, alarm, started, known, windowStart, now, work>>

TakeBatch(i) ==
    \E b \in NextBatches(pending[i]) :
        /\ pending[i] # {}
        /\ Goto(i, "batch", "deliver")
        /\ batch' = [batch EXCEPT ![i] = b]
        /\ pending' = [pending EXCEPT ![i] = @ \ b]
        /\ attempt' = [attempt EXCEPT ![i] = 0]
        /\ UNCHANGED <<world, store, run, toReserve, confirmed, conflicts>>

\* Mutant: a put that failed for some events is taken for a success.
PartlyAccepted(i) == SUBSET batch[i]

\* What the sink has received when the attempt is classified "success".
Accepted(i) == {batch[i]}

\* The sink confirms the whole batch.
AttemptSucceeds(i) ==
    \E received \in Accepted(i) :
        /\ Goto(i, "deliver", "mark")
        /\ sink' = sink \cup received
        /\ confirmed' = [confirmed EXCEPT ![i] = @ \cup batch[i]]
        /\ UNCHANGED <<clock, indexed, store, run, toReserve, pending, batch,
                       attempt, conflicts>>

\* Mutant: the attempts are counted down below zero instead of up.
CountedDown(i) == attempt[i] - 1

NextAttempt(i) == attempt[i] + 1

\* The attempt fails, whatever part of the batch the sink took in: all of it
\* when only the answer was lost, some of it when a stream put partly failed.
\* A retryable failure is tried again; the last one, or a quarantine, is not.
AttemptFails(i) ==
    \E received \in SUBSET batch[i], outcome \in {"retryable", "quarantine"} :
        LET again == outcome = "retryable" /\ NextAttempt(i) < MaxAttempts IN
        /\ Goto(i, "deliver", IF again THEN "deliver" ELSE "quarantine")
        /\ sink' = sink \cup received
        /\ attempt' = [attempt EXCEPT ![i] = NextAttempt(i)]
        /\ UNCHANGED <<clock, indexed, store, run, toReserve, pending, batch,
                       confirmed, conflicts>>

\* mark_delivered, one event at a time, once the sink confirmed the batch.
MarkDelivered(i) ==
    \E e \in batch[i] :
        /\ ledger[e] # "absent"
        /\ Goto(i, "mark", IF batch[i] = {e} THEN "batch" ELSE "mark")
        /\ ledger' = [ledger EXCEPT ![e] = "delivered"]
        /\ batch' = [batch EXCEPT ![i] = @ \ {e}]
        /\ UNCHANGED <<world, checkpoint, etag, lease, dlq, run, toReserve,
                       pending, confirmed, attempt, conflicts>>

\* Mutant: only the failed batch is dead-lettered, not the ones after it.
FailedBatch(i) == batch[i]

\* Mutant: the confirmed prefix is dead-lettered for replay as well.
WholeExport(i) == Reserved(i)

Unconfirmed(i) == Held(i)

\* quarantine everything unconfirmed; a failed DeliveryFailed metric raises.
Quarantine(i) ==
    /\ pc[i] = "quarantine"
    /\ dlq' = dlq \cup {[invocation |-> i, checkpoint |-> alarm[i],
                         confirmed |-> confirmed[i], remaining |-> Unconfirmed(i)]}
    /\ \/ Return(i, "delivery_failed")
       \/ pc' = [pc EXCEPT ![i] = "raised"] /\ UNCHANGED status
    /\ UNCHANGED <<world, checkpoint, etag, ledger, lease, alarm, started,
                   known, windowStart, now, work>>

\* Mutant: the checkpoint is saved after the first batch.
FirstBatchMarked(i) == pc[i] = "batch" /\ confirmed[i] # {}

AllBatchesMarked(i) == pc[i] = "batch" /\ pending[i] = {} /\ confirmed[i] # {}

\* Mutant: an unconditional put_object.
AnyEtagMatches(i) == TRUE

EtagMatches(i) == known[i] = etag

\* save_checkpoint's conditional write, once every batch is marked.  A write
\* that Object Storage applied may still raise.
PutCheckpoint(i) ==
    /\ AllBatchesMarked(i) \/ pc[i] = "save"
    /\ \/ /\ EtagMatches(i)
          /\ etag' = etag + 1
          /\ checkpoint' = alarm[i]
          /\ \/ Return(i, "delivered")
             \/ pc' = [pc EXCEPT ![i] = "raised"] /\ UNCHANGED status
          /\ UNCHANGED conflicts
       \/ /\ ~EtagMatches(i)
          /\ conflicts' = [conflicts EXCEPT ![i] = @ + 1]
          /\ pc' = [pc EXCEPT ![i] = "reload"]
          /\ UNCHANGED <<etag, checkpoint, status>>
    /\ UNCHANGED <<world, ledger, lease, dlq, alarm, started, known, windowStart,
                   now, toReserve, pending, batch, confirmed, attempt>>

\* After a 412 the watermark is read again: done if it is at least as late,
\* one more write if one is left, and an error otherwise.
ReloadCheckpoint(i) ==
    /\ pc[i] = "reload"
    /\ known' = [known EXCEPT ![i] = etag]
    /\ \/ checkpoint >= alarm[i] /\ Return(i, "delivered")
       \/ /\ checkpoint < alarm[i]
          /\ pc' = [pc EXCEPT ![i] = IF conflicts[i] < MaxSaves THEN "save" ELSE "raised"]
          /\ UNCHANGED status
    /\ UNCHANGED <<world, store, alarm, started, windowStart, now, work>>

\* A call raised, or the invocation was killed; Notifications will retry.
Abort(i) ==
    /\ Running(i)
    /\ pc' = [pc EXCEPT ![i] = "raised"]
    /\ UNCHANGED <<world, store, run, work>>

\* An operator replays dead letters meanwhile (EvidenceReplay).  Replay reads
\* and writes the sink, the dead letters and the checkpoint, not the ledger.
Stores == INSTANCE EvidenceStores WITH Exports <- Invocations, Checkpoints <- Alarms

Replay ==
    /\ Stores!ReplayStep
    /\ UNCHANGED <<clock, indexed, ledger, lease, pc, run, work>>

Step(i) ==
    \/ LoadCheckpoint(i) \/ Query(i) \/ Reserve(i) \/ NoEvidence(i)
    \/ TakeBatch(i) \/ AttemptSucceeds(i) \/ AttemptFails(i)
    \/ MarkDelivered(i) \/ Quarantine(i) \/ PutCheckpoint(i) \/ ReloadCheckpoint(i)

Exporting == \E i \in Invocations : Notify(i) \/ Step(i) \/ Abort(i)

Next == Tick \/ Replay \/ (\E e \in Events : Index(e)) \/ Exporting

Spec == Init /\ [][Next]_vars

\* A started invocation keeps running until it returns, raises or is killed.
FairSpec == Spec /\ \A i \in Invocations : WF_vars(Step(i))
-----------------------------------------------------------------------------
(* What the exporter promises.                                             *)

\* Every variable has its type: the shape of the shared objects and of an
\* invocation's locals.
TypeOK ==
    /\ clock \in Nat /\ indexed \subseteq Events /\ sink \subseteq Events
    /\ checkpoint \in Nat \cup {NoCheckpoint} /\ etag \in Nat
    /\ ledger \in [Events -> {"absent", "reserved", "delivered"}]
    /\ lease \in [Events -> Nat]
    /\ dlq \subseteq DeadLetters
    /\ pc \in [Invocations -> Stages] /\ status \in [Invocations -> Receipts]
    /\ alarm \in [Invocations -> Nat] /\ started \in [Invocations -> Nat]
    /\ known \in [Invocations -> Nat] /\ windowStart \in [Invocations -> Int]
    /\ now \in [Invocations -> Nat]
    /\ toReserve \in [Invocations -> SUBSET Events]
    /\ pending \in [Invocations -> SUBSET Events]
    /\ batch \in [Invocations -> SUBSET Events]
    /\ confirmed \in [Invocations -> SUBSET Events]
    /\ attempt \in [Invocations -> Nat] /\ conflicts \in [Invocations -> Nat]

\* No two live invocations hold the same event: a reservation is taken over
\* only from an invocation that has ended (reserve, and the lease).
ExclusiveHolding ==
    \A i, j \in Invocations :
        i # j /\ Running(i) /\ Running(j) => Held(i) \cap Held(j) = {}

\* What a live invocation still has to send or mark is reserved under a lease
\* that has not expired, so nobody delivered it meanwhile and mark_delivered
\* never finds its ledger object missing.
HoldsUnderLiveLease ==
    \A i \in Invocations : Running(i) =>
        \A e \in Held(i) : ledger[e] = "reserved" /\ lease[e] > clock

\* A ledger object says "delivered" only of an event the sink received.
DeliveredWasReceived == \A e \in Events : ledger[e] = "delivered" => e \in sink

\* The watermark is the alarm end of an export that has ended and reserved
\* something, and the sink received all of that: the ledger says so, or the
\* export failed and was replayed.  The checkpoint never runs ahead.
CheckpointJustified ==
    checkpoint # NoCheckpoint =>
        \E i \in Invocations :
            /\ alarm[i] = checkpoint /\ ~Running(i)
            /\ Reserved(i) # {} /\ Reserved(i) \subseteq sink
            /\ \/ \A e \in Reserved(i) : ledger[e] = "delivered"
               \/ \E r \in dlq : r.invocation = i

\* A dead letter, of an export or of a replay, splits what the export reserved
\* into what the sink confirmed, of which the ledger records at least the
\* export's part, and a rest that replay still has to send.
DeadLetterIsExact ==
    \A r \in dlq :
        /\ r.confirmed \cup r.remaining = Reserved(r.invocation)
        /\ r.confirmed \cap r.remaining = {} /\ r.remaining # {}
        /\ confirmed[r.invocation] \subseteq r.confirmed /\ r.confirmed \subseteq sink
        /\ \A e \in confirmed[r.invocation] : ledger[e] = "delivered"

\* Whatever an export reserved is received by the sink or dead-lettered by the
\* time it returns a receipt, whichever receipt that is.
ReceiptAccountsForReserved ==
    \A i \in Invocations : pc[i] = "done" =>
        Reserved(i) \subseteq sink \cup UNION {r.remaining : r \in {d \in dlq : d.invocation = i}}

\* A save moves the watermark back by at most the overlap, because a window
\* may not start after it ends and the write is conditional on the ETag that
\* was read with the watermark the window started from.
WatermarkRegression == checkpoint' # checkpoint => checkpoint' + Overlap >= checkpoint
CheckpointRegressionBounded == [][WatermarkRegression]_vars

\* A reserved event does not stay undecided: it is marked delivered or
\* dead-lettered, or its invocation is lost.
HeldSettles ==
    \A i \in Invocations, e \in Events :
        e \in Held(i) ~> \/ pc[i] = "raised"
                         \/ ledger[e] = "delivered"
                         \/ \E r \in dlq : e \in r.remaining

\* One event's ledger object, and where an invocation stands with it.
Document(e) ==
    [state |-> ledger[e], expires |-> IF ledger[e] = "reserved" THEN lease[e] ELSE 0]

StageWith(e, i) ==
    IF pc[i] = "idle" THEN "idle"
    ELSE IF pc[i] \in {"load", "query"} THEN "started"
    ELSE IF e \in toReserve[i] THEN IF Running(i) THEN "reserve" ELSE "lost"
    ELSE IF e \in Held(i) THEN IF Running(i) THEN "holds" ELSE "lost"
    ELSE "left"

Ledger(e) == INSTANCE AtomicLedger
    WITH Callers <- Invocations, document <- Document(e),
         stage <- [i \in Invocations |-> StageWith(e, i)]

\* The exports use each event's ledger as AtomicLedger allows: they ask once,
\* under one reading of the clock, and mark only what they hold.
UsesLedger(e) == Ledger(e)!Spec

\* The delivery an invocation is engaged in, and how its last one came out.
InDelivery(i) == pc[i] = "deliver"

Verdict(i) == CASE InDelivery(i) -> "pending"
                [] pc[i] = "mark" -> "success"
                [] pc[i] = "quarantine" -> "failed"
                [] OTHER -> "idle"

BatchInDelivery(i) == IF InDelivery(i) THEN batch[i] ELSE {}
FailedAttempts(i)  == IF InDelivery(i) THEN attempt[i] ELSE 0

Delivery(i) == INSTANCE AtomicDelivery
    WITH batch <- BatchInDelivery(i), failures <- FailedAttempts(i), outcome <- Verdict(i)

\* An invocation delivers as AtomicDelivery allows, the other invocations
\* being where else the sink's events come from: one batch at a time, marked
\* only after a success, and no attempt beyond the last.
UsesDelivery(i) == Delivery(i)!Spec

\* The exports do to the stores only what EvidenceReplay assumes of exports:
\* their dead letters split events exactly, one letter per export, and their
\* saves move the watermark back by at most the overlap, replays or no replays.
ExportsKeepToTheirPart ==
    [][Exporting => Stores!ExportStep \/ UNCHANGED Stores!vars]_vars

\* Claim of service.py:175 and of the runbook: the watermark is never moved
\* backwards by an older alarm.
CheckpointNeverRegresses == [][checkpoint' >= checkpoint]_vars

\* Claim of the ledger adapter (object_storage_adapters.py:132, 211): delivery
\* is at least once across instances, a crash being recoverable by takeover.
\* An event once reserved is received, dead-lettered, held by a live
\* invocation, or still inside the window of every export yet to come.
ReservedStaysRecoverable ==
    \A i \in Invocations : \A e \in Reserved(i) :
        \/ e \in sink
        \/ \E r \in dlq : e \in r.remaining
        \/ \E j \in Invocations : Running(j) /\ e \in Held(j)
        \/ checkpoint = NoCheckpoint
        \/ WindowFrom(clock, checkpoint) <= EventTime[e]
=============================================================================
