--------------------------- MODULE EvidenceReplay ---------------------------
(***************************************************************************)
(* Replay of dead letters (service.py, class EvidenceReplayService):       *)
(* operators replay the records of one detection and set of dimensions,    *)
(* while its exports go on failing into the dead-letter bucket and saving  *)
(* the checkpoint.  A replay sends what its record says is missing, writes *)
(* a new record if the sink refuses, and moves the checkpoint to the       *)
(* record's once the sink confirmed everything.                            *)
(*                                                                         *)
(* The exports are modelled by what EvidenceExport is proved to do to the  *)
(* stores (EvidenceStores; ExportComposition_proofs, ExportsKeepPart).     *)
(* Replay reads neither the ledger nor the alarm.                          *)
(***************************************************************************)
EXTENDS Integers, FiniteSets

CONSTANTS
    Replays,         \* replay calls, each of one record
    Exports,         \* exports that may end in the dead-letter bucket
    Events,          \* event keys
    Checkpoints,     \* window ends of the exports
    Overlap,         \* how far one save may move the watermark back
    MaxBatchEvents,  \* events sent to the sink at once
    MaxSaves,        \* conditional writes save_checkpoint tries (3)
    MaxExportSaves   \* bound of the model: saves by exports

ASSUME ReplayAssumption ==
    /\ IsFiniteSet(Events)
    /\ Checkpoints \subseteq Nat
    /\ Overlap \in Nat /\ MaxExportSaves \in Nat
    /\ MaxBatchEvents \in Nat \ {0} /\ MaxSaves \in Nat \ {0}

VARIABLES
    sink,         \* events Splunk (or the stream) has received at least once
    dlq,          \* dead-letter records
    checkpoint,   \* the watermark object's content, or NoCheckpoint
    etag,         \* its version; 0 while the object does not exist
    exportSaves,  \* saves by exports so far
    pc,           \* where each replay is
    record,       \* the record it replays
    todo,         \* remaining events that are in no batch yet
    batch,        \* events of the current batch
    newly,        \* newly_delivered_keys: events the sink confirmed to it
    known,        \* the checkpoint ETag it remembers
    conflicts     \* conditional checkpoint writes that returned 412

vars == <<sink, dlq, checkpoint, etag, exportSaves, pc, record, todo, batch,
          newly, known, conflicts>>

NoCheckpoint == -1   \* get_object answered 404; every real time is >= 0

DeadLetters == [invocation : Exports, checkpoint : Checkpoints,
                confirmed : SUBSET Events, remaining : SUBSET Events]

NoRecord == [invocation |-> "none"]

Stages == {"idle", "batch", "deliver", "dead_letter", "put", "reload",
           "committed", "kept", "failed", "raised"}
Ended  == {"idle", "committed", "kept", "failed", "raised"}

Goto(p, from, to) == pc[p] = from /\ pc' = [pc EXCEPT ![p] = to]

\* Mutant: the limit is compared after the event was added.
LargerBatches(left) ==
    IF Cardinality(left) <= MaxBatchEvents + 1
    THEN {left}
    ELSE {b \in SUBSET left : Cardinality(b) = MaxBatchEvents + 1}

\* batch_events cuts what is left into batches of at most MaxBatchEvents.
NextBatches(left) ==
    IF Cardinality(left) <= MaxBatchEvents
    THEN {left}
    ELSE {b \in SUBSET left : Cardinality(b) = MaxBatchEvents}

Init ==
    /\ sink = {} /\ dlq = {}
    /\ checkpoint = NoCheckpoint /\ etag = 0 /\ exportSaves = 0
    /\ pc = [p \in Replays |-> "idle"] /\ record = [p \in Replays |-> NoRecord]
    /\ todo = [p \in Replays |-> {}] /\ batch = [p \in Replays |-> {}]
    /\ newly = [p \in Replays |-> {}]
    /\ known = [p \in Replays |-> 0] /\ conflicts = [p \in Replays |-> 0]

-----------------------------------------------------------------------------
(* The exports' part of what happens to the stores.                        *)

Stores == INSTANCE EvidenceStores

locals == <<pc, record, todo, batch, newly, known, conflicts>>

ExportDelivers == Stores!ExportDelivers /\ UNCHANGED <<exportSaves, locals>>

ExportFails(x) == Stores!ExportFails(x) /\ UNCHANGED <<exportSaves, locals>>

ExportSaves ==
    /\ exportSaves < MaxExportSaves /\ exportSaves' = exportSaves + 1
    /\ Stores!ExportSaves
    /\ UNCHANGED locals

-----------------------------------------------------------------------------
(* A replay.                                                               *)

\* Mutant: the first remaining event is taken for confirmed.
SkipsOne(r) == r.remaining \ {CHOOSE e \in r.remaining : TRUE}

\* The remaining events by key, without those the record confirms.
RemainingOf(r) == r.remaining \ r.confirmed

\* The record passes validation; its remaining events are restored.
Begin(p) ==
    \E r \in dlq :
        /\ Goto(p, "idle", "batch")
        /\ record' = [record EXCEPT ![p] = r]
        /\ todo' = [todo EXCEPT ![p] = RemainingOf(r)]
        /\ UNCHANGED <<sink, dlq, checkpoint, etag, exportSaves, batch, newly,
                       known, conflicts>>

TakeBatch(p) ==
    \E b \in NextBatches(todo[p]) :
        /\ todo[p] # {}
        /\ Goto(p, "batch", "deliver")
        /\ batch' = [batch EXCEPT ![p] = b]
        /\ todo' = [todo EXCEPT ![p] = @ \ b]
        /\ UNCHANGED <<sink, dlq, checkpoint, etag, exportSaves, record, newly,
                       known, conflicts>>

\* _delivery_outcome answers "success": the sink confirmed the whole batch.
DeliverySucceeds(p) ==
    /\ Goto(p, "deliver", "batch")
    /\ sink' = sink \cup batch[p]
    /\ newly' = [newly EXCEPT ![p] = @ \cup batch[p]]
    /\ batch' = [batch EXCEPT ![p] = {}]
    /\ UNCHANGED <<dlq, checkpoint, etag, exportSaves, record, todo, known, conflicts>>

\* Its attempts are used up, or it met a permanent failure: the sink may hold
\* any part of the batch.
DeliveryFails(p) ==
    \E taken \in SUBSET batch[p] :
        /\ Goto(p, "deliver", "dead_letter")
        /\ sink' = sink \cup taken
        /\ UNCHANGED <<dlq, checkpoint, etag, exportSaves, record, todo, batch,
                       newly, known, conflicts>>

\* Mutant: the failed batch counts as delivered.
CountsFailedBatch(p) == record[p].confirmed \cup newly[p] \cup batch[p]

Unconfirmed(p)   == batch[p] \cup todo[p]
ConfirmedKeys(p) == record[p].confirmed \cup newly[p]

\* quarantine the rest in a record of its own; the old record stays.  A write
\* that Object Storage applied may still raise.
DeadLetter(p) ==
    /\ Goto(p, "dead_letter", "failed") \/ Goto(p, "dead_letter", "raised")
    /\ dlq' = dlq \cup {[record[p] EXCEPT !.confirmed = ConfirmedKeys(p),
                                          !.remaining = Unconfirmed(p)]}
    /\ UNCHANGED <<sink, checkpoint, etag, exportSaves, record, todo, batch,
                   newly, known, conflicts>>

AllConfirmed(p) == todo[p] = {}

Behind(p) == checkpoint = NoCheckpoint \/ checkpoint < record[p].checkpoint

\* load_checkpoint: "already_current" and "preserved_newer" write nothing.
LoadCheckpoint(p) ==
    /\ AllConfirmed(p)
    /\ Goto(p, "batch", IF Behind(p) THEN "put" ELSE "kept")
    /\ known' = [known EXCEPT ![p] = etag]
    /\ UNCHANGED <<sink, dlq, checkpoint, etag, exportSaves, record, todo, batch,
                   newly, conflicts>>

\* Mutant: an unconditional put_object.
AnyEtagMatches(p) == TRUE

EtagMatches(p) == known[p] = etag

\* save_checkpoint's conditional write.
PutCheckpoint(p) ==
    /\ \/ /\ EtagMatches(p)
          /\ Goto(p, "put", "committed") \/ Goto(p, "put", "raised")
          /\ checkpoint' = record[p].checkpoint /\ etag' = etag + 1
          /\ UNCHANGED conflicts
       \/ /\ ~EtagMatches(p)
          /\ Goto(p, "put", "reload")
          /\ conflicts' = [conflicts EXCEPT ![p] = @ + 1]
          /\ UNCHANGED <<checkpoint, etag>>
    /\ UNCHANGED <<sink, dlq, exportSaves, record, todo, batch, newly, known>>

\* After a 412 the watermark is read again.
ReloadCheckpoint(p) ==
    /\ Goto(p, "reload", IF ~Behind(p) THEN "committed"
                         ELSE IF conflicts[p] < MaxSaves THEN "put" ELSE "raised")
    /\ known' = [known EXCEPT ![p] = etag]
    /\ UNCHANGED <<sink, dlq, checkpoint, etag, exportSaves, record, todo, batch,
                   newly, conflicts>>

\* A call raised, or the operator's process was killed.
Abort(p) ==
    /\ pc[p] \notin Ended
    /\ pc' = [pc EXCEPT ![p] = "raised"]
    /\ UNCHANGED <<sink, dlq, checkpoint, etag, exportSaves, record, todo, batch,
                   newly, known, conflicts>>

Replaying ==
    \E p \in Replays :
        \/ Begin(p) \/ TakeBatch(p) \/ DeliverySucceeds(p) \/ DeliveryFails(p)
        \/ DeadLetter(p) \/ LoadCheckpoint(p) \/ PutCheckpoint(p)
        \/ ReloadCheckpoint(p) \/ Abort(p)

Next == ExportDelivers \/ ExportSaves \/ (\E x \in Exports : ExportFails(x)) \/ Replaying

Spec == Init /\ [][Next]_vars
-----------------------------------------------------------------------------
(* What replay promises.                                                   *)

\* The shape of the stores and of a replay's locals; no batch is over the limit.
TypeOK ==
    /\ sink \subseteq Events /\ dlq \subseteq DeadLetters
    /\ checkpoint \in Checkpoints \cup {NoCheckpoint}
    /\ etag \in Nat /\ exportSaves \in Nat
    /\ pc \in [Replays -> Stages]
    /\ record \in [Replays -> DeadLetters \cup {NoRecord}]
    /\ todo \in [Replays -> SUBSET Events] /\ batch \in [Replays -> SUBSET Events]
    /\ \A p \in Replays : Cardinality(batch[p]) <= MaxBatchEvents
    /\ newly \in [Replays -> SUBSET Events]
    /\ known \in [Replays -> Nat] /\ conflicts \in [Replays -> Nat]

\* However often a dead letter is replayed, by however many replays at once,
\* its descendants speak of the same export window and the same events, call
\* delivered only what the sink received, and still have something to send.
LineageIsExact ==
    \A r \in dlq :
        /\ r.confirmed \subseteq sink
        /\ r.remaining # {} /\ r.confirmed \cap r.remaining = {}
        /\ \A s \in dlq : s.invocation = r.invocation =>
               Stores!AllEvents(s) = Stores!AllEvents(r) /\ s.checkpoint = r.checkpoint

\* A replay that evaluates the checkpoint, whether it then saves it or finds a
\* newer one, has had every event of its export received: "never advance the
\* producer checkpoint before every remaining batch is confirmed"
\* (src/docs/SPLUNK_EVIDENCE_EXPORT_RUNBOOK.md:244).
CheckpointAfterDelivery ==
    \A p \in Replays : pc[p] \in {"put", "reload", "committed", "kept"} =>
        Stores!AllEvents(record[p]) \subseteq sink

\* A replay's write moves the watermark forward, whatever the exports and the
\* other replays did since it compared: it is conditional on the version it
\* compared with.
ReplayMovesForward ==
    \A p \in Replays :
        pc[p] = "put" /\ pc'[p] # "put" /\ etag' # etag => checkpoint' > checkpoint
ReplayNeverRegresses == [][ReplayMovesForward]_vars

\* A replay does to the stores only what EvidenceExport assumes of replays: it
\* sends what a record says is missing, adds records that descend from one
\* that is there, and saves only forward and only what was received.
ReplaysKeepToTheirPart ==
    [][Replaying => Stores!ReplayStep \/ UNCHANGED Stores!vars]_vars
=============================================================================
