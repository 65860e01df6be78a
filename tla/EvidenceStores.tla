--------------------------- MODULE EvidenceStores ---------------------------
(***************************************************************************)
(* What the exports and the replays of one detection may do to the state   *)
(* they share: the sink, the dead letters and the checkpoint.              *)
(*                                                                         *)
(* EvidenceExport runs the exports in full against ReplayStep, and         *)
(* EvidenceReplay the replays in full against ExportStep.  Each is proved  *)
(* to do no more than its own part here, whatever the other does within    *)
(* its part: so neither relies on anything the other does not keep.        *)
(***************************************************************************)
EXTENDS Integers

CONSTANTS
    Exports,       \* exports, each of one alarm notification
    Events,        \* event keys
    Checkpoints,   \* window ends of the exports
    Overlap        \* how far a window reaches back behind the checkpoint

VARIABLES
    sink,         \* events the sink has received at least once
    dlq,          \* dead-letter records
    checkpoint,   \* the watermark object's content, or NoCheckpoint
    etag          \* its version; 0 while the object does not exist

vars == <<sink, dlq, checkpoint, etag>>

NoCheckpoint == -1

AllEvents(r) == r.confirmed \cup r.remaining

Init == sink = {} /\ dlq = {} /\ checkpoint = NoCheckpoint /\ etag = 0

Save(end) == checkpoint' = end /\ etag' = etag + 1

-----------------------------------------------------------------------------
(* The exports' part.                                                      *)

\* A delivery attempt, successful or not, leaves some events with the sink.
ExportDelivers ==
    /\ \E taken \in SUBSET (Events \ sink) :
           taken # {} /\ sink' = sink \cup taken
    /\ UNCHANGED <<dlq, checkpoint, etag>>

\* An export writes at most one record, of a confirmed prefix and of a rest
\* that is not empty.
ExportFails(x) ==
    \E end \in Checkpoints, done \in SUBSET sink, left \in SUBSET Events :
        /\ \A r \in dlq : r.invocation # x
        /\ done \cap left = {} /\ left # {}
        /\ dlq' = dlq \cup {[invocation |-> x, checkpoint |-> end,
                             confirmed |-> done, remaining |-> left]}
        /\ UNCHANGED <<sink, checkpoint, etag>>

\* An export's save moves the watermark back by at most the overlap.
ExportSaves ==
    \E end \in Checkpoints :
        /\ end + Overlap >= checkpoint
        /\ Save(end)
        /\ UNCHANGED <<sink, dlq>>

ExportStep == ExportDelivers \/ ExportSaves \/ \E x \in Exports : ExportFails(x)

-----------------------------------------------------------------------------
(* The replays' part.                                                      *)

\* A replay sends only what its record says is missing.
ReplaySends ==
    /\ \E r \in dlq : \E taken \in SUBSET (r.remaining \ sink) :
           taken # {} /\ sink' = sink \cup taken
    /\ UNCHANGED <<dlq, checkpoint, etag>>

\* A replay that fails adds a record in which what the sink confirmed to it
\* has moved from the remaining events to the confirmed ones.
ReplayFails ==
    \E r \in dlq : \E newly \in SUBSET (r.remaining \cap sink) :
        /\ newly # {} /\ newly # r.remaining
        /\ dlq' = dlq \cup {[r EXCEPT !.confirmed = @ \cup newly,
                                      !.remaining = @ \ newly]}
        /\ UNCHANGED <<sink, checkpoint, etag>>

\* A replay's save moves the watermark forward, to the window end of an export
\* of which the sink has received everything.
ReplaySaves ==
    \E r \in dlq :
        /\ AllEvents(r) \subseteq sink
        /\ checkpoint < r.checkpoint
        /\ Save(r.checkpoint)
        /\ UNCHANGED <<sink, dlq>>

ReplayStep == ReplaySends \/ ReplayFails \/ ReplaySaves

Next == ExportStep \/ ReplayStep

Spec == Init /\ [][Next]_vars
=============================================================================
