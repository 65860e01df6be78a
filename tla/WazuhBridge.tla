---------------------------- MODULE WazuhBridge ----------------------------
(***************************************************************************)
(* scripts/wazuh_to_oci_la.py --mode indexer, run by a timer: it pages     *)
(* through the documents of a lookback window of the Wazuh indexer and     *)
(* uploads them to Log Analytics, by log source and in batches.            *)
(*                                                                         *)
(* A document is its place in the indexer's sort order (timestamp, _id).   *)
(* Documents appear in the index some time after their timestamp, also     *)
(* while a run pages through it.  Log Analytics recognises a document that *)
(* it has, so what it stores is a set.  Not modelled: the input modes      *)
(* "file" and "stdin" (the same uploads of another list), --dry-run, and   *)
(* the classification of a document, which SourceOf stands for.            *)
(***************************************************************************)
EXTENDS Naturals, FiniteSets

CONSTANTS
    Docs,           \* documents, numbered in the sort order
    Timestamp,      \* [Docs -> Nat]
    SourceOf,       \* [Docs -> Sources]: classify_document
    Sources,        \* ALL_SOURCES, numbered in their order
    Lookback,       \* --lookback
    Period,         \* from one start to the next, delays included
    MaxLag,         \* longest time from a timestamp to the index
    ReadTime,       \* longest time for reading all pages
    PageSize,       \* INDEXER_PAGE_SIZE
    BatchSize,      \* --batch-size
    MaxRetries,     \* MAX_RETRIES
    MaxTime         \* bound on the clock

ASSUME DocumentsAssumption ==
    /\ Docs \subseteq Nat \ {0}
    /\ IsFiniteSet(Docs)
    /\ Sources \subseteq Nat
    /\ Timestamp \in [Docs -> Nat]
    /\ SourceOf \in [Docs -> Sources]
    /\ \A d, e \in Docs : d < e => Timestamp[d] <= Timestamp[e]

ASSUME LimitsAssumption ==
    /\ {Lookback, Period, MaxLag, ReadTime, MaxTime} \subseteq Nat
    /\ {PageSize, BatchSize, MaxRetries} \subseteq Nat \ {0}

\* wazuh-to-oci-la.service: "--lookback should be >= the timer interval so
\* windows overlap slightly".  Slightly means: by the time that documents
\* take to be indexed and the run to read them.
ASSUME ScheduleAssumption == MaxLag + Period + ReadTime <= Lookback

VARIABLES
    now,
    indexed,    \* documents in the indexer
    stored,     \* documents in Log Analytics
    pc,         \* "waiting" for the timer, "read" or "upload"
    exit,       \* exit code of the latest run
    started,    \* when the latest run started
    atStart,    \* what was indexed then: what its point in time shows
    pit,        \* did the indexer open a point in time?
    cursor,     \* search_after
    got,        \* documents read
    left,       \* documents read and not uploaded yet
    attempt,    \* of the upload of the first batch of left
    failed,     \* sources of which a batch failed
    excused     \* history: documents that a failed run was to forward

run == <<started, atStart, pit, cursor, got, left, attempt, failed>>

vars == <<now, indexed, stored, pc, exit, run, excused>>

Init ==
    /\ now = 0
    /\ indexed = {} /\ stored = {} /\ excused = {}
    /\ pc = "waiting" /\ exit = 0
    /\ started = 0 /\ atStart = {} /\ pit = FALSE /\ cursor = 0
    /\ got = {} /\ left = {} /\ attempt = 1 /\ failed = {}

-----------------------------------------------------------------------------
(* The clock, the indexer and the timer *)

\* The clock does not pass the deadline of a document to be indexed, nor of
\* a run to start, to read or to end.
Tick ==
    /\ now < MaxTime
    /\ \A d \in Docs \ indexed : now < Timestamp[d] + MaxLag
    /\ now < started + Period
    /\ pc = "read" => now < started + ReadTime
    /\ now' = now + 1
    /\ UNCHANGED <<indexed, stored, pc, exit, run, excused>>

Index(d) ==
    /\ d \notin indexed
    /\ now \in Timestamp[d] .. (Timestamp[d] + MaxLag)
    /\ indexed' = indexed \cup {d}
    /\ UNCHANGED <<now, stored, pc, exit, run, excused>>

\* The point in time may be refused: then the pages show the index as it is
\* when each of them is read.
Start ==
    /\ pc = "waiting"
    /\ pc' = "read"
    /\ started' = now
    /\ atStart' = indexed
    /\ pit' \in BOOLEAN
    /\ cursor' = 0
    /\ got' = {} /\ left' = {} /\ attempt' = 1 /\ failed' = {}
    /\ UNCHANGED <<now, indexed, stored, exit, excused>>

Leave(code) ==
    /\ pc' = "waiting"
    /\ exit' = code
    /\ excused' = IF code = 0 THEN excused ELSE excused \cup atStart

-----------------------------------------------------------------------------
(* read_indexer_documents *)

First(n, S) == {d \in S : Cardinality({e \in S : e < d}) < n}

\* Mutant: the window is open at its old end.
InOpenWindow(d) == Timestamp[d] + Lookback > now

\* The range query's "now" is the time of the page.
InWindow(d) == Timestamp[d] + Lookback >= now

\* Mutant: a page starts one document too late.
AfterNext(d) == cursor + 1 < d \/ cursor = 0

\* Mutant: a page starts with the last document of the one before.
AfterOrAt(d) == cursor <= d

After(d) == cursor < d

Matching == {d \in IF pit THEN atStart ELSE indexed : InWindow(d) /\ After(d)}

ReadPage ==
    /\ pc = "read"
    /\ Matching # {}
    /\ LET hits == First(PageSize, Matching) IN
       /\ got' = got \cup hits
       /\ \E last \in hits : (\A h \in hits : h <= last) /\ cursor' = last
    /\ UNCHANGED <<now, indexed, stored, pc, exit, started, atStart, pit, left,
                   attempt, failed, excused>>

\* An empty page ends the reading; without documents the run is over.
EndOfPages ==
    /\ pc = "read"
    /\ Matching = {}
    /\ IF got = {} THEN Leave(0) ELSE pc' = "upload" /\ UNCHANGED <<exit, excused>>
    /\ left' = got
    /\ UNCHANGED <<now, indexed, stored, started, atStart, pit, cursor, got,
                   attempt, failed>>

\* A search fails MAX_RETRIES times; the write guard refuses (2); the client
\* cannot be set up, an upload raises something else than a service error,
\* or the run is killed.
Raise ==
    /\ pc # "waiting"
    /\ \E code \in {1, 2} : (code = 2 => pc = "upload" /\ left = got) /\ Leave(code)
    /\ UNCHANGED <<now, indexed, stored, run>>

-----------------------------------------------------------------------------
(* run and _upload_batch *)

\* The first source of which documents are left.
Current(s) ==
    /\ \E d \in left : SourceOf[d] = s
    /\ \A d \in left : s <= SourceOf[d]

Batch(s) == First(BatchSize, {d \in left : SourceOf[d] = s})

NextBatch(s) ==
    /\ left' = left \ Batch(s)
    /\ attempt' = 1

Uploading(s) ==
    /\ pc = "upload"
    /\ Current(s)
    /\ UNCHANGED <<now, indexed, pc, exit, started, atStart, pit, cursor, got, excused>>

UploadSucceeds(s) ==
    /\ Uploading(s)
    /\ stored' = stored \cup Batch(s)
    /\ NextBatch(s)
    /\ UNCHANGED failed

\* Mutant: the result of the upload is not looked at.
ForgetsFailed(s) == failed

\* A batch of the source failed.
SourceFails(s) == failed \cup {s}

\* A 4xx other than 429: nothing was stored.
UploadRefused(s) ==
    /\ Uploading(s)
    /\ NextBatch(s)
    /\ failed' = SourceFails(s)
    /\ UNCHANGED stored

\* Mutant: one upload more.
OneMoreRetry == attempt <= MaxRetries

RetriesLeft == attempt < MaxRetries

\* A 429 or 5xx; a 5xx may have stored the batch.
UploadUnsettled(s) ==
    /\ Uploading(s)
    /\ \/ UNCHANGED stored
       \/ stored' = stored \cup Batch(s)
    /\ IF RetriesLeft
       THEN attempt' = attempt + 1 /\ UNCHANGED <<left, failed>>
       ELSE NextBatch(s) /\ failed' = SourceFails(s)

Finish ==
    /\ pc = "upload"
    /\ left = {}
    /\ Leave(IF failed = {} THEN 0 ELSE 1)
    /\ UNCHANGED <<now, indexed, stored, run>>

Upload(s) == UploadSucceeds(s) \/ UploadRefused(s) \/ UploadUnsettled(s)

Next ==
    \/ Tick \/ Start \/ ReadPage \/ EndOfPages \/ Raise
    \/ Finish
    \/ \E s \in Sources : Upload(s)
    \/ \E d \in Docs : Index(d)

Spec == Init /\ [][Next]_vars

\* A run goes on by itself: the read requests have a time-out, the uploads
\* the SDK's.  Nothing makes documents stop arriving.
Work == ReadPage \/ EndOfPages \/ (\E s \in Sources : Upload(s)) \/ Finish

FairSpec == Spec /\ WF_vars(Work)

-----------------------------------------------------------------------------
(* Properties *)

TypeOK ==
    /\ now \in Nat /\ started \in Nat /\ started <= now
    /\ pc \in {"waiting", "read", "upload"} /\ exit \in 0 .. 2
    /\ indexed \subseteq Docs /\ stored \subseteq indexed /\ excused \subseteq indexed
    /\ atStart \subseteq indexed /\ got \subseteq indexed /\ left \subseteq got
    /\ pit \in BOOLEAN
    /\ cursor \in Docs \cup {0}
    /\ attempt \in 1 .. MaxRetries
    /\ failed \subseteq Sources

\* Reading ends only when every document was read that was indexed when the
\* run started and is still in the window, however many pages it took and
\* whatever was indexed meanwhile; with a point in time, nothing else.
ReadIsExact ==
    [][EndOfPages =>
         /\ {d \in atStart : Timestamp[d] + Lookback >= now} \subseteq got
         /\ pit => got \subseteq atStart]_vars

\* A run that exits with 0 forwarded every document it read: a batch that
\* fails between two that succeed is not forgotten.
ExitIsTruthful == pc = "waiting" /\ exit = 0 => got \subseteq stored

\* Every run comes to an end, although documents are indexed while it pages
\* and Log Analytics may answer every upload with a failure.
RunsEnd == pc # "waiting" ~> pc = "waiting"

\* Between two runs, every document that is too old for the next window is in
\* Log Analytics, or a run that was to forward it reported a failure.
NothingMissed ==
    pc = "waiting" =>
        \A d \in Docs : Timestamp[d] + Lookback < now => d \in stored \cup excused
=============================================================================
