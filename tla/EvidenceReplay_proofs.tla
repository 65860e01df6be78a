------------------------ MODULE EvidenceReplay_proofs ------------------------
(***************************************************************************)
(* Proofs about EvidenceReplay, for any number of replays and exports, any *)
(* events and any limits.                                                  *)
(*                                                                         *)
(* The argument: a replay keeps its record's remaining events split into   *)
(* what the sink confirmed, the current batch and the rest; records are    *)
(* only ever added; and a replay that is about to write the checkpoint     *)
(* remembers a version at which the checkpoint was behind its record's.    *)
(***************************************************************************)
EXTENDS EvidenceReplay, FiniteSetTheorems, TLAPS

\* A replay works on a record of the store and accounts for its every event.
Accounted(p) ==
    /\ pc[p] = "idle" => newly[p] = {} /\ batch[p] = {}
    /\ pc[p] # "idle" => record[p] \in dlq
    /\ pc[p] # "idle" => newly[p] \cup batch[p] \cup todo[p] = record[p].remaining
    /\ newly[p] \subseteq sink
    /\ newly[p] \cap (batch[p] \cup todo[p]) = {} /\ batch[p] \cap todo[p] = {}
    /\ pc[p] = "batch" => batch[p] = {}
    /\ pc[p] \in {"deliver", "dead_letter"} => batch[p] # {}
    /\ pc[p] \in {"put", "reload", "committed", "kept"} => batch[p] \cup todo[p] = {}
ProgressInv == \A p \in Replays : Accounted(p)

\* Where a replay is about to write, the version it remembers is that of a
\* checkpoint behind its record's, or an old one.
VersionInv ==
    \A p \in Replays :
        pc[p] = "put" /\ known[p] = etag => checkpoint < record[p].checkpoint
KnownInv == \A p \in Replays : known[p] <= etag

ReplayInv == TypeOK /\ LineageIsExact /\ ProgressInv /\ KnownInv /\ VersionInv

\* A batch is a non-empty part of what is left, within the limit.
LEMMA BatchIsPart ==
    ASSUME NEW left, left # {}, NEW b \in NextBatches(left)
    PROVE  b \subseteq left /\ b # {} /\ Cardinality(b) <= MaxBatchEvents
<1>1. b \subseteq left
  BY DEF NextBatches
<1>2. Cardinality(b) <= MaxBatchEvents
  BY ReplayAssumption DEF NextBatches
<1>3. b # {}
  BY FS_EmptySet, ReplayAssumption DEF NextBatches
<1> QED
  BY <1>1, <1>2, <1>3

LEMMA InvInit == Init => ReplayInv
  BY FS_EmptySet, ReplayAssumption
     DEF Init, ReplayInv, TypeOK, LineageIsExact, ProgressInv, Accounted, KnownInv,
         VersionInv, NoCheckpoint, Stages

\* Types are kept, since a replay that is under way has a record.
LEMMA TypeNext == TypeOK /\ ProgressInv /\ [Next]_vars => TypeOK'
<1> SUFFICES ASSUME TypeOK, ProgressInv, [Next]_vars PROVE TypeOK'
  OBVIOUS
<1> USE ReplayAssumption DEF TypeOK, Goto, Stages
<1>1. CASE ExportDelivers \/ ExportSaves
  BY <1>1 DEF ExportDelivers, Stores!ExportDelivers, ExportSaves, Stores!ExportSaves,
              Stores!Save, locals
<1>2. ASSUME NEW x \in Exports, ExportFails(x) PROVE TypeOK'
  <2>1. PICK end \in Checkpoints, done \in SUBSET sink, left \in SUBSET Events :
            /\ dlq' = dlq \cup {[invocation |-> x, checkpoint |-> end,
                                 confirmed |-> done, remaining |-> left]}
            /\ UNCHANGED <<sink, checkpoint, etag>>
    BY <1>2 DEF ExportFails, Stores!ExportFails
  <2>2. dlq' \subseteq DeadLetters
    BY <2>1 DEF DeadLetters
  <2> QED
    BY <1>2, <2>1, <2>2 DEF ExportFails, locals
<1>3. ASSUME NEW p \in Replays, Begin(p) PROVE TypeOK'
  <2>1. PICK r \in dlq :
            /\ Goto(p, "idle", "batch")
            /\ record' = [record EXCEPT ![p] = r]
            /\ todo' = [todo EXCEPT ![p] = RemainingOf(r)]
    BY <1>3 DEF Begin
  <2>2. r \in DeadLetters /\ RemainingOf(r) \subseteq Events
    BY DEF DeadLetters, RemainingOf
  <2> QED
    BY <1>3, <2>1, <2>2 DEF Begin
<1>4. ASSUME NEW p \in Replays, TakeBatch(p) PROVE TypeOK'
  <2>1. PICK b \in NextBatches(todo[p]) :
            /\ todo[p] # {}
            /\ Goto(p, "batch", "deliver")
            /\ batch' = [batch EXCEPT ![p] = b]
            /\ todo' = [todo EXCEPT ![p] = @ \ b]
            /\ UNCHANGED <<sink, dlq, checkpoint, etag, exportSaves, record, newly,
                           known, conflicts>>
    BY <1>4 DEF TakeBatch
  <2>2. b \subseteq todo[p] /\ Cardinality(b) <= MaxBatchEvents
    BY <2>1, BatchIsPart
  <2> QED
    BY <2>1, <2>2
<1>5. ASSUME NEW p \in Replays, DeliverySucceeds(p) PROVE TypeOK'
  BY <1>5, FS_EmptySet DEF DeliverySucceeds
<1>6. ASSUME NEW p \in Replays, DeliveryFails(p) PROVE TypeOK'
  BY <1>6 DEF DeliveryFails
<1>7. ASSUME NEW p \in Replays, DeadLetter(p) PROVE TypeOK'
  <2>1. record[p] \in DeadLetters
    BY <1>7 DEF DeadLetter, ProgressInv, Accounted
  <2>2. ConfirmedKeys(p) \subseteq Events /\ Unconfirmed(p) \subseteq Events
    BY <2>1 DEF ConfirmedKeys, Unconfirmed, DeadLetters
  <2>3. [record[p] EXCEPT !.confirmed = ConfirmedKeys(p),
                          !.remaining = Unconfirmed(p)] \in DeadLetters
    BY <2>1, <2>2 DEF DeadLetters
  <2> QED
    BY <1>7, <2>3 DEF DeadLetter
<1>8. ASSUME NEW p \in Replays, LoadCheckpoint(p) PROVE TypeOK'
  BY <1>8 DEF LoadCheckpoint
<1>9. ASSUME NEW p \in Replays, PutCheckpoint(p) PROVE TypeOK'
  <2>1. record[p].checkpoint \in Checkpoints
    BY <1>9 DEF PutCheckpoint, ProgressInv, Accounted, DeadLetters
  <2> QED
    BY <1>9, <2>1 DEF PutCheckpoint
<1>10. ASSUME NEW p \in Replays, ReloadCheckpoint(p) PROVE TypeOK'
  BY <1>10 DEF ReloadCheckpoint
<1>11. ASSUME NEW p \in Replays, Abort(p) PROVE TypeOK'
  BY <1>11 DEF Abort
<1>12. CASE UNCHANGED vars
  BY <1>12 DEF vars
<1> QED
  BY <1>1, <1>2, <1>3, <1>4, <1>5, <1>6, <1>7, <1>8, <1>9, <1>10, <1>11, <1>12
     DEF Next, Replaying
-----------------------------------------------------------------------------
(* The dead letters.                                                       *)

\* A step that adds no record keeps the lineages exact: the sink only gains.
LEMMA LineageKept ==
    ASSUME LineageIsExact, dlq' = dlq, sink \subseteq sink' PROVE LineageIsExact'
  BY DEF LineageIsExact, Stores!AllEvents

\* So does one that adds the first record of an export.
LEMMA LineageStarted ==
    ASSUME LineageIsExact, sink \subseteq sink', NEW r, dlq' = dlq \cup {r},
           \A s \in dlq : s.invocation # r.invocation,
           r.confirmed \subseteq sink', r.remaining # {},
           r.confirmed \cap r.remaining = {}
    PROVE  LineageIsExact'
  BY DEF LineageIsExact, Stores!AllEvents

\* And one that adds a record of the same export, window and events as one
\* that is there.
LEMMA LineageContinued ==
    ASSUME LineageIsExact, sink \subseteq sink', NEW r, NEW s \in dlq,
           dlq' = dlq \cup {r},
           r.invocation = s.invocation, r.checkpoint = s.checkpoint,
           Stores!AllEvents(r) = Stores!AllEvents(s),
           r.confirmed \subseteq sink', r.remaining # {},
           r.confirmed \cap r.remaining = {}
    PROVE  LineageIsExact'
  BY DEF LineageIsExact

LEMMA LineageNext == ReplayInv /\ [Next]_vars => LineageIsExact'
<1> SUFFICES ASSUME ReplayInv, [Next]_vars PROVE LineageIsExact'
  OBVIOUS
<1>1. CASE dlq' = dlq /\ sink \subseteq sink'
  BY <1>1, LineageKept DEF ReplayInv
<1>2. ASSUME NEW x \in Exports, ExportFails(x) PROVE LineageIsExact'
  <2>1. PICK end \in Checkpoints, done \in SUBSET sink, left \in SUBSET Events :
            /\ \A r \in dlq : r.invocation # x
            /\ done \cap left = {} /\ left # {}
            /\ sink' = sink
            /\ dlq' = dlq \cup {[invocation |-> x, checkpoint |-> end,
                                 confirmed |-> done, remaining |-> left]}
    BY <1>2 DEF ExportFails, Stores!ExportFails
  <2> DEFINE r == [invocation |-> x, checkpoint |-> end,
                   confirmed |-> done, remaining |-> left]
  <2>2. /\ r.invocation = x /\ r.confirmed = done /\ r.remaining = left
    OBVIOUS
  <2>3. dlq' = dlq \cup {r}
    BY <2>1
  <2> HIDE DEF r
  <2> QED
    BY <2>1, <2>2, <2>3, LineageStarted DEF ReplayInv
<1>3. ASSUME NEW p \in Replays, DeadLetter(p) PROVE LineageIsExact'
  <2> DEFINE s == record[p]
             r == [s EXCEPT !.confirmed = ConfirmedKeys(p),
                            !.remaining = Unconfirmed(p)]
  <2>1. pc[p] = "dead_letter" /\ dlq' = dlq \cup {r} /\ sink' = sink
    BY <1>3 DEF DeadLetter, Goto
  <2>2. s \in dlq /\ s \in DeadLetters
    BY <2>1 DEF ReplayInv, ProgressInv, Accounted, TypeOK
  <2>3. /\ r.invocation = s.invocation /\ r.checkpoint = s.checkpoint
        /\ r.confirmed = s.confirmed \cup newly[p]
        /\ r.remaining = batch[p] \cup todo[p]
    BY <2>2 DEF DeadLetters, ConfirmedKeys, Unconfirmed
  <2>4. /\ s.confirmed \subseteq sink /\ s.confirmed \cap s.remaining = {}
    BY <2>2 DEF ReplayInv, LineageIsExact
  <2>5. /\ newly[p] \subseteq sink /\ batch[p] # {}
        /\ newly[p] \cup batch[p] \cup todo[p] = s.remaining
        /\ newly[p] \cap (batch[p] \cup todo[p]) = {}
    BY <2>1 DEF ReplayInv, ProgressInv, Accounted
  <2> HIDE DEF s, r
  <2>6. Stores!AllEvents(r) = Stores!AllEvents(s)
    BY <2>3, <2>5 DEF Stores!AllEvents
  <2>7. r.confirmed \subseteq sink' /\ r.remaining # {} /\ r.confirmed \cap r.remaining = {}
    BY <2>1, <2>3, <2>4, <2>5
  <2> QED
    BY <2>1, <2>2, <2>3, <2>6, <2>7, LineageContinued DEF ReplayInv
<1>4. CASE ExportSaves
  BY <1>1, <1>4 DEF ExportSaves, Stores!ExportSaves
<1>5. ASSUME NEW p \in Replays, Begin(p) \/ TakeBatch(p) \/ LoadCheckpoint(p) \/ ReloadCheckpoint(p)
      PROVE LineageIsExact'
  BY <1>1, <1>5 DEF Begin, TakeBatch, LoadCheckpoint, ReloadCheckpoint
<1>6. ASSUME NEW p \in Replays, DeliverySucceeds(p) \/ DeliveryFails(p)
      PROVE LineageIsExact'
  BY <1>1, <1>6 DEF DeliverySucceeds, DeliveryFails
<1>7. ASSUME NEW p \in Replays, PutCheckpoint(p) \/ Abort(p) PROVE LineageIsExact'
  BY <1>1, <1>7 DEF PutCheckpoint, Abort
<1>8. CASE UNCHANGED vars
  BY <1>1, <1>8 DEF vars
<1>9. CASE ExportDelivers
  BY <1>1, <1>9 DEF ExportDelivers, Stores!ExportDelivers
<1> QED
  BY <1>2, <1>3, <1>4, <1>5, <1>6, <1>7, <1>8, <1>9 DEF Next, Replaying

-----------------------------------------------------------------------------
(* What a replay has done.                                                 *)

\* Nobody else's step disturbs a replay's account: the stores only gain.
LEMMA AccountKept ==
    ASSUME NEW q, Accounted(q), pc'[q] = pc[q], record'[q] = record[q],
           todo'[q] = todo[q], batch'[q] = batch[q], newly'[q] = newly[q],
           dlq \subseteq dlq', sink \subseteq sink'
    PROVE  Accounted(q)'
  BY DEF Accounted

LEMMA ProgressNext == ReplayInv /\ [Next]_vars => ProgressInv'
<1> SUFFICES ASSUME ReplayInv, [Next]_vars PROVE ProgressInv'
  OBVIOUS
<1>1. TypeOK /\ \A q \in Replays : Accounted(q)
  BY DEF ReplayInv, ProgressInv
<1>2. CASE ExportDelivers \/ ExportSaves
  BY <1>1, <1>2, AccountKept DEF ExportDelivers, Stores!ExportDelivers, ExportSaves,
                                 Stores!ExportSaves, locals, ProgressInv
<1>3. ASSUME NEW x \in Exports, ExportFails(x) PROVE ProgressInv'
  BY <1>1, <1>3, AccountKept DEF ExportFails, Stores!ExportFails, locals, ProgressInv
<1>4. ASSUME NEW p \in Replays, Begin(p) PROVE ProgressInv'
  <2>1. PICK r \in dlq :
            /\ Goto(p, "idle", "batch")
            /\ record' = [record EXCEPT ![p] = r]
            /\ todo' = [todo EXCEPT ![p] = RemainingOf(r)]
            /\ UNCHANGED <<sink, dlq, checkpoint, etag, exportSaves, batch, newly,
                           known, conflicts>>
    BY <1>4 DEF Begin
  <2>2. RemainingOf(r) = r.remaining
    BY DEF RemainingOf, ReplayInv, LineageIsExact
  <2>3. Accounted(p)'
    BY <1>1, <2>1, <2>2 DEF Accounted, TypeOK, Goto
  <2>4. ASSUME NEW q \in Replays \ {p} PROVE Accounted(q)'
    BY <1>1, <2>1, AccountKept DEF TypeOK, Goto
  <2> QED
    BY <2>3, <2>4 DEF ProgressInv
<1>5. ASSUME NEW p \in Replays, TakeBatch(p) PROVE ProgressInv'
  <2>1. PICK b \in NextBatches(todo[p]) :
            /\ todo[p] # {}
            /\ Goto(p, "batch", "deliver")
            /\ batch' = [batch EXCEPT ![p] = b]
            /\ todo' = [todo EXCEPT ![p] = @ \ b]
            /\ UNCHANGED <<sink, dlq, checkpoint, etag, exportSaves, record, newly,
                           known, conflicts>>
    BY <1>5 DEF TakeBatch
  <2>2. b \subseteq todo[p] /\ b # {}
    BY <2>1, BatchIsPart
  <2>3. Accounted(p)'
    BY <1>1, <2>1, <2>2 DEF Accounted, TypeOK, Goto
  <2>4. ASSUME NEW q \in Replays \ {p} PROVE Accounted(q)'
    BY <1>1, <2>1, AccountKept DEF TypeOK, Goto
  <2> QED
    BY <2>3, <2>4 DEF ProgressInv
<1>6. ASSUME NEW p \in Replays, DeliverySucceeds(p) PROVE ProgressInv'
  <2>1. Accounted(p)'
    <3>1. /\ pc[p] = "deliver" /\ pc'[p] = "batch"
          /\ newly'[p] = newly[p] \cup batch[p] /\ batch'[p] = {}
          /\ todo'[p] = todo[p] /\ record'[p] = record[p]
          /\ sink' = sink \cup batch[p] /\ dlq' = dlq
      BY <1>1, <1>6 DEF DeliverySucceeds, TypeOK, Goto
    <3>2. newly[p] \cup batch[p] \cup todo[p] = record[p].remaining /\ record[p] \in dlq
      BY <1>1, <3>1 DEF Accounted
    <3>3. newly'[p] \cup batch'[p] \cup todo'[p] = record'[p].remaining
      BY <3>1, <3>2
    <3>4. newly'[p] \cap (batch'[p] \cup todo'[p]) = {}
      BY <1>1, <3>1 DEF Accounted
    <3> QED
      BY <1>1, <3>1, <3>2, <3>3, <3>4 DEF Accounted
  <2>2. ASSUME NEW q \in Replays \ {p} PROVE Accounted(q)'
    BY <1>1, <1>6, AccountKept DEF DeliverySucceeds, TypeOK, Goto
  <2> QED
    BY <2>1, <2>2 DEF ProgressInv
<1>7. ASSUME NEW p \in Replays, DeliveryFails(p) PROVE ProgressInv'
  <2>1. Accounted(p)'
    BY <1>1, <1>7 DEF DeliveryFails, Accounted, TypeOK, Goto
  <2>2. ASSUME NEW q \in Replays \ {p} PROVE Accounted(q)'
    BY <1>1, <1>7, AccountKept DEF DeliveryFails, TypeOK, Goto
  <2> QED
    BY <2>1, <2>2 DEF ProgressInv
<1>8. ASSUME NEW p \in Replays, DeadLetter(p) PROVE ProgressInv'
  <2>1. Accounted(p)'
    BY <1>1, <1>8 DEF DeadLetter, Accounted, TypeOK, Goto
  <2>2. ASSUME NEW q \in Replays \ {p} PROVE Accounted(q)'
    BY <1>1, <1>8, AccountKept DEF DeadLetter, TypeOK, Goto
  <2> QED
    BY <2>1, <2>2 DEF ProgressInv
<1>9. ASSUME NEW p \in Replays, LoadCheckpoint(p) PROVE ProgressInv'
  <2>1. Accounted(p)'
    BY <1>1, <1>9 DEF LoadCheckpoint, AllConfirmed, Accounted, TypeOK, Goto
  <2>2. ASSUME NEW q \in Replays \ {p} PROVE Accounted(q)'
    BY <1>1, <1>9, AccountKept DEF LoadCheckpoint, TypeOK, Goto
  <2> QED
    BY <2>1, <2>2 DEF ProgressInv
<1>10. ASSUME NEW p \in Replays, PutCheckpoint(p) PROVE ProgressInv'
  <2>1. Accounted(p)'
    BY <1>1, <1>10 DEF PutCheckpoint, Accounted, TypeOK, Goto
  <2>2. ASSUME NEW q \in Replays \ {p} PROVE Accounted(q)'
    BY <1>1, <1>10, AccountKept DEF PutCheckpoint, TypeOK, Goto
  <2> QED
    BY <2>1, <2>2 DEF ProgressInv
<1>11. ASSUME NEW p \in Replays, ReloadCheckpoint(p) PROVE ProgressInv'
  <2>1. Accounted(p)'
    BY <1>1, <1>11 DEF ReloadCheckpoint, Accounted, TypeOK, Goto
  <2>2. ASSUME NEW q \in Replays \ {p} PROVE Accounted(q)'
    BY <1>1, <1>11, AccountKept DEF ReloadCheckpoint, TypeOK, Goto
  <2> QED
    BY <2>1, <2>2 DEF ProgressInv
<1>12. ASSUME NEW p \in Replays, Abort(p) PROVE ProgressInv'
  <2>1. Accounted(p)'
    BY <1>1, <1>12 DEF Abort, Ended, Accounted, TypeOK
  <2>2. ASSUME NEW q \in Replays \ {p} PROVE Accounted(q)'
    BY <1>1, <1>12, AccountKept DEF Abort, TypeOK
  <2> QED
    BY <2>1, <2>2 DEF ProgressInv
<1>13. CASE UNCHANGED vars
  BY <1>1, <1>13, AccountKept DEF vars, ProgressInv
<1> QED
  BY <1>2, <1>3, <1>4, <1>5, <1>6, <1>7, <1>8, <1>9, <1>10, <1>11, <1>12, <1>13
     DEF Next, Replaying
-----------------------------------------------------------------------------
(* The checkpoint.                                                         *)

LEMMA VersionNext == ReplayInv /\ [Next]_vars => KnownInv' /\ VersionInv'
<1> SUFFICES ASSUME ReplayInv, [Next]_vars PROVE KnownInv' /\ VersionInv'
  OBVIOUS
<1> USE ReplayAssumption DEF ReplayInv, TypeOK, KnownInv, VersionInv, Goto
<1>1. CASE ExportSaves
  BY <1>1 DEF ExportSaves, Stores!ExportSaves, Stores!Save, locals
<1>2. ASSUME NEW x \in Exports, ExportFails(x) PROVE KnownInv' /\ VersionInv'
  BY <1>2 DEF ExportFails, Stores!ExportFails, locals
<1>3. ASSUME NEW p \in Replays, Begin(p) PROVE KnownInv' /\ VersionInv'
  BY <1>3 DEF Begin
<1>4. ASSUME NEW p \in Replays, TakeBatch(p) PROVE KnownInv' /\ VersionInv'
  BY <1>4 DEF TakeBatch
<1>5. ASSUME NEW p \in Replays, DeliverySucceeds(p) \/ DeliveryFails(p) \/ DeadLetter(p)
      PROVE KnownInv' /\ VersionInv'
  BY <1>5 DEF DeliverySucceeds, DeliveryFails, DeadLetter
<1>6. ASSUME NEW p \in Replays, LoadCheckpoint(p) PROVE KnownInv' /\ VersionInv'
  <2>1. record[p].checkpoint \in Nat
    BY <1>6 DEF LoadCheckpoint, ProgressInv, Accounted, DeadLetters
  <2>2. Behind(p) => checkpoint < record[p].checkpoint
    BY <2>1 DEF Behind, NoCheckpoint
  <2> QED
    BY <1>6, <2>2 DEF LoadCheckpoint
<1>7. ASSUME NEW p \in Replays, PutCheckpoint(p) PROVE KnownInv' /\ VersionInv'
  BY <1>7 DEF PutCheckpoint
<1>8. ASSUME NEW p \in Replays, ReloadCheckpoint(p) PROVE KnownInv' /\ VersionInv'
  <2>1. record[p].checkpoint \in Nat
    BY <1>8 DEF ReloadCheckpoint, ProgressInv, Accounted, DeadLetters
  <2>2. Behind(p) => checkpoint < record[p].checkpoint
    BY <2>1 DEF Behind, NoCheckpoint
  <2> QED
    BY <1>8, <2>2 DEF ReloadCheckpoint
<1>9. ASSUME NEW p \in Replays, Abort(p) PROVE KnownInv' /\ VersionInv'
  BY <1>9 DEF Abort
<1>10. CASE UNCHANGED vars
  BY <1>10 DEF vars
<1>11. CASE ExportDelivers
  BY <1>11 DEF ExportDelivers, Stores!ExportDelivers, locals
<1> QED
  BY <1>1, <1>2, <1>3, <1>4, <1>5, <1>6, <1>7, <1>8, <1>9, <1>10, <1>11
     DEF Next, Replaying

-----------------------------------------------------------------------------
(* The theorems.                                                           *)

LEMMA ReplayInvHolds == Spec => []ReplayInv
<1>1. ReplayInv /\ [Next]_vars => ReplayInv'
  BY TypeNext, LineageNext, ProgressNext, VersionNext DEF ReplayInv
<1> QED
  BY <1>1, InvInit, PTL DEF Spec

\* The stores and every replay's locals keep their types, and no batch is over
\* the limit.
THEOREM ReplayTypeCorrect == Spec => []TypeOK
<1>1. ReplayInv => TypeOK
  BY DEF ReplayInv
<1> QED
  BY <1>1, ReplayInvHolds, PTL

\* However often dead letters are replayed, and by however many replays at
\* once, each record goes on splitting its export's events exactly.
THEOREM LineagesAreExact == Spec => []LineageIsExact
<1>1. ReplayInv => LineageIsExact
  BY DEF ReplayInv
<1> QED
  BY <1>1, ReplayInvHolds, PTL

LEMMA InvCheckpointAfterDelivery == ReplayInv => CheckpointAfterDelivery
<1> SUFFICES ASSUME ReplayInv, NEW p \in Replays,
                    pc[p] \in {"put", "reload", "committed", "kept"}
             PROVE  Stores!AllEvents(record[p]) \subseteq sink
  BY DEF CheckpointAfterDelivery
<1>1. /\ record[p] \in dlq /\ newly[p] \subseteq sink
      /\ newly[p] = record[p].remaining
  BY DEF ReplayInv, ProgressInv, Accounted
<1>2. record[p].confirmed \subseteq sink
  BY <1>1 DEF ReplayInv, LineageIsExact
<1> QED
  BY <1>1, <1>2 DEF Stores!AllEvents

\* The checkpoint is looked at only when everything the record names was
\* received.
THEOREM CheckpointFollowsDelivery == Spec => []CheckpointAfterDelivery
  BY ReplayInvHolds, InvCheckpointAfterDelivery, PTL

\* A replay's write moves the watermark forward, whatever the exports and the
\* other replays did since it compared.
THEOREM ReplayMovesOnlyForward == Spec => ReplayNeverRegresses
<1>1. ReplayInv /\ [Next]_vars => [ReplayMovesForward]_vars
  <2> SUFFICES ASSUME ReplayInv, [Next]_vars, NEW p \in Replays,
                      pc[p] = "put", pc'[p] # "put", etag' # etag
               PROVE  checkpoint' > checkpoint
    BY DEF ReplayMovesForward
  <2>1. PutCheckpoint(p)
    BY DEF ReplayInv, TypeOK, Next, Replaying, vars, Goto, locals, ExportDelivers,
           ExportSaves, ExportFails, Begin, TakeBatch, DeliverySucceeds, DeliveryFails, DeadLetter, LoadCheckpoint,
           PutCheckpoint, ReloadCheckpoint, Abort
  <2>2. known[p] = etag /\ checkpoint' = record[p].checkpoint
    BY <2>1 DEF PutCheckpoint, EtagMatches
  <2> QED
    BY <2>2, ReplayAssumption
       DEF ReplayInv, VersionInv, TypeOK, NoCheckpoint, ProgressInv, Accounted, DeadLetters
<1> QED
  BY <1>1, ReplayInvHolds, PTL DEF Spec, ReplayNeverRegresses

-----------------------------------------------------------------------------
(* The stores.                                                             *)

\* A step of a replay is one of the replays' part, or leaves the stores alone.
LEMMA ReplayKeepsPart ==
    ASSUME ReplayInv, Replaying
    PROVE  Stores!ReplayStep \/ UNCHANGED Stores!vars
<1> USE DEF Stores!vars
<1>1. PICK p \in Replays :
          \/ Begin(p) \/ TakeBatch(p) \/ DeliverySucceeds(p) \/ DeliveryFails(p)
          \/ DeadLetter(p) \/ LoadCheckpoint(p) \/ PutCheckpoint(p)
          \/ ReloadCheckpoint(p) \/ Abort(p)
  BY DEF Replaying
<1>2. TypeOK /\ LineageIsExact /\ Accounted(p)
  BY DEF ReplayInv, ProgressInv
<1>3. CASE \/ Begin(p) \/ TakeBatch(p) \/ LoadCheckpoint(p) \/ ReloadCheckpoint(p) \/ Abort(p)
  BY <1>3 DEF Begin, TakeBatch, LoadCheckpoint, ReloadCheckpoint, Abort
<1>4. CASE DeliverySucceeds(p) \/ DeliveryFails(p)
  <2>1. PICK taken \in SUBSET batch[p] : sink' = sink \cup taken
    BY <1>4 DEF DeliverySucceeds, DeliveryFails
  <2>2. UNCHANGED <<dlq, checkpoint, etag>> /\ pc[p] = "deliver"
    BY <1>4 DEF DeliverySucceeds, DeliveryFails, Goto
  <2>3. record[p] \in dlq /\ batch[p] \subseteq record[p].remaining
    BY <1>2, <2>2 DEF Accounted
  <2> DEFINE new == taken \ sink
  <2>4. new \in SUBSET (record[p].remaining \ sink) /\ sink' = sink \cup new
    BY <2>1, <2>3
  <2> HIDE DEF new
  <2>5. CASE new # {}
    BY <2>2, <2>3, <2>4, <2>5 DEF Stores!ReplayStep, Stores!ReplaySends
  <2>6. CASE new = {}
    BY <2>2, <2>4, <2>6
  <2> QED
    BY <2>5, <2>6
<1>5. CASE DeadLetter(p)
  <2> DEFINE s == record[p]
  <2>1. /\ pc[p] = "dead_letter" /\ UNCHANGED <<sink, checkpoint, etag>>
        /\ dlq' = dlq \cup {[s EXCEPT !.confirmed = ConfirmedKeys(p),
                                      !.remaining = Unconfirmed(p)]}
    BY <1>5 DEF DeadLetter, Goto
  <2>2. /\ s \in dlq /\ s \in DeadLetters /\ batch[p] # {}
        /\ newly[p] \subseteq s.remaining \cap sink /\ newly[p] # s.remaining
        /\ ConfirmedKeys(p) = s.confirmed \cup newly[p]
        /\ Unconfirmed(p) = s.remaining \ newly[p]
    <3>1. s \in dlq /\ batch[p] # {} /\ newly[p] \subseteq sink
      BY <1>2, <2>1 DEF Accounted
    <3>2. /\ newly[p] \cup batch[p] \cup todo[p] = s.remaining
          /\ newly[p] \cap (batch[p] \cup todo[p]) = {}
      BY <1>2, <2>1 DEF Accounted
    <3>3. newly[p] # s.remaining /\ batch[p] \cup todo[p] = s.remaining \ newly[p]
      BY <3>1, <3>2
    <3> QED
      BY <1>2, <3>1, <3>2, <3>3 DEF TypeOK, ConfirmedKeys, Unconfirmed
  <2>3. CASE newly[p] = {}
    <3>1. [s EXCEPT !.confirmed = ConfirmedKeys(p), !.remaining = Unconfirmed(p)] = s
      BY <2>2, <2>3 DEF DeadLetters
    <3> QED
      BY <2>1, <2>2, <3>1
  <2>4. CASE newly[p] # {}
    <3>1. dlq' = dlq \cup {[s EXCEPT !.confirmed = s.confirmed \cup newly[p],
                                     !.remaining = s.remaining \ newly[p]]}
      BY <2>1, <2>2
    <3> HIDE DEF s
    <3>2. Stores!ReplayFails
      BY <2>1, <2>2, <2>4, <3>1 DEF Stores!ReplayFails
    <3> QED
      BY <3>2 DEF Stores!ReplayStep
  <2> QED
    BY <2>3, <2>4
<1>6. CASE PutCheckpoint(p)
  <2>1. UNCHANGED <<sink, dlq>> /\ pc[p] = "put"
    BY <1>6 DEF PutCheckpoint, Goto
  <2>2. CASE ~EtagMatches(p)
    BY <1>6, <2>1, <2>2 DEF PutCheckpoint
  <2>3. CASE EtagMatches(p)
    <3>1. checkpoint' = record[p].checkpoint /\ etag' = etag + 1
      BY <1>6, <2>3 DEF PutCheckpoint
    <3>2. checkpoint < record[p].checkpoint
      BY <2>1, <2>3 DEF EtagMatches, ReplayInv, VersionInv
    <3>3. record[p] \in dlq
      BY <1>2, <2>1 DEF Accounted
    <3>4. Stores!AllEvents(record[p]) \subseteq sink
      BY <2>1, InvCheckpointAfterDelivery DEF CheckpointAfterDelivery
    <3> QED
      BY <2>1, <3>1, <3>2, <3>3, <3>4 DEF Stores!ReplayStep, Stores!ReplaySaves, Stores!Save
  <2> QED
    BY <2>2, <2>3
<1> QED
  BY <1>1, <1>3, <1>4, <1>5, <1>6

\* The replays do to the stores only what EvidenceExport assumes of replays,
\* whatever the exports do within their own part.
THEOREM ReplaysKeepPart == Spec => ReplaysKeepToTheirPart
<1>1. ReplayInv /\ [Next]_vars
         => [Replaying => Stores!ReplayStep \/ UNCHANGED Stores!vars]_vars
  BY ReplayKeepsPart
<1> QED
  BY <1>1, ReplayInvHolds, PTL DEF Spec, ReplaysKeepToTheirPart

\* So the whole of EvidenceReplay implements the stores that it shares with
\* EvidenceExport.
THEOREM ReplaysImplementStores == Spec => Stores!Spec
<1>1. Init => Stores!Init
  BY DEF Init, Stores!Init, NoCheckpoint, Stores!NoCheckpoint
<1>2. ReplayInv /\ [Next]_vars => [Stores!Next]_(Stores!vars)
  <2> SUFFICES ASSUME ReplayInv, [Next]_vars PROVE [Stores!Next]_(Stores!vars)
    OBVIOUS
  <2>1. CASE Replaying
    BY <2>1, ReplayKeepsPart DEF Stores!Next
  <2>2. CASE ExportDelivers \/ ExportSaves \/ \E x \in Exports : ExportFails(x)
    BY <2>2 DEF ExportDelivers, ExportSaves, ExportFails, Stores!ExportStep, Stores!Next
  <2>3. CASE UNCHANGED vars
    BY <2>3 DEF vars, Stores!vars
  <2> QED
    BY <2>1, <2>2, <2>3 DEF Next
<1> QED
  BY <1>1, <1>2, ReplayInvHolds, PTL DEF Spec, Stores!Spec

-----------------------------------------------------------------------------
(* Termination.                                                            *)

\* save_checkpoint's loop stays within its limit (object_storage_adapters.py:85).
BudgetInv ==
    \A p \in Replays :
        /\ conflicts[p] <= MaxSaves
        /\ pc[p] = "put" => conflicts[p] < MaxSaves
        /\ pc[p] \in {"idle", "batch", "deliver", "dead_letter"} => conflicts[p] = 0

LEMMA BudgetNext == TypeOK /\ BudgetInv /\ [Next]_vars => BudgetInv'
<1> SUFFICES ASSUME TypeOK, BudgetInv, [Next]_vars PROVE BudgetInv'
  OBVIOUS
<1> USE ReplayAssumption DEF TypeOK, Goto
<1>1. CASE \/ ExportDelivers \/ ExportSaves \/ (\E x \in Exports : ExportFails(x))
           \/ UNCHANGED vars
  BY <1>1 DEF ExportDelivers, ExportSaves, ExportFails, locals, vars, BudgetInv
<1>2. ASSUME NEW p \in Replays, Begin(p) \/ TakeBatch(p) \/ Abort(p) PROVE BudgetInv'
  BY <1>2 DEF Begin, TakeBatch, Abort, BudgetInv
<1>3. ASSUME NEW p \in Replays, DeliverySucceeds(p) \/ DeliveryFails(p) \/ DeadLetter(p)
      PROVE  BudgetInv'
  BY <1>3 DEF DeliverySucceeds, DeliveryFails, DeadLetter, BudgetInv
<1>4. ASSUME NEW p \in Replays, LoadCheckpoint(p) PROVE BudgetInv'
  BY <1>4 DEF LoadCheckpoint, BudgetInv
<1>5. ASSUME NEW p \in Replays, PutCheckpoint(p) PROVE BudgetInv'
  BY <1>5 DEF PutCheckpoint, BudgetInv
<1>6. ASSUME NEW p \in Replays, ReloadCheckpoint(p) PROVE BudgetInv'
  BY <1>6 DEF ReloadCheckpoint, BudgetInv
<1> HIDE ReplayAssumption DEF TypeOK, Goto
<1> QED
  BY <1>1, <1>2, <1>3, <1>4, <1>5, <1>6 DEF Next, Replaying

\* The part of replay() a replay is in, and whose turn it is in a loop.
Part(p) == CASE pc[p] = "idle" -> 0 [] pc[p] \in {"batch", "deliver"} -> 1
             [] pc[p] = "dead_letter" -> 2 [] pc[p] \in {"put", "reload"} -> 3
             [] pc[p] \in {"committed", "kept", "failed", "raised"} -> 4

Turn(p) == IF pc[p] \in {"deliver", "reload"} THEN 0 ELSE 1

\* Lexicographically: the part, the events in no batch, the writes lost, the
\* turn.  Events is finite (ReplayAssumption), the writes are limited (BudgetInv).
Advances(p) ==
    \/ Part(p)' > Part(p)
    \/ /\ Part(p)' = Part(p)
       /\ \/ todo'[p] \subseteq todo[p] /\ todo'[p] # todo[p]
          \/ /\ todo'[p] = todo[p]
             /\ \/ conflicts'[p] > conflicts[p]
                \/ conflicts'[p] = conflicts[p] /\ Turn(p)' > Turn(p)

\* The steps of one replay.
Moves(p) ==
    \/ Begin(p) \/ TakeBatch(p) \/ DeliverySucceeds(p) \/ DeliveryFails(p)
    \/ DeadLetter(p) \/ LoadCheckpoint(p) \/ PutCheckpoint(p)
    \/ ReloadCheckpoint(p) \/ Abort(p)

EveryStepAdvances(p) ==
    [][\/ Moves(p) /\ Advances(p)
       \/ UNCHANGED <<pc[p], todo[p], conflicts[p]>>]_vars

LEMMA MoveAdvances ==
    ASSUME TypeOK, NEW p \in Replays, Moves(p)
    PROVE  Advances(p)
<1> USE DEF TypeOK, Goto
<1>1. CASE Begin(p) \/ DeliveryFails(p) \/ DeadLetter(p) \/ LoadCheckpoint(p) \/ Abort(p)
  <2>1. \/ pc[p] = "idle" /\ pc'[p] = "batch"
        \/ pc[p] = "deliver" /\ pc'[p] = "dead_letter"
        \/ pc[p] = "dead_letter" /\ pc'[p] \in {"failed", "raised"}
        \/ pc[p] = "batch" /\ pc'[p] \in {"put", "kept"}
        \/ /\ pc[p] \in {"batch", "deliver", "dead_letter", "put", "reload"}
           /\ pc'[p] = "raised"
    <3>1. CASE Begin(p)
      BY <3>1 DEF Begin
    <3>2. CASE DeliveryFails(p)
      BY <3>2 DEF DeliveryFails
    <3>3. CASE DeadLetter(p)
      BY <3>3 DEF DeadLetter
    <3>4. CASE LoadCheckpoint(p)
      BY <3>4 DEF LoadCheckpoint
    <3>5. CASE Abort(p)
      BY <3>5 DEF Abort, Ended, Stages
    <3> QED
      BY <1>1, <3>1, <3>2, <3>3, <3>4, <3>5
  <2>2. Part(p)' > Part(p)
    BY <2>1 DEF Part
  <2> QED
    BY <2>2 DEF Advances
<1>2. CASE TakeBatch(p)
  <2>1. PICK b \in NextBatches(todo[p]) :
          /\ todo[p] # {} /\ todo'[p] = todo[p] \ b
          /\ pc[p] = "batch" /\ pc'[p] = "deliver"
    BY <1>2 DEF TakeBatch
  <2>2. b \subseteq todo[p] /\ b # {}
    BY <2>1, BatchIsPart
  <2>3. Part(p)' = Part(p)
    BY <2>1 DEF Part
  <2> QED
    BY <2>1, <2>2, <2>3 DEF Advances
<1>3. CASE DeliverySucceeds(p)
  <2>1. UNCHANGED <<todo[p], conflicts[p]>> /\ pc[p] = "deliver" /\ pc'[p] = "batch"
    BY <1>3 DEF DeliverySucceeds
  <2>2. Part(p)' = Part(p) /\ Turn(p)' > Turn(p)
    BY <2>1 DEF Part, Turn
  <2> QED
    BY <2>1, <2>2 DEF Advances
<1>4. CASE PutCheckpoint(p) \/ ReloadCheckpoint(p)
  <2>1. /\ UNCHANGED todo[p]
        /\ \/ pc[p] \in {"put", "reload"} /\ pc'[p] \in {"committed", "raised"}
           \/ pc[p] = "put" /\ pc'[p] = "reload" /\ conflicts'[p] = conflicts[p] + 1
           \/ pc[p] = "reload" /\ pc'[p] = "put" /\ conflicts'[p] = conflicts[p]
    BY <1>4 DEF PutCheckpoint, ReloadCheckpoint
  <2>2. \/ Part(p)' > Part(p)
        \/ Part(p)' = Part(p) /\ conflicts'[p] = conflicts[p] + 1
        \/ Part(p)' = Part(p) /\ conflicts'[p] = conflicts[p] /\ Turn(p)' > Turn(p)
    BY <2>1 DEF Part, Turn
  <2>3. conflicts[p] + 1 > conflicts[p]
    OBVIOUS
  <2> QED
    BY <2>1, <2>2, <2>3 DEF Advances
<1> HIDE DEF TypeOK, Goto
<1> QED
  BY <1>1, <1>2, <1>3, <1>4 DEF Moves

\* A step of one replay leaves the others' progress as it is.
LEMMA OthersStay ==
    ASSUME TypeOK, NEW p \in Replays, NEW q \in Replays, q # p, Moves(q)
    PROVE  UNCHANGED <<pc[p], todo[p], conflicts[p]>>
<1> USE DEF TypeOK, Goto
<1>1. CASE Begin(q) \/ TakeBatch(q) \/ DeliverySucceeds(q) \/ DeliveryFails(q)
  BY <1>1 DEF Begin, TakeBatch, DeliverySucceeds, DeliveryFails
<1>2. CASE DeadLetter(q) \/ LoadCheckpoint(q) \/ PutCheckpoint(q)
  BY <1>2 DEF DeadLetter, LoadCheckpoint, PutCheckpoint
<1>3. CASE ReloadCheckpoint(q) \/ Abort(q)
  BY <1>3 DEF ReloadCheckpoint, Abort
<1> HIDE DEF TypeOK, Goto
<1> QED
  BY <1>1, <1>2, <1>3 DEF Moves

\* No replay runs for ever, whatever the sink answers and whoever else writes
\* the checkpoint: each of its steps advances it, and nothing sets it back.
THEOREM ReplayAdvances ==
    ASSUME NEW p \in Replays
    PROVE  Spec => []BudgetInv /\ EveryStepAdvances(p)
<1>1. Init => BudgetInv
  BY ReplayAssumption DEF Init, BudgetInv
<1>2. ASSUME TypeOK, [Next]_vars
      PROVE  (Moves(p) /\ Advances(p)) \/ UNCHANGED <<pc[p], todo[p], conflicts[p]>>
  <2>1. CASE \/ ExportDelivers \/ ExportSaves \/ (\E x \in Exports : ExportFails(x))
             \/ UNCHANGED vars
    BY <2>1 DEF ExportDelivers, ExportSaves, ExportFails, locals, vars
  <2>2. ASSUME NEW q \in Replays, Moves(q)
        PROVE  (Moves(p) /\ Advances(p)) \/ UNCHANGED <<pc[p], todo[p], conflicts[p]>>
    BY <1>2, <2>2, MoveAdvances, OthersStay
  <2> QED
    BY <1>2, <2>1, <2>2 DEF Next, Replaying, Moves
<1>3. TypeOK /\ [Next]_vars
         => [\/ Moves(p) /\ Advances(p)
             \/ UNCHANGED <<pc[p], todo[p], conflicts[p]>>]_vars
  BY <1>2
<1> QED
  BY <1>1, <1>3, BudgetNext, ReplayTypeCorrect, PTL DEF Spec, EveryStepAdvances
=============================================================================
