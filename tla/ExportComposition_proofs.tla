----------------------- MODULE ExportComposition_proofs -----------------------
(***************************************************************************)
(* EvidenceExport takes a ledger call and a delivery attempt to be one     *)
(* step each, and the replays to do what EvidenceStores allows them.  Here *)
(* its use of each event's ledger object is proved to be what AtomicLedger *)
(* allows, each invocation's deliveries to be what AtomicDelivery allows,  *)
(* and all the exports do to the stores to be the exports' part of         *)
(* EvidenceStores, which EvidenceReplay assumes.  DeliveryLedger_proofs,   *)
(* EvidenceDelivery_proofs and EvidenceReplay_proofs prove the other side  *)
(* of these three bargains.                                                *)
(***************************************************************************)
EXTENDS EvidenceExport_proofs

\* An invocation asks only after its query, and never for what it holds.
AskInv ==
    \A i \in Invocations :
        /\ toReserve[i] \cap Held(i) = {}
        /\ pc[i] \in {"idle", "load", "query"} => toReserve[i] = {}

LEMMA AskNext == LeaseInv /\ AskInv /\ [Next]_vars => AskInv'
  <1> SUFFICES ASSUME LeaseInv, AskInv, [Next]_vars PROVE AskInv'
    OBVIOUS
  <1>t. TypeOK /\ NothingHeldYet
    BY DEF LeaseInv
  <1> USE <1>t DEF TypeOK, Held, Goto, Return, world, store, run, work
  <1>1. CASE Tick
    BY <1>1 DEF Tick, AskInv
  <1>2. ASSUME NEW e \in Events, Index(e) PROVE AskInv'
    BY <1>2 DEF Index, AskInv
  <1>3. ASSUME NEW i \in Invocations, Notify(i) PROVE AskInv'
    BY <1>3 DEF Notify, AskInv
  <1>4. ASSUME NEW i \in Invocations, LoadCheckpoint(i) PROVE AskInv'
    BY <1>4 DEF LoadCheckpoint, AskInv
  <1>5. ASSUME NEW i \in Invocations, Query(i) PROVE AskInv'
    BY <1>5 DEF Query, AskInv, NothingHeldYet
  <1>6. ASSUME NEW i \in Invocations, Reserve(i) PROVE AskInv'
    BY <1>6 DEF Reserve, AskInv
  <1>7. ASSUME NEW i \in Invocations, NoEvidence(i) PROVE AskInv'
    BY <1>7 DEF NoEvidence, AskInv
  <1>8. ASSUME NEW i \in Invocations, TakeBatch(i) PROVE AskInv'
    BY <1>8, BatchIsPart DEF TakeBatch, AskInv
  <1>9. ASSUME NEW i \in Invocations, AttemptSucceeds(i) \/ AttemptFails(i) PROVE AskInv'
    BY <1>9 DEF AttemptSucceeds, AttemptFails, AskInv
  <1>10. ASSUME NEW i \in Invocations, MarkDelivered(i) PROVE AskInv'
    BY <1>10 DEF MarkDelivered, AskInv
  <1>11. ASSUME NEW i \in Invocations, Quarantine(i) PROVE AskInv'
    BY <1>11 DEF Quarantine, AskInv
  <1>12. ASSUME NEW i \in Invocations, PutCheckpoint(i) PROVE AskInv'
    BY <1>12 DEF PutCheckpoint, AllBatchesMarked, AskInv
  <1>13. ASSUME NEW i \in Invocations, ReloadCheckpoint(i) PROVE AskInv'
    BY <1>13 DEF ReloadCheckpoint, AskInv
  <1>14. ASSUME NEW i \in Invocations, Abort(i) PROVE AskInv'
    BY <1>14 DEF Abort, AskInv
  <1>15. CASE UNCHANGED vars
    BY <1>15 DEF vars, AskInv
  <1>16. CASE Replay
    BY <1>16 DEF Replay, AskInv
  <1> HIDE <1>t DEF TypeOK, Held, Goto, Return, world, store, run, work
  <1> QED
    BY <1>1, <1>2, <1>3, <1>4, <1>5, <1>6, <1>7, <1>8, <1>9, <1>10, <1>11,
       <1>12, <1>13, <1>14, <1>15, <1>16 DEF Next, Exporting, Step

AskingInv == LeaseInv /\ AccountInv /\ AskInv

LEMMA AskingInvHolds == Spec => []AskingInv
  <1>1. Init => AskingInv
    BY LeaseInit, AccountInit DEF Init, AskingInv, AskInv, Held
  <1>2. AskingInv /\ [Next]_vars => AskingInv'
    BY LeaseNext, AccountNext, AskNext DEF AskingInv
  <1> QED
    BY <1>1, <1>2, PTL DEF Spec

\* A step of invocation i moves its stage with e, and nobody else's.
LEMMA OneStageMoves ==
    ASSUME NEW e \in Events, NEW i \in Invocations,
           \A j \in Invocations \ {i} :
               UNCHANGED <<pc[j], toReserve[j], pending[j], batch[j]>>
    PROVE  [j \in Invocations |-> StageWith(e, j)]' =
               [[j \in Invocations |-> StageWith(e, j)] EXCEPT ![i] = StageWith(e, i)']
  <1>1. ASSUME NEW j \in Invocations \ {i} PROVE StageWith(e, j)' = StageWith(e, j)
    <2>1. UNCHANGED <<pc[j], toReserve[j], pending[j], batch[j]>>
      OBVIOUS
    <2>2. Running(j)' = Running(j) /\ Held(j)' = Held(j)
      BY <2>1 DEF Running, Held
    <2> QED
      BY <2>1, <2>2 DEF StageWith
  <1> QED
    BY <1>1

\* A step of i that leaves the ledger, the clocks and what i asks for and
\* holds alone, and does not pass its query, is invisible or ends it.
LEMMA QuietStep ==
    ASSUME AskingInv, NEW e \in Events, NEW i \in Invocations, Running(i),
           UNCHANGED <<clock, ledger, lease, started, now, toReserve>>,
           NEW to, pc' = [pc EXCEPT ![i] = to], to # "idle",
           to \in {"load", "query"} => pc[i] \in {"load", "query"},
           to \notin {"load", "query"} \cup Ended => pc[i] \notin {"load", "query"},
           \A j \in Invocations : Held(j)' = Held(j),
           \A j \in Invocations \ {i} : UNCHANGED <<pending[j], batch[j]>>
    PROVE  [Ledger(e)!Next]_(Ledger(e)!vars)
  <1> DEFINE stage == [j \in Invocations |-> StageWith(e, j)]
  <1>t. TypeOK /\ AskInv /\ NothingHeldYet
    BY DEF AskingInv, LeaseInv
  <1>1. pc'[i] = to /\ \A j \in Invocations \ {i} : pc'[j] = pc[j]
    BY <1>t DEF TypeOK
  <1>2. stage' = [stage EXCEPT ![i] = StageWith(e, i)']
    BY <1>1, OneStageMoves
  <1>3. Document(e)' = Document(e)
    BY DEF Document
  <1>4. CASE StageWith(e, i)' = StageWith(e, i)
    BY <1>2, <1>3, <1>4 DEF Ledger!vars
  <1>5. CASE StageWith(e, i)' # StageWith(e, i)
    <2>1. to \in Ended
      BY <1>1, <1>5, <1>t DEF StageWith, Running, Ended, AskInv, NothingHeldYet
    <2>2. \/ StageWith(e, i) = "started" /\ StageWith(e, i)' = "left"
          \/ StageWith(e, i) = "reserve" /\ StageWith(e, i)' = "lost"
          \/ StageWith(e, i) = "holds" /\ StageWith(e, i)' = "lost"
      <3>1. CASE pc[i] \in {"load", "query"}
        <4>1. toReserve[i] = {} /\ Held(i) = {}
          BY <1>t, <3>1 DEF AskInv, NothingHeldYet, Held
        <4> QED
          BY <1>1, <2>1, <3>1, <4>1 DEF StageWith, Running, Ended
      <3>2. CASE pc[i] \notin {"load", "query"}
        BY <1>1, <1>5, <2>1, <3>2 DEF StageWith, Running, Ended
      <3> QED
        BY <3>1, <3>2
    <2>3. Ledger(e)!End(i)
      BY <1>2, <1>3, <2>2 DEF Ledger!End, Ledger!Move
    <2> QED
      BY <2>3 DEF Ledger!Next
  <1> QED
    BY <1>4, <1>5

\* A stage that is live in AtomicLedger belongs to a running invocation.
LEMMA LiveRuns ==
    ASSUME NEW e \in Events, NEW i \in Invocations, TypeOK, Ledger(e)!Live(i)
    PROVE  Running(i)
  BY DEF Ledger!Live, StageWith, Running, Ended, TypeOK, Stages

\* Every step of the exports is a step of the ledger of e, or invisible there.
LEMMA StepUsesLedger ==
    ASSUME AskingInv, [Next]_vars, NEW e \in Events
    PROVE  [Ledger(e)!Next]_(Ledger(e)!vars)
  <1> DEFINE stage == [j \in Invocations |-> StageWith(e, j)]
  <1>t. TypeOK /\ AskInv /\ NothingHeldYet /\ PendingApartFromBatch
    BY DEF AskingInv, LeaseInv
  <1> USE <1>t DEF TypeOK, Goto, Return, world, store, run, work
  <1>1. CASE Tick
    <2>1. stage' = stage /\ Document(e)' = Document(e)
      BY <1>1 DEF Tick, StageWith, Running, Held, Document
    <2>2. \A i \in Invocations : Ledger(e)!Live(i) => clock < started[i] + FunctionTimeout
      BY <1>1, LiveRuns DEF Tick
    <2>3. Ledger(e)!Tick
      BY <1>1, <2>1, <2>2 DEF Tick, Ledger!Tick
    <2> QED
      BY <2>3 DEF Ledger!Next
  <1>2. ASSUME NEW d \in Events, Index(d) PROVE [Ledger(e)!Next]_(Ledger(e)!vars)
    BY <1>2 DEF Index, StageWith, Running, Held, Document, Ledger!vars
  <1>3. ASSUME NEW i \in Invocations, Notify(i) PROVE [Ledger(e)!Next]_(Ledger(e)!vars)
    <2>1. stage' = [stage EXCEPT ![i] = "started"]
      BY <1>3, OneStageMoves DEF Notify, StageWith
    <2>2. stage[i] = "idle" /\ Document(e)' = Document(e)
      BY <1>3 DEF Notify, StageWith, Document
    <2>3. Ledger(e)!Start(i)
      BY <1>3, <2>1, <2>2 DEF Notify, Ledger!Start, Ledger!Live
    <2> QED
      BY <2>3 DEF Ledger!Next
  <1>4. ASSUME NEW i \in Invocations, LoadCheckpoint(i)
        PROVE  [Ledger(e)!Next]_(Ledger(e)!vars)
    BY <1>4, QuietStep DEF LoadCheckpoint, Running, Ended, Held
  <1>5. ASSUME NEW i \in Invocations, Query(i) PROVE [Ledger(e)!Next]_(Ledger(e)!vars)
    <2>1. /\ pc[i] = "query" /\ pc'[i] \in {"batch", "reserve"}
          /\ now' = [now EXCEPT ![i] = clock]
          /\ UNCHANGED <<clock, started, ledger, lease, pending, batch>>
          /\ \A j \in Invocations \ {i} : UNCHANGED <<pc[j], toReserve[j]>>
      BY <1>5 DEF Query
    <2>2. stage' = [stage EXCEPT ![i] = StageWith(e, i)']
      BY <2>1, OneStageMoves
    <2>3. stage[i] = "started" /\ StageWith(e, i)' \in {"reserve", "left"}
      BY <2>1 DEF StageWith, Running, Ended, Held, NothingHeldYet
    <2>4. Ledger(e)!Ask(i)
      BY <2>1, <2>2, <2>3 DEF Document, Ledger!Ask, Ledger!Move
    <2> QED
      BY <2>4 DEF Ledger!Next
  <1>6. ASSUME NEW i \in Invocations, Reserve(i) PROVE [Ledger(e)!Next]_(Ledger(e)!vars)
    <2> PICK d \in toReserve[i] :
            /\ pc[i] = "reserve"
            /\ pc' = [pc EXCEPT ![i] = IF toReserve[i] = {d} THEN "batch" ELSE "reserve"]
            /\ toReserve' = [toReserve EXCEPT ![i] = @ \ {d}]
            /\ ledger' = IF Reservable(d, now[i]) THEN [ledger EXCEPT ![d] = "reserved"] ELSE ledger
            /\ lease' = IF Reservable(d, now[i]) THEN [lease EXCEPT ![d] = now[i] + Lease] ELSE lease
            /\ pending' = IF Reservable(d, now[i]) THEN [pending EXCEPT ![i] = @ \cup {d}] ELSE pending
            /\ UNCHANGED <<clock, started, now, batch>>
      BY <1>6 DEF Reserve, LeaseExpiry
    <2>1. stage' = [stage EXCEPT ![i] = StageWith(e, i)']
      BY OneStageMoves
    <2>2. CASE d # e
      <3>1. StageWith(e, i)' = StageWith(e, i) /\ Document(e)' = Document(e)
        BY <2>2 DEF StageWith, Running, Ended, Held, Document
      <3> QED
        BY <2>1, <3>1 DEF Ledger!vars
    <2>3. CASE d = e
      <3>1. stage[i] = "reserve" /\ e \notin Held(i)
        BY <2>3 DEF StageWith, Running, Ended, AskInv
      <3>2. CASE Reservable(e, now[i])
        <4>1. StageWith(e, i)' = "holds"
          BY <2>3, <3>2 DEF StageWith, Running, Ended, Held
        <4>2. Ledger(e)!Reservable(Document(e), now[i])
          BY <3>2 DEF Reservable, Document, Ledger!Reservable
        <4>3. Document(e)' = Ledger(e)!Reservation(now[i] + Lease)
          BY <2>3, <3>2 DEF Document, Ledger!Reservation
        <4> QED
          BY <2>1, <3>1, <4>1, <4>2, <4>3 DEF Ledger!Grant, Ledger!Move, Ledger!Next
      <3>3. CASE ~Reservable(e, now[i])
        <4>1. StageWith(e, i)' = "left"
          BY <2>3, <3>1, <3>3 DEF StageWith, Running, Ended, Held
        <4>2. ~Ledger(e)!Reservable(Document(e), now[i]) /\ Document(e)' = Document(e)
          BY <2>3, <3>3 DEF Reservable, Document, Ledger!Reservable
        <4> QED
          BY <2>1, <3>1, <4>1, <4>2 DEF Ledger!Refuse, Ledger!Move, Ledger!Next
      <3> QED
        BY <3>2, <3>3
    <2> QED
      BY <2>2, <2>3
  <1>7. ASSUME NEW i \in Invocations, NoEvidence(i) PROVE [Ledger(e)!Next]_(Ledger(e)!vars)
    BY <1>7, QuietStep DEF NoEvidence, Running, Ended, Held
  <1>8. ASSUME NEW i \in Invocations, TakeBatch(i) PROVE [Ledger(e)!Next]_(Ledger(e)!vars)
    <2>1. PICK b \in NextBatches(pending[i]) :
              /\ pending[i] # {} /\ pc[i] = "batch"
              /\ batch' = [batch EXCEPT ![i] = b]
              /\ pending' = [pending EXCEPT ![i] = @ \ b]
      BY <1>8 DEF TakeBatch
    <2>2. b \subseteq pending[i] /\ batch[i] = {}
      BY <2>1, BatchIsPart DEF AskingInv, AccountInv, ProgressInv, Progressed, Staged
    <2>3. \A j \in Invocations : Held(j)' = Held(j)
      BY <2>1, <2>2 DEF Held
    <2> QED
      BY <1>8, <2>3, QuietStep DEF TakeBatch, Running, Ended
  <1>9. ASSUME NEW i \in Invocations, AttemptSucceeds(i)
        PROVE  [Ledger(e)!Next]_(Ledger(e)!vars)
    BY <1>9, QuietStep DEF AttemptSucceeds, Running, Ended, Held
  <1>10. ASSUME NEW i \in Invocations, AttemptFails(i)
         PROVE  [Ledger(e)!Next]_(Ledger(e)!vars)
    BY <1>10, QuietStep DEF AttemptFails, Running, Ended, Held
  <1>11. ASSUME NEW i \in Invocations, MarkDelivered(i)
         PROVE  [Ledger(e)!Next]_(Ledger(e)!vars)
    <2> PICK d \in batch[i] :
            /\ ledger[d] # "absent"
            /\ pc[i] = "mark"
            /\ pc' = [pc EXCEPT ![i] = IF batch[i] = {d} THEN "batch" ELSE "mark"]
            /\ ledger' = [ledger EXCEPT ![d] = "delivered"]
            /\ batch' = [batch EXCEPT ![i] = @ \ {d}]
            /\ UNCHANGED <<clock, started, now, lease, toReserve, pending>>
      BY <1>11 DEF MarkDelivered
    <2>1. stage' = [stage EXCEPT ![i] = StageWith(e, i)']
      BY OneStageMoves
    <2>2. CASE d # e
      <3>1. StageWith(e, i)' = StageWith(e, i) /\ Document(e)' = Document(e)
        BY <2>2 DEF StageWith, Running, Ended, Held, Document
      <3> QED
        BY <2>1, <3>1 DEF Ledger!vars
    <2>3. CASE d = e
      <3>1. e \notin toReserve[i] /\ e \in Held(i) /\ e \notin pending[i]
        BY <2>3 DEF AskInv, PendingApartFromBatch, Running, Ended, Held
      <3>2. stage[i] = "holds" /\ StageWith(e, i)' = "left"
        BY <2>3, <3>1 DEF StageWith, Running, Ended, Held
      <3>3. Document(e).state # "absent" /\ Document(e)' = Ledger(e)!Delivered
        BY <2>3 DEF Document, Ledger!Delivered
      <3> QED
        BY <2>1, <3>2, <3>3 DEF Ledger!Mark, Ledger!Move, Ledger!Next
    <2> QED
      BY <2>2, <2>3
  <1>12. ASSUME NEW i \in Invocations, Quarantine(i)
         PROVE  [Ledger(e)!Next]_(Ledger(e)!vars)
    BY <1>12, QuietStep DEF Quarantine, Running, Ended, Held
  <1>13. ASSUME NEW i \in Invocations, PutCheckpoint(i)
         PROVE  [Ledger(e)!Next]_(Ledger(e)!vars)
    BY <1>13, QuietStep DEF PutCheckpoint, AllBatchesMarked, Running, Ended, Held
  <1>14. ASSUME NEW i \in Invocations, ReloadCheckpoint(i)
         PROVE  [Ledger(e)!Next]_(Ledger(e)!vars)
    BY <1>14, QuietStep DEF ReloadCheckpoint, Running, Ended, Held
  <1>15. ASSUME NEW i \in Invocations, Abort(i) PROVE [Ledger(e)!Next]_(Ledger(e)!vars)
    BY <1>15, QuietStep DEF Abort, Running, Ended, Held
  <1>16. CASE UNCHANGED vars
    BY <1>16 DEF vars, StageWith, Running, Held, Document, Ledger!vars
  <1>17. CASE Replay
    BY <1>17 DEF Replay, StageWith, Running, Held, Document, Ledger!vars
  <1> QED
    BY <1>1, <1>2, <1>3, <1>4, <1>5, <1>6, <1>7, <1>8, <1>9, <1>10, <1>11,
       <1>12, <1>13, <1>14, <1>15, <1>16, <1>17 DEF Next, Exporting, Step

\* The exports use every event's ledger as AtomicLedger allows: they ask once,
\* under one reading of the clock, and mark only what they hold.
THEOREM ExportsUseLedger == ASSUME NEW e \in Events PROVE Spec => UsesLedger(e)
  <1>1. Init => Ledger(e)!Init
    BY DEF Init, Ledger!Init, Document, StageWith, Ledger!Absent
  <1>2. AskingInv /\ [Next]_vars => [Ledger(e)!Next]_(Ledger(e)!vars)
    BY StepUsesLedger
  <1> QED
    BY <1>1, <1>2, AskingInvHolds, PTL DEF Spec, UsesLedger, Ledger!Spec

-----------------------------------------------------------------------------
(* Deliveries.                                                             *)

\* A step of an invocation other than i, or one of i that stays clear of its
\* delivery, is the sink taking events in, or nothing at all, for i.
LEMMA Elsewhere ==
    ASSUME NEW i \in Invocations, UNCHANGED <<pc[i], batch[i], attempt[i]>>,
           sink \subseteq sink', sink' \subseteq Events
    PROVE  [Delivery(i)!Next]_(Delivery(i)!vars)
  <1>1. UNCHANGED <<BatchInDelivery(i), FailedAttempts(i), Verdict(i)>>
    BY DEF BatchInDelivery, FailedAttempts, Verdict, InDelivery
  <1> QED
    BY <1>1 DEF Delivery!Next, Delivery!TakeIn

\* So is a step of i between stages that have nothing to do with its delivery;
\* one that ends such a stage is its leaving.
LEMMA OffDelivery ==
    ASSUME NEW i \in Invocations, UNCHANGED sink,
           pc[i] # "deliver", pc'[i] \notin {"deliver", "mark", "quarantine"}
    PROVE  [Delivery(i)!Next]_(Delivery(i)!vars)
  <1>1. BatchInDelivery(i)' = {} /\ FailedAttempts(i)' = 0 /\ Verdict(i)' = "idle"
    BY DEF BatchInDelivery, FailedAttempts, Verdict, InDelivery
  <1> QED
    BY <1>1 DEF Delivery!Next, Delivery!Leave

\* Every step of the exports is a step of the delivery of i, or invisible there.
LEMMA StepUsesDelivery ==
    ASSUME TypeOK, [Next]_vars, NEW i \in Invocations
    PROVE  [Delivery(i)!Next]_(Delivery(i)!vars)
  <1> DEFINE Goal == [Delivery(i)!Next]_(Delivery(i)!vars)
  <1>1. CASE Tick \/ Replay \/ (\E e \in Events : Index(e)) \/ UNCHANGED vars
    <2>1. UNCHANGED <<pc, batch, attempt>>
      BY <1>1 DEF Tick, Replay, Index, vars, run, work
    <2> QED
      BY <2>1, Elsewhere, SinkGrows
  <1>2. ASSUME NEW j \in Invocations, j # i, Notify(j) \/ Step(j) \/ Abort(j) PROVE Goal
    BY <1>2, OthersStay, Elsewhere, SinkGrows
  <1>3. CASE \/ Notify(i) \/ LoadCheckpoint(i) \/ Query(i) \/ Reserve(i)
             \/ NoEvidence(i) \/ PutCheckpoint(i) \/ ReloadCheckpoint(i)
    <2>1. /\ UNCHANGED sink /\ pc[i] # "deliver"
          /\ pc'[i] \notin {"deliver", "mark", "quarantine"}
      BY <1>3 DEF Notify, LoadCheckpoint, Query, Reserve, NoEvidence, PutCheckpoint,
                  AllBatchesMarked, ReloadCheckpoint, Goto, Return, TypeOK, world
    <2> QED
      BY <2>1, OffDelivery
  <1>4. CASE Abort(i)
    <2>1. UNCHANGED sink /\ pc'[i] = "raised"
      BY <1>4 DEF Abort, TypeOK, world
    <2>2. BatchInDelivery(i)' = {} /\ FailedAttempts(i)' = 0 /\ Verdict(i)' = "idle"
      BY <2>1 DEF BatchInDelivery, FailedAttempts, Verdict, InDelivery
    <2> QED
      BY <2>1, <2>2 DEF Delivery!Next, Delivery!Leave
  <1>5. CASE TakeBatch(i)
    <2>1. /\ UNCHANGED sink /\ pc[i] = "batch" /\ pc'[i] = "deliver"
          /\ attempt'[i] = 0 /\ batch'[i] \subseteq Events
      BY <1>5, BatchIsPart DEF TakeBatch, Goto, TypeOK, world
    <2>2. /\ Verdict(i) = "idle" /\ Verdict(i)' = "pending"
          /\ FailedAttempts(i)' = 0 /\ BatchInDelivery(i)' = batch'[i]
      BY <2>1 DEF BatchInDelivery, FailedAttempts, Verdict, InDelivery
    <2> QED
      BY <2>1, <2>2 DEF Delivery!Next, Delivery!HandOver
  <1>6. CASE AttemptSucceeds(i)
    <2>1. /\ pc[i] = "deliver" /\ pc'[i] = "mark" /\ sink' = sink \cup batch[i]
      BY <1>6 DEF AttemptSucceeds, Accepted, Goto, TypeOK
    <2>2. /\ Verdict(i) = "pending" /\ Verdict(i)' = "success"
          /\ FailedAttempts(i)' = 0
          /\ BatchInDelivery(i) = batch[i] /\ BatchInDelivery(i)' = {}
      BY <2>1 DEF BatchInDelivery, FailedAttempts, Verdict, InDelivery
    <2> QED
      BY <2>1, <2>2 DEF Delivery!Next, Delivery!Succeed, Delivery!Settle
  <1>7. CASE AttemptFails(i)
    <2>1. /\ pc[i] = "deliver" /\ batch'[i] = batch[i] /\ attempt'[i] = attempt[i] + 1
          /\ \E received \in SUBSET batch[i] : sink' = sink \cup received
          /\ \/ pc'[i] = "deliver" /\ attempt[i] + 1 < MaxAttempts
             \/ pc'[i] = "quarantine"
      BY <1>7 DEF AttemptFails, NextAttempt, Goto, TypeOK
    <2>2. /\ Verdict(i) = "pending" /\ BatchInDelivery(i) = batch[i]
          /\ FailedAttempts(i) = attempt[i]
      BY <2>1 DEF BatchInDelivery, FailedAttempts, Verdict, InDelivery
    <2>3. CASE pc'[i] = "deliver" /\ attempt[i] + 1 < MaxAttempts
      <3>1. /\ Verdict(i)' = "pending" /\ BatchInDelivery(i)' = batch[i]
            /\ FailedAttempts(i)' = attempt[i] + 1
        BY <2>1, <2>3 DEF BatchInDelivery, FailedAttempts, Verdict, InDelivery
      <3> QED
        BY <2>1, <2>2, <2>3, <3>1 DEF Delivery!Next, Delivery!Retry
    <2>4. CASE pc'[i] = "quarantine"
      <3>1. /\ Verdict(i)' = "failed" /\ BatchInDelivery(i)' = {}
            /\ FailedAttempts(i)' = 0
        BY <2>4 DEF BatchInDelivery, FailedAttempts, Verdict, InDelivery
      <3> QED
        BY <2>1, <2>2, <3>1 DEF Delivery!Next, Delivery!Fail, Delivery!Settle
    <2> QED
      BY <2>1, <2>3, <2>4
  <1>8. CASE MarkDelivered(i)
    <2>1. UNCHANGED sink /\ pc[i] = "mark" /\ pc'[i] \in {"mark", "batch"}
      BY <1>8 DEF MarkDelivered, Goto, TypeOK, world
    <2>2. /\ BatchInDelivery(i) = {} /\ BatchInDelivery(i)' = {}
          /\ FailedAttempts(i) = 0 /\ FailedAttempts(i)' = 0
          /\ Verdict(i)' = Verdict(i) \/ Verdict(i)' = "idle"
      BY <2>1 DEF BatchInDelivery, FailedAttempts, Verdict, InDelivery
    <2> QED
      BY <2>1, <2>2 DEF Delivery!Next, Delivery!Leave, Delivery!vars
  <1>9. CASE Quarantine(i)
    <2>1. UNCHANGED sink /\ pc[i] = "quarantine" /\ pc'[i] \in {"done", "raised"}
      BY <1>9 DEF Quarantine, Return, TypeOK, world
    <2> QED
      BY <2>1, OffDelivery
  <1> QED
    BY <1>1, <1>2, <1>3, <1>4, <1>5, <1>6, <1>7, <1>8, <1>9 DEF Next, Exporting, Step

\* Each invocation delivers as AtomicDelivery allows: one batch at a time,
\* marked only after a success, and no attempt beyond the last; the other
\* invocations and the replays are where else the sink's events come from.
THEOREM ExportsUseDelivery ==
    ASSUME NEW i \in Invocations PROVE Spec => UsesDelivery(i)
  <1>1. Init => Delivery(i)!Init
    <2> SUFFICES ASSUME Init PROVE Delivery(i)!Init
      OBVIOUS
    <2>1. sink = {} /\ pc[i] = "idle"
      BY DEF Init
    <2>2. BatchInDelivery(i) = {} /\ FailedAttempts(i) = 0 /\ Verdict(i) = "idle"
      BY <2>1 DEF BatchInDelivery, FailedAttempts, Verdict, InDelivery
    <2> QED
      BY <2>1, <2>2 DEF Delivery!Init
  <1>2. TypeOK /\ [Next]_vars => [Delivery(i)!Next]_(Delivery(i)!vars)
    BY StepUsesDelivery
  <1> QED
    BY <1>1, <1>2, TypeCorrect, PTL DEF Spec, UsesDelivery, Delivery!Spec

-----------------------------------------------------------------------------
(* The stores.                                                             *)

\* An invocation that was notified has the alarm it was notified with.
AlarmInv == \A i \in Invocations : pc[i] # "idle" => alarm[i] \in Alarms

LEMMA AlarmNext == TypeOK /\ AlarmInv /\ [Next]_vars => AlarmInv'
  <1> SUFFICES ASSUME TypeOK, AlarmInv, [Next]_vars PROVE AlarmInv'
    OBVIOUS
  <1> USE DEF TypeOK, Goto, Return, world, store, run, work
  <1>1. ASSUME NEW i \in Invocations, Notify(i) PROVE AlarmInv'
    BY <1>1 DEF Notify, AlarmInv
  <1>2. ASSUME NEW i \in Invocations, Step(i) \/ Abort(i)
        PROVE  /\ UNCHANGED alarm /\ pc[i] # "idle"
               /\ \A j \in Invocations \ {i} : pc'[j] = pc[j]
    <2>1. CASE LoadCheckpoint(i) \/ Query(i) \/ Reserve(i) \/ NoEvidence(i)
      BY <2>1 DEF LoadCheckpoint, Query, Reserve, NoEvidence
    <2>2. CASE TakeBatch(i) \/ AttemptSucceeds(i) \/ AttemptFails(i) \/ MarkDelivered(i)
      BY <2>2 DEF TakeBatch, AttemptSucceeds, AttemptFails, MarkDelivered
    <2>3. CASE Quarantine(i) \/ PutCheckpoint(i) \/ ReloadCheckpoint(i) \/ Abort(i)
      BY <2>3 DEF Quarantine, PutCheckpoint, AllBatchesMarked, ReloadCheckpoint, Abort,
                  Running, Ended
    <2> QED
      BY <1>2, <2>1, <2>2, <2>3 DEF Step
  <1>3. CASE Tick \/ Replay \/ (\E e \in Events : Index(e)) \/ UNCHANGED vars
    BY <1>3 DEF Tick, Replay, Index, vars, AlarmInv
  <1> HIDE DEF TypeOK, Goto, Return, world, store, run, work
  <1>4. ASSUME NEW i \in Invocations, Step(i) \/ Abort(i) PROVE AlarmInv'
    BY <1>2, <1>4 DEF AlarmInv
  <1> QED
    BY <1>1, <1>3, <1>4 DEF Next, Exporting

StoresInv == AccountInv /\ WatermarkInv /\ AlarmInv

LEMMA StoresInvHolds == Spec => []StoresInv
  <1>1. Init => StoresInv
    BY AccountInit, WatermarkInit DEF Init, StoresInv, AlarmInv
  <1>2. StoresInv /\ [Next]_vars => StoresInv'
    BY AccountNext, WatermarkNext, AlarmNext DEF StoresInv, AccountInv
  <1> QED
    BY <1>1, <1>2, PTL DEF Spec

\* A step of an export is one of the exports' part, or leaves the stores alone.
LEMMA ExportKeepsPart ==
    ASSUME StoresInv, NEW i \in Invocations, Notify(i) \/ Step(i) \/ Abort(i)
    PROVE  Stores!ExportStep \/ UNCHANGED Stores!vars
  <1>t. TypeOK /\ ProgressInv /\ DeadLetterShape
    BY DEF StoresInv, AccountInv
  <1>1. CASE \/ Notify(i) \/ LoadCheckpoint(i) \/ Query(i) \/ Reserve(i) \/ NoEvidence(i)
             \/ TakeBatch(i) \/ MarkDelivered(i) \/ ReloadCheckpoint(i) \/ Abort(i)
    BY <1>1 DEF Notify, LoadCheckpoint, Query, Reserve, NoEvidence, TakeBatch,
                MarkDelivered, ReloadCheckpoint, Abort, world, store, Stores!vars
  <1>2. CASE AttemptSucceeds(i) \/ AttemptFails(i)
    <2>1. PICK received \in SUBSET batch[i] : sink' = sink \cup received
      BY <1>2 DEF AttemptSucceeds, AttemptFails, Accepted
    <2>2. UNCHANGED <<dlq, checkpoint, etag>>
      BY <1>2 DEF AttemptSucceeds, AttemptFails, store
    <2> DEFINE taken == received \ sink
    <2>3. taken \in SUBSET (Events \ sink) /\ sink' = sink \cup taken
      BY <1>t, <2>1 DEF TypeOK
    <2> HIDE DEF taken
    <2>4. CASE taken # {}
      BY <2>2, <2>3, <2>4 DEF Stores!ExportStep, Stores!ExportDelivers
    <2>5. CASE taken = {}
      BY <2>2, <2>3, <2>5 DEF Stores!vars
    <2> QED
      BY <2>4, <2>5
  <1>3. CASE Quarantine(i)
    <2>1. /\ pc[i] = "quarantine"
          /\ dlq' = dlq \cup {[invocation |-> i, checkpoint |-> alarm[i],
                               confirmed |-> confirmed[i], remaining |-> Held(i)]}
          /\ UNCHANGED <<sink, checkpoint, etag>>
      BY <1>3 DEF Quarantine, Unconfirmed, world
    <2>2. \A r \in dlq : r.invocation # i
      BY <1>t, <2>1 DEF DeadLetterShape, Describes, Settled
    <2>3. /\ confirmed[i] \in SUBSET sink /\ Held(i) \in SUBSET Events
          /\ confirmed[i] \cap Held(i) = {} /\ Held(i) # {}
      BY <1>t, <2>1 DEF ProgressInv, Progressed, Staged, Marked, TypeOK, Held, Running, Ended
    <2>4. alarm[i] \in Alarms
      BY <2>1 DEF StoresInv, AlarmInv
    <2>5. Stores!ExportFails(i)
      BY <2>1, <2>2, <2>3, <2>4 DEF Stores!ExportFails
    <2> QED
      BY <2>5 DEF Stores!ExportStep
  <1>4. CASE PutCheckpoint(i)
    <2>1. UNCHANGED <<sink, dlq>>
      BY <1>4 DEF PutCheckpoint, world
    <2>2. CASE ~EtagMatches(i)
      BY <1>4, <2>1, <2>2 DEF PutCheckpoint, Stores!vars
    <2>3. CASE EtagMatches(i)
      <3>1. /\ checkpoint' = alarm[i] /\ etag' = etag + 1
            /\ known[i] = etag /\ pc[i] \in {"batch", "save"}
        BY <1>4, <2>3 DEF PutCheckpoint, AllBatchesMarked, EtagMatches
      <3>2. alarm[i] \in Alarms
        BY <3>1 DEF StoresInv, AlarmInv
      <3>3. alarm[i] + Overlap >= checkpoint
        BY <1>t, <3>1, SavedWindowReachesBack DEF StoresInv
      <3> QED
        BY <2>1, <3>1, <3>2, <3>3 DEF Stores!ExportStep, Stores!ExportSaves, Stores!Save
    <2> QED
      BY <2>2, <2>3
  <1> QED
    BY <1>1, <1>2, <1>3, <1>4 DEF Step

\* The exports do to the stores only what EvidenceReplay assumes of exports,
\* whatever the replays do within their own part.
THEOREM ExportsKeepPart == Spec => ExportsKeepToTheirPart
  <1>1. StoresInv /\ [Next]_vars
           => [Exporting => Stores!ExportStep \/ UNCHANGED Stores!vars]_vars
    BY ExportKeepsPart DEF Exporting
  <1> QED
    BY <1>1, StoresInvHolds, PTL DEF Spec, ExportsKeepToTheirPart

\* So the whole of EvidenceExport implements the stores that it shares with
\* EvidenceReplay.
THEOREM ExportsImplementStores == Spec => Stores!Spec
  <1>1. Init => Stores!Init
    BY DEF Init, Stores!Init, NoCheckpoint, Stores!NoCheckpoint
  <1>2. StoresInv /\ [Next]_vars => [Stores!Next]_(Stores!vars)
    <2> SUFFICES ASSUME StoresInv, [Next]_vars PROVE [Stores!Next]_(Stores!vars)
      OBVIOUS
    <2>1. CASE Exporting
      BY <2>1, ExportKeepsPart DEF Exporting, Stores!Next
    <2>2. CASE Replay
      BY <2>2 DEF Replay, Stores!Next
    <2>3. CASE Tick \/ (\E e \in Events : Index(e)) \/ UNCHANGED vars
      BY <2>3 DEF Tick, Index, vars, store, Stores!vars
    <2> QED
      BY <2>1, <2>2, <2>3 DEF Next
  <1> QED
    BY <1>1, <1>2, StoresInvHolds, PTL DEF Spec, Stores!Spec
=============================================================================
