------------------------ MODULE EvidenceExport_proofs ------------------------
(***************************************************************************)
(* Proofs about EvidenceExport for every set of invocations, events and    *)
(* alarms and every value of its durations and limits.                     *)
(***************************************************************************)
EXTENDS EvidenceExport, FiniteSetTheorems, TLAPS

-----------------------------------------------------------------------------
(* What the data operators return.                                         *)

\* A query returns events of the detection only.
LEMMA QueryRowsAreEvents ==
    ASSUME indexed \subseteq Events, NEW start, NEW end,
           NEW rows \in QueryResults(start, end)
    PROVE  rows \subseteq Events
  BY DEF QueryResults

\* A batch is a non-empty part of what is left to send.
LEMMA BatchIsPart ==
    ASSUME NEW left, left # {}, NEW b \in NextBatches(left)
    PROVE  b \subseteq left /\ b # {}
  <1>1. b \subseteq left
    BY DEF NextBatches
  <1>2. CASE b = left
    BY <1>1, <1>2
  <1>3. CASE Cardinality(b) = MaxBatchEvents
    BY <1>1, <1>3, FS_EmptySet, DurationsAssumption
  <1> QED
    BY <1>2, <1>3 DEF NextBatches

\* A window that is accepted ends no earlier than Overlap before the watermark
\* it was computed from.
LEMMA WindowReachesBack ==
    ASSUME NEW end \in Nat, NEW watermark \in Nat,
           WindowAllowed(WindowFrom(end, watermark), end)
    PROVE  end + Overlap >= watermark
  BY DurationsAssumption DEF WindowAllowed, WindowFrom, NoCheckpoint

-----------------------------------------------------------------------------
(* What a replay does to the stores.                                       *)

\* s is the record of a replay of r: some remaining events that the sink has
\* received, but not all of them, have become confirmed ones.
DescendsFrom(s, r) ==
    /\ s.invocation = r.invocation /\ s.checkpoint = r.checkpoint
    /\ \E newly \in SUBSET (r.remaining \cap sink) :
           /\ newly # r.remaining
           /\ s.confirmed = r.confirmed \cup newly /\ s.remaining = r.remaining \ newly

\* A replay leaves the invocations, the ledger and the clock alone, only adds
\* to the sink and to the dead letters, and saves only forward, for a record
\* whose events were received.
LEMMA ReplayTouches ==
    ASSUME TypeOK, Replay
    PROVE  /\ UNCHANGED <<clock, indexed, ledger, lease, pc, run, work>>
           /\ sink \subseteq sink' /\ sink' \subseteq Events
           /\ dlq \subseteq dlq'
           /\ \A s \in dlq' \ dlq : \E r \in dlq : s \in DeadLetters /\ DescendsFrom(s, r)
           /\ \/ UNCHANGED <<checkpoint, etag>>
              \/ /\ etag' = etag + 1 /\ checkpoint < checkpoint'
                 /\ \E r \in dlq : /\ checkpoint' = r.checkpoint
                                   /\ r.confirmed \cup r.remaining \subseteq sink
  <1>1. UNCHANGED <<clock, indexed, ledger, lease, pc, run, work>>
    BY DEF Replay
  <1>2. CASE Stores!ReplaySends
    <2>1. PICK r \in dlq : \E taken \in SUBSET r.remaining : sink' = sink \cup taken
      BY <1>2 DEF Stores!ReplaySends
    <2>2. r.remaining \subseteq Events /\ sink \subseteq Events
      BY DEF TypeOK, DeadLetters
    <2>3. UNCHANGED <<dlq, checkpoint, etag>>
      BY <1>2 DEF Stores!ReplaySends
    <2> QED
      BY <1>1, <2>1, <2>2, <2>3
  <1>3. CASE Stores!ReplayFails
    <2>0. PICK r \in dlq : \E newly \in SUBSET (r.remaining \cap sink) :
            /\ newly # r.remaining
            /\ dlq' = dlq \cup {[r EXCEPT !.confirmed = @ \cup newly,
                                          !.remaining = @ \ newly]}
      BY <1>3 DEF Stores!ReplayFails
    <2>1. PICK newly \in SUBSET (r.remaining \cap sink) :
            /\ newly # r.remaining
            /\ dlq' = dlq \cup {[r EXCEPT !.confirmed = @ \cup newly,
                                          !.remaining = @ \ newly]}
      BY <2>0
    <2> DEFINE s == [r EXCEPT !.confirmed = @ \cup newly, !.remaining = @ \ newly]
    <2>2. r \in DeadLetters
      BY DEF TypeOK
    <2>3. /\ s \in DeadLetters
          /\ s.invocation = r.invocation /\ s.checkpoint = r.checkpoint
          /\ s.confirmed = r.confirmed \cup newly /\ s.remaining = r.remaining \ newly
      BY <2>2 DEF DeadLetters
    <2> HIDE DEF s
    <2>4. DescendsFrom(s, r)
      BY <2>1, <2>3 DEF DescendsFrom
    <2>5. UNCHANGED <<sink, checkpoint, etag>> /\ sink \subseteq Events
      BY <1>3 DEF Stores!ReplayFails, TypeOK
    <2>6. dlq' = dlq \cup {s}
      BY <2>1 DEF s
    <2> QED
      BY <1>1, <2>3, <2>4, <2>5, <2>6
  <1>4. CASE Stores!ReplaySaves
    <2>1. UNCHANGED <<sink, dlq>> /\ sink \subseteq Events
      BY <1>4 DEF Stores!ReplaySaves, TypeOK
    <2>2. /\ etag' = etag + 1 /\ checkpoint < checkpoint'
          /\ \E r \in dlq : /\ checkpoint' = r.checkpoint
                            /\ r.confirmed \cup r.remaining \subseteq sink
      BY <1>4 DEF Stores!ReplaySaves, Stores!Save, Stores!AllEvents
    <2> QED
      BY <1>1, <2>1, <2>2
  <1> QED
    BY <1>2, <1>3, <1>4 DEF Replay, Stores!ReplayStep

-----------------------------------------------------------------------------
(* Types.                                                                  *)

LEMMA TypeInit == Init => TypeOK
  BY DurationsAssumption DEF Init, TypeOK, NoCheckpoint, Stages, Ended, Receipts

LEMMA TypeNext == TypeOK /\ [Next]_vars => TypeOK'
  <1> SUFFICES ASSUME TypeOK, [Next]_vars PROVE TypeOK'
    OBVIOUS
  <1> USE DataAssumption, DurationsAssumption, LeaseAssumption
          DEF TypeOK, world, store, run, work, Goto, Return
  <1>1. CASE Tick
    BY <1>1 DEF Tick
  <1>2. ASSUME NEW e \in Events, Index(e) PROVE TypeOK'
    BY <1>2 DEF Index
  <1>3. ASSUME NEW i \in Invocations, Notify(i) PROVE TypeOK'
    BY <1>3 DEF Notify, Stages, Ended
  <1>4. ASSUME NEW i \in Invocations, LoadCheckpoint(i) PROVE TypeOK'
    <2>1. WindowFrom(alarm[i], checkpoint) \in Int
      BY DEF WindowFrom, NoCheckpoint
    <2> QED
      BY <1>4, <2>1 DEF LoadCheckpoint, Stages, Ended
  <1>5. ASSUME NEW i \in Invocations, Query(i) PROVE TypeOK'
    <2> PICK rows \in QueryResults(windowStart[i], alarm[i]) :
            /\ Goto(i, "query", IF rows = {} THEN "batch" ELSE "reserve")
            /\ toReserve' = [toReserve EXCEPT ![i] = rows]
            /\ now' = [now EXCEPT ![i] = clock]
            /\ UNCHANGED <<world, store, alarm, started, known, windowStart, status,
                           pending, batch, confirmed, attempt, conflicts>>
      BY <1>5 DEF Query
    <2>1. rows \subseteq Events
      BY QueryRowsAreEvents
    <2> QED
      BY <2>1 DEF Stages, Ended
  <1>6. ASSUME NEW i \in Invocations, Reserve(i) PROVE TypeOK'
    BY <1>6 DEF Reserve, LeaseExpiry, Stages, Ended
  <1>7. ASSUME NEW i \in Invocations, NoEvidence(i) PROVE TypeOK'
    BY <1>7 DEF NoEvidence, Stages, Ended, Receipts
  <1>8. ASSUME NEW i \in Invocations, TakeBatch(i) PROVE TypeOK'
    BY <1>8, BatchIsPart DEF TakeBatch, Stages, Ended
  <1>9. ASSUME NEW i \in Invocations, AttemptSucceeds(i) PROVE TypeOK'
    BY <1>9 DEF AttemptSucceeds, Accepted, Stages, Ended
  <1>10. ASSUME NEW i \in Invocations, AttemptFails(i) PROVE TypeOK'
    BY <1>10 DEF AttemptFails, NextAttempt, Stages, Ended
  <1>11. ASSUME NEW i \in Invocations, MarkDelivered(i) PROVE TypeOK'
    BY <1>11 DEF MarkDelivered, Stages, Ended
  <1>12. ASSUME NEW i \in Invocations, Quarantine(i) PROVE TypeOK'
    <2>1. [invocation |-> i, checkpoint |-> alarm[i], confirmed |-> confirmed[i],
           remaining |-> Unconfirmed(i)] \in DeadLetters
      BY DEF Unconfirmed, Held, DeadLetters
    <2>2. dlq' \subseteq DeadLetters
      BY <1>12, <2>1 DEF Quarantine
    <2> QED
      BY <1>12, <2>2 DEF Quarantine, Stages, Ended, Receipts
  <1>13. ASSUME NEW i \in Invocations, PutCheckpoint(i) PROVE TypeOK'
    BY <1>13 DEF PutCheckpoint, Stages, Ended, Receipts
  <1>14. ASSUME NEW i \in Invocations, ReloadCheckpoint(i) PROVE TypeOK'
    BY <1>14 DEF ReloadCheckpoint, Stages, Ended, Receipts
  <1>15. ASSUME NEW i \in Invocations, Abort(i) PROVE TypeOK'
    BY <1>15 DEF Abort, Stages, Ended
  <1>16. CASE UNCHANGED vars
    BY <1>16 DEF vars
  <1>17. CASE Replay
    <2>1. dlq' \subseteq DeadLetters
      BY <1>17, ReplayTouches
    <2>2. checkpoint' \in Nat \cup {NoCheckpoint} /\ etag' \in Nat
      BY <1>17, ReplayTouches DEF DeadLetters
    <2> QED
      BY <1>17, <2>1, <2>2, ReplayTouches
  <1> QED
    BY <1>1, <1>2, <1>3, <1>4, <1>5, <1>6, <1>7, <1>8, <1>9, <1>10, <1>11,
       <1>12, <1>13, <1>14, <1>15, <1>16, <1>17 DEF Next, Exporting, Step

\* Type correctness: whatever invocations, notifications and failures do, the
\* shared objects and the locals of every invocation keep their types.
THEOREM TypeCorrect == Spec => []TypeOK
  BY TypeInit, TypeNext, PTL DEF Spec

-----------------------------------------------------------------------------
(* Reservations.  A live invocation runs for at most FunctionTimeout, its   *)
(* reservations last for Lease > FunctionTimeout from a moment after its    *)
(* start, so nobody finds one of them expired while it lives.               *)

WithinTimeout ==
    \A i \in Invocations : Running(i) =>
        started[i] <= clock /\ clock <= started[i] + FunctionTimeout

ReservesAfterStart ==
    \A i \in Invocations : pc[i] = "reserve" =>
        started[i] <= now[i] /\ now[i] <= clock

LeaseOutlivesHolder ==
    \A i \in Invocations : Running(i) =>
        \A e \in Held(i) : ledger[e] = "reserved" /\ lease[e] >= started[i] + Lease

NothingHeldYet ==
    \A i \in Invocations : pc[i] \in {"idle", "load", "query"} =>
        pending[i] = {} /\ batch[i] = {} /\ confirmed[i] = {}

PendingApartFromBatch ==
    \A i \in Invocations : Running(i) => pending[i] \cap batch[i] = {}

LeaseInv ==
    /\ TypeOK
    /\ WithinTimeout
    /\ ReservesAfterStart
    /\ LeaseOutlivesHolder
    /\ ExclusiveHolding
    /\ NothingHeldYet
    /\ PendingApartFromBatch

LEMMA LeaseInit == Init => LeaseInv
  <1> SUFFICES ASSUME Init PROVE LeaseInv
    OBVIOUS
  <1>1. TypeOK
    BY TypeInit
  <1>2. \A i \in Invocations : pc[i] = "idle" /\ Held(i) = {}
    BY DEF Init, Held
  <1> QED
    BY <1>1, <1>2 DEF Init, LeaseInv, WithinTimeout, ReservesAfterStart,
       LeaseOutlivesHolder, ExclusiveHolding, NothingHeldYet,
       PendingApartFromBatch, Running, Ended

\* A step that starts nobody, reserves nothing and leaves the ledger alone can
\* only drop holdings, which disturbs nothing.
LEMMA DroppingKeepsLeases ==
    ASSUME LeaseInv, TypeOK',
           UNCHANGED <<clock, ledger, lease, started>>,
           \A i \in Invocations :
               /\ Running(i)' => Running(i)
               /\ Held(i)' \subseteq Held(i)
               /\ Running(i)' => (pending[i] \cap batch[i])' = {}
               /\ pc'[i] = "reserve" =>
                      \/ pc[i] = "reserve" /\ now'[i] = now[i]
                      \/ now'[i] = clock
               /\ pc'[i] \in {"idle", "load", "query"} =>
                      /\ pc[i] \in {"idle", "load", "query"}
                      /\ UNCHANGED <<pending[i], batch[i], confirmed[i]>>
    PROVE  LeaseInv'
  <1>1. WithinTimeout'
    BY DEF LeaseInv, WithinTimeout
  <1>2. ReservesAfterStart'
    <2> SUFFICES ASSUME NEW i \in Invocations, pc'[i] = "reserve"
                 PROVE  started[i] <= now'[i] /\ now'[i] <= clock
      BY DEF ReservesAfterStart
    <2>1. clock \in Nat /\ started[i] <= clock
      BY DEF LeaseInv, WithinTimeout, Running, Ended, TypeOK
    <2> QED
      BY <2>1 DEF LeaseInv, ReservesAfterStart
  <1>3. LeaseOutlivesHolder'
    BY DEF LeaseInv, LeaseOutlivesHolder
  <1>4. ExclusiveHolding'
    BY DEF LeaseInv, ExclusiveHolding
  <1>5. NothingHeldYet'
    BY DEF LeaseInv, NothingHeldYet
  <1>6. PendingApartFromBatch'
    BY DEF PendingApartFromBatch
  <1> QED
    BY <1>1, <1>2, <1>3, <1>4, <1>5, <1>6 DEF LeaseInv

LEMMA LeaseNext == LeaseInv /\ [Next]_vars => LeaseInv'
  <1> SUFFICES ASSUME LeaseInv, [Next]_vars PROVE LeaseInv'
    OBVIOUS
  <1>t. TypeOK /\ TypeOK'
    BY TypeNext DEF LeaseInv
  <1> USE <1>t DEF world, store, run, work, Goto, Return, Held, Running, Ended
  <1>1. CASE Tick
    <2>1. UNCHANGED <<pc, started, ledger, lease, now, pending, batch, confirmed>>
      BY <1>1 DEF Tick
    <2>2. clock' = clock + 1
      BY <1>1 DEF Tick
    <2>3. WithinTimeout'
      BY <1>1, <2>1, <2>2, LeaseAssumption DEF Tick, LeaseInv, WithinTimeout, TypeOK
    <2>4. ReservesAfterStart'
      BY <2>1, <2>2 DEF LeaseInv, ReservesAfterStart, TypeOK
    <2> QED
      BY <2>1, <2>3, <2>4 DEF LeaseInv, LeaseOutlivesHolder, ExclusiveHolding,
         NothingHeldYet, PendingApartFromBatch
  <1>2. ASSUME NEW e \in Events, Index(e) PROVE LeaseInv'
    BY <1>2, DroppingKeepsLeases DEF Index, LeaseInv, PendingApartFromBatch,
       ReservesAfterStart
  <1>3. ASSUME NEW i \in Invocations, Notify(i) PROVE LeaseInv'
    <2>1. /\ pc[i] = "idle" /\ pc' = [pc EXCEPT ![i] = "load"]
          /\ started' = [started EXCEPT ![i] = clock]
          /\ UNCHANGED <<clock, ledger, lease, now, pending, batch, confirmed>>
      BY <1>3 DEF Notify
    <2>2. Held(i) = {}
      BY <2>1 DEF LeaseInv, NothingHeldYet
    <2>3. WithinTimeout'
      BY <2>1, LeaseAssumption DEF LeaseInv, WithinTimeout, TypeOK
    <2>4. ReservesAfterStart'
      BY <2>1 DEF LeaseInv, ReservesAfterStart, TypeOK
    <2>5. LeaseOutlivesHolder'
      BY <2>1, <2>2 DEF LeaseInv, LeaseOutlivesHolder, TypeOK
    <2>6. ExclusiveHolding'
      BY <2>1, <2>2 DEF LeaseInv, ExclusiveHolding, TypeOK
    <2> QED
      BY <2>1, <2>3, <2>4, <2>5, <2>6 DEF LeaseInv, NothingHeldYet,
         PendingApartFromBatch, TypeOK
  <1>4. ASSUME NEW i \in Invocations, LoadCheckpoint(i) PROVE LeaseInv'
    BY <1>4, DroppingKeepsLeases DEF LoadCheckpoint, LeaseInv,
       PendingApartFromBatch, TypeOK
  <1>5. ASSUME NEW i \in Invocations, Query(i) PROVE LeaseInv'
    BY <1>5, DroppingKeepsLeases DEF Query, LeaseInv, PendingApartFromBatch, TypeOK
  <1>6. ASSUME NEW i \in Invocations, Reserve(i) PROVE LeaseInv'
    <2> PICK e \in toReserve[i] :
            /\ pc[i] = "reserve"
            /\ pc' = [pc EXCEPT ![i] = IF toReserve[i] = {e} THEN "batch" ELSE "reserve"]
            /\ ledger' = IF Reservable(e, now[i]) THEN [ledger EXCEPT ![e] = "reserved"] ELSE ledger
            /\ lease' = IF Reservable(e, now[i]) THEN [lease EXCEPT ![e] = now[i] + Lease] ELSE lease
            /\ pending' = IF Reservable(e, now[i]) THEN [pending EXCEPT ![i] = @ \cup {e}] ELSE pending
            /\ UNCHANGED <<clock, started, now, batch, confirmed>>
      BY <1>6 DEF Reserve, LeaseExpiry
    <2>1. CASE ~Reservable(e, now[i])
      BY <2>1, DroppingKeepsLeases DEF LeaseInv, PendingApartFromBatch, TypeOK
    <2>2. CASE Reservable(e, now[i])
      <3>1. started[i] <= now[i] /\ now[i] <= clock
        BY DEF LeaseInv, ReservesAfterStart
      \* Nobody alive holds an event whose reservation i may take over.
      <3>2. \A j \in Invocations : Running(j) => e \notin Held(j)
        BY <2>2, <3>1, LeaseAssumption
           DEF Reservable, LeaseInv, LeaseOutlivesHolder, WithinTimeout, TypeOK
      <3>3. /\ \A j \in Invocations : Running(j)' <=> Running(j)
            /\ \A j \in Invocations \ {i} : Held(j)' = Held(j)
            /\ Held(i)' = Held(i) \cup {e}
            /\ \A d \in Events \ {e} : ledger'[d] = ledger[d] /\ lease'[d] = lease[d]
            /\ ledger'[e] = "reserved" /\ lease'[e] = now[i] + Lease
        BY <2>2 DEF TypeOK
      <3>4. WithinTimeout'
        BY <3>3 DEF LeaseInv, WithinTimeout
      <3>5. ReservesAfterStart'
        BY DEF LeaseInv, ReservesAfterStart, TypeOK
      <3>6. LeaseOutlivesHolder'
        <4> SUFFICES ASSUME NEW j \in Invocations, Running(j), NEW d \in Held(j)'
                     PROVE  ledger'[d] = "reserved" /\ lease'[d] >= started[j] + Lease
          BY <3>3 DEF LeaseOutlivesHolder
        <4>1. CASE d = e
          <5>1. j = i
            BY <3>2, <3>3, <4>1
          <5> QED
            BY <3>1, <3>3, <4>1, <5>1, LeaseAssumption DEF TypeOK
        <4>2. CASE d # e
          <5>1. d \in Held(j) /\ d \in Events
            BY <3>3, <4>2 DEF TypeOK
          <5> QED
            BY <3>3, <4>2, <5>1 DEF LeaseInv, LeaseOutlivesHolder
        <4> QED
          BY <4>1, <4>2
      <3>7. ExclusiveHolding'
        BY <3>2, <3>3 DEF LeaseInv, ExclusiveHolding
      <3>8. NothingHeldYet'
        BY <2>2 DEF LeaseInv, NothingHeldYet, TypeOK
      <3>9. PendingApartFromBatch'
        BY <2>2, <3>2 DEF LeaseInv, PendingApartFromBatch, TypeOK
      <3> QED
        BY <3>4, <3>5, <3>6, <3>7, <3>8, <3>9 DEF LeaseInv
    <2> QED
      BY <2>1, <2>2
  <1>7. ASSUME NEW i \in Invocations, NoEvidence(i) PROVE LeaseInv'
    BY <1>7, DroppingKeepsLeases DEF NoEvidence, LeaseInv, PendingApartFromBatch, TypeOK
  <1>8. ASSUME NEW i \in Invocations, TakeBatch(i) PROVE LeaseInv'
    BY <1>8, DroppingKeepsLeases, BatchIsPart DEF TakeBatch, LeaseInv,
       PendingApartFromBatch, TypeOK
  <1>9. ASSUME NEW i \in Invocations, AttemptSucceeds(i) PROVE LeaseInv'
    BY <1>9, DroppingKeepsLeases DEF AttemptSucceeds, LeaseInv,
       PendingApartFromBatch, TypeOK
  <1>10. ASSUME NEW i \in Invocations, AttemptFails(i) PROVE LeaseInv'
    BY <1>10, DroppingKeepsLeases DEF AttemptFails, LeaseInv,
       PendingApartFromBatch, TypeOK
  <1>11. ASSUME NEW i \in Invocations, MarkDelivered(i) PROVE LeaseInv'
    <2> PICK e \in batch[i] :
            /\ pc[i] = "mark"
            /\ pc' = [pc EXCEPT ![i] = IF batch[i] = {e} THEN "batch" ELSE "mark"]
            /\ ledger' = [ledger EXCEPT ![e] = "delivered"]
            /\ batch' = [batch EXCEPT ![i] = @ \ {e}]
            /\ UNCHANGED <<clock, lease, started, now, pending, confirmed>>
      BY <1>11 DEF MarkDelivered
    <2>1. /\ \A j \in Invocations : Running(j)' <=> Running(j)
          /\ \A j \in Invocations \ {i} : Held(j)' = Held(j)
          /\ Held(i)' \subseteq Held(i)
          /\ \A d \in Events \ {e} : ledger'[d] = ledger[d]
      BY DEF TypeOK
    \* The marked event leaves its holder's hands, and nobody else held it.
    <2>2. \A j \in Invocations : Running(j) => e \notin Held(j)'
      <3> SUFFICES ASSUME NEW j \in Invocations, Running(j) PROVE e \notin Held(j)'
        OBVIOUS
      <3>1. CASE j = i
        BY <3>1 DEF LeaseInv, PendingApartFromBatch, TypeOK
      <3>2. CASE j # i
        BY <2>1, <3>2 DEF LeaseInv, ExclusiveHolding
      <3> QED
        BY <3>1, <3>2
    <2>3. LeaseOutlivesHolder'
      <3> SUFFICES ASSUME NEW j \in Invocations, Running(j), NEW d \in Held(j)'
                   PROVE  ledger'[d] = "reserved" /\ lease[d] >= started[j] + Lease
        BY <2>1 DEF LeaseOutlivesHolder
      <3>1. d \in Held(j) /\ d \in Events /\ d # e
        BY <2>1, <2>2 DEF TypeOK
      <3> QED
        BY <2>1, <3>1 DEF LeaseInv, LeaseOutlivesHolder
    <2>4. ExclusiveHolding'
      BY <2>1 DEF LeaseInv, ExclusiveHolding
    <2> QED
      BY <2>1, <2>3, <2>4 DEF LeaseInv, WithinTimeout, ReservesAfterStart,
         NothingHeldYet, PendingApartFromBatch, TypeOK
  <1>12. ASSUME NEW i \in Invocations, Quarantine(i) PROVE LeaseInv'
    BY <1>12, DroppingKeepsLeases DEF Quarantine, LeaseInv,
       PendingApartFromBatch, TypeOK
  <1>13. ASSUME NEW i \in Invocations, PutCheckpoint(i) PROVE LeaseInv'
    BY <1>13, DroppingKeepsLeases DEF PutCheckpoint, AllBatchesMarked, LeaseInv,
       PendingApartFromBatch, TypeOK
  <1>14. ASSUME NEW i \in Invocations, ReloadCheckpoint(i) PROVE LeaseInv'
    BY <1>14, DroppingKeepsLeases DEF ReloadCheckpoint, LeaseInv,
       PendingApartFromBatch, TypeOK
  <1>15. ASSUME NEW i \in Invocations, Abort(i) PROVE LeaseInv'
    BY <1>15, DroppingKeepsLeases DEF Abort, LeaseInv, PendingApartFromBatch, TypeOK
  <1>16. CASE UNCHANGED vars
    BY <1>16, DroppingKeepsLeases DEF vars, LeaseInv, PendingApartFromBatch
  <1>17. CASE Replay
    BY <1>17, ReplayTouches, DroppingKeepsLeases DEF LeaseInv, PendingApartFromBatch
  <1> QED
    BY <1>1, <1>2, <1>3, <1>4, <1>5, <1>6, <1>7, <1>8, <1>9, <1>10, <1>11,
       <1>12, <1>13, <1>14, <1>15, <1>16, <1>17 DEF Next, Exporting, Step

LEMMA LeaseInvHolds == Spec => []LeaseInv
  BY LeaseInit, LeaseNext, PTL DEF Spec

LEMMA LeaseInvHoldsUnderLiveLease == LeaseInv => HoldsUnderLiveLease
  <1> SUFFICES ASSUME LeaseInv, NEW i \in Invocations, Running(i), NEW e \in Held(i)
               PROVE  ledger[e] = "reserved" /\ lease[e] > clock
    BY DEF HoldsUnderLiveLease
  <1>1. ledger[e] = "reserved" /\ lease[e] >= started[i] + Lease
    BY DEF LeaseInv, LeaseOutlivesHolder
  <1>2. clock <= started[i] + FunctionTimeout
    BY DEF LeaseInv, WithinTimeout
  <1>3. e \in Events
    BY DEF LeaseInv, TypeOK, Held
  <1> QED
    BY <1>1, <1>2, <1>3, LeaseAssumption DEF LeaseInv, TypeOK

\* At any time an event is in the hands of at most one live invocation: the
\* ledger's reservation is mutually exclusive as long as the lease is longer
\* than the Function's timeout.
THEOREM HoldingIsExclusive == Spec => []ExclusiveHolding
  <1>1. LeaseInv => ExclusiveHolding
    BY DEF LeaseInv
  <1> QED
    BY <1>1, LeaseInvHolds, PTL

\* A live invocation only sends and marks events that are still reserved, under
\* a lease that has not expired.
THEOREM HoldingIsLeased == Spec => []HoldsUnderLiveLease
  BY LeaseInvHolds, LeaseInvHoldsUnderLiveLease, PTL

-----------------------------------------------------------------------------
(* Accounting: what was confirmed, marked, dead-lettered and committed.     *)

\* Where the events an invocation reserved are at each stage of export().
Staged(i) ==
    /\ pc[i] \in {"idle", "load", "query"} => Reserved(i) = {}
    /\ pc[i] = "reserve" => batch[i] = {} /\ confirmed[i] = {}
    /\ pc[i] = "batch" => batch[i] = {}
    /\ pc[i] \in {"deliver", "quarantine"} =>
           batch[i] # {} /\ batch[i] \cap confirmed[i] = {}
    /\ pc[i] = "mark" => batch[i] \subseteq confirmed[i] /\ batch[i] # {}
    /\ pc[i] \in {"save", "reload"} => Held(i) = {} /\ confirmed[i] # {}
    /\ Running(i) => pending[i] \cap (batch[i] \cup confirmed[i]) = {}

\* A confirmed event was received and, once its mark step is over, marked.
Marked(i) ==
    /\ confirmed[i] \subseteq sink
    /\ \A e \in confirmed[i] \ batch[i] : ledger[e] = "delivered"

\* A receipt says where the reserved events went.
Receipted(i) ==
    /\ pc[i] = "done" <=> status[i] # "none"
    /\ status[i] = "no_evidence" => Reserved(i) = {}
    /\ status[i] = "delivered" => Held(i) = {} /\ confirmed[i] # {}
    /\ status[i] = "delivery_failed" =>
           \E r \in dlq : r.invocation = i /\ r.remaining = Held(i)

Progressed(i) == Staged(i) /\ Marked(i) /\ Receipted(i)

ProgressInv == DeliveredWasReceived /\ \A i \in Invocations : Progressed(i)

Settled(i) == pc[i] \in {"done", "raised"}

\* A dead letter describes an export that has ended.
Describes(r) ==
    /\ Settled(r.invocation)
    /\ r.checkpoint = alarm[r.invocation]
    /\ r.confirmed \cup r.remaining = Reserved(r.invocation)
    /\ r.confirmed \cap r.remaining = {} /\ r.remaining # {}
    /\ confirmed[r.invocation] \subseteq r.confirmed /\ r.confirmed \subseteq sink
    /\ \A e \in confirmed[r.invocation] : ledger[e] = "delivered"

DeadLetterShape == \A r \in dlq : Describes(r)

\* An export that may have set the watermark: it saved after its last batch,
\* or a replay saved for it.
Owner(i) ==
    /\ Settled(i) /\ Reserved(i) # {}
    /\ \/ Held(i) = {}
       \/ Reserved(i) \subseteq sink /\ \E r \in dlq : r.invocation = i

WatermarkOwner ==
    checkpoint # NoCheckpoint => \E i \in Invocations : alarm[i] = checkpoint /\ Owner(i)

AccountInv == TypeOK /\ ProgressInv /\ DeadLetterShape /\ WatermarkOwner

LEMMA AccountInit == Init => AccountInv
  <1> SUFFICES ASSUME Init PROVE AccountInv
    OBVIOUS
  <1>1. TypeOK
    BY TypeInit
  <1> QED
    BY <1>1 DEF Init, AccountInv, ProgressInv, Progressed, Staged, Marked,
       DeliveredWasReceived, Receipted, DeadLetterShape, WatermarkOwner,
       Reserved, Held, Running, Ended

\* A step of one invocation leaves the others as they are.
LEMMA OthersStay ==
    ASSUME TypeOK, NEW i \in Invocations, NEW j \in Invocations, i # j,
           Notify(j) \/ Step(j) \/ Abort(j)
    PROVE  UNCHANGED <<pc[i], status[i], alarm[i], toReserve[i], pending[i], batch[i],
                       confirmed[i], attempt[i], conflicts[i]>>
  <1> USE DEF TypeOK, Goto, Return, world, store, run, work
  <1>1. CASE Notify(j) \/ LoadCheckpoint(j) \/ Query(j) \/ Reserve(j) \/ NoEvidence(j)
    BY <1>1 DEF Notify, LoadCheckpoint, Query, Reserve, NoEvidence
  <1>2. CASE TakeBatch(j) \/ AttemptSucceeds(j) \/ AttemptFails(j) \/ MarkDelivered(j)
    BY <1>2 DEF TakeBatch, AttemptSucceeds, AttemptFails, MarkDelivered
  <1>3. CASE Quarantine(j) \/ PutCheckpoint(j) \/ ReloadCheckpoint(j) \/ Abort(j)
    BY <1>3 DEF Quarantine, PutCheckpoint, ReloadCheckpoint, Abort
  <1> HIDE DEF TypeOK, Goto, Return, world, store, run, work
  <1> QED
    BY <1>1, <1>2, <1>3 DEF Step

\* The steps that are no invocation's leave all of them as they are.
LEMMA NobodyMoves ==
    ASSUME Tick \/ Replay \/ (\E e \in Events : Index(e)) \/ UNCHANGED vars
    PROVE  UNCHANGED <<ledger, lease, pc, run, work>>
  BY DEF Tick, Replay, Index, vars, store, run, work

\* An invocation that has ended stays as it ended.
LEMMA SettledStays ==
    ASSUME TypeOK, [Next]_vars, NEW i \in Invocations, Settled(i)
    PROVE  UNCHANGED <<pc[i], alarm[i], pending[i], batch[i], confirmed[i]>>
  <1>1. ~(Notify(i) \/ Step(i) \/ Abort(i))
    BY DEF Settled, Goto, Notify, Step, LoadCheckpoint, Query, Reserve, NoEvidence,
           TakeBatch, AttemptSucceeds, AttemptFails, MarkDelivered, Quarantine,
           PutCheckpoint, AllBatchesMarked, ReloadCheckpoint, Abort, Running, Ended
  <1>2. ASSUME NEW j \in Invocations, Notify(j) \/ Step(j) \/ Abort(j)
        PROVE  UNCHANGED <<pc[i], alarm[i], pending[i], batch[i], confirmed[i]>>
    BY <1>1, <1>2, OthersStay
  <1>3. CASE Tick \/ Replay \/ (\E e \in Events : Index(e)) \/ UNCHANGED vars
    BY <1>3, NobodyMoves DEF run, work
  <1> QED
    BY <1>2, <1>3 DEF Next, Exporting

\* No step, of an export or of a replay, takes a mark in the ledger back.
LEMMA MarksStay ==
    ASSUME TypeOK, [Next]_vars, NEW e \in Events, ledger[e] = "delivered"
    PROVE  ledger'[e] = "delivered"
  <1> USE DEF TypeOK, world, store, run, work
  <1>1. ASSUME NEW j \in Invocations, Reserve(j) \/ MarkDelivered(j)
        PROVE  ledger'[e] = "delivered"
    BY <1>1 DEF Reserve, Reservable, MarkDelivered
  <1>2. ASSUME NEW j \in Invocations,
               \/ Notify(j) \/ LoadCheckpoint(j) \/ Query(j) \/ NoEvidence(j)
               \/ TakeBatch(j) \/ AttemptSucceeds(j) \/ AttemptFails(j)
               \/ Quarantine(j) \/ PutCheckpoint(j) \/ ReloadCheckpoint(j) \/ Abort(j)
        PROVE  ledger' = ledger
    BY <1>2 DEF Notify, LoadCheckpoint, Query, NoEvidence, TakeBatch, AttemptSucceeds,
                AttemptFails, Quarantine, PutCheckpoint, ReloadCheckpoint, Abort
  <1>3. CASE Tick \/ (\E d \in Events : Index(d)) \/ Replay \/ UNCHANGED vars
    BY <1>3 DEF Tick, Index, Replay, vars
  <1> HIDE DEF TypeOK, world, store, run, work
  <1> QED
    BY <1>1, <1>2, <1>3 DEF Next, Exporting, Step

\* What the sink received stays received, and it receives events only.
LEMMA SinkGrows ==
    ASSUME TypeOK, [Next]_vars PROVE sink \subseteq sink' /\ sink' \subseteq Events
  <1> USE DEF TypeOK, world, store, run, work
  <1>1. ASSUME NEW i \in Invocations, AttemptSucceeds(i) \/ AttemptFails(i)
        PROVE  sink \subseteq sink' /\ sink' \subseteq Events
    BY <1>1 DEF AttemptSucceeds, AttemptFails, Accepted
  <1>2. ASSUME NEW i \in Invocations,
               \/ Notify(i) \/ LoadCheckpoint(i) \/ Query(i) \/ Reserve(i)
               \/ NoEvidence(i) \/ TakeBatch(i) \/ MarkDelivered(i) \/ Quarantine(i)
               \/ PutCheckpoint(i) \/ ReloadCheckpoint(i) \/ Abort(i)
        PROVE  sink' = sink
    BY <1>2 DEF Notify, LoadCheckpoint, Query, Reserve, NoEvidence, TakeBatch,
                MarkDelivered, Quarantine, PutCheckpoint, ReloadCheckpoint, Abort
  <1>3. ASSUME NEW e \in Events, Index(e) PROVE sink' = sink
    BY <1>3 DEF Index
  <1>4. CASE Tick \/ UNCHANGED vars
    BY <1>4 DEF Tick, vars
  <1>5. CASE Replay
    BY <1>5, ReplayTouches
  <1> HIDE DEF TypeOK, world, store, run, work
  <1> QED
    BY <1>1, <1>2, <1>3, <1>4, <1>5 DEF Next, Exporting, Step, TypeOK

\* Only a failing export and a replay write records, only a saving export and
\* a replay write the checkpoint.
LEMMA WhoWrites ==
    ASSUME [Next]_vars, ~Replay
    PROVE  /\ dlq' = dlq \/ \E i \in Invocations : Quarantine(i)
           /\ \/ UNCHANGED <<checkpoint, etag>>
              \/ \E i \in Invocations : PutCheckpoint(i)
  <1> USE DEF world, store, run, work
  <1>1. ASSUME NEW i \in Invocations,
               \/ Notify(i) \/ LoadCheckpoint(i) \/ Query(i) \/ Reserve(i)
               \/ NoEvidence(i) \/ TakeBatch(i) \/ AttemptSucceeds(i) \/ AttemptFails(i)
               \/ MarkDelivered(i) \/ ReloadCheckpoint(i) \/ Abort(i)
        PROVE  UNCHANGED <<dlq, checkpoint, etag>>
    BY <1>1 DEF Notify, LoadCheckpoint, Query, Reserve, NoEvidence, TakeBatch,
                AttemptSucceeds, AttemptFails, MarkDelivered, ReloadCheckpoint, Abort
  <1>2. ASSUME NEW i \in Invocations, Quarantine(i) PROVE UNCHANGED <<checkpoint, etag>>
    BY <1>2 DEF Quarantine
  <1>3. ASSUME NEW i \in Invocations, PutCheckpoint(i) PROVE dlq' = dlq
    BY <1>3 DEF PutCheckpoint
  <1>4. CASE Tick \/ (\E e \in Events : Index(e)) \/ UNCHANGED vars
    BY <1>4 DEF Tick, Index, vars
  <1> HIDE DEF world, store, run, work
  <1> QED
    BY <1>1, <1>2, <1>3, <1>4 DEF Next, Exporting, Step

\* A record is never changed or deleted.
LEMMA LettersStay == ASSUME TypeOK, [Next]_vars PROVE dlq \subseteq dlq'
  <1>1. CASE Replay
    BY <1>1, ReplayTouches
  <1>2. ASSUME NEW i \in Invocations, Quarantine(i) PROVE dlq \subseteq dlq'
    BY <1>2 DEF Quarantine
  <1> QED
    BY <1>1, <1>2, WhoWrites

\* An invocation that does not move stays accounted for.
LEMMA ProgressKept ==
    ASSUME TypeOK, [Next]_vars, NEW i \in Invocations, Progressed(i),
           UNCHANGED <<pc[i], status[i], pending[i], batch[i], confirmed[i]>>
    PROVE  Progressed(i)'
  <1>1. Held(i)' = Held(i) /\ Reserved(i)' = Reserved(i) /\ Running(i)' = Running(i)
    BY DEF Held, Reserved, Running
  <1>2. Staged(i)'
    BY <1>1 DEF Progressed, Staged
  <1>3. Marked(i)'
    <2>1. confirmed[i] \subseteq Events
      BY DEF TypeOK
    <2> QED
      BY <2>1, SinkGrows, MarksStay DEF Progressed, Marked
  <1>4. Receipted(i)'
    BY <1>1, LettersStay DEF Progressed, Receipted
  <1> QED
    BY <1>2, <1>3, <1>4 DEF Progressed

\* Only MarkDelivered writes "delivered", of what the sink has confirmed.
LEMMA DeliveredNext ==
    ASSUME TypeOK, ProgressInv, [Next]_vars PROVE DeliveredWasReceived'
  <1> SUFFICES ASSUME NEW e \in Events, ledger'[e] = "delivered" PROVE e \in sink'
    BY DEF DeliveredWasReceived
  <1>1. CASE ledger[e] = "delivered"
    BY <1>1, SinkGrows DEF ProgressInv, DeliveredWasReceived
  <1> USE DEF TypeOK, world, store, run, work
  <1>2. ASSUME NEW i \in Invocations, MarkDelivered(i) PROVE e \in sink'
    <2>1. PICK d \in batch[i] : ledger' = [ledger EXCEPT ![d] = "delivered"]
      BY <1>2 DEF MarkDelivered
    <2>2. batch[i] \subseteq confirmed[i] /\ confirmed[i] \subseteq sink
      BY <1>2 DEF MarkDelivered, Goto, ProgressInv, Progressed, Staged, Marked
    <2> QED
      BY <1>1, <2>1, <2>2, SinkGrows
  <1>3. ASSUME NEW i \in Invocations, Reserve(i) PROVE ledger[e] = "delivered"
    BY <1>3 DEF Reserve
  <1>4. ASSUME NEW i \in Invocations,
               \/ Notify(i) \/ LoadCheckpoint(i) \/ Query(i) \/ NoEvidence(i)
               \/ TakeBatch(i) \/ AttemptSucceeds(i) \/ AttemptFails(i)
               \/ Quarantine(i) \/ PutCheckpoint(i) \/ ReloadCheckpoint(i) \/ Abort(i)
        PROVE  ledger' = ledger
    BY <1>4 DEF Notify, LoadCheckpoint, Query, NoEvidence, TakeBatch, AttemptSucceeds,
                AttemptFails, Quarantine, PutCheckpoint, ReloadCheckpoint, Abort
  <1>5. CASE Tick \/ Replay \/ (\E d \in Events : Index(d)) \/ UNCHANGED vars
    BY <1>1, <1>5, NobodyMoves
  <1> HIDE DEF TypeOK, world, store, run, work
  <1> QED
    BY <1>1, <1>2, <1>3, <1>4, <1>5 DEF Next, Exporting, Step

\* A step of an invocation keeps it accounted for.
LEMMA MoverProgresses ==
    ASSUME AccountInv, [Next]_vars, NEW i \in Invocations,
           Notify(i) \/ Step(i) \/ Abort(i)
    PROVE  Progressed(i)'
  <1>t. TypeOK /\ Progressed(i)
    BY DEF AccountInv, ProgressInv
  <1>s. sink \subseteq sink'
    BY <1>t, SinkGrows
  <1> USE <1>t, <1>s DEF world, store, run, work, Goto, Return
  <1>1. CASE Notify(i) \/ LoadCheckpoint(i) \/ Query(i)
    <2>1. /\ pc[i] \in {"idle", "load", "query"}
          /\ pc'[i] \in {"load", "query", "reserve", "batch", "raised"}
          /\ UNCHANGED <<status[i], pending[i], batch[i], confirmed[i], ledger, dlq>>
      BY <1>1 DEF Notify, LoadCheckpoint, Query, TypeOK
    <2> QED
      BY <2>1 DEF Progressed, Staged, Marked, Receipted, Reserved, Held, Running, Ended
  <1>2. CASE Reserve(i)
    <2>1. /\ pc[i] = "reserve" /\ pc'[i] \in {"reserve", "batch"}
          /\ UNCHANGED <<status[i], batch[i], confirmed[i], dlq>>
      BY <1>2 DEF Reserve, TypeOK
    <2>2. confirmed[i] = {} /\ status[i] = "none"
      BY <2>1 DEF Progressed, Staged, Receipted
    <2> QED
      BY <2>1, <2>2 DEF Progressed, Staged, Marked, Receipted, Reserved, Held, Running, Ended
  <1>3. CASE NoEvidence(i)
    <2>1. /\ pc'[i] = "done" /\ status'[i] = "no_evidence" /\ Reserved(i) = {}
          /\ UNCHANGED <<pending[i], batch[i], confirmed[i], ledger, dlq>>
      BY <1>3 DEF NoEvidence, TypeOK
    <2> QED
      BY <2>1 DEF Progressed, Staged, Marked, Receipted, Reserved, Held, Running, Ended
  <1>4. CASE TakeBatch(i)
    <2>1. PICK b \in NextBatches(pending[i]) :
              /\ pending[i] # {} /\ pc[i] = "batch" /\ pc'[i] = "deliver"
              /\ batch'[i] = b /\ pending'[i] = pending[i] \ b
              /\ UNCHANGED <<status[i], confirmed[i], ledger, dlq>>
      BY <1>4 DEF TakeBatch, TypeOK
    <2>2. b \subseteq pending[i] /\ b # {} /\ status[i] = "none" /\ batch[i] = {}
      BY <2>1, BatchIsPart DEF Progressed, Staged, Receipted
    <2>3. pending[i] \cap confirmed[i] = {}
      BY <2>1 DEF Progressed, Staged, Running, Ended
    <2>4. Staged(i)'
      BY <2>1, <2>2, <2>3 DEF Staged
    <2>5. Marked(i)' /\ Receipted(i)'
      BY <2>1, <2>2 DEF Progressed, Marked, Receipted
    <2> QED
      BY <2>4, <2>5 DEF Progressed
  <1>5. CASE AttemptSucceeds(i)
    <2>1. /\ pc[i] = "deliver" /\ pc'[i] = "mark"
          /\ confirmed'[i] = confirmed[i] \cup batch[i] /\ sink' = sink \cup batch[i]
          /\ UNCHANGED <<status[i], pending[i], batch[i], ledger, dlq>>
      BY <1>5 DEF AttemptSucceeds, Accepted, TypeOK
    <2>2. batch[i] # {} /\ pending[i] \cap (batch[i] \cup confirmed[i]) = {} /\ status[i] = "none"
      BY <2>1 DEF Progressed, Staged, Receipted, Running, Ended
    <2> QED
      BY <2>1, <2>2 DEF Progressed, Staged, Marked, Receipted
  <1>6. CASE AttemptFails(i)
    <2>1. /\ pc[i] = "deliver" /\ pc'[i] \in {"deliver", "quarantine"}
          /\ UNCHANGED <<status[i], pending[i], batch[i], confirmed[i], ledger, dlq>>
      BY <1>6 DEF AttemptFails, TypeOK
    <2> QED
      BY <2>1 DEF Progressed, Staged, Marked, Receipted, Reserved, Held, Running, Ended
  <1>7. CASE MarkDelivered(i)
    <2>0. PICK e \in batch[i] :
              /\ pc[i] = "mark"
              /\ pc' = [pc EXCEPT ![i] = IF batch[i] = {e} THEN "batch" ELSE "mark"]
              /\ batch' = [batch EXCEPT ![i] = @ \ {e}]
              /\ ledger' = [ledger EXCEPT ![e] = "delivered"]
              /\ UNCHANGED <<status, pending, confirmed, sink, dlq>>
      BY <1>7 DEF MarkDelivered
    <2>1. /\ pc[i] = "mark" /\ pc'[i] = IF batch[i] = {e} THEN "batch" ELSE "mark"
          /\ batch'[i] = batch[i] \ {e} /\ ledger' = [ledger EXCEPT ![e] = "delivered"]
          /\ UNCHANGED <<status[i], pending[i], confirmed[i], sink, dlq>>
      BY <2>0 DEF TypeOK
    <2>2. /\ batch[i] \subseteq confirmed[i] /\ status[i] = "none"
          /\ pending[i] \cap (batch[i] \cup confirmed[i]) = {}
      BY <2>1 DEF Progressed, Staged, Receipted, Running, Ended
    <2>3. Staged(i)'
      BY <2>1, <2>2 DEF Staged
    <2>4. Marked(i)'
      BY <2>1, <2>2 DEF Progressed, Marked, TypeOK
    <2>5. Receipted(i)'
      BY <2>1, <2>2 DEF Receipted
    <2> QED
      BY <2>3, <2>4, <2>5 DEF Progressed
  <1>8. CASE Quarantine(i)
    <2>1. PICK letter : letter = [invocation |-> i, checkpoint |-> alarm[i],
                                  confirmed |-> confirmed[i], remaining |-> Held(i)]
      OBVIOUS
    <2>2. letter.invocation = i /\ letter.remaining = Held(i)
      BY <2>1
    <2>3. /\ pc[i] = "quarantine" /\ dlq' = dlq \cup {letter}
          /\ \/ pc'[i] = "done" /\ status'[i] = "delivery_failed"
             \/ pc'[i] = "raised" /\ status'[i] = status[i]
          /\ UNCHANGED <<pending[i], batch[i], confirmed[i], ledger>>
      BY <1>8, <2>1 DEF Quarantine, Unconfirmed, TypeOK
    <2>4. Held(i)' = Held(i) /\ status[i] = "none"
      BY <2>3 DEF Held, Progressed, Receipted
    <2>5. Staged(i)'
      BY <2>3 DEF Staged, Running, Ended
    <2>6. Marked(i)'
      BY <2>3 DEF Progressed, Marked
    <2>7. Receipted(i)'
      BY <2>2, <2>3, <2>4 DEF Receipted
    <2> QED
      BY <2>5, <2>6, <2>7 DEF Progressed
  <1>9. CASE PutCheckpoint(i)
    <2>1. /\ \/ pc[i] = "batch" /\ pending[i] = {} /\ confirmed[i] # {}
             \/ pc[i] = "save"
          /\ \/ pc'[i] = "done" /\ status'[i] = "delivered"
             \/ pc'[i] \in {"raised", "reload"} /\ status'[i] = status[i]
          /\ UNCHANGED <<pending[i], batch[i], confirmed[i], ledger, dlq>>
      BY <1>9 DEF PutCheckpoint, AllBatchesMarked, TypeOK
    <2>2. Held(i) = {} /\ confirmed[i] # {} /\ status[i] = "none"
      BY <2>1 DEF Progressed, Staged, Receipted, Held
    <2> QED
      BY <2>1, <2>2 DEF Progressed, Staged, Marked, Receipted, Held, Running, Ended
  <1>10. CASE ReloadCheckpoint(i)
    <2>1. /\ pc[i] = "reload"
          /\ \/ pc'[i] = "done" /\ status'[i] = "delivered"
             \/ pc'[i] \in {"raised", "save"} /\ status'[i] = status[i]
          /\ UNCHANGED <<pending[i], batch[i], confirmed[i], ledger, dlq>>
      BY <1>10 DEF ReloadCheckpoint, TypeOK
    <2>2. Held(i) = {} /\ confirmed[i] # {} /\ status[i] = "none"
      BY <2>1 DEF Progressed, Staged, Receipted
    <2> QED
      BY <2>1, <2>2 DEF Progressed, Staged, Marked, Receipted, Held, Running, Ended
  <1>11. CASE Abort(i)
    <2>1. /\ pc[i] # "done" /\ pc'[i] = "raised"
          /\ UNCHANGED <<status[i], pending[i], batch[i], confirmed[i], ledger, dlq>>
      BY <1>11 DEF Abort, Running, Ended, TypeOK
    <2> QED
      BY <2>1 DEF Progressed, Staged, Marked, Receipted, Running, Ended
  <1> HIDE <1>t, <1>s DEF world, store, run, work, Goto, Return
  <1> QED
    BY <1>1, <1>2, <1>3, <1>4, <1>5, <1>6, <1>7, <1>8, <1>9, <1>10, <1>11 DEF Step

LEMMA ProgressNext == AccountInv /\ [Next]_vars => ProgressInv'
  <1>d. AccountInv /\ [Next]_vars => DeliveredWasReceived'
    BY DeliveredNext DEF AccountInv
  <1> SUFFICES ASSUME AccountInv, [Next]_vars, NEW i \in Invocations
               PROVE  Progressed(i)'
    BY <1>d DEF ProgressInv
  <1>t. TypeOK /\ ProgressInv /\ Progressed(i)
    BY DEF AccountInv, ProgressInv
  <1>1. ASSUME NEW j \in Invocations, Notify(j) \/ Step(j) \/ Abort(j)
        PROVE  Progressed(i)'
    <2>1. CASE j = i
      BY <1>1, <2>1, MoverProgresses
    <2>2. CASE j # i
      BY <1>t, <1>1, <2>2, OthersStay, ProgressKept
    <2> QED
      BY <2>1, <2>2
  <1>2. CASE Tick \/ Replay \/ (\E e \in Events : Index(e)) \/ UNCHANGED vars
    <2>1. UNCHANGED <<pc[i], status[i], pending[i], batch[i], confirmed[i]>>
      BY <1>2, NobodyMoves DEF run, work
    <2> QED
      BY <1>t, <2>1, ProgressKept
  <1> QED
    BY <1>1, <1>2 DEF Next, Exporting

\* A dead letter stays exact while its export has ended.
LEMMA LetterKept ==
    ASSUME TypeOK, [Next]_vars, NEW r \in DeadLetters, Describes(r)
    PROVE  Describes(r)'
  <1> DEFINE i == r.invocation
  <1>1. i \in Invocations /\ Settled(i)
    BY DEF DeadLetters, Describes
  <1>2. UNCHANGED <<pc[i], alarm[i], pending[i], batch[i], confirmed[i]>>
    BY <1>1, SettledStays
  <1>3. Settled(i)' /\ Reserved(i)' = Reserved(i)
    BY <1>1, <1>2 DEF Settled, Reserved, Held
  <1>4. confirmed[i] \subseteq Events
    BY <1>1 DEF TypeOK
  <1>5. \A e \in confirmed[i] : ledger'[e] = "delivered"
    BY <1>4, MarksStay DEF Describes
  <1> QED
    BY <1>2, <1>3, <1>5, SinkGrows DEF Describes

LEMMA DeadLetterNext == AccountInv /\ [Next]_vars => DeadLetterShape'
  <1> SUFFICES ASSUME AccountInv, [Next]_vars PROVE DeadLetterShape'
    OBVIOUS
  <1>t. TypeOK /\ ProgressInv
    BY DEF AccountInv
  <1>1. \A r \in dlq : r \in DeadLetters /\ Describes(r)'
    BY <1>t, LetterKept DEF TypeOK, AccountInv, DeadLetterShape
  <1>2. CASE dlq' = dlq
    BY <1>1, <1>2 DEF DeadLetterShape
  <1>3. ASSUME NEW i \in Invocations, Quarantine(i) PROVE DeadLetterShape'
    <2> PICK letter : letter = [invocation |-> i, checkpoint |-> alarm[i],
                                confirmed |-> confirmed[i], remaining |-> Held(i)]
      OBVIOUS
    <2>1. /\ dlq' = dlq \cup {letter} /\ pc'[i] \in {"done", "raised"}
          /\ UNCHANGED <<alarm, pending, batch, confirmed, ledger, sink>>
          /\ pc[i] = "quarantine"
      BY <1>t, <1>3 DEF Quarantine, Unconfirmed, Return, TypeOK, world, run, work
    <2>2. /\ batch[i] # {} /\ Held(i) \cap confirmed[i] = {} /\ confirmed[i] \subseteq sink
          /\ \A e \in confirmed[i] : ledger[e] = "delivered"
      BY <1>t, <2>1 DEF ProgressInv, Progressed, Staged, Marked, Held, Running, Ended
    <2>3. /\ letter.invocation = i /\ letter.checkpoint = alarm[i]
          /\ letter.confirmed = confirmed[i] /\ letter.remaining = Held(i)
      OBVIOUS
    <2>4. Describes(letter)'
      BY <2>1, <2>2, <2>3 DEF Describes, Settled, Reserved, Held
    <2> QED
      BY <1>1, <2>1, <2>4 DEF DeadLetterShape
  <1>4. CASE Replay
    <2>1. ASSUME NEW s \in dlq' \ dlq PROVE Describes(s)'
      <3>1. PICK r \in dlq : DescendsFrom(s, r)
        BY <1>t, <1>4, ReplayTouches
      <3>2. Describes(r) /\ Describes(r)'
        BY <1>1 DEF AccountInv, DeadLetterShape
      <3> QED
        BY <3>1, <3>2, <1>t, SinkGrows DEF DescendsFrom, Describes
    <2> QED
      BY <1>1, <2>1 DEF DeadLetterShape
  <1> QED
    BY <1>2, <1>3, <1>4, WhoWrites

\* Whoever set the watermark has ended and stays what it is.
LEMMA OwnerNext == AccountInv /\ [Next]_vars => WatermarkOwner'
  <1> SUFFICES ASSUME AccountInv, [Next]_vars PROVE WatermarkOwner'
    OBVIOUS
  <1>t. TypeOK /\ ProgressInv /\ DeadLetterShape
    BY DEF AccountInv
  <1>1. ASSUME NEW i \in Invocations, Owner(i) PROVE Owner(i)' /\ alarm'[i] = alarm[i]
    <2>1. UNCHANGED <<pc[i], alarm[i], pending[i], batch[i], confirmed[i]>>
      BY <1>t, <1>1, SettledStays DEF Owner
    <2>2. /\ Settled(i)' = Settled(i) /\ Held(i)' = Held(i)
          /\ Reserved(i)' = Reserved(i)
      BY <2>1 DEF Settled, Reserved, Held
    <2>3. sink \subseteq sink' /\ dlq \subseteq dlq'
      BY <1>t, SinkGrows, LettersStay
    <2> QED
      BY <1>1, <2>1, <2>2, <2>3 DEF Owner
  <1>2. CASE checkpoint' = checkpoint
    BY <1>1, <1>2 DEF AccountInv, WatermarkOwner, NoCheckpoint
  <1>3. ASSUME NEW i \in Invocations, PutCheckpoint(i), checkpoint' # checkpoint
        PROVE  WatermarkOwner'
    <2>1. /\ (pc[i] = "batch" /\ pending[i] = {}) \/ pc[i] = "save"
          /\ pc'[i] \in {"done", "raised"} /\ checkpoint' = alarm[i]
          /\ UNCHANGED <<alarm, pending, batch, confirmed>>
          /\ pc[i] = "batch" => confirmed[i] # {}
      BY <1>t, <1>3 DEF PutCheckpoint, AllBatchesMarked, Return, TypeOK, run, work
    <2>2. Held(i) = {} /\ confirmed[i] # {}
      BY <1>t, <2>1 DEF ProgressInv, Progressed, Staged, Held
    <2>3. Owner(i)'
      BY <2>1, <2>2 DEF Owner, Settled, Reserved, Held
    <2> QED
      BY <2>1, <2>3 DEF WatermarkOwner
  <1>4. CASE Replay /\ checkpoint' # checkpoint
    <2>1. PICK r \in dlq : /\ checkpoint' = r.checkpoint
                           /\ r.confirmed \cup r.remaining \subseteq sink
      BY <1>t, <1>4, ReplayTouches
    <2>2. r.invocation \in Invocations /\ Describes(r)
      BY <1>t DEF TypeOK, DeadLetters, DeadLetterShape
    <2>3. Owner(r.invocation)
      BY <2>1, <2>2 DEF Describes, Owner
    <2>4. alarm[r.invocation] = checkpoint'
      BY <2>1, <2>2 DEF Describes
    <2> QED
      BY <1>1, <2>2, <2>3, <2>4 DEF WatermarkOwner
  <1> QED
    BY <1>2, <1>3, <1>4, WhoWrites

LEMMA AccountNext == AccountInv /\ [Next]_vars => AccountInv'
  BY TypeNext, ProgressNext, DeadLetterNext, OwnerNext DEF AccountInv

LEMMA AccountInvHolds == Spec => []AccountInv
  BY AccountInit, AccountNext, PTL DEF Spec

\* The ledger never claims more than the sink: an event whose ledger object
\* says "delivered" was received, however attempts failed or were cut short.
THEOREM LedgerIsTruthful == Spec => []DeliveredWasReceived
  <1>1. AccountInv => DeliveredWasReceived
    BY DEF AccountInv, ProgressInv
  <1> QED
    BY <1>1, AccountInvHolds, PTL

\* The checkpoint belongs to an export that has ended, and the sink received
\* all that this export reserved, by the export's own hand or by a replay's.
THEOREM CheckpointIsJustified == Spec => []CheckpointJustified
  <1>1. ASSUME AccountInv, NEW i \in Invocations, Owner(i)
        PROVE  /\ ~Running(i) /\ Reserved(i) # {} /\ Reserved(i) \subseteq sink
               /\ \/ \A e \in Reserved(i) : ledger[e] = "delivered"
                  \/ \E r \in dlq : r.invocation = i
    <2>1. ~Running(i) /\ Reserved(i) # {}
      BY <1>1 DEF Owner, Settled, Running, Ended
    <2>2. CASE Held(i) = {}
      <3>1. Reserved(i) = confirmed[i] /\ batch[i] = {}
        BY <2>2 DEF Reserved, Held
      <3>2. confirmed[i] \subseteq sink /\ \A e \in confirmed[i] : ledger[e] = "delivered"
        BY <1>1, <3>1 DEF AccountInv, ProgressInv, Progressed, Marked
      <3> QED
        BY <2>1, <3>1, <3>2
    <2> QED
      BY <1>1, <2>1, <2>2 DEF Owner
  <1>2. AccountInv => CheckpointJustified
    BY <1>1 DEF AccountInv, WatermarkOwner, CheckpointJustified
  <1> QED
    BY <1>2, AccountInvHolds, PTL

\* Every dead letter, of an export or of any chain of replays, splits what its
\* export reserved exactly into what the sink confirmed and what is to be sent.
THEOREM DeadLettersAreExact == Spec => []DeadLetterIsExact
  <1>1. AccountInv => DeadLetterIsExact
    BY DEF AccountInv, DeadLetterShape, Describes, DeadLetterIsExact
  <1> QED
    BY <1>1, AccountInvHolds, PTL

\* No receipt hides a loss: when an export returns, everything it reserved has
\* been received by the sink or is in its dead letter.
THEOREM ReceiptsAccount == Spec => []ReceiptAccountsForReserved
  <1>1. AccountInv => ReceiptAccountsForReserved
    <2> SUFFICES ASSUME AccountInv, NEW i \in Invocations, pc[i] = "done",
                        NEW e \in Reserved(i), e \notin sink
                 PROVE  \E r \in dlq : r.invocation = i /\ e \in r.remaining
      BY DEF ReceiptAccountsForReserved
    <2>1. e \in Held(i)
      BY DEF AccountInv, ProgressInv, Progressed, Marked, Reserved
    <2>2. status[i] \in {"no_evidence", "delivered", "delivery_failed"}
      BY DEF AccountInv, ProgressInv, Progressed, Receipted, TypeOK, Receipts
    <2>3. status[i] = "delivery_failed"
      BY <2>1, <2>2 DEF AccountInv, ProgressInv, Progressed, Receipted, Reserved
    <2> QED
      BY <2>1, <2>3 DEF AccountInv, ProgressInv, Progressed, Receipted
  <1> QED
    BY <1>1, AccountInvHolds, PTL

-----------------------------------------------------------------------------
(* The watermark.  Until it writes, an invocation that still remembers the  *)
(* current ETag has a window computed from the current watermark, or has    *)
(* just compared the two.                                                   *)

WindowMatchesEtag ==
    \A i \in Invocations : pc[i] \in Stages \ {"idle", "load", "done", "raised"} =>
        /\ known[i] <= etag
        /\ pc[i] # "reload" /\ known[i] = etag /\ checkpoint # NoCheckpoint
               => alarm[i] + Overlap >= checkpoint

WatermarkInv == TypeOK /\ WindowMatchesEtag

LEMMA WatermarkInit == Init => WatermarkInv
  BY TypeInit DEF Init, WatermarkInv, WindowMatchesEtag

LEMMA WatermarkNext == WatermarkInv /\ [Next]_vars => WatermarkInv'
  <1> SUFFICES ASSUME WatermarkInv, [Next]_vars PROVE WindowMatchesEtag'
    BY TypeNext DEF WatermarkInv
  <1>t. TypeOK
    BY DEF WatermarkInv
  <1> USE <1>t, DurationsAssumption DEF world, store, run, work, Goto, Return
  \* The steps that leave the watermark, the trigger and the known ETag alone.
  <1>0. ASSUME UNCHANGED <<checkpoint, etag, alarm, known>>,
               \A i \in Invocations :
                   \/ pc'[i] \in {"idle", "load", "done", "raised"}
                   \/ /\ pc[i] \notin {"idle", "load", "reload", "done", "raised"}
                      /\ pc'[i] \in Stages
                   \/ pc'[i] = pc[i]
        PROVE  WindowMatchesEtag'
    BY <1>0 DEF WatermarkInv, WindowMatchesEtag, TypeOK, Stages, Ended
  <1>1. CASE Tick
    BY <1>0, <1>1 DEF Tick
  <1>2. ASSUME NEW e \in Events, Index(e) PROVE WindowMatchesEtag'
    BY <1>0, <1>2 DEF Index
  <1>3. ASSUME NEW i \in Invocations, Notify(i) PROVE WindowMatchesEtag'
    BY <1>3 DEF Notify, WatermarkInv, WindowMatchesEtag, TypeOK
  <1>4. ASSUME NEW i \in Invocations, LoadCheckpoint(i) PROVE WindowMatchesEtag'
    <2>1. /\ UNCHANGED <<checkpoint, etag, alarm>>
          /\ known' = [known EXCEPT ![i] = etag]
          /\ pc' = [pc EXCEPT ![i] =
                       IF WindowAllowed(WindowFrom(alarm[i], checkpoint), alarm[i])
                       THEN "query" ELSE "raised"]
      BY <1>4 DEF LoadCheckpoint
    <2>2. WindowAllowed(WindowFrom(alarm[i], checkpoint), alarm[i]) /\ checkpoint # NoCheckpoint
             => alarm[i] + Overlap >= checkpoint
      BY WindowReachesBack DEF TypeOK
    <2> QED
      BY <2>1, <2>2 DEF WatermarkInv, WindowMatchesEtag, TypeOK
  <1>5. ASSUME NEW i \in Invocations, Query(i) PROVE WindowMatchesEtag'
    BY <1>0, <1>5 DEF Query, TypeOK, Stages, Ended
  <1>6. ASSUME NEW i \in Invocations, Reserve(i) PROVE WindowMatchesEtag'
    BY <1>0, <1>6 DEF Reserve, TypeOK, Stages, Ended
  <1>7. ASSUME NEW i \in Invocations, NoEvidence(i) PROVE WindowMatchesEtag'
    BY <1>0, <1>7 DEF NoEvidence, TypeOK
  <1>8. ASSUME NEW i \in Invocations, TakeBatch(i) PROVE WindowMatchesEtag'
    BY <1>0, <1>8 DEF TakeBatch, TypeOK, Stages, Ended
  <1>9. ASSUME NEW i \in Invocations, AttemptSucceeds(i) PROVE WindowMatchesEtag'
    BY <1>0, <1>9 DEF AttemptSucceeds, TypeOK, Stages, Ended
  <1>10. ASSUME NEW i \in Invocations, AttemptFails(i) PROVE WindowMatchesEtag'
    BY <1>0, <1>10 DEF AttemptFails, TypeOK, Stages, Ended
  <1>11. ASSUME NEW i \in Invocations, MarkDelivered(i) PROVE WindowMatchesEtag'
    BY <1>0, <1>11 DEF MarkDelivered, TypeOK, Stages, Ended
  <1>12. ASSUME NEW i \in Invocations, Quarantine(i) PROVE WindowMatchesEtag'
    BY <1>0, <1>12 DEF Quarantine, TypeOK
  <1>13. ASSUME NEW i \in Invocations, PutCheckpoint(i) PROVE WindowMatchesEtag'
    BY <1>13 DEF PutCheckpoint, AllBatchesMarked, EtagMatches, WatermarkInv,
       WindowMatchesEtag, TypeOK, Stages, Ended
  <1>14. ASSUME NEW i \in Invocations, ReloadCheckpoint(i) PROVE WindowMatchesEtag'
    BY <1>14 DEF ReloadCheckpoint, WatermarkInv, WindowMatchesEtag, TypeOK
  <1>15. ASSUME NEW i \in Invocations, Abort(i) PROVE WindowMatchesEtag'
    BY <1>0, <1>15 DEF Abort, TypeOK
  <1>16. CASE UNCHANGED vars
    BY <1>0, <1>16 DEF vars
  <1>17. CASE Replay
    BY <1>t, <1>17, ReplayTouches DEF WatermarkInv, WindowMatchesEtag, TypeOK
  <1> QED
    BY <1>1, <1>2, <1>3, <1>4, <1>5, <1>6, <1>7, <1>8, <1>9, <1>10, <1>11,
       <1>12, <1>13, <1>14, <1>15, <1>16, <1>17 DEF Next, Exporting, Step

\* Whoever may write has a window that reaches back to the watermark.
LEMMA SavedWindowReachesBack ==
    ASSUME WatermarkInv, NEW i \in Invocations, pc[i] \in {"batch", "save"}, known[i] = etag
    PROVE  alarm[i] + Overlap >= checkpoint
  <1>1. checkpoint # NoCheckpoint => alarm[i] + Overlap >= checkpoint
    BY DEF WatermarkInv, WindowMatchesEtag, Stages, Ended
  <1>2. alarm[i] \in Nat
    BY DEF WatermarkInv, TypeOK
  <1> QED
    BY <1>1, <1>2, DurationsAssumption DEF NoCheckpoint

\* A replay moves the watermark forward only, and PutCheckpoint moves it under
\* an ETag that still matches.
LEMMA RegressionStep ==
    ASSUME WatermarkInv, [Next]_vars
    PROVE  WatermarkRegression
  <1> SUFFICES ASSUME checkpoint' # checkpoint
               PROVE  checkpoint' + Overlap >= checkpoint
    BY DEF WatermarkRegression
  <1>t. TypeOK /\ TypeOK'
    BY TypeNext DEF WatermarkInv
  <1>1. CASE Replay
    <2>1. checkpoint < checkpoint'
      BY <1>t, <1>1, ReplayTouches
    <2>2. checkpoint \in Int /\ checkpoint' \in Int
      BY <1>t DEF TypeOK, NoCheckpoint
    <2>3. PICK before \in Int, after \in Int : before = checkpoint /\ after = checkpoint'
      BY <2>2
    <2>4. before < after => after + Overlap >= before
      BY DurationsAssumption
    <2> QED
      BY <2>1, <2>3, <2>4
  <1>2. ASSUME NEW i \in Invocations, PutCheckpoint(i)
        PROVE  checkpoint' + Overlap >= checkpoint
    <2>1. /\ checkpoint' = alarm[i] /\ known[i] = etag
          /\ pc[i] \in {"batch", "save"}
      BY <1>2 DEF PutCheckpoint, EtagMatches, AllBatchesMarked
    <2> QED
      BY <2>1, SavedWindowReachesBack
  <1> QED
    BY <1>1, <1>2, WhoWrites

\* However notifications are delayed and reordered, and however invocations and
\* replays race to save, one save moves the watermark back by at most the overlap.
THEOREM RegressionIsBounded == Spec => CheckpointRegressionBounded
  <1>1. WatermarkInv /\ [Next]_vars => [WatermarkRegression]_vars
    BY RegressionStep
  <1> QED
    BY <1>1, WatermarkInit, WatermarkNext, PTL DEF Spec, CheckpointRegressionBounded

\* What the documents claim of every configuration (service.py:175) holds where
\* windows do not overlap: then no save moves the watermark back.
THEOREM NoOverlapNoRegression ==
    ASSUME Overlap = 0 PROVE Spec => CheckpointNeverRegresses
  <1>1. ASSUME WatermarkInv, [Next]_vars PROVE checkpoint' >= checkpoint
    <2>1. checkpoint \in Int /\ checkpoint' \in Int
      BY <1>1, TypeNext DEF WatermarkInv, TypeOK, NoCheckpoint
    <2>2. PICK before \in Int, after \in Int : before = checkpoint /\ after = checkpoint'
      BY <2>1
    <2>3. after # before => after + Overlap >= before
      BY <1>1, <2>2, RegressionStep DEF WatermarkRegression
    <2>4. after >= before
      BY <2>3
    <2> QED
      BY <2>2, <2>4
  <1>2. WatermarkInv /\ [Next]_vars => [checkpoint' >= checkpoint]_vars
    BY <1>1
  <1> QED
    BY <1>2, WatermarkInit, WatermarkNext, PTL DEF Spec, CheckpointNeverRegresses

-----------------------------------------------------------------------------
(* What only a lost invocation can lose.                                   *)

\* The fate of every event that an invocation ever reserved: the sink has it,
\* a dead letter has it, or that invocation still holds it and either runs or
\* has raised.  So if an event is lost (ReservedStaysRecoverable fails for it),
\* the invocations that held it are those that raised or were killed.
LostOnlyByRaising ==
    \A i \in Invocations : \A e \in Reserved(i) :
        \/ e \in sink
        \/ \E r \in dlq : e \in r.remaining
        \/ e \in Held(i) /\ (Running(i) \/ pc[i] = "raised")

THEOREM OnlyLostInvocationsLoseEvents == Spec => []LostOnlyByRaising
  <1>1. ASSUME AccountInv,
               NEW i \in Invocations, NEW e \in Reserved(i), e \notin sink
        PROVE  \/ \E r \in dlq : e \in r.remaining
               \/ e \in Held(i) /\ (Running(i) \/ pc[i] = "raised")
    <2>1. e \in Held(i)
      BY <1>1 DEF AccountInv, ProgressInv, Progressed, Marked, Reserved
    <2>2. CASE pc[i] = "idle"
      BY <1>1, <2>2 DEF AccountInv, ProgressInv, Progressed, Staged
    <2>3. CASE pc[i] = "done"
      <3>1. status[i] \in {"no_evidence", "delivered", "delivery_failed"}
        BY <1>1, <2>3 DEF AccountInv, ProgressInv, Progressed, Receipted, TypeOK, Receipts
      <3>2. status[i] = "delivery_failed"
        BY <1>1, <2>1, <3>1 DEF AccountInv, ProgressInv, Progressed, Receipted, Reserved
      <3> QED
        BY <1>1, <2>1, <3>2 DEF AccountInv, ProgressInv, Progressed, Receipted
    <2> QED
      BY <2>1, <2>2, <2>3 DEF Running, Ended
  <1>2. AccountInv => LostOnlyByRaising
    BY <1>1 DEF LostOnlyByRaising
  <1> QED
    BY <1>2, AccountInvHolds, PTL

-----------------------------------------------------------------------------
(* Termination: the budgets of an invocation, and a measure that its every  *)
(* step moves.                                                             *)

\* The loops' counters stay within their limits (service.py:67 and
\* object_storage_adapters.py:85).
BudgetInv ==
    \A i \in Invocations :
        /\ attempt[i] <= MaxAttempts /\ (pc[i] = "deliver" => attempt[i] < MaxAttempts)
        /\ conflicts[i] <= MaxSaves /\ (pc[i] = "save" => conflicts[i] < MaxSaves)
        /\ Running(i) /\ pc[i] \notin {"save", "reload"} => conflicts[i] = 0
        /\ pc[i] = "idle" => conflicts[i] = 0

LEMMA BudgetNext == TypeOK /\ BudgetInv /\ [Next]_vars => BudgetInv'
  <1> SUFFICES ASSUME TypeOK, BudgetInv, [Next]_vars PROVE BudgetInv'
    OBVIOUS
  <1> USE DurationsAssumption
          DEF TypeOK, Goto, Return, Running, Ended, world, store, run, work
  <1>1. CASE Tick \/ Replay \/ (\E e \in Events : Index(e)) \/ UNCHANGED vars
    BY <1>1, NobodyMoves DEF BudgetInv
  <1>2. ASSUME NEW i \in Invocations, Notify(i) \/ LoadCheckpoint(i) \/ Query(i)
        PROVE  BudgetInv'
    BY <1>2 DEF Notify, LoadCheckpoint, Query, BudgetInv
  <1>3. ASSUME NEW i \in Invocations, Reserve(i) \/ NoEvidence(i) PROVE BudgetInv'
    BY <1>3 DEF Reserve, NoEvidence, BudgetInv
  <1>4. ASSUME NEW i \in Invocations, TakeBatch(i) PROVE BudgetInv'
    BY <1>4 DEF TakeBatch, BudgetInv
  <1>5. ASSUME NEW i \in Invocations, AttemptSucceeds(i) \/ MarkDelivered(i) PROVE BudgetInv'
    BY <1>5 DEF AttemptSucceeds, MarkDelivered, BudgetInv
  <1>6. ASSUME NEW i \in Invocations, AttemptFails(i) PROVE BudgetInv'
    BY <1>6 DEF AttemptFails, NextAttempt, BudgetInv
  <1>7. ASSUME NEW i \in Invocations, Quarantine(i) \/ Abort(i) PROVE BudgetInv'
    BY <1>7 DEF Quarantine, Abort, BudgetInv
  <1>8. ASSUME NEW i \in Invocations, PutCheckpoint(i) PROVE BudgetInv'
    BY <1>8 DEF PutCheckpoint, AllBatchesMarked, BudgetInv
  <1>9. ASSUME NEW i \in Invocations, ReloadCheckpoint(i) PROVE BudgetInv'
    BY <1>9 DEF ReloadCheckpoint, BudgetInv
  <1> HIDE DurationsAssumption
           DEF TypeOK, Goto, Return, Running, Ended, world, store, run, work
  <1> QED
    BY <1>1, <1>2, <1>3, <1>4, <1>5, <1>6, <1>7, <1>8, <1>9 DEF Next, Exporting, Step

\* However often a delivery or a save is refused, an invocation makes at most
\* MaxAttempts attempts at a batch and MaxSaves conditional writes.
THEOREM BudgetsHold == Spec => []BudgetInv
  <1>1. Init => TypeOK /\ BudgetInv
    BY TypeInit, DurationsAssumption DEF Init, BudgetInv, Running, Ended
  <1>2. TypeOK /\ BudgetInv /\ [Next]_vars => (TypeOK /\ BudgetInv)'
    BY TypeNext, BudgetNext
  <1> QED
    BY <1>1, <1>2, PTL DEF Spec

\* The part of export() an invocation is in, and whose turn it is in a loop.
Part(i) == CASE pc[i] = "load" -> 0 [] pc[i] = "query" -> 1 [] pc[i] = "reserve" -> 2
             [] pc[i] \in {"batch", "deliver", "quarantine", "mark"} -> 3
             [] pc[i] \in {"save", "reload"} -> 4
             [] pc[i] \in Ended -> 5

Turn(i) == CASE pc[i] \in {"deliver", "reload"} -> 0
             [] pc[i] \in {"quarantine", "mark", "save"} -> 1
             [] OTHER -> 2

Shrinks(s, t) == t \subseteq s /\ t # s

\* Lexicographically: the part, the rows to reserve, the events in no batch,
\* the writes lost, the turn, the attempts made, the events to mark.  The
\* sets are finite (DataAssumption) and the counters limited (BudgetsHold).
Advances(i) ==
    \/ Part(i)' > Part(i)
    \/ /\ Part(i)' = Part(i)
       /\ \/ Shrinks(toReserve[i], toReserve'[i])
          \/ /\ toReserve'[i] = toReserve[i]
             /\ \/ Shrinks(pending[i], pending'[i])
                \/ /\ pending'[i] = pending[i]
                   /\ \/ conflicts'[i] > conflicts[i]
                      \/ conflicts'[i] = conflicts[i] /\ Turn(i)' > Turn(i)
                      \/ /\ conflicts'[i] = conflicts[i] /\ Turn(i)' = Turn(i)
                         /\ \/ attempt'[i] > attempt[i]
                            \/ attempt'[i] = attempt[i] /\ Shrinks(batch[i], batch'[i])

\* Every step of an invocation advances it, and nothing but its own step, its
\* one notification and its end touches what the measure reads.
EveryStepAdvances(i) ==
    /\ [][Step(i) => Advances(i)]_vars
    /\ [][Notify(i) \/ Step(i) \/ Abort(i)
          \/ UNCHANGED <<pc[i], toReserve[i], pending[i], batch[i], attempt[i], conflicts[i]>>]_vars

LEMMA StepAdvances ==
    ASSUME TypeOK, BudgetInv, NEW i \in Invocations, Step(i)
    PROVE  Advances(i)
  <1> USE DEF TypeOK, Goto, Return, store, run, work
  <1>1. CASE LoadCheckpoint(i) \/ Query(i) \/ NoEvidence(i) \/ Quarantine(i)
    <2>1. \/ pc[i] = "load" /\ pc'[i] \in {"query", "raised"}
          \/ pc[i] = "query" /\ pc'[i] \in {"batch", "reserve"}
          \/ pc[i] \in {"batch", "quarantine"} /\ pc'[i] \in {"done", "raised"}
      BY <1>1 DEF LoadCheckpoint, Query, NoEvidence, Quarantine
    <2>2. Part(i)' > Part(i)
      BY <2>1 DEF Part, Ended
    <2> QED
      BY <2>2 DEF Advances
  <1>2. CASE Reserve(i)
    <2>1. /\ pc[i] = "reserve" /\ pc'[i] \in {"reserve", "batch"}
          /\ Shrinks(toReserve[i], toReserve'[i])
      BY <1>2 DEF Reserve, Shrinks
    <2>2. Part(i) = 2 /\ Part(i)' \in {2, 3}
      BY <2>1 DEF Part, Ended
    <2> QED
      BY <2>1, <2>2 DEF Advances
  <1>3. CASE TakeBatch(i)
    <2>1. /\ pc[i] = "batch" /\ pc'[i] = "deliver" /\ toReserve'[i] = toReserve[i]
          /\ \E b \in NextBatches(pending[i]) : pending'[i] = pending[i] \ b
          /\ pending[i] # {}
      BY <1>3 DEF TakeBatch
    <2>2. \A b \in NextBatches(pending[i]) : b \subseteq pending[i] /\ b # {}
      BY <2>1, BatchIsPart
    <2>3. Shrinks(pending[i], pending'[i])
      BY <2>1, <2>2 DEF Shrinks
    <2>4. Part(i) = 3 /\ Part(i)' = 3
      BY <2>1 DEF Part, Ended
    <2> QED
      BY <2>1, <2>3, <2>4 DEF Advances
  <1>4. CASE AttemptSucceeds(i) \/ AttemptFails(i) \/ MarkDelivered(i)
    <2>1. /\ UNCHANGED <<toReserve[i], pending[i], conflicts[i]>>
          /\ \/ pc[i] = "deliver" /\ pc'[i] \in {"mark", "quarantine"}
             \/ pc[i] = "deliver" /\ pc'[i] = "deliver" /\ attempt'[i] = attempt[i] + 1
             \/ pc[i] = "mark" /\ pc'[i] = "batch"
             \/ /\ pc[i] = "mark" /\ pc'[i] = "mark" /\ attempt'[i] = attempt[i]
                /\ Shrinks(batch[i], batch'[i])
      BY <1>4 DEF AttemptSucceeds, AttemptFails, MarkDelivered, NextAttempt, Shrinks
    <2>2. Part(i) = 3 /\ Part(i)' = 3
      BY <2>1 DEF Part, Ended
    <2>3. \/ Turn(i)' > Turn(i)
          \/ Turn(i)' = Turn(i) /\ attempt'[i] = attempt[i] + 1
          \/ Turn(i)' = Turn(i) /\ attempt'[i] = attempt[i] /\ Shrinks(batch[i], batch'[i])
      BY <2>1 DEF Turn
    <2>4. attempt[i] + 1 > attempt[i]
      OBVIOUS
    <2> QED
      BY <2>1, <2>2, <2>3, <2>4 DEF Advances
  <1>5. CASE PutCheckpoint(i) \/ ReloadCheckpoint(i)
    <2>1. /\ UNCHANGED <<toReserve[i], pending[i]>>
          /\ \/ pc[i] \in {"batch", "save", "reload"} /\ pc'[i] \in {"done", "raised"}
             \/ pc[i] = "batch" /\ pc'[i] = "reload"
             \/ pc[i] = "save" /\ pc'[i] = "reload" /\ conflicts'[i] = conflicts[i] + 1
             \/ pc[i] = "reload" /\ pc'[i] = "save" /\ conflicts'[i] = conflicts[i]
      BY <1>5 DEF PutCheckpoint, AllBatchesMarked, ReloadCheckpoint
    <2>2. \/ Part(i)' > Part(i)
          \/ Part(i)' = Part(i) /\ conflicts'[i] = conflicts[i] + 1
          \/ Part(i)' = Part(i) /\ conflicts'[i] = conflicts[i] /\ Turn(i)' > Turn(i)
      BY <2>1 DEF Part, Turn, Ended
    <2>3. conflicts[i] + 1 > conflicts[i]
      OBVIOUS
    <2> QED
      BY <2>1, <2>2, <2>3 DEF Advances
  <1> HIDE DEF TypeOK, Goto, Return, store, run, work
  <1> QED
    BY <1>1, <1>2, <1>3, <1>4, <1>5 DEF Step

\* No invocation runs for ever: whatever the sink, the stores and the other
\* invocations do, it takes a bounded number of steps.
THEOREM InvocationAdvances ==
    ASSUME NEW i \in Invocations PROVE Spec => EveryStepAdvances(i)
  <1>1. TypeOK /\ BudgetInv /\ [Next]_vars => [Step(i) => Advances(i)]_vars
    BY StepAdvances
  <1>2. ASSUME TypeOK, [Next]_vars
        PROVE  \/ Notify(i) \/ Step(i) \/ Abort(i)
               \/ UNCHANGED <<pc[i], toReserve[i], pending[i], batch[i], attempt[i], conflicts[i]>>
    <2>1. CASE Tick \/ Replay \/ (\E e \in Events : Index(e)) \/ UNCHANGED vars
      BY <2>1, NobodyMoves DEF work
    <2>2. ASSUME NEW j \in Invocations, j # i, Notify(j) \/ Step(j) \/ Abort(j)
          PROVE  UNCHANGED <<pc[i], toReserve[i], pending[i], batch[i], attempt[i], conflicts[i]>>
      BY <1>2, <2>2, OthersStay
    <2> QED
      BY <1>2, <2>1, <2>2 DEF Next, Exporting
  <1>3. TypeOK /\ [Next]_vars
           => [Notify(i) \/ Step(i) \/ Abort(i)
               \/ UNCHANGED <<pc[i], toReserve[i], pending[i], batch[i], attempt[i],
                              conflicts[i]>>]_vars
    BY <1>2
  <1> QED
    BY <1>1, <1>3, TypeCorrect, BudgetsHold, PTL DEF Spec, EveryStepAdvances
=============================================================================
