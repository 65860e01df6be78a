------------------------ MODULE DeliveryLedger_proofs ------------------------
(***************************************************************************)
(* Proofs about DeliveryLedger, for any number of callers and all times:   *)
(* a key has one holder, the loops lose at most one race, and they         *)
(* implement the one-step ledger of AtomicLedger.                          *)
(*                                                                         *)
(* The argument: what a caller read still decides what it may write unless *)
(* the version has moved, and whoever moved it left a document the caller  *)
(* may not reserve, since a lease outlives every invocation that is        *)
(* running when it is written.                                             *)
(***************************************************************************)
EXTENDS DeliveryLedger, TLAPS

\* Clock values: an invocation is within its timeout, and read its clock
\* between its start and now.
TimesInv ==
    \A i \in Callers : Live(i) =>
        /\ started[i] <= clock /\ clock <= started[i] + FunctionTimeout
        /\ pc[i] # "started" => started[i] <= now[i] /\ now[i] <= clock

\* A caller about to write reserved nothing if its read is stale, and read a
\* reservable document otherwise.
ReadInv ==
    \A i \in Callers :
        /\ seen[i] <= version
        /\ pc[i] = "reserve_put" =>
               /\ tries[i] = 0
               /\ seen[i] = version <=> Reservable(document, now[i])
        /\ pc[i] = "reserve_get" =>
               /\ tries[i] <= 1
               /\ tries[i] = 1 => ~Reservable(document, now[i])

\* The holder's own reservation stands, and nobody wrote since it read.
HoldInv ==
    \A i \in Callers : pc[i] \in Holding =>
        /\ document = Reservation(now[i] + Lease)
        /\ pc[i] \in Marking => tries[i] = 0
        /\ pc[i] = "mark_put" => seen[i] = version
        /\ \A j \in Callers \ {i} : pc[j] \notin Holding

LedgerInv == TypeOK /\ TimesInv /\ ReadInv /\ HoldInv

\* Type correctness is inductive.
LEMMA TypeNext == TypeOK /\ [Next]_vars => TypeOK'
<1> SUFFICES ASSUME TypeOK, [Next]_vars PROVE TypeOK'
  OBVIOUS
<1> USE TimesAssumption, TriesAssumption DEF TypeOK, Reserving, Holding, Marking, Goto
<1>1. CASE Tick
  BY <1>1 DEF Tick
<1>2. CASE \E i \in Callers : Start(i)
  BY <1>2 DEF Start
<1>3. CASE \E i \in Callers : CallReserve(i)
  BY <1>3 DEF CallReserve
<1>4. CASE \E i \in Callers : ReserveGet(i)
  BY <1>4 DEF ReserveGet
<1>5. CASE \E i \in Callers : ReservePut(i)
  <2>1. PICK i \in Callers : ReservePut(i)
    BY <1>5
  <2>2. CASE Write(i, Reservation(now[i] + Lease), "holds")
    BY <2>1, <2>2 DEF ReservePut, Write, Reservation
  <2>3. CASE Conflict(i, "reserve_get", "left")
    BY <2>1, <2>3 DEF ReservePut, Conflict
  <2> QED
    BY <2>1, <2>2, <2>3 DEF ReservePut
<1>6. CASE \E i \in Callers : CallMark(i)
  BY <1>6 DEF CallMark
<1>7. CASE \E i \in Callers : MarkGet(i)
  <2>1. PICK i \in Callers : MarkGet(i)
    BY <1>7
  <2>2. document.state \in {"absent", "reserved", "delivered"}
    OBVIOUS
  <2> QED
    BY <2>1, <2>2 DEF MarkGet
<1>8. CASE \E i \in Callers : MarkPut(i)
  <2>1. PICK i \in Callers : MarkPut(i)
    BY <1>8
  <2>2. CASE Write(i, Delivered, "left")
    BY <2>1, <2>2 DEF MarkPut, Write, Delivered
  <2>3. CASE Conflict(i, "mark_get", "lost")
    BY <2>1, <2>3 DEF MarkPut, Conflict
  <2> QED
    BY <2>1, <2>2, <2>3 DEF MarkPut
<1>9. CASE \E i \in Callers : End(i)
  BY <1>9 DEF End
<1>10. CASE UNCHANGED vars
  BY <1>10 DEF vars
<1> QED
  BY <1>1, <1>2, <1>3, <1>4, <1>5, <1>6, <1>7, <1>8, <1>9, <1>10 DEF Next

\* The invariant holds initially.
LEMMA InvInit == Init => LedgerInv
<1> USE TimesAssumption, TriesAssumption
<1> QED
  BY DEF Init, LedgerInv, TypeOK, TimesInv, ReadInv, HoldInv, Live, Reserving,
         Holding, Marking, Absent

\* Invocations stay within their timeout.
LEMMA TimesNext == TypeOK /\ TimesInv /\ [Next]_vars => TimesInv'
<1> SUFFICES ASSUME TypeOK, TimesInv, [Next]_vars, NEW k \in Callers, Live(k)'
             PROVE  /\ started'[k] <= clock' /\ clock' <= started'[k] + FunctionTimeout
                    /\ pc'[k] # "started" => started'[k] <= now'[k] /\ now'[k] <= clock'
  BY DEF TimesInv, Live
<1> USE TimesAssumption DEF TypeOK, TimesInv, Live, Reserving, Holding, Marking, Goto
<1>1. CASE Tick
  BY <1>1 DEF Tick
<1>2. CASE \E i \in Callers : Start(i)
  BY <1>2 DEF Start
<1>3. CASE \E i \in Callers : CallReserve(i)
  BY <1>3 DEF CallReserve
<1>4. CASE \E i \in Callers : ReserveGet(i)
  BY <1>4 DEF ReserveGet
<1>5. CASE \E i \in Callers : ReservePut(i)
  BY <1>5 DEF ReservePut, Write, Conflict
<1>6. CASE \E i \in Callers : CallMark(i)
  BY <1>6 DEF CallMark
<1>7. CASE \E i \in Callers : MarkGet(i)
  BY <1>7 DEF MarkGet
<1>8. CASE \E i \in Callers : MarkPut(i)
  BY <1>8 DEF MarkPut, Write, Conflict
<1>9. CASE \E i \in Callers : End(i)
  BY <1>9 DEF End
<1>10. CASE UNCHANGED vars
  BY <1>10 DEF vars
<1> QED
  BY <1>1, <1>2, <1>3, <1>4, <1>5, <1>6, <1>7, <1>8, <1>9, <1>10 DEF Next

\* Whoever may write over a document that no longer lets a running caller
\* reserve finds no holder, and leaves a document that caller cannot reserve.
LEMMA NewReservation ==
  ASSUME TypeOK, TimesInv, HoldInv, NEW i \in Callers, pc[i] = "reserve_put",
         Reservable(document, now[i])
  PROVE  /\ \A j \in Callers : pc[j] \notin Holding
         /\ now[i] + Lease > clock
         /\ \A j \in Callers : Live(j) /\ pc[j] # "started" =>
                ~Reservable(Reservation(now[i] + Lease), now[j])
<1> USE TimesAssumption DEF TypeOK, TimesInv, Live, Reserving, Holding, Marking
<1>1. now[i] \in Nat /\ started[i] \in Nat /\ clock \in Nat
  OBVIOUS
<1>2. /\ started[i] <= now[i] /\ now[i] <= clock
      /\ clock <= started[i] + FunctionTimeout
  OBVIOUS
<1>3. now[i] + Lease > clock
  BY <1>1, <1>2
<1>4. ASSUME NEW j \in Callers, pc[j] \in Holding PROVE FALSE
  <2>1. document = Reservation(now[j] + Lease)
    BY <1>4 DEF HoldInv
  <2>2. /\ now[j] \in Nat /\ started[j] \in Nat
        /\ started[j] <= now[j] /\ clock <= started[j] + FunctionTimeout
    BY <1>4
  <2>3. now[j] + Lease > now[i]
    BY <1>1, <1>2, <2>2
  <2> QED
    BY <1>1, <2>1, <2>2, <2>3 DEF Reservable, Reservation
<1>5. ASSUME NEW j \in Callers, Live(j), pc[j] # "started"
      PROVE  ~Reservable(Reservation(now[i] + Lease), now[j])
  <2>1. now[j] \in Nat /\ now[j] <= clock
    BY <1>5
  <2> QED
    BY <1>1, <1>3, <2>1 DEF Reservable, Reservation
<1> QED
  BY <1>3, <1>4, <1>5

\* A write moves the version past every other caller's read.
LEMMA ReadNext == LedgerInv /\ [Next]_vars => ReadInv'
<1> SUFFICES ASSUME LedgerInv, [Next]_vars, NEW k \in Callers
             PROVE  /\ seen'[k] <= version'
                    /\ pc'[k] = "reserve_put" =>
                           /\ tries'[k] = 0
                           /\ seen'[k] = version' <=> Reservable(document', now'[k])
                    /\ pc'[k] = "reserve_get" =>
                           /\ tries'[k] <= 1
                           /\ tries'[k] = 1 => ~Reservable(document', now'[k])
  BY DEF ReadInv, Reservable
<1>t. TypeOK /\ TimesInv /\ ReadInv /\ HoldInv
  BY DEF LedgerInv
<1>k. /\ seen[k] <= version
      /\ pc[k] = "reserve_put" =>
             /\ tries[k] = 0
             /\ seen[k] = version <=> Reservable(document, now[k])
      /\ pc[k] = "reserve_get" =>
             /\ tries[k] <= 1
             /\ tries[k] = 1 => ~Reservable(document, now[k])
  BY <1>t DEF ReadInv
<1> USE <1>t DEF TypeOK, Goto
<1>1. CASE Tick
  BY <1>1, <1>k DEF Tick
<1>2. CASE \E i \in Callers : Start(i)
  BY <1>2, <1>k DEF Start
<1>3. CASE \E i \in Callers : CallReserve(i)
  BY <1>3, <1>k DEF CallReserve
<1>4. CASE \E i \in Callers : ReserveGet(i)
  <2>1. PICK i \in Callers : ReserveGet(i)
    BY <1>4
  <2>2. CASE i # k
    BY <2>1, <2>2, <1>k DEF ReserveGet
  <2>3. CASE i = k
    BY <2>1, <2>3, <1>k DEF ReserveGet
  <2> QED
    BY <2>2, <2>3
<1>5. CASE \E i \in Callers : ReservePut(i)
  <2>1. PICK i \in Callers : ReservePut(i)
    BY <1>5
  <2>2. CASE Write(i, Reservation(now[i] + Lease), "holds")
    <3>1. Reservable(document, now[i])
      BY <2>1, <2>2 DEF ReservePut, Write, Matches, ReadInv
    <3>2. Live(k) /\ pc[k] # "started" => ~Reservable(document', now[k])
      BY <2>1, <2>2, <3>1, NewReservation DEF ReservePut, Write
    <3>3. pc[k] \in Reserving => ~Reservable(document', now[k])
      BY <3>2 DEF Live, Reserving
    <3> QED
      BY <2>1, <2>2, <3>3, <1>k DEF ReservePut, Write, Reserving
  <2>3. CASE Conflict(i, "reserve_get", "left")
    BY <2>1, <2>3, <1>k DEF ReservePut, Conflict, Matches
  <2> QED
    BY <2>1, <2>2, <2>3 DEF ReservePut
<1>6. CASE \E i \in Callers : CallMark(i)
  BY <1>6, <1>k DEF CallMark
<1>7. CASE \E i \in Callers : MarkGet(i)
  <2>1. PICK i \in Callers : MarkGet(i)
    BY <1>7
  <2>2. pc'[k] \in Reserving => i # k
    BY <2>1 DEF MarkGet, Reserving
  <2> QED
    BY <2>1, <2>2, <1>k DEF MarkGet, Reserving
<1>8. CASE \E i \in Callers : MarkPut(i)
  <2>1. PICK i \in Callers : MarkPut(i)
    BY <1>8
  <2>2. CASE Write(i, Delivered, "left")
    <3>1. ~Reservable(document', now'[k])
      BY <2>2 DEF Write, Delivered, Reservable
    <3> QED
      BY <2>1, <2>2, <3>1, <1>k DEF MarkPut, Write
  <2>3. CASE Conflict(i, "mark_get", "lost")
    BY <2>1, <2>3, <1>k DEF MarkPut, Conflict
  <2> QED
    BY <2>1, <2>2, <2>3 DEF MarkPut
<1>9. CASE \E i \in Callers : End(i)
  BY <1>9, <1>k DEF End
<1>10. CASE UNCHANGED vars
  BY <1>10, <1>k DEF vars
<1> QED
  BY <1>1, <1>2, <1>3, <1>4, <1>5, <1>6, <1>7, <1>8, <1>9, <1>10 DEF Next

\* The holder keeps its reservation until it marks it.
LEMMA HoldNext == LedgerInv /\ [Next]_vars => HoldInv'
<1> SUFFICES ASSUME LedgerInv, [Next]_vars, NEW k \in Callers, pc'[k] \in Holding
             PROVE  /\ document' = Reservation(now'[k] + Lease)
                    /\ pc'[k] \in Marking => tries'[k] = 0
                    /\ pc'[k] = "mark_put" => seen'[k] = version'
                    /\ \A j \in Callers \ {k} : pc'[j] \notin Holding
  BY DEF HoldInv, Reservation
<1>t. TypeOK /\ TimesInv /\ ReadInv /\ HoldInv
  BY DEF LedgerInv
<1>k. pc[k] \in Holding =>
        /\ document = Reservation(now[k] + Lease)
        /\ pc[k] \in Marking => tries[k] = 0
        /\ pc[k] = "mark_put" => seen[k] = version
        /\ \A j \in Callers \ {k} : pc[j] \notin Holding
  BY <1>t DEF HoldInv
<1> USE <1>t DEF TypeOK, Goto, Holding, Marking
<1>1. CASE Tick
  BY <1>1, <1>k DEF Tick
<1>2. CASE \E i \in Callers : Start(i)
  BY <1>2, <1>k DEF Start
<1>3. CASE \E i \in Callers : CallReserve(i)
  BY <1>3, <1>k DEF CallReserve
<1>4. CASE \E i \in Callers : ReserveGet(i)
  BY <1>4, <1>k DEF ReserveGet
<1>5. CASE \E i \in Callers : ReservePut(i)
  <2>1. PICK i \in Callers : ReservePut(i)
    BY <1>5
  <2>2. CASE Write(i, Reservation(now[i] + Lease), "holds")
    <3>1. Reservable(document, now[i])
      BY <2>1, <2>2 DEF ReservePut, Write, Matches, ReadInv
    <3>2. \A j \in Callers : pc[j] \notin Holding
      BY <2>1, <3>1, NewReservation DEF ReservePut
    <3>3. i = k
      BY <2>1, <2>2, <3>2 DEF ReservePut, Write
    <3> QED
      BY <2>1, <2>2, <3>2, <3>3 DEF ReservePut, Write
  <2>3. CASE Conflict(i, "reserve_get", "left")
    BY <2>1, <2>3, <1>k DEF ReservePut, Conflict
  <2> QED
    BY <2>1, <2>2, <2>3 DEF ReservePut
<1>6. CASE \E i \in Callers : CallMark(i)
  BY <1>6, <1>k DEF CallMark
<1>7. CASE \E i \in Callers : MarkGet(i)
  <2>1. PICK i \in Callers : MarkGet(i)
    BY <1>7
  <2>2. document.state = "reserved"
    BY <2>1 DEF MarkGet, HoldInv, Reservation
  <2> QED
    BY <2>1, <2>2, <1>k DEF MarkGet
<1>8. CASE \E i \in Callers : MarkPut(i)
  <2>1. PICK i \in Callers : MarkPut(i)
    BY <1>8
  <2>2. Matches(i) /\ \A j \in Callers \ {i} : pc[j] \notin Holding
    BY <2>1 DEF MarkPut, Matches, HoldInv
  <2> QED
    BY <2>1, <2>2, <1>k DEF MarkPut, Write, Conflict
<1>9. CASE \E i \in Callers : End(i)
  BY <1>9, <1>k DEF End
<1>10. CASE UNCHANGED vars
  BY <1>10, <1>k DEF vars
<1> QED
  BY <1>1, <1>2, <1>3, <1>4, <1>5, <1>6, <1>7, <1>8, <1>9, <1>10 DEF Next

\* The invariant of every reachable state.
THEOREM LedgerInvHolds == Spec => []LedgerInv
<1>1. Init => LedgerInv
  BY InvInit
<1>2. LedgerInv /\ [Next]_vars => LedgerInv'
  BY TypeNext, TimesNext, ReadNext, HoldNext DEF LedgerInv
<1> QED
  BY <1>1, <1>2, PTL DEF Spec

\* Every variable keeps its type.
THEOREM LedgerTypeCorrect == Spec => []TypeOK
<1>1. LedgerInv => TypeOK
  BY DEF LedgerInv
<1> QED
  BY <1>1, LedgerInvHolds, PTL

\* One live caller at most holds the key, under a lease that has not expired.
THEOREM HolderIsSole == Spec => []SoleHolder
<1>1. LedgerInv => SoleHolder
  <2> SUFFICES ASSUME LedgerInv, NEW i \in Callers, pc[i] \in Holding
               PROVE  /\ document.state = "reserved" /\ document.expires > clock
                      /\ \A j \in Callers \ {i} : pc[j] \notin Holding
    BY DEF SoleHolder
  <2> USE DEF LedgerInv
  <2>1. document = Reservation(now[i] + Lease)
    BY DEF HoldInv
  <2>2. /\ now[i] \in Nat /\ started[i] \in Nat /\ clock \in Nat
        /\ started[i] <= now[i] /\ clock <= started[i] + FunctionTimeout
    BY DEF TypeOK, TimesInv, Live, Holding, Marking
  <2>3. document.expires > clock
    BY <2>1, <2>2, TimesAssumption DEF Reservation
  <2> QED
    BY <2>1, <2>3 DEF HoldInv, Reservation
<1> QED
  BY <1>1, LedgerInvHolds, PTL

\* Neither loop runs out of rounds: reserve loses at most one conditional
\* write and mark_delivered none.
THEOREM LoopsNeverExhausted == Spec => []ContentionIsSettled
<1>1. LedgerInv => ContentionIsSettled
  <2> SUFFICES ASSUME LedgerInv, NEW i \in Callers
               PROVE  /\ pc[i] \in Reserving => tries[i] <= 1
                      /\ pc[i] \in Marking => tries[i] = 0
    BY DEF ContentionIsSettled
  <2>1. pc[i] = "reserve_put" => tries[i] = 0
    BY DEF LedgerInv, ReadInv
  <2>2. pc[i] = "reserve_get" => tries[i] <= 1
    BY DEF LedgerInv, ReadInv
  <2>3. pc[i] \in Marking => tries[i] = 0
    BY DEF LedgerInv, HoldInv, Holding
  <2> QED
    BY <2>1, <2>2, <2>3 DEF Reserving
<1> QED
  BY <1>1, LedgerInvHolds, PTL

\* No step takes a delivered key back.
THEOREM DeliveredStaysDelivered == Spec => DeliveredIsPermanent
<1>1. LedgerInv /\ [Next]_vars => [DeliveredStays]_vars
  <2> SUFFICES ASSUME LedgerInv, Next, document = Delivered
               PROVE  document' = Delivered
    BY DEF DeliveredStays
  <2>1. ASSUME NEW i \in Callers, ReservePut(i) PROVE document' = Delivered
    <3>1. ~Reservable(document, now[i])
      BY DEF Reservable, Delivered
    <3>2. ~Matches(i)
      BY <2>1, <3>1 DEF LedgerInv, ReadInv, ReservePut, Matches
    <3> QED
      BY <2>1, <3>2 DEF ReservePut, Write, Conflict
  <2>2. ASSUME NEW i \in Callers, MarkPut(i) PROVE document' = Delivered
    BY <2>2 DEF MarkPut, Write, Conflict
  <2> QED
    BY <2>1, <2>2 DEF Next, Tick, Start, CallReserve, ReserveGet, CallMark, MarkGet, End
<1> QED
  BY <1>1, LedgerInvHolds, PTL DEF Spec, DeliveredIsPermanent

\* A caller that moves within the loops moves its stage, and no other's.
LEMMA StageMoves ==
  ASSUME TypeOK, NEW i \in Callers, NEW to, pc' = [pc EXCEPT ![i] = to]
  PROVE  [j \in Callers |-> StageAt(pc[j])]' =
             [[j \in Callers |-> StageAt(pc[j])] EXCEPT ![i] = StageAt(to)]
  BY DEF TypeOK, StageAt

\* Live callers of the loops are live callers of the one-step ledger.
LEMMA SameLive == ASSUME TypeOK, NEW i \in Callers PROVE Live(i) <=> Atomic!Live(i)
  BY DEF TypeOK, Live, Atomic!Live, StageAt, Reserving, Holding, Marking

\* Every step of the loops is a step of the one-step ledger, or changes
\* nothing there: a read that answers False is its refusal, an applied write
\* its grant or mark, and every other request is invisible.
LEMMA StepRefines == LedgerInv /\ [Next]_vars => [Atomic!Next]_(Atomic!vars)
<1> SUFFICES ASSUME LedgerInv, [Next]_vars PROVE [Atomic!Next]_(Atomic!vars)
  OBVIOUS
<1> DEFINE stage == [j \in Callers |-> StageAt(pc[j])]
<1>t. TypeOK /\ ReadInv /\ HoldInv
  BY DEF LedgerInv
<1>s. ASSUME NEW i \in Callers, NEW to, pc' = [pc EXCEPT ![i] = to],
             StageAt(to) = StageAt(pc[i])
      PROVE  stage' = stage
  <2>1. stage' = [stage EXCEPT ![i] = StageAt(to)]
    BY <1>s, <1>t, StageMoves
  <2> QED
    BY <1>s, <2>1
<1>1. CASE Tick
  BY <1>1, <1>t, SameLive DEF Tick, Atomic!Next, Atomic!Tick, Atomic!vars, StageAt
<1>2. CASE \E i \in Callers : Start(i)
  <2>1. PICK i \in Callers : Start(i)
    BY <1>2
  <2>2. stage' = [stage EXCEPT ![i] = "started"]
    BY <2>1, <1>t, StageMoves DEF Start, StageAt, Reserving, Holding, Marking
  <2>3. Atomic!Start(i)
    BY <2>1, <2>2, <1>t, SameLive DEF Start, Atomic!Start
  <2> QED
    BY <2>3 DEF Atomic!Next
<1>3. CASE \E i \in Callers : CallReserve(i)
  <2>1. PICK i \in Callers : CallReserve(i)
    BY <1>3
  <2>2. CASE pc' = [pc EXCEPT ![i] = "reserve_get"]
    <3>1. stage' = [stage EXCEPT ![i] = "reserve"]
      BY <2>2, <1>t, StageMoves DEF StageAt, Reserving
    <3> QED
      BY <2>1, <3>1 DEF CallReserve, Goto, StageAt, Reserving, Holding, Marking,
                        Atomic!Ask, Atomic!Move, Atomic!Next
  <2>3. CASE pc' = [pc EXCEPT ![i] = "left"]
    <3>1. stage' = [stage EXCEPT ![i] = "left"]
      BY <2>3, <1>t, StageMoves DEF StageAt, Reserving, Holding, Marking
    <3> QED
      BY <2>1, <3>1 DEF CallReserve, Goto, StageAt, Reserving, Holding, Marking,
                        Atomic!Ask, Atomic!Move, Atomic!Next
  <2> QED
    BY <2>1, <2>2, <2>3 DEF CallReserve, Goto
<1>4. CASE \E i \in Callers : ReserveGet(i)
  <2>1. PICK i \in Callers : ReserveGet(i)
    BY <1>4
  <2>2. stage[i] = "reserve"
    BY <2>1 DEF ReserveGet, Goto, StageAt, Reserving
  <2>3. CASE Reservable(document, now[i])
    <3>1. pc' = [pc EXCEPT ![i] = "reserve_put"]
      BY <2>1, <2>3 DEF ReserveGet, Goto
    <3>2. stage' = stage
      BY <2>2, <3>1, <1>s DEF StageAt, Reserving
    <3> QED
      BY <2>1, <3>2 DEF ReserveGet, Atomic!vars
  <2>4. CASE ~Reservable(document, now[i])
    <3>1. pc' = [pc EXCEPT ![i] = "left"]
      BY <2>1, <2>4 DEF ReserveGet, Goto
    <3>2. stage' = [stage EXCEPT ![i] = "left"]
      BY <3>1, <1>t, StageMoves DEF StageAt, Reserving, Holding, Marking
    <3> QED
      BY <2>1, <2>2, <2>4, <3>2
         DEF ReserveGet, Reservable, Atomic!Reservable, Atomic!Refuse, Atomic!Move, Atomic!Next
  <2> QED
    BY <2>3, <2>4
<1>5. CASE \E i \in Callers : ReservePut(i)
  <2>1. PICK i \in Callers : ReservePut(i)
    BY <1>5
  <2>2. stage[i] = "reserve"
    BY <2>1 DEF ReservePut, StageAt, Reserving
  <2>3. CASE Write(i, Reservation(now[i] + Lease), "holds")
    <3>1. Reservable(document, now[i])
      BY <2>1, <2>3, <1>t DEF ReservePut, Write, Matches, ReadInv
    <3>2. \/ stage' = [stage EXCEPT ![i] = "holds"]
          \/ stage' = [stage EXCEPT ![i] = "lost"]
      <4>1. CASE pc' = [pc EXCEPT ![i] = "holds"]
        BY <4>1, <1>t, StageMoves DEF StageAt, Reserving, Holding
      <4>2. CASE pc' = [pc EXCEPT ![i] = "lost"]
        BY <4>2, <1>t, StageMoves DEF StageAt, Reserving, Holding, Marking
      <4> QED
        BY <2>3, <4>1, <4>2 DEF Write, Goto
    <3> QED
      BY <2>1, <2>2, <2>3, <3>1, <3>2
         DEF ReservePut, Write, Reservable, Reservation, Atomic!Reservable,
             Atomic!Reservation, Atomic!Grant, Atomic!Move, Atomic!Next
  <2>4. CASE Conflict(i, "reserve_get", "left")
    <3>1. tries[i] + 1 < MaxTries
      BY <2>1, <1>t, TriesAssumption DEF ReservePut, ReadInv
    <3>2. pc' = [pc EXCEPT ![i] = "reserve_get"]
      BY <2>4, <3>1 DEF Conflict, Goto
    <3>3. stage' = stage
      BY <2>2, <3>2, <1>s DEF StageAt, Reserving
    <3> QED
      BY <2>1, <2>4, <3>3 DEF ReservePut, Conflict, Atomic!vars
  <2> QED
    BY <2>1, <2>3, <2>4 DEF ReservePut
<1>6. CASE \E i \in Callers : CallMark(i)
  <2>1. PICK i \in Callers : CallMark(i)
    BY <1>6
  <2>2. stage[i] = "holds" /\ pc' = [pc EXCEPT ![i] = "mark_get"]
    BY <2>1 DEF CallMark, Goto, StageAt, Reserving, Holding
  <2>3. stage' = stage
    BY <2>2, <1>s DEF StageAt, Reserving, Holding, Marking
  <2> QED
    BY <2>1, <2>3 DEF CallMark, Atomic!vars
<1>7. CASE \E i \in Callers : MarkGet(i)
  <2>1. PICK i \in Callers : MarkGet(i)
    BY <1>7
  <2>2. document.state = "reserved"
    BY <2>1, <1>t DEF MarkGet, Goto, HoldInv, Reservation, Holding, Marking
  <2>3. stage[i] = "holds" /\ pc' = [pc EXCEPT ![i] = "mark_put"]
    BY <2>1, <2>2 DEF MarkGet, Goto, StageAt, Reserving, Holding, Marking
  <2>4. stage' = stage
    BY <2>3, <1>s DEF StageAt, Reserving, Holding, Marking
  <2> QED
    BY <2>1, <2>4 DEF MarkGet, Atomic!vars
<1>8. CASE \E i \in Callers : MarkPut(i)
  <2>1. PICK i \in Callers : MarkPut(i)
    BY <1>8
  <2>2. stage[i] = "holds"
    BY <2>1 DEF MarkPut, StageAt, Reserving, Holding, Marking
  <2>3. document.state # "absent" /\ Matches(i)
    BY <2>1, <1>t DEF MarkPut, HoldInv, Reservation, Matches, Holding, Marking
  <2>4. Write(i, Delivered, "left")
    BY <2>1, <2>3 DEF MarkPut, Conflict
  <2>5. \/ stage' = [stage EXCEPT ![i] = "left"]
        \/ stage' = [stage EXCEPT ![i] = "lost"]
    <3>1. CASE pc' = [pc EXCEPT ![i] = "left"]
      BY <3>1, <1>t, StageMoves DEF StageAt, Reserving, Holding, Marking
    <3>2. CASE pc' = [pc EXCEPT ![i] = "lost"]
      BY <3>2, <1>t, StageMoves DEF StageAt, Reserving, Holding, Marking
    <3> QED
      BY <2>4, <3>1, <3>2 DEF Write, Goto
  <2> QED
    BY <2>1, <2>2, <2>3, <2>4, <2>5
       DEF MarkPut, Write, Delivered, Atomic!Delivered, Atomic!Mark, Atomic!Move, Atomic!Next
<1>9. CASE \E i \in Callers : End(i)
  <2>1. PICK i \in Callers : End(i)
    BY <1>9
  <2>2. CASE pc[i] = "started"
    <3>1. stage[i] = "started"
      BY <2>2 DEF StageAt, Reserving, Holding, Marking
    <3>2. stage' = [stage EXCEPT ![i] = "left"]
      BY <2>1, <2>2, <1>t, StageMoves DEF End, Goto, StageAt, Reserving, Holding, Marking
    <3> QED
      BY <2>1, <3>1, <3>2 DEF End, Atomic!End, Atomic!Move, Atomic!Next
  <2>3. CASE pc[i] # "started"
    <3>1. stage[i] \in {"reserve", "holds"}
      BY <2>1, <2>3 DEF End, Live, StageAt
    <3>2. stage' = [stage EXCEPT ![i] = "lost"]
      BY <2>1, <2>3, <1>t, StageMoves DEF End, Goto, StageAt, Reserving, Holding, Marking
    <3> QED
      BY <2>1, <3>1, <3>2 DEF End, Atomic!End, Atomic!Move, Atomic!Next
  <2> QED
    BY <2>2, <2>3
<1>10. CASE UNCHANGED vars
  BY <1>10 DEF vars, Atomic!vars, StageAt
<1> QED
  BY <1>1, <1>2, <1>3, <1>4, <1>5, <1>6, <1>7, <1>8, <1>9, <1>10 DEF Next

\* The read and conditional-write loops implement a ledger whose calls are
\* single steps: EvidenceExport may treat them so.
THEOREM LoopsAreAtomic == Spec => ImplementsAtomicLedger
<1>1. Init => Atomic!Init
  BY DEF Init, Atomic!Init, Absent, Atomic!Absent, StageAt, Reserving, Holding, Marking
<1>2. LedgerInv /\ [Next]_vars => [Atomic!Next]_(Atomic!vars)
  BY StepRefines
<1> QED
  BY <1>1, <1>2, LedgerInvHolds, PTL DEF Spec, Atomic!Spec, ImplementsAtomicLedger
=============================================================================
