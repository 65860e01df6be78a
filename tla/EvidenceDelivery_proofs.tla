----------------------- MODULE EvidenceDelivery_proofs -----------------------
(***************************************************************************)
(* Proofs about EvidenceDelivery, for any batch, any number of attempts    *)
(* and polls, and any time-out.                                            *)
(*                                                                         *)
(* The argument: what the sink answered stays what it answered, every      *)
(* attempt before the current one was classified as retryable when it was  *)
(* the current one, and only the current attempt can still be confirmed.   *)
(***************************************************************************)
EXTENDS EvidenceDelivery, TLAPS

\* What the sink says of a post is true of it.
AnswerInv ==
    /\ acked \subseteq indexed
    /\ \A k \in Attempts : replies[k] \in {"complete", "bad_ack_id"} => taken[k] = Events

Unsettled(k) ==
    /\ replies[k] \in {"complete", "partial", "busy", "timed_out"}
    /\ replies[k] = "complete" => sink = "indexer_ack" /\ k \notin acked

\* The loop's history, and the bound on polls.
LoopInv ==
    /\ \A k \in Attempts : k < attempt => Unsettled(k)
    /\ pc = "ask" => polls < MaxPolls
    /\ pc = "done" => outcome = Classified
    /\ pc = "done" /\ outcome = "retryable" => attempt = MaxAttempts

DeliveryInv == TypeOK /\ AnswerInv /\ LoopInv

LEMMA InvInit == Init => DeliveryInv
  BY DeliveryAssumption
     DEF Init, DeliveryInv, TypeOK, AnswerInv, LoopInv, Attempts, Outcomes

LEMMA TypeNext == DeliveryInv /\ [Next]_vars => TypeOK'
<1> SUFFICES ASSUME DeliveryInv, [Next]_vars PROVE TypeOK'
  OBVIOUS
<1> USE DeliveryAssumption DEF DeliveryInv, TypeOK
<1>1. CASE Tick
  BY <1>1 DEF Tick
<1>2. ASSUME NEW k \in Attempts, Index(k) PROVE TypeOK'
  BY <1>2 DEF Index
<1>3. CASE Post
  BY <1>3 DEF Post, RepliesOf
<1>4. CASE PollOrGiveUp
  BY <1>4 DEF PollOrGiveUp
<1>5. CASE Ask
  BY <1>5 DEF Ask, PollsMade, LoopInv
<1>6. CASE Classify
  <2>1. Classified \in Outcomes
    BY DEF Classified, Outcomes
  <2> QED
    BY <1>6, <2>1 DEF Classify, AttemptsLeft, Attempts
<1>7. CASE UNCHANGED vars
  BY <1>7 DEF vars
<1> QED
  BY <1>1, <1>2, <1>3, <1>4, <1>5, <1>6, <1>7 DEF Next, Step

LEMMA AnswerNext == DeliveryInv /\ [Next]_vars => AnswerInv'
<1> SUFFICES ASSUME DeliveryInv, [Next]_vars PROVE AnswerInv'
  OBVIOUS
<1> USE DEF DeliveryInv, TypeOK, AnswerInv
<1>1. CASE Post
  BY <1>1 DEF Post, MayReportComplete
<1>2. CASE Ask
  BY <1>2 DEF Ask
<1>3. CASE Tick \/ PollOrGiveUp \/ Classify \/ UNCHANGED vars
  BY <1>3 DEF Tick, PollOrGiveUp, Classify, vars
<1>4. ASSUME NEW k \in Attempts, Index(k) PROVE AnswerInv'
  BY <1>4 DEF Index
<1> QED
  BY <1>1, <1>2, <1>3, <1>4 DEF Next, Step

\* An attempt that is not confirmed and does not settle the batch is
\* classified as retryable, and only such an attempt is.
LEMMA RetryableIsUnsettled ==
    ASSUME DeliveryInv, Classified = "retryable" PROVE Unsettled(attempt)
  BY DEF Classified, Confirmed, Retryable, Unsettled

LEMMA LoopNext == DeliveryInv /\ [Next]_vars => LoopInv'
<1> SUFFICES ASSUME DeliveryInv, [Next]_vars PROVE LoopInv'
  OBVIOUS
<1> USE DeliveryAssumption DEF DeliveryInv, TypeOK, LoopInv
<1>1. CASE Tick
  BY <1>1 DEF Tick, Unsettled, Classified, Confirmed, Retryable
<1>2. ASSUME NEW k \in Attempts, Index(k) PROVE LoopInv'
  BY <1>2 DEF Index, Unsettled, Classified, Confirmed, Retryable
<1>3. CASE Post
  <2>1. PICK r \in RepliesOf(sink) : replies' = [replies EXCEPT ![attempt] = r]
    BY <1>3 DEF Post
  <2>2. /\ pc' \in {"poll", "classify"}
        /\ UNCHANGED <<sink, attempt, acked>>
    BY <1>3 DEF Post
  <2>3. ASSUME NEW k \in Attempts, k < attempt PROVE Unsettled(k)'
    <3>1. replies'[k] = replies[k]
      BY <2>1, <2>3 DEF Attempts
    <3> QED
      BY <2>2, <2>3, <3>1 DEF Unsettled
  <2> QED
    BY <2>2, <2>3
<1>4. CASE PollOrGiveUp
  BY <1>4 DEF PollOrGiveUp, Unsettled
<1>5. CASE Ask
  BY <1>5 DEF Ask, Unsettled, Attempts
<1>6. CASE Classify
  <2>1. /\ outcome' = Classified
        /\ \A k \in Attempts : Unsettled(k) => Unsettled(k)'
    BY <1>6 DEF Classify, Unsettled
  <2>2. CASE outcome' = "retryable" /\ AttemptsLeft
    <3>1. Unsettled(attempt)
      BY <2>1, <2>2, RetryableIsUnsettled
    <3> QED
      BY <1>6, <2>1, <2>2, <3>1 DEF Classify, Attempts
  <2>3. CASE ~(outcome' = "retryable" /\ AttemptsLeft)
    <3>1. /\ pc' = "done" /\ UNCHANGED <<sink, attempt, replies, acked>>
          /\ outcome' = "retryable" => attempt = MaxAttempts
      BY <1>6, <2>3 DEF Classify, AttemptsLeft, Attempts
    <3>2. Classified' = Classified
      BY <3>1 DEF Classified, Confirmed, Retryable
    <3> QED
      BY <2>1, <3>1, <3>2 DEF Attempts
  <2> QED
    BY <2>2, <2>3
<1>7. CASE UNCHANGED vars
  BY <1>7 DEF vars, Unsettled, Classified, Confirmed, Retryable
<1> QED
  BY <1>1, <1>2, <1>3, <1>4, <1>5, <1>6, <1>7 DEF Next, Step

LEMMA DeliveryInvHolds == Spec => []DeliveryInv
<1>1. DeliveryInv /\ [Next]_vars => DeliveryInv'
  BY TypeNext, AnswerNext, LoopNext DEF DeliveryInv
<1> QED
  BY <1>1, InvInit, PTL DEF Spec

\* The loop's locals keep their types: no attempt and no poll beyond the limit.
THEOREM DeliveryTypeCorrect == Spec => []TypeOK
<1>1. DeliveryInv => TypeOK
  BY DEF DeliveryInv
<1> QED
  BY <1>1, DeliveryInvHolds, PTL

\* Success means that the sink took the whole batch in with one post and, in
\* indexer-ack mode, indexed it.
THEOREM SuccessMeansConfirmed == Spec => []SuccessIsConfirmed
<1>1. DeliveryInv => SuccessIsConfirmed
  <2> SUFFICES ASSUME DeliveryInv, pc = "done", outcome = "success"
               PROVE  /\ attempt \in Attempts /\ taken[attempt] = Events
                      /\ sink = "indexer_ack" => attempt \in indexed
    BY DEF SuccessIsConfirmed
  <2>1. Confirmed
    BY DEF DeliveryInv, LoopInv, Classified
  <2> QED
    BY <2>1 DEF Confirmed, DeliveryInv, TypeOK, AnswerInv
<1> QED
  BY <1>1, DeliveryInvHolds, PTL

\* Nothing is sent again after a confirmation or a refusal.
THEOREM RepeatsAlwaysJustified == Spec => []RepeatsAreJustified
<1>1. DeliveryInv => RepeatsAreJustified
  BY DEF DeliveryInv, LoopInv, Unsettled, RepeatsAreJustified
<1> QED
  BY <1>1, DeliveryInvHolds, PTL

\* A retryable failure comes after every attempt was made in vain.
THEOREM RetriesAreExhausted == Spec => []RetryableIsExhausted
<1>1. DeliveryInv => RetryableIsExhausted
  <2> SUFFICES ASSUME DeliveryInv, pc = "done", outcome = "retryable", NEW k \in Attempts
               PROVE  replies[k] \in {"complete", "partial", "busy", "timed_out"}
    BY DEF RetryableIsExhausted
  <2>1. attempt = MaxAttempts /\ Classified = "retryable"
    BY DEF DeliveryInv, LoopInv
  <2>2. k < attempt \/ k = attempt
    BY <2>1, DeliveryAssumption DEF Attempts
  <2>3. Unsettled(k)
    BY <2>1, <2>2, RetryableIsUnsettled DEF DeliveryInv, LoopInv
  <2> QED
    BY <2>3 DEF Unsettled
<1> QED
  BY <1>1, DeliveryInvHolds, PTL

-----------------------------------------------------------------------------
(* Refinement: the delivery is one that AtomicDelivery allows.             *)

\* The sink has nothing of a post that was not made.
UntakenInv ==
    \A k \in Attempts :
        k > attempt \/ (k = attempt /\ pc = "post") => taken[k] = {}

LEMMA UntakenNext == DeliveryInv /\ UntakenInv /\ [Next]_vars => UntakenInv'
<1> SUFFICES ASSUME DeliveryInv, UntakenInv, [Next]_vars PROVE UntakenInv'
  OBVIOUS
<1> USE DEF DeliveryInv, TypeOK, UntakenInv
<1>1. CASE Tick \/ PollOrGiveUp \/ Ask \/ UNCHANGED vars
  BY <1>1 DEF Tick, PollOrGiveUp, Ask, vars
<1>2. ASSUME NEW k \in Attempts, Index(k) PROVE UntakenInv'
  BY <1>2 DEF Index
<1>3. CASE Post
  <2>1. PICK t \in SUBSET Events : taken' = [taken EXCEPT ![attempt] = t]
    BY <1>3 DEF Post
  <2>2. pc = "post" /\ pc' \in {"poll", "classify"} /\ attempt' = attempt
    BY <1>3 DEF Post
  <2> QED
    BY <2>1, <2>2 DEF Attempts
<1>4. CASE Classify
  <2>1. pc = "classify" /\ taken' = taken
    BY <1>4 DEF Classify
  <2>2. \/ pc' = "post" /\ attempt' = attempt + 1
        \/ pc' = "done" /\ attempt' = attempt
    BY <1>4 DEF Classify
  <2> QED
    BY <2>1, <2>2 DEF Attempts
<1> QED
  BY <1>1, <1>2, <1>3, <1>4 DEF Next, Step

\* A post only adds to what the sink has received.
LEMMA PostAdds ==
    ASSUME DeliveryInv, UntakenInv, Post
    PROVE  Received \subseteq Received' /\ Received' \subseteq Events
<1>1. PICK t \in SUBSET Events : taken' = [taken EXCEPT ![attempt] = t]
  BY DEF Post
<1>2. pc = "post" /\ attempt \in Attempts /\ taken \in [Attempts -> SUBSET Events]
  BY DEF Post, DeliveryInv, TypeOK
<1>3. taken[attempt] = {}
  BY <1>2 DEF UntakenInv
<1>4. \A k \in Attempts : taken[k] \subseteq taken'[k] /\ taken'[k] \subseteq Events
  BY <1>1, <1>2, <1>3
<1> QED
  BY <1>4 DEF Received

\* Every step is one of AtomicDelivery's, or changes nothing that it sees: a
\* post is the sink taking events in, and the classification ends an attempt.
LEMMA DeliveryStep ==
    ASSUME DeliveryInv, UntakenInv, [Next]_vars
    PROVE  [Atomic!Next]_(Atomic!vars)
<1>1. CASE Tick \/ PollOrGiveUp \/ Ask \/ UNCHANGED vars
  <2>1. UNCHANGED <<taken, attempt, outcome>> /\ (pc = "done" <=> pc' = "done")
    BY <1>1 DEF Tick, PollOrGiveUp, Ask, vars
  <2>2. UNCHANGED <<Received, InHand, Failures, Verdict>>
    BY <2>1 DEF Received, InHand, Failures, Verdict
  <2> QED
    BY <2>2 DEF Atomic!vars
<1>2. ASSUME NEW k \in Attempts, Index(k) PROVE [Atomic!Next]_(Atomic!vars)
  <2>1. UNCHANGED <<taken, attempt, outcome, pc>>
    BY <1>2 DEF Index
  <2>2. UNCHANGED <<Received, InHand, Failures, Verdict>>
    BY <2>1 DEF Received, InHand, Failures, Verdict
  <2> QED
    BY <2>2 DEF Atomic!vars
<1>3. CASE Post
  <2>1. pc # "done" /\ pc' # "done" /\ attempt' = attempt
    BY <1>3 DEF Post
  <2>2. UNCHANGED <<InHand, Failures, Verdict>>
    BY <2>1 DEF InHand, Failures, Verdict
  <2>3. Atomic!TakeIn
    BY <1>3, <2>2, PostAdds DEF Atomic!TakeIn
  <2> QED
    BY <2>3 DEF Atomic!Next
<1>4. CASE Classify
  <2>1. pc = "classify" /\ taken' = taken /\ outcome' = Classified
    BY <1>4 DEF Classify
  <2>2. Received' = Received
    BY <2>1 DEF Received
  <2>3. InHand = Events /\ Failures = attempt - 1 /\ Verdict = "pending"
    BY <2>1 DEF InHand, Failures, Verdict
  \* What the attempt left with the sink was taken in at its post.
  <2>n. \E part \in SUBSET InHand : Received' = Received \cup part
    <3>1. Received' = Received \cup {} /\ {} \in SUBSET InHand
      BY <2>2
    <3> QED
      BY <3>1
  <2>4. CASE outcome' = "retryable" /\ AttemptsLeft
    <3>1. pc' = "post" /\ attempt' = attempt + 1
      BY <1>4, <2>4 DEF Classify
    <3>2. InHand' = Events /\ Failures' = attempt /\ Verdict' = "pending"
      BY <3>1 DEF InHand, Failures, Verdict, DeliveryInv, TypeOK, Attempts
    <3>3. Failures + 1 = attempt /\ attempt < MaxAttempts
      BY <2>3, <2>4 DEF AttemptsLeft, DeliveryInv, TypeOK, Attempts
    <3>4. Atomic!Retry
      BY <2>3, <2>n, <3>2, <3>3 DEF Atomic!Retry
    <3> QED
      BY <3>4 DEF Atomic!Next
  <2>5. CASE ~(outcome' = "retryable" /\ AttemptsLeft)
    <3>1. pc' = "done"
      BY <1>4, <2>5 DEF Classify
    <3>2. InHand' = {} /\ Failures' = 0
      BY <3>1 DEF InHand, Failures
    <3>3. CASE outcome' = "success"
      <4>1. Confirmed
        BY <2>1, <3>3 DEF Classified
      <4>2. attempt \in Attempts /\ taken[attempt] = Events
        BY <4>1 DEF Confirmed, DeliveryInv, TypeOK, AnswerInv
      <4>3. Events \subseteq Received
        BY <4>2 DEF Received
      <4>4. Received' = Received \cup InHand
        BY <2>2, <2>3, <4>3
      <4>5. Atomic!Succeed
        BY <2>3, <3>1, <3>2, <3>3, <4>4 DEF Verdict, Atomic!Succeed, Atomic!Settle
      <4> QED
        BY <4>5 DEF Atomic!Next
    <3>4. CASE outcome' # "success"
      <4>1. Atomic!Fail
        BY <2>3, <2>n, <3>1, <3>2, <3>4 DEF Verdict, Atomic!Fail, Atomic!Settle
      <4> QED
        BY <4>1 DEF Atomic!Next
    <3> QED
      BY <3>3, <3>4
  <2> QED
    BY <2>4, <2>5
<1> QED
  BY <1>1, <1>2, <1>3, <1>4 DEF Next, Step

\* A delivery with its posts, polls and retries is, for the caller, one of
\* AtomicDelivery: attempts in single steps, at most MaxAttempts of them, and
\* success only with the whole batch received.
THEOREM DeliveriesAreAtomic == Spec => ImplementsAtomicDelivery
<1>1. Init => UntakenInv
  BY DEF Init, UntakenInv
<1>2. Init => Atomic!Init
  <2> SUFFICES ASSUME Init PROVE Atomic!Init
    OBVIOUS
  <2>1. Received = {}
    BY DEF Init, Received
  <2>2. Failures = 0 /\ InHand = Events /\ Verdict = "pending"
    BY DEF Init, Failures, InHand, Verdict
  <2> QED
    BY <2>1, <2>2 DEF Atomic!Init
<1> QED
  BY <1>1, <1>2, UntakenNext, DeliveryStep, DeliveryInvHolds, PTL
     DEF Spec, ImplementsAtomicDelivery, Atomic!Spec

-----------------------------------------------------------------------------
(* Termination: a measure that every step of the delivery moves.           *)

Phase == CASE pc = "post" -> 0 [] pc \in {"poll", "ask"} -> 1
           [] pc = "classify" -> 2 [] pc = "done" -> 3

Asking == IF pc = "ask" THEN 1 ELSE 0

\* Lexicographically: the attempt, its phase, the polls made, and the poll
\* under way.  None of them exceeds its limit (DeliveryTypeCorrect).
Advances ==
    \/ attempt' > attempt
    \/ attempt' = attempt /\ Phase' > Phase
    \/ attempt' = attempt /\ Phase' = Phase /\ polls' > polls
    \/ attempt' = attempt /\ Phase' = Phase /\ polls' = polls /\ Asking' > Asking

\* Every step of the delivery advances it, whatever the sink answers and
\* whether or not time passes; and nothing else sets it back.  So it takes a
\* bounded number of steps (service.py:69, hec_adapter.py:158).
EveryStepAdvances ==
    [][Step \/ UNCHANGED <<attempt, pc, polls>>]_vars /\ [][Step => Advances]_vars

THEOREM DeliveryAdvances == Spec => EveryStepAdvances
<1>1. ASSUME DeliveryInv, Step PROVE Advances
  <2>1. attempt \in Nat /\ polls \in Nat
    BY <1>1, DeliveryAssumption DEF DeliveryInv, TypeOK, Attempts
  <2>2. CASE Post
    <3>1. pc = "post" /\ pc' \in {"poll", "classify"} /\ attempt' = attempt
      BY <2>2 DEF Post
    <3>2. Phase = 0 /\ Phase' \in {1, 2}
      BY <3>1 DEF Phase
    <3> QED
      BY <2>1, <3>1, <3>2 DEF Advances
  <2>3. CASE PollOrGiveUp
    <3>1. /\ pc = "poll" /\ pc' \in {"ask", "classify"}
          /\ UNCHANGED <<attempt, polls>>
      BY <2>3 DEF PollOrGiveUp
    <3>2. /\ Phase = 1 /\ Asking = 0
          /\ \/ Phase' = 2
             \/ Phase' = 1 /\ Asking' = 1
      BY <3>1 DEF Phase, Asking
    <3> QED
      BY <2>1, <3>1, <3>2 DEF Advances
  <2>4. CASE Ask
    <3>1. /\ pc = "ask" /\ pc' \in {"poll", "classify"}
          /\ attempt' = attempt /\ polls' = polls + 1
      BY <2>4 DEF Ask, PollsMade
    <3>2. Phase = 1 /\ Phase' \in {1, 2}
      BY <3>1 DEF Phase
    <3> QED
      BY <2>1, <3>1, <3>2 DEF Advances
  <2>5. CASE Classify
    <3>1. /\ pc = "classify"
          /\ \/ attempt' = attempt + 1
             \/ pc' = "done" /\ attempt' = attempt
      BY <2>5 DEF Classify
    <3>2. Phase = 2 /\ (pc' = "done" => Phase' = 3)
      BY <3>1 DEF Phase
    <3> QED
      BY <2>1, <3>1, <3>2 DEF Advances
  <2> QED
    BY <1>1, <2>2, <2>3, <2>4, <2>5 DEF Step
<1>2. ASSUME [Next]_vars PROVE Step \/ UNCHANGED <<attempt, pc, polls>>
  <2>1. CASE Tick \/ UNCHANGED vars
    BY <2>1 DEF Tick, vars
  <2>2. ASSUME NEW k \in Attempts, Index(k) PROVE UNCHANGED <<attempt, pc, polls>>
    BY <2>2 DEF Index
  <2> QED
    BY <1>2, <2>1, <2>2 DEF Next
<1>3. DeliveryInv /\ [Next]_vars =>
        [Step \/ UNCHANGED <<attempt, pc, polls>>]_vars /\ [Step => Advances]_vars
  BY <1>1, <1>2
<1> QED
  BY <1>3, DeliveryInvHolds, PTL DEF Spec, EveryStepAdvances
=============================================================================
