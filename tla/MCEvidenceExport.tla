-------------------------- MODULE MCEvidenceExport --------------------------
(* Small instances of EvidenceExport for TLC.                              *)
EXTENDS EvidenceExport, TLC

CONSTANTS a1, a2, e1, e2

\* Alarm 4 is out of reach of a window that starts at watermark 2, and alarm 2
\* of one that starts at watermark 4; alarm 2 after watermark 3 is accepted.
MCEventTime == e1 :> 2 @@ e2 :> 3
MCAlarms == {2, 3, 4}

\* TLC needs EvidenceExport's UsesLedger(e) without a parameter.
LedgerOfE1 == INSTANCE AtomicLedger
    WITH Callers <- Invocations, document <- Document(e1),
         stage <- [i \in Invocations |-> StageWith(e1, i)]
LedgerOfE2 == INSTANCE AtomicLedger
    WITH Callers <- Invocations, document <- Document(e2),
         stage <- [i \in Invocations |-> StageWith(e2, i)]

\* And its UsesDelivery(i).
DeliveryOfA1 == INSTANCE AtomicDelivery
    WITH batch <- BatchInDelivery(a1), failures <- FailedAttempts(a1), outcome <- Verdict(a1)
DeliveryOfA2 == INSTANCE AtomicDelivery
    WITH batch <- BatchInDelivery(a2), failures <- FailedAttempts(a2), outcome <- Verdict(a2)

\* The exports ask each event's ledger once, under one reading of the clock,
\* and mark only what they hold: they use it as AtomicLedger allows.
BothUseLedger == LedgerOfE1!Spec /\ LedgerOfE2!Spec

\* Each delivers one batch at a time, marks it only after a success and makes
\* no attempt beyond the last: they deliver as AtomicDelivery allows.
BothUseDelivery == DeliveryOfA1!Spec /\ DeliveryOfA2!Spec

\* What the other modules rely on, and what this one relies on, fits: ledger
\* calls and deliveries as promised, and no more done to the stores than
\* EvidenceReplay assumes.
Composes == BothUseLedger /\ BothUseDelivery /\ ExportsKeepToTheirPart

Symmetric == Permutations(Invocations)
=============================================================================
