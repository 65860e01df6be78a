------------------------- MODULE MCEvidenceDelivery -------------------------
(* Instance of EvidenceDelivery: a batch of two events.                   *)
EXTENDS EvidenceDelivery, TLC

CONSTANTS e1, e2
=============================================================================
