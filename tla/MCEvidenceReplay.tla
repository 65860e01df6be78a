-------------------------- MODULE MCEvidenceReplay --------------------------
(* Instance of EvidenceReplay: two replays of the dead letters of two      *)
(* exports, over two events and three watermarks.                          *)
EXTENDS EvidenceReplay, TLC

CONSTANTS p1, p2, x1, x2, e1, e2

Symmetric == Permutations(Replays) \cup Permutations(Exports) \cup Permutations(Events)
=============================================================================
