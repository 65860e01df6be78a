------------------------- MODULE MCSigmaConverter -------------------------
(* A small instance of SigmaConverter for TLC.                             *)
EXTENDS SigmaConverter

CONSTANTS r1, s1
=============================================================================
