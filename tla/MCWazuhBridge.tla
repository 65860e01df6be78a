---------------------------- MODULE MCWazuhBridge ----------------------------
(* A small instance of WazuhBridge for TLC. *)
EXTENDS WazuhBridge, TLC

MCTimestamp == 1 :> 0 @@ 2 :> 1 @@ 3 :> 1 @@ 4 :> 3
MCSourceOf == 1 :> 1 @@ 2 :> 2 @@ 3 :> 1 @@ 4 :> 1
=============================================================================
