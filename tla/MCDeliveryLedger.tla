-------------------------- MODULE MCDeliveryLedger --------------------------
(* Instance of DeliveryLedger: three callers race for one key.             *)
EXTENDS DeliveryLedger, TLC

CONSTANTS c1, c2, c3

Symmetric == Permutations(Callers)
=============================================================================
