---------------------------- MODULE MCForgeGateway ----------------------------
(* A small instance of ForgeGateway for TLC. *)
EXTENDS ForgeGateway
=============================================================================
