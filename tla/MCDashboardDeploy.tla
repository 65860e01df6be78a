------------------------- MODULE MCDashboardDeploy -------------------------
(* A small instance of DashboardDeploy for TLC. *)
EXTENDS DashboardDeploy, TLC

Symmetry == Permutations(Runs) \cup Permutations(Titles)
=============================================================================
