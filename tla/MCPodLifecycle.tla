--------------------------- MODULE MCPodLifecycle ---------------------------
(* One plan from late December over the start windows of January.          *)
EXTENDS PodLifecycle, Gregorian, TLC

MCLastMonth == 4
MCMonthStart == FirstDays(MCLastMonth + 1)
Symmetry == Permutations(Accounts) \cup Permutations(Joiners)
=============================================================================
