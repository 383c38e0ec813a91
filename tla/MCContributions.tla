-------------------------- MODULE MCContributions --------------------------
(* A pod that starts on 1 January.                                         *)
EXTENDS Contributions, Gregorian, TLC

MCLastMonth == 12
MCMonthStart == FirstDays(MCLastMonth + 1)
Symmetry ==
  Permutations(Members) \cup Permutations(Intents) \cup Permutations(Webhooks)
=============================================================================
