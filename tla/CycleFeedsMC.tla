---------------------------- MODULE CycleFeedsMC ----------------------------
(* CycleFeeds for TLC: two cities that cross midnight half way. *)
EXTENDS CycleFeeds, TLC

CONSTANTS c1, c2

MCSymmetry == Permutations(Cities)
=============================================================================
