----------------------------- MODULE MCSkipList -----------------------------
(* Instances of SkipList for TLC. *)
EXTENDS SkipList, TLC

Symmetry == Permutations(Threads) \cup Permutations(Values)
=============================================================================
