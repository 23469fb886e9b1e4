----------------------------- MODULE MCWakeups -----------------------------
(* Instances of Wakeups for TLC. *)
EXTENDS Wakeups, TLC

CONSTANTS w1, w2, c1, c2

Symmetry == Permutations(Wakes) \cup Permutations(Callers)
=============================================================================
