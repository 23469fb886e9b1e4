------------------------ MODULE MCSessionPersistence ------------------------
(* Instances of SessionPersistence for TLC. *)
EXTENDS SessionPersistence, TLC

CONSTANTS a1, a2, r1, r2

Symmetry == Permutations(Archivers) \cup Permutations(Restorers)
=============================================================================
