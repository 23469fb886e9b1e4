------------------------ MODULE MCSessionLifecycle ------------------------
(* Small instances of SessionLifecycle. *)
EXTENDS SessionLifecycle, TLC

CONSTANTS c1, c2, p1, p2

\* Bound: once a second agent was made, a resume is the only call.
CallsOneAgent == made' <= 1 \/ \A c \in Callers : call'[c].op \in {"none", "resume"}

Calls == Permutations(Callers) \cup Permutations(Prompters)
=============================================================================
