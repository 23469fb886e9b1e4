--------------------------- MODULE MCPendingQueue ---------------------------
(* Instances of PendingQueue for TLC. *)
EXTENDS PendingQueue

Perms == Permutations(Prompts) \cup Permutations(Senders)
=============================================================================
