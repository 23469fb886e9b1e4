---------------------------- MODULE MCPermissions ----------------------------
(* Three calls of two tools: two writes, one of them below a directory that a *)
(* client may choose as a prefix, and a bridged call of the other tool.       *)
EXTENDS Permissions

CONSTANTS inner, outer, bridge

MCRequests == {inner, outer, bridge}
MCToolOf == [r \in MCRequests |-> IF r = bridge THEN "worktree" ELSE "Write"]
MCPathOf == [r \in MCRequests |-> IF r = inner THEN "project/a" ELSE "elsewhere"]
MCAbove == [p \in {"project/a", "elsewhere"} |-> IF p = "project/a" THEN {"project"} ELSE {}]
=============================================================================
