----------------------------- MODULE MCSessions -----------------------------
(* The parts of a session that share no state at this level: the tasks that  *)
(* run the turns of Codex, OpenCode and ACP, the stream of Claude Code, the   *)
(* LLM loop, the output that clients see, and the worktrees of the project.   *)
(* Init chooses the one that runs, the others stay where they begin, and each *)
(* property speaks of one.                                                    *)
EXTENDS TurnAgents, OutputStream, AgenticLoop, AgentStream, Worktrees

CONSTANT MaxHistory     \* bound: messages of the LLM's history
VARIABLE part

vars == <<part, agentVars, outVars, loopVars, messageVars, treeVars>>

\* A part that does not run has one initial state.
Init ==
    /\ part \in {"turns", "output", "loop", "stream", "worktrees"}
    /\ AgentInit /\ (part # "turns" => agent = "codex")
    /\ OutInit
    /\ LoopInit /\ (part # "loop" => provider = "none")
    /\ AgentStreamInit
    /\ TreeInit /\ (part # "worktrees" => trees = {})

\* The part s runs and no other does.
Only(s) ==
    /\ part = s /\ UNCHANGED part
    /\ s # "turns" => UNCHANGED agentVars
    /\ s # "output" => UNCHANGED outVars
    /\ s # "loop" => UNCHANGED loopVars
    /\ s # "stream" => UNCHANGED messageVars
    /\ s # "worktrees" => UNCHANGED treeVars

Next ==
    \/ Only("turns") /\ AgentNext
    \/ Only("output") /\ OutNext
    \/ Only("loop") /\ LoopNext /\ Len(history') <= MaxHistory
    \/ Only("stream") /\ AgentStreamNext
    \/ Only("worktrees") /\ TreeNext

\* Names of which one begins the other.
TwoBranches == {<<"a">>, <<"a", "b">>}

Spec == Init /\ [][Next]_vars

\* The part that runs keeps its type.
TypesOK ==
    /\ part = "turns" => AgentTypeOK
    /\ part = "output" => OutTypeOK
    /\ part = "loop" => LoopTypeOK
    /\ part = "stream" => AgentStreamTypeOK
    /\ part = "worktrees" => TreeTypeOK
=============================================================================
