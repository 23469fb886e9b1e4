----------------------------- MODULE Worktrees -----------------------------
(***************************************************************************)
(* The git worktrees of a session's project: who creates and removes them,  *)
(* which one the session has selected, and the badge that follows the agent *)
(* through them.                                                            *)
(*                                                                          *)
(* Source: src/src/core/cwd_tracking.py, core/mcp_bridge.py,                *)
(* executors/worktree.py, api/routes/worktrees.py, api/routes/mcp.py, and   *)
(* the call sites in core/prompt_router.py and core/agent_*.py.             *)
(*                                                                          *)
(* One session with a project, one tool call of the LLM or of an agent at a *)
(* time.  A path is a sequence of names, a name a sequence of letters: the  *)
(* code compares the text of paths.  A worktree's operations run in a       *)
(* thread; a lifecycle call is one step here (SessionLifecycle has its      *)
(* awaits).                                                                 *)
(***************************************************************************)
EXTENDS Integers, SequencesExt

CONSTANTS
    Branches,    \* names of worktrees
    MaxTreeOps,  \* bound: what clients, models and agents do
    TreeEnv      \* what else happens: a subset of AllTreeEnv

AllTreeEnv == {"http", "patch", "lifecycle", "tracking"}

ASSUME WorktreesAssumption ==
    /\ \A b \in Branches : b \in Seq({"a", "b"}) \ {<<>>}
    /\ MaxTreeOps \in Nat
    /\ TreeEnv \subseteq AllTreeEnv

VARIABLES
    trees,     \* the branches that have a worktree on disk
    listCache,   \* _worktree_cache for the project: live or expired, the paths
    place,     \* metadata: agent_cwd, selected_worktree_path, the badge
    seat,      \* the session: status, busy, the agent, its bridge token
    toolRule,  \* the session's cached rule for the worktree tool
    treeCall,  \* the call of the worktree tool in progress
    command,   \* the git worktree command the agent has announced
    treeOps    \* how many operations there were

treeVars == <<trees, listCache, place, seat, toolRule, treeCall, command, treeOps>>

(***************************************************************************)
(* Paths                                                                    *)
(***************************************************************************)
NoPath == <<>>
Project == <<<<"r">>>>
TreePath(b) == Append(Project, b)
FilePath(b) == Append(TreePath(b), <<"f">>)
Elsewhere == <<<<"o">>>>
TreePaths == {TreePath(b) : b \in Branches}
Places == TreePaths \cup {FilePath(b) : b \in Branches} \cup {Project, Elsewhere}

\* The path as the code compares it.
Text == [path \in Places |-> FlattenSeq([i \in DOMAIN path |-> <<"/">> \o path[i]])]

\* What `git worktree list` answers.
OnDisk == {Project} \cup {TreePath(b) : b \in trees}

ReadOnly == {"list", "get"}
Actions == ReadOnly \cup {"new", "attach", "detach", "init", "merge", "rm"}
NoBadge == [action |-> "none", path |-> NoPath]
NoCall == [pc |-> "no", by |-> "llm", action |-> "list", branch |-> <<>>, ok |-> FALSE]
NoCommand == [kind |-> "none", branch |-> <<>>]
Commands == {NoCommand} \cup [kind : {"add", "remove"}, branch : Branches]
Lists == SUBSET ({Project} \cup TreePaths)
Expired == [live |-> FALSE, paths |-> {}]

TreeTypeOK ==
    /\ trees \subseteq Branches
    /\ listCache \in [live : BOOLEAN, paths : Lists]
    /\ place \in [cwd : Places \cup {NoPath}, selected : Places \cup {NoPath},
                  badge : [action : Actions \cup {"none", "cd"},
                           path : TreePaths \cup {Project, NoPath}]]
    /\ seat \in [status : {"active", "paused", "ended"}, busy : BOOLEAN,
                 agent : {"none", "claude_code", "codex", "opencode", "acp"}, token : BOOLEAN]
    /\ toolRule \in {"none", "allow", "deny"}
    /\ treeCall \in [pc : {"no", "asking", "allow", "deny", "running", "result"},
                     by : {"llm", "agent"}, action : Actions, branch : Branches \cup {<<>>},
                     ok : BOOLEAN]
    /\ command \in Commands
    /\ treeOps \in 0 .. MaxTreeOps

TreeInit ==
    /\ trees \in SUBSET Branches /\ listCache = Expired
    /\ place = [cwd |-> NoPath, selected |-> NoPath, badge |-> NoBadge]
    /\ seat = [status |-> "active", busy |-> FALSE, agent |-> "none", token |-> FALSE]
    /\ toolRule = "none" /\ treeCall = NoCall /\ command = NoCommand
    /\ treeOps = 0

Counted == treeOps < MaxTreeOps /\ treeOps' = treeOps + 1

(***************************************************************************)
(* The worktree a directory is in                                           *)
(***************************************************************************)
\* _list_worktrees: what was listed within the last second, else what git says; an error
\* is remembered as a project without worktrees.
Listings(cache) == IF cache.live THEN {cache.paths} ELSE {OnDisk, {}}

\* Mutant: the anchor is forgotten.
InsideText(path, tree) == IsPrefix(Text[tree], Text[path])
Inside(path, tree) == path = tree \/ IsPrefix(Text[tree] \o <<"/">>, Text[path])

Longest(paths) ==
    IF paths = {} THEN NoPath
    ELSE CHOOSE w \in paths : \A v \in paths : Len(Text[v]) <= Len(Text[w])

\* resolve_worktree_for_cwd.
TreeOf(path, listed) == Longest({w \in listed : Inside(path, w)})

\* apply_agent_cwd: outside every worktree the badge stays.
Moved(path, listed) ==
    LET tree == TreeOf(path, listed) IN
    IF path \in {NoPath, place.cwd} THEN place
    ELSE IF tree = NoPath THEN [place EXCEPT !.cwd = path]
    ELSE [cwd |-> path, selected |-> tree, badge |-> [action |-> "cd", path |-> tree]]

\* infer_cwd_from_tool_paths: the worktree of most of the paths, of these the deepest.
MostNamed(paths, listed) ==
    LET votes == [w \in listed |-> {i \in DOMAIN paths : TreeOf(paths[i], listed) = w}]
        most == {w \in listed : /\ votes[w] # {}
                                /\ \A v \in listed : Cardinality(votes[v]) <= Cardinality(votes[w])}
    IN Longest(most)

\* infer_cwd_from_output: the worktree whose text occurs last, of these the longest.
LastNamed(output, listed) ==
    LET At(w) == {i \in DOMAIN output : IsPrefix(Text[w], Text[output[i]])}
        named == {w \in listed : At(w) # {}}
    IN Longest({w \in named : \A v \in named : \A i \in At(v) : \E j \in At(w) : i <= j})

(***************************************************************************)
(* What the agents report                                                   *)
(***************************************************************************)
Follows(agents) == "tracking" \in TreeEnv /\ seat.agent \in agents /\ Counted

\* The place an inference makes of the list, from the cache as it then is.
Tracks(cache, guess) ==
    \E listed \in Listings(cache) :
        /\ listCache' = [live |-> TRUE, paths |-> listed]
        /\ place' = Moved(guess[listed], listed)

\* parse_cwd_change: where the cd of a command leads, NoPath if it has none that lasts.
CdTargets == Places \cup {NoPath}

\* Codex and OpenCode: a command that changes the set of worktrees drops the cache, when
\* it is announced; then its cd is followed.
CommandStarts ==
    /\ Follows({"codex", "opencode"}) /\ command = NoCommand
    /\ command' \in Commands
    /\ LET cache == IF command' = NoCommand THEN listCache ELSE Expired IN
       \E target \in CdTargets :
           IF target \in {NoPath, place.cwd} THEN listCache' = cache /\ place' = place
           ELSE Tracks(cache, [listed \in Lists |-> target])
    /\ UNCHANGED <<trees, seat, toolRule, treeCall>>

\* Claude Code's Bash: no cd is looked for.
BashStarts ==
    /\ Follows({"claude_code"}) /\ command = NoCommand
    /\ command' \in Commands \ {NoCommand}
    /\ listCache' = Expired
    /\ UNCHANGED <<trees, place, seat, toolRule, treeCall>>

\* The agent's process does it, or fails.
CommandRuns ==
    /\ command # NoCommand
    /\ command' = NoCommand
    /\ trees' \in {trees, IF command.kind = "add" THEN trees \cup {command.branch}
                          ELSE trees \ {command.branch}}
    /\ UNCHANGED <<listCache, place, seat, toolRule, treeCall, treeOps>>

\* A tool call of Claude Code names files, the locations of one of ACP.
ToolNamesPaths ==
    /\ Follows({"claude_code", "acp"})
    /\ \E p, q \in Places : Tracks(listCache, [listed \in Lists |-> MostNamed(<<p, q, q>>, listed)])
    /\ UNCHANGED <<trees, seat, toolRule, treeCall, command>>

OutputNamesPaths ==
    /\ Follows({"claude_code"})
    /\ \E p, q \in Places : Tracks(listCache, [listed \in Lists |-> LastNamed(<<p, q>>, listed)])
    /\ UNCHANGED <<trees, seat, toolRule, treeCall, command>>

ListingExpires ==
    /\ listCache.live
    /\ listCache' = Expired
    /\ UNCHANGED <<trees, place, seat, toolRule, treeCall, command, treeOps>>

(***************************************************************************)
(* The worktree tool                                                        *)
(***************************************************************************)
\* The gate in front of it: nothing, a cached rule, or the user.
Gate(action) ==
    IF action \in ReadOnly \/ toolRule = "allow" THEN "running"
    ELSE IF toolRule = "deny" THEN "no"
    ELSE "asking"

Calls(by) ==
    /\ treeCall.pc = "no" /\ Counted
    /\ \E action \in Actions :
       \E b \in IF action \in {"list", "detach", "init"} THEN {<<>>} ELSE Branches :
           treeCall' = IF Gate(action) = "no" THEN NoCall
                       ELSE [pc |-> Gate(action), by |-> by, action |-> action, branch |-> b,
                             ok |-> FALSE]
    /\ seat' = [seat EXCEPT !.busy = \/ @ \/ treeCall'.pc = "asking"
                                     \/ by = "llm" /\ treeCall' # NoCall]
    /\ UNCHANGED <<trees, listCache, place, toolRule, command>>

\* _execute_tool, in a turn of the outer LLM.
LlmCalls == seat.status = "active" /\ seat.agent = "none" /\ Calls("llm")

\* McpBridge.call_tool: in the process for Claude Code, with the token of the session
\* through rcflow-mcp for Codex and ACP.  The status is tested here only.
AgentCalls ==
    /\ seat.status = "active" /\ (seat.agent = "claude_code" \/ seat.token)
    /\ Calls("agent")

\* The answer, for once or for the session; the timeout denies.
Answered ==
    /\ treeCall.pc = "asking"
    /\ \E word \in {"allow", "deny"} :
           /\ treeCall' = [treeCall EXCEPT !.pc = word]
           /\ toolRule' \in {toolRule, word}
    /\ UNCHANGED <<trees, listCache, place, seat, command, treeOps>>

\* _handle_permission_check returns: the session runs a subprocess again, whatever
\* has happened to it.  A turn of the LLM that is refused goes on (AgenticLoop).
Woken ==
    /\ treeCall.pc \in {"allow", "deny"}
    /\ treeCall' = IF treeCall.pc = "allow" THEN [treeCall EXCEPT !.pc = "running"] ELSE NoCall
    /\ seat' = [seat EXCEPT !.busy = treeCall.pc = "allow" \/ treeCall.by = "agent"]
    /\ UNCHANGED <<trees, listCache, place, toolRule, command, treeOps>>

\* What an action leaves on disk if it succeeds; merge may keep the worktree.
Outcomes(action, b) ==
    CASE action = "new" -> IF b \in trees THEN {} ELSE {trees \cup {b}}
      [] action = "merge" -> IF b \in trees THEN {trees, trees \ {b}} ELSE {}
      [] action = "rm" -> IF b \in trees THEN {trees \ {b}} ELSE {}
      [] action \in {"attach", "get"} -> IF b \in trees THEN {trees} ELSE {}
      [] OTHER -> {trees}

\* WorktreeExecutor.execute: every exception of the manager is a failed result.
Executes ==
    /\ treeCall.pc = "running"
    /\ \/ /\ trees' \in Outcomes(treeCall.action, treeCall.branch)
          /\ treeCall' = [treeCall EXCEPT !.pc = "result", !.ok = TRUE]
       \/ /\ trees' = trees
          /\ treeCall' = [treeCall EXCEPT !.pc = "result"]
    /\ UNCHANGED <<listCache, place, seat, toolRule, command, treeOps>>

\* _update_session_worktree_meta.  The path is in the result only if the call succeeded.
Noted ==
    LET badge == [action |-> treeCall.action, path |-> NoPath]
        chosen == IF treeCall.ok THEN TreePath(treeCall.branch) ELSE place.selected
    IN CASE treeCall.action \in {"new", "attach"} ->
                [place EXCEPT !.badge = badge, !.selected = chosen]
         [] treeCall.action \in {"merge", "rm"} ->
                [place EXCEPT !.badge = badge, !.selected = NoPath]
         [] treeCall.action = "list" -> [place EXCEPT !.badge = badge]
         [] OTHER -> place

\* execute_one_shot_tool after the executor; the turn of the LLM goes on and ends.
Returns ==
    /\ treeCall.pc = "result"
    /\ place' = Noted
    /\ seat' = [seat EXCEPT !.busy = @ /\ treeCall.by = "agent"]
    /\ treeCall' = NoCall
    /\ UNCHANGED <<trees, listCache, toolRule, command, treeOps>>

(***************************************************************************)
(* Clients                                                                  *)
(***************************************************************************)
HttpCreates ==
    /\ "http" \in TreeEnv /\ Counted
    /\ \E b \in Branches \ trees : trees' = trees \cup {b}
    /\ UNCHANGED <<listCache, place, seat, toolRule, treeCall, command>>

\* DELETE, and a merge that does not keep the worktree.
HttpRemoves ==
    /\ "http" \in TreeEnv /\ Counted
    /\ \E b \in trees : trees' = trees \ {b}
    /\ UNCHANGED <<listCache, place, seat, toolRule, treeCall, command>>

\* PATCH .../worktree takes any path.
ClientSelects ==
    /\ "patch" \in TreeEnv /\ Counted
    /\ \E path \in Places \cup {NoPath} : place' = [place EXCEPT !.selected = path]
    /\ UNCHANGED <<trees, listCache, seat, toolRule, treeCall, command>>

\* The path a prompt brings counts only where none is selected.
PromptSelects ==
    /\ "patch" \in TreeEnv /\ place.selected = NoPath /\ Counted
    /\ \E path \in TreePaths : place' = [place EXCEPT !.selected = path]
    /\ UNCHANGED <<trees, listCache, seat, toolRule, treeCall, command>>

(***************************************************************************)
(* The agent and the session                                                *)
(***************************************************************************)
\* An agent starts in the selected worktree, if there is one, else in the project or where
\* the LLM says (Codex, OpenCode and ACP); what is no directory is refused.
AgentStarts ==
    /\ seat.status = "active" /\ seat.agent = "none" /\ ~ seat.busy /\ Counted
    /\ \E a \in {"claude_code", "codex", "opencode", "acp"}, tok \in BOOLEAN,
          dir \in OnDisk \cup {Elsewhere} :
           /\ place.selected # NoPath => dir = place.selected
           /\ place.selected = NoPath /\ a = "claude_code" => dir = Project
           /\ seat' = [seat EXCEPT !.agent = a, !.busy = TRUE,
                                   !.token = tok /\ a \in {"codex", "acp"}]
           /\ place' = [place EXCEPT !.cwd = dir]
    /\ UNCHANGED <<trees, listCache, toolRule, treeCall, command>>

AgentTurnEnds ==
    /\ seat.agent # "none" /\ seat.busy /\ treeCall.pc = "no" /\ command = NoCommand
    /\ seat' = [seat EXCEPT !.busy = FALSE]
    /\ UNCHANGED <<trees, listCache, place, toolRule, treeCall, command, treeOps>>

AgentPrompted ==
    /\ seat.status = "active" /\ seat.agent # "none" /\ ~ seat.busy /\ Counted
    /\ seat' = [seat EXCEPT !.busy = TRUE]
    /\ UNCHANGED <<trees, listCache, place, toolRule, treeCall, command>>

\* Pause, interrupt, cancel and end take the agent and its token.  Pause and cancel deny
\* what is asked; a call of the proxy is not cancelled with the agent, one of
\* the SDK may be.
Lifecycle(kind, status) ==
    /\ "lifecycle" \in TreeEnv /\ seat.status # "ended" /\ Counted
    /\ seat' = [status |-> status, busy |-> FALSE, agent |-> "none", token |-> FALSE]
    /\ command' = NoCommand
    /\ \/ treeCall' = IF kind \in {"pause", "cancel"} /\ treeCall.pc = "asking"
                      THEN [treeCall EXCEPT !.pc = "deny"] ELSE treeCall
       \/ seat.agent = "claude_code" /\ treeCall.pc = "asking" /\ treeCall' = NoCall
    /\ UNCHANGED <<trees, listCache, place, toolRule>>

Pauses == seat.status = "active" /\ Lifecycle("pause", "paused")
Interrupts == seat.status = "active" /\ Lifecycle("interrupt", "active")
Cancels == Lifecycle("cancel", "ended")
Ends == Lifecycle("end", "ended")

Resumes ==
    /\ seat.status = "paused" /\ Counted
    /\ seat' = [seat EXCEPT !.status = "active"]
    /\ UNCHANGED <<trees, listCache, place, toolRule, treeCall, command>>

TreeNext ==
    \/ CommandStarts \/ BashStarts \/ CommandRuns \/ ToolNamesPaths \/ OutputNamesPaths
    \/ ListingExpires
    \/ LlmCalls \/ AgentCalls \/ Answered \/ Woken \/ Executes \/ Returns
    \/ HttpCreates \/ HttpRemoves \/ ClientSelects \/ PromptSelects
    \/ AgentStarts \/ AgentTurnEnds \/ AgentPrompted
    \/ Pauses \/ Interrupts \/ Cancels \/ Ends \/ Resumes

TreeSpec == TreeInit /\ [][TreeNext]_treeVars

(***************************************************************************)
(* Properties                                                               *)
(***************************************************************************)
\* When what an agent does moves it, the badge and the selection go to the innermost of
\* the listed worktrees that hold the new directory, name by name, and stay where they
\* are when none does: never to a sibling whose name begins alike, an outer
\* worktree, or one that was dropped from the list.
TrackedDeepest ==
    [][LET holding == {w \in listCache'.paths : IsPrefix(w, place'.cwd)} IN
       place'.cwd # place.cwd /\ seat' = seat =>
           IF holding = {}
           THEN place'.badge = place.badge /\ place'.selected = place.selected
           ELSE /\ place'.badge.action = "cd" /\ place'.badge.path = place'.selected
                /\ place'.selected \in holding
                /\ \A w \in holding : IsPrefix(w, place'.selected)]_treeVars

(***************************************************************************)
(* Claims of the repository that the code does not keep (README, section 6).*)
(***************************************************************************)
\* "Updated on every successful mutating worktree call" (prompt_router.py:2020).
NotedIfDone ==
    [][treeCall.pc = "result" /\ ~ treeCall.ok /\ treeCall.action \notin ReadOnly
           /\ treeCall'.pc = "no" => place' = place]_treeVars

\* "Clear stale selected path when the worktree has been merged or removed" (849).
StaleCleared ==
    [][treeCall.pc = "no" /\ command = NoCommand /\ place.selected \in OnDisk
           => place'.selected # place.selected \/ place.selected \in OnDisk']_treeVars

\* "(deselect the worktree)" (docs/design/executors.md:197).
DetachDeselects ==
    [][treeCall.pc = "result" /\ treeCall.action = "detach" /\ treeCall.ok
           /\ treeCall'.pc = "no" => place'.selected = NoPath]_treeVars

\* "picks up the fresh state without waiting for the TTL" (cwd_tracking.py:389).
MutationSeen ==
    [][command # NoCommand /\ command' = NoCommand /\ trees' # trees
           => ~ listCache'.live]_treeVars

\* "we only count *exact* matches" (cwd_tracking.py:351).
OutputExact ==
    \A p \in Places : LastNamed(<<p>>, listCache.paths)
                          \in {NoPath} \cup {w \in listCache.paths : IsPrefix(w, p)}

\* "Reject only sessions that are no longer runnable" (mcp_bridge.py:160).
RunnableOnly ==
    [][treeCall.pc = "allow" /\ treeCall'.pc = "running" /\ treeCall.by = "agent"
           => seat.status = "active"]_treeVars

\* "immediately ready to accept new prompts" (session_lifecycle.py:562).
InterruptFrees ==
    seat.status = "active" /\ seat.agent = "none" /\ treeCall.pc = "no" => ~ seat.busy

\* "always requires explicit user approval before execution" (prompt_router.py:1871).
AlwaysAsked ==
    [][treeCall.pc = "no" /\ treeCall'.pc = "running" => treeCall'.action \in ReadOnly]_treeVars
=============================================================================
