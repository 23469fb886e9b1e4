---------------------------- MODULE TurnAgents ----------------------------
(***************************************************************************)
(* The agents other than Claude Code: Codex and OpenCode, which run one    *)
(* process per turn and resume by an id, and the agents spoken to over the *)
(* Agent Client Protocol, whose process lives across turns.                *)
(*                                                                         *)
(* Source: src/src/core/agent_codex.py, agent_opencode.py, agent_acp.py,   *)
(* core/agents/base.py, executors/codex.py, opencode.py, oneshot_cli.py,   *)
(* acp.py, and what core/session_lifecycle.py does to them.                *)
(*                                                                         *)
(* One session.  A turn is a stream task; it is named by the order of its  *)
(* creation, and so is the process it spawns.  Killing a process and       *)
(* dropping it from its executor is one step: everyone who waits for the   *)
(* same process is woken together, before anything new is spawned.         *)
(***************************************************************************)
EXTENDS Integers, FiniteSets

CONSTANTS
    MaxTurnTasks,  \* bound: stream tasks of the session
    MaxExecutors,  \* bound: executor objects built for it
    AgentEnv       \* what the environment does: a subset of AllAgentEnv

AllAgentEnv ==
    {"pause", "interrupt", "cancel", "end",
     "overtake",  \* a prompt is handled while a drain has claimed another
     "overlap"}   \* a call is still tearing down when a resume or an ACP turn comes in

ASSUME AgentAssumption ==
    /\ MaxTurnTasks \in Nat \ {0} /\ MaxExecutors \in Nat \ {0}
    /\ AgentEnv \subseteq AllAgentEnv

VARIABLES
    agent,    \* "codex", "opencode" or "acp"
    sess,     \* the session: status, activity, completed_while_paused
    resumeId, \* the metadata holds the thread or session id to resume
    token,    \* the session has a valid MCP bridge token
    tool,     \* the subprocess indicator names a tool
    exec,     \* the session's executor attribute, 0 for None
    built,    \* how many executors have been built
    owned,    \* the process an executor holds, 0 for None
    alive,    \* the processes that run
    turn,     \* the stream tasks
    cur,      \* the session's stream-task attribute, 0 for None
    claimed,  \* a drain has taken a message off the queue
    kill      \* the lifecycle call that is tearing down

agentVars ==
    <<agent, sess, resumeId, token, tool, exec, built, owned, alive, turn, cur, claimed, kill>>

Turns == 1 .. MaxTurnTasks
Executors == 1 .. MaxExecutors
OneShot == agent # "acp"

NoTurn == [pc |-> "none", ex |-> 0, src |-> 0, ok |-> FALSE]
Live(t) == turn[t].pc \notin {"none", "done"}
LiveTurns == {t \in Turns : Live(t)}
NoKill == [kind |-> "none", pc |-> "no", ex |-> 0]

AgentTypeOK ==
    /\ agent \in {"codex", "opencode", "acp"}
    /\ sess \in [status : {"active", "paused", "done"}, busy : BOOLEAN, cwp : BOOLEAN]
    /\ {resumeId, token, tool, claimed} \subseteq BOOLEAN
    /\ exec \in 0 .. MaxExecutors /\ built \in 0 .. MaxExecutors
    /\ owned \in [Executors -> 0 .. MaxTurnTasks]
    /\ alive \subseteq Turns
    /\ turn \in [Turns -> [pc : {"none", "first", "resume", "spawn", "handshake", "read",
                                 "exit", "tail", "end", "drop", "done"},
                           ex : 0 .. MaxExecutors, src : 0 .. MaxTurnTasks, ok : BOOLEAN]]
    /\ cur \in 0 .. MaxTurnTasks
    /\ kill \in [kind : {"none", "pause", "interrupt", "cancel", "end", "finalize"},
                 pc : {"no", "kill", "join", "finish"}, ex : 0 .. MaxExecutors]

AgentInit ==
    /\ agent \in {"codex", "opencode", "acp"}
    /\ sess = [status |-> "active", busy |-> FALSE, cwp |-> FALSE]
    /\ resumeId = FALSE /\ token = FALSE /\ tool = FALSE /\ claimed = FALSE
    /\ exec = 0 /\ built = 0 /\ cur = 0
    /\ owned = [x \in Executors |-> 0]
    /\ alive = {}
    /\ turn = [t \in Turns |-> NoTurn]
    /\ kill = NoKill

(***************************************************************************)
(* Helpers                                                                 *)
(***************************************************************************)
\* is_busy_for_queue.
Busy == (exec # 0 /\ cur # 0 /\ Live(cur)) \/ sess.status = "paused" \/ sess.busy

Unused == {t \in Turns : turn[t].pc = "none"}
NextTurn == CHOOSE t \in Unused : \A u \in Unused : t <= u

\* stop_process of executor x: kill the process tree, wait, forget the process.
StopProcess(x) ==
    /\ alive' = IF x = 0 THEN alive ELSE alive \ {owned[x]}
    /\ owned' = IF x = 0 THEN owned ELSE [owned EXCEPT ![x] = 0]

\* complete(): a paused session only notes that it should have ended.
Complete == IF sess.status = "paused" THEN [sess EXCEPT !.cwp = TRUE]
            ELSE [sess EXCEPT !.status = "done", !.busy = FALSE]

Goto(t, pc) == turn' = [turn EXCEPT ![t].pc = pc]
Outcome(t, pc, ok) == turn' = [turn EXCEPT ![t].pc = pc, ![t].ok = ok]

(***************************************************************************)
(* Starting an agent from a turn of the outer LLM                          *)
(***************************************************************************)
StartAgent(tok) ==
    /\ sess.status = "active" /\ exec = 0 /\ ~ Busy /\ kill.pc = "no"
    /\ Unused # {} /\ built < MaxExecutors
    /\ claimed => "overtake" \in AgentEnv
    /\ built' = built + 1 /\ exec' = built + 1
    /\ sess' = [sess EXCEPT !.busy = TRUE]
    /\ turn' = [turn EXCEPT ![NextTurn] = [pc |-> "first", ex |-> built + 1, src |-> 0, ok |-> FALSE]]
    /\ cur' = NextTurn
    /\ tool' = FALSE
    /\ token' = (token \/ tok)
    /\ UNCHANGED <<agent, resumeId, owned, alive, claimed, kill>>

\* _configure_mcp_bridge: a token, if the bridge is to be exposed and registered.
StartCodex == agent = "codex" /\ \E tok \in BOOLEAN : StartAgent(tok)
StartOpenCode == agent = "opencode" /\ StartAgent(FALSE)
StartAcp == agent = "acp" /\ \E tok \in BOOLEAN : StartAgent(tok)

(***************************************************************************)
(* Following up                                                            *)
(***************************************************************************)
\* _forward_to_oneshot_agent: no earlier task is cancelled or awaited.
ForwardOneShot ==
    /\ OneShot /\ exec # 0 /\ sess.status # "paused" /\ Unused # {}
    /\ sess' = [sess EXCEPT !.busy = TRUE]
    /\ turn' = [turn EXCEPT ![NextTurn] = [pc |-> "resume", ex |-> exec, src |-> 0, ok |-> FALSE]]
    /\ cur' = NextTurn
    /\ tool' = FALSE

ForwardAcp ==
    /\ ~ OneShot /\ exec # 0 /\ sess.status # "paused" /\ Unused # {}
    /\ sess' = [sess EXCEPT !.busy = TRUE]
    /\ turn' = [turn EXCEPT ![NextTurn] = [pc |-> "resume", ex |-> exec, src |-> 0, ok |-> FALSE]]
    /\ cur' = NextTurn
    /\ tool' = FALSE

\* handle_prompt: the busy test and the forward are one step.
Prompt ==
    /\ sess.status = "active" /\ ~ Busy
    /\ claimed => "overtake" \in AgentEnv
    /\ ForwardOneShot \/ ForwardAcp
    /\ UNCHANGED <<agent, resumeId, token, exec, built, owned, alive, claimed, kill>>

\* The drain tests, claims a message, awaits, and delivers whatever is busy by then.
DrainClaims ==
    /\ sess.status = "active" /\ ~ Busy /\ ~ claimed /\ exec # 0
    /\ claimed' = TRUE
    /\ UNCHANGED <<agent, sess, resumeId, token, tool, exec, built, owned, alive, turn, cur, kill>>

DrainForwards ==
    /\ claimed
    /\ claimed' = FALSE
    /\ \/ sess.status = "active" /\ (ForwardOneShot \/ ForwardAcp)
       \* Queued again, or left to the outer LLM.
       \/ (sess.status # "active" \/ exec = 0) /\ UNCHANGED <<sess, turn, cur, tool>>
    /\ UNCHANGED <<agent, resumeId, token, exec, built, owned, alive, kill>>

(***************************************************************************)
(* A turn of a one-shot agent                                              *)
(***************************************************************************)
\* restart_with_prompt needs the id of an earlier turn; both ways of starting kill
\* what the executor still runs; who waits for a kill in progress is woken after its
\* caller.
Begin(t) ==
    /\ turn[t].pc \in {"first", "resume"}
    /\ kill.pc = "join" => kill.ex # turn[t].ex
    /\ IF turn[t].pc = "resume" /\ ~ resumeId
       THEN Outcome(t, "tail", FALSE) /\ UNCHANGED <<owned, alive>>
       ELSE Goto(t, "spawn") /\ StopProcess(turn[t].ex)
    /\ UNCHANGED <<agent, sess, resumeId, token, tool, exec, built, cur, claimed, kill>>

BeginCodex(t) == agent = "codex" /\ Begin(t)
BeginOpenCode(t) == agent = "opencode" /\ Begin(t)

\* The executor holds the process as soon as it exists; if it has exited at once the
\* turn raises.
CodexSpawns(t) ==
    /\ agent = "codex" /\ turn[t].pc = "spawn"
    /\ \/ /\ owned' = [owned EXCEPT ![turn[t].ex] = t]
          /\ \/ alive' = alive \cup {t} /\ Goto(t, "handshake")
             \/ alive' = alive /\ Outcome(t, "tail", FALSE)
       \/ UNCHANGED <<owned, alive>> /\ Outcome(t, "tail", FALSE)
    /\ UNCHANGED <<agent, sess, resumeId, token, tool, exec, built, cur, claimed, kill>>

\* OpenCode's prompt is an argument of the command.
OpenCodeSpawns(t) ==
    /\ agent = "opencode" /\ turn[t].pc = "spawn"
    /\ \/ /\ owned' = [owned EXCEPT ![turn[t].ex] = t]
          /\ \/ /\ alive' = alive \cup {t}
                /\ turn' = [turn EXCEPT ![t].pc = "read", ![t].src = t]
             \/ alive' = alive /\ Outcome(t, "tail", FALSE)
       \/ UNCHANGED <<owned, alive>> /\ Outcome(t, "tail", FALSE)
    /\ UNCHANGED <<agent, sess, resumeId, token, tool, exec, built, cur, claimed, kill>>

\* The prompt goes to the stdin of whatever process the executor holds by now.
WritePrompt(t) ==
    /\ agent = "codex" /\ turn[t].pc = "handshake"
    /\ LET p == owned[turn[t].ex] IN
       IF p = 0 \/ p \notin alive THEN Outcome(t, "tail", FALSE)
       ELSE turn' = [turn EXCEPT ![t].pc = "read", ![t].src = p]
    /\ UNCHANGED <<agent, sess, resumeId, token, tool, exec, built, owned, alive, cur, claimed, kill>>

Reads(t, a) == agent = a /\ turn[t].pc = "read" /\ turn[t].src \in alive

\* thread.started: kept by the executor, and in the metadata if the session still has one.
CodexThread(t) ==
    /\ Reads(t, "codex")
    /\ resumeId' = (resumeId \/ exec # 0)
    /\ UNCHANGED <<agent, sess, token, tool, exec, built, owned, alive, turn, cur, claimed, kill>>

\* item.started names the tool, item.completed of any tool takes the name back.
CodexItem(t) ==
    /\ Reads(t, "codex")
    /\ tool' \in BOOLEAN
    /\ UNCHANGED <<agent, sess, resumeId, token, exec, built, owned, alive, turn, cur, claimed, kill>>

\* turn.completed and turn.failed end the reading; "error" does not.  Only the two that
\* report a failure clear the indicator.
CodexEnds(t) ==
    /\ Reads(t, "codex")
    /\ sess' = [sess EXCEPT !.busy = FALSE]
    /\ \/ Outcome(t, "exit", TRUE) /\ tool' = tool
       \/ tool' = FALSE /\ (Outcome(t, "exit", FALSE) \/ turn' = turn)
    /\ UNCHANGED <<agent, resumeId, token, exec, built, owned, alive, cur, claimed, kill>>

OpenCodeStep(t) ==
    /\ Reads(t, "opencode")
    /\ resumeId' = (resumeId \/ exec # 0)
    /\ UNCHANGED <<agent, sess, token, tool, exec, built, owned, alive, turn, cur, claimed, kill>>

\* One event is the call and its result; only a completed one takes the tool back.
OpenCodeTool(t) ==
    /\ Reads(t, "opencode")
    /\ tool' \in BOOLEAN
    /\ UNCHANGED <<agent, sess, resumeId, token, exec, built, owned, alive, turn, cur, claimed, kill>>

\* step_finish with reason "stop", whatever the indicator names, or an error.
OpenCodeEnds(t) ==
    /\ Reads(t, "opencode")
    /\ \/ Outcome(t, "exit", TRUE) /\ sess' = [sess EXCEPT !.busy = FALSE]
       \/ Outcome(t, "exit", FALSE) /\ sess' = sess
    /\ UNCHANGED <<agent, resumeId, token, tool, exec, built, owned, alive, cur, claimed, kill>>

\* The end of the pipe, however the process died.
EndOfFile(t) ==
    /\ OneShot /\ turn[t].pc = "read" /\ turn[t].src \notin alive
    /\ Outcome(t, "exit", FALSE)
    /\ UNCHANGED <<agent, sess, resumeId, token, tool, exec, built, owned, alive, cur, claimed, kill>>

\* _wait_and_log_exit: at most two seconds for the process and two for its stderr.
ExitAwaited(t) ==
    /\ turn[t].pc = "exit"
    /\ Goto(t, "tail")
    /\ UNCHANGED <<agent, sess, resumeId, token, tool, exec, built, owned, alive, cur, claimed, kill>>

\* After the relay: the session ends, or the process is stopped and the queue drained.
\* Mutant: the process is left running.
SettleKeepsProcess(t) ==
    /\ OneShot /\ turn[t].pc = "tail"
    /\ IF turn[t].ok
       THEN Goto(t, "done") /\ UNCHANGED <<owned, alive>>
       ELSE Goto(t, "end") /\ UNCHANGED <<owned, alive>>
    /\ UNCHANGED <<agent, sess, resumeId, token, tool, exec, built, cur, claimed, kill>>
SettleOneShot(t) ==
    /\ OneShot /\ turn[t].pc = "tail"
    /\ IF turn[t].ok
       THEN Goto(t, "done") /\ StopProcess(turn[t].ex)
       ELSE Goto(t, "end") /\ UNCHANGED <<owned, alive>>
    /\ UNCHANGED <<agent, sess, resumeId, token, tool, exec, built, cur, claimed, kill>>

(***************************************************************************)
(* A turn of an ACP agent                                                  *)
(***************************************************************************)
\* _ensure_session: use the process, or drop what is left of it and spawn another.
EnsureAcp(t) ==
    /\ ~ OneShot /\ turn[t].pc \in {"first", "resume"}
    /\ kill.pc = "join" => "overlap" \in AgentEnv
    /\ LET x == turn[t].ex IN
       IF owned[x] # 0 /\ owned[x] \in alive
       THEN turn' = [turn EXCEPT ![t].pc = "read", ![t].src = owned[x]] /\ UNCHANGED <<owned, alive>>
       ELSE Goto(t, "spawn") /\ StopProcess(x)
    /\ UNCHANGED <<agent, sess, resumeId, token, tool, exec, built, cur, claimed, kill>>

AcpSpawns(t) ==
    /\ ~ OneShot /\ turn[t].pc = "spawn"
    /\ \/ /\ owned' = [owned EXCEPT ![turn[t].ex] = t] /\ alive' = alive \cup {t}
          /\ turn' = [turn EXCEPT ![t].pc = "handshake", ![t].src = t]
       \/ UNCHANGED <<owned, alive>> /\ Outcome(t, "tail", FALSE)
    /\ UNCHANGED <<agent, sess, resumeId, token, tool, exec, built, cur, claimed, kill>>

\* initialize, then session/load or session/new; a failure is an error event.
AcpHandshake(t) ==
    /\ ~ OneShot /\ turn[t].pc = "handshake"
    /\ \/ turn[t].src \in alive /\ Goto(t, "read")
       \/ Outcome(t, "tail", FALSE)
    /\ UNCHANGED <<agent, sess, resumeId, token, tool, exec, built, owned, alive, cur, claimed, kill>>

\* A call names its tool, the end of any call takes the name back; any chunk persists the
\* session id.
AcpTool(t) ==
    /\ Reads(t, "acp")
    /\ resumeId' = TRUE
    /\ tool' \in BOOLEAN
    /\ UNCHANGED <<agent, sess, token, exec, built, owned, alive, turn, cur, claimed, kill>>

\* The prompt is answered: turn_end, whatever the stop reason and the indicator.
AcpTurnEnd(t) ==
    /\ Reads(t, "acp")
    /\ resumeId' = TRUE
    /\ sess' = [sess EXCEPT !.busy = FALSE]
    /\ Outcome(t, "tail", TRUE)
    /\ UNCHANGED <<agent, token, tool, exec, built, owned, alive, cur, claimed, kill>>

\* It fails, or does not come in half an hour.
AcpTurnFails(t) ==
    /\ agent = "acp" /\ turn[t].pc = "read"
    /\ Outcome(t, "tail", FALSE)
    /\ UNCHANGED <<agent, sess, resumeId, token, tool, exec, built, owned, alive, cur, claimed, kill>>

SettleAcp(t) ==
    /\ ~ OneShot /\ turn[t].pc = "tail"
    /\ Goto(t, IF turn[t].ok THEN "done" ELSE "end")
    /\ UNCHANGED <<agent, sess, resumeId, token, tool, exec, built, owned, alive, cur, claimed, kill>>

(***************************************************************************)
(* The end of the session, by the stream task                              *)
(***************************************************************************)
\* _end_agent_session reads the session's executor, not the turn's, and awaits its stop.
EndAgentSession(t) ==
    /\ turn[t].pc = "end"
    /\ Goto(t, "drop")
    /\ StopProcess(exec)
    /\ UNCHANGED <<agent, sess, resumeId, token, tool, exec, built, cur, claimed, kill>>

DropAgent(t) ==
    /\ turn[t].pc = "drop"
    /\ Goto(t, "done")
    /\ exec' = 0 /\ cur' = 0 /\ token' = FALSE /\ tool' = FALSE
    /\ sess' = Complete
    /\ UNCHANGED <<agent, resumeId, built, owned, alive, claimed, kill>>

ProcessExits ==
    \E p \in alive :
        /\ alive' = alive \ {p}
        /\ UNCHANGED <<agent, sess, resumeId, token, tool, exec, built, owned, turn, cur, claimed, kill>>

(***************************************************************************)
(* What the lifecycle calls do to the agent                                *)
(***************************************************************************)
\* A pause is marked before the first await.
CallKills(kind) ==
    /\ kill.pc = "no" /\ kind \in AgentEnv
    /\ sess.status = "active" \/ (sess.status = "paused" /\ kind \in {"cancel", "end"})
    /\ sess' = IF kind = "pause" THEN [sess EXCEPT !.status = "paused", !.busy = FALSE] ELSE sess
    /\ kill' = [kind |-> kind, pc |-> "kill", ex |-> exec]
    /\ UNCHANGED <<agent, resumeId, token, tool, exec, built, owned, alive, turn, cur, claimed>>

TeardownKills ==
    /\ kill.pc = "kill" /\ kill.ex # 0 /\ owned[kill.ex] # 0
    /\ kill' = [kill EXCEPT !.pc = "join"]
    /\ StopProcess(kill.ex)
    /\ UNCHANGED <<agent, sess, resumeId, token, tool, exec, built, turn, cur, claimed>>

\* Back from the kill, or with nothing to wait for: the attributes are cleared and the
\* task that is there is cancelled.  A spawn that is cancelled kills what it spawned.
TeardownCancels ==
    /\ kill.pc = "join" \/ (kill.pc = "kill" /\ (kill.ex # 0 => owned[kill.ex] = 0))
    /\ kill' = [kill EXCEPT !.pc = "finish"]
    /\ exec' = IF kill.ex # 0 THEN 0 ELSE exec
    /\ turn' = IF cur # 0 /\ Live(cur) THEN [turn EXCEPT ![cur].pc = "done"] ELSE turn
    /\ cur' = 0
    /\ UNCHANGED <<agent, sess, resumeId, token, tool, built, owned, alive, claimed>>

TeardownFinishes ==
    /\ kill.pc = "finish"
    /\ kill' = NoKill
    /\ token' = FALSE /\ tool' = FALSE
    /\ sess' = CASE kill.kind = "pause" -> sess
                 [] kill.kind = "interrupt" -> [sess EXCEPT !.busy = FALSE]
                 [] OTHER -> [sess EXCEPT !.status = "done", !.busy = FALSE]
    /\ UNCHANGED <<agent, resumeId, exec, built, owned, alive, turn, cur, claimed>>

\* resume_session: finish what completed meanwhile, or build an executor that resumes.
Resume ==
    /\ sess.status = "paused" /\ (kill.pc = "no" \/ "overlap" \in AgentEnv)
    /\ IF sess.cwp
       THEN /\ kill' = [kind |-> "finalize", pc |-> "kill", ex |-> exec]
            /\ sess' = [status |-> "active", busy |-> FALSE, cwp |-> FALSE]
            /\ UNCHANGED <<exec, built, token>>
       ELSE /\ sess' = [status |-> "active", busy |-> FALSE, cwp |-> FALSE]
            /\ kill' = kill
            /\ IF exec = 0 /\ resumeId /\ built < MaxExecutors
               THEN exec' = built + 1 /\ built' = built + 1
                    /\ token' \in IF agent = "opencode" THEN {token} ELSE {token, TRUE}
               ELSE UNCHANGED <<exec, built, token>>
    /\ UNCHANGED <<agent, resumeId, tool, owned, alive, turn, cur, claimed>>

AgentNext ==
    \/ StartCodex \/ StartOpenCode \/ StartAcp \/ Prompt \/ DrainClaims \/ DrainForwards
    \/ \E t \in Turns :
          \/ BeginCodex(t) \/ BeginOpenCode(t) \/ CodexSpawns(t) \/ OpenCodeSpawns(t)
          \/ WritePrompt(t) \/ CodexThread(t) \/ CodexItem(t) \/ CodexEnds(t)
          \/ OpenCodeStep(t) \/ OpenCodeTool(t) \/ OpenCodeEnds(t)
          \/ EndOfFile(t) \/ ExitAwaited(t) \/ SettleOneShot(t)
          \/ EnsureAcp(t) \/ AcpSpawns(t) \/ AcpHandshake(t)
          \/ AcpTool(t) \/ AcpTurnEnd(t) \/ AcpTurnFails(t) \/ SettleAcp(t)
          \/ EndAgentSession(t) \/ DropAgent(t)
    \/ ProcessExits
    \/ \E kind \in {"pause", "interrupt", "cancel", "end"} : CallKills(kind)
    \/ TeardownKills \/ TeardownCancels \/ TeardownFinishes \/ Resume

AgentSpec == AgentInit /\ [][AgentNext]_agentVars

(***************************************************************************)
(* Properties                                                              *)
(***************************************************************************)
Quiet == LiveTurns = {} /\ kill.pc = "no"

\* When no turn and no lifecycle call is in progress, the session shows it: it is not busy,
\* an indicator that names a tool belongs to an agent the session still has, and no process
\* runs but that of an ACP agent waiting for its next prompt; a session that has ended has
\* neither process nor token.
SettlesFree ==
    Quiet => /\ ~ sess.busy
             /\ tool => exec # 0
             /\ alive # {} => agent = "acp" /\ exec # 0 /\ alive = {owned[exec]}
             /\ sess.status # "active" => ~ token /\ exec = 0

(***************************************************************************)
(* Claims of the repository that the code does not keep (README, section 6).*)
(***************************************************************************)
\* "Called whenever the managed subprocess is no longer running (normal end, ...) so the
\* client hides the subprocess indicator bar" (clear_subprocess_tracking, session.py:419): the
\* normal end of a turn does not call it, and a tool that was not reported completed stays
\* named with nothing running.
IndicatorCleared == Quiet /\ alive = {} => ~ tool

\* "the session remains ACTIVE after this call" (session_lifecycle.py:560): unless it is
\* ended or cancelled, only a failed turn ends a session.
InterruptKeeps == kill.kind = "interrupt" /\ kill.pc = "finish" => sess.status = "active"

\* A paused session resumes with its agent (session_lifecycle.py:624).
ResumeKeeps == [][sess.status = "paused" /\ sess'.status = "active" => ~ sess.cwp]_agentVars
=============================================================================
