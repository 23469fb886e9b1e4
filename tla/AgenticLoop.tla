---------------------------- MODULE AgenticLoop ----------------------------
(***************************************************************************)
(* How a prompt of one session is answered without a running agent: by the *)
(* outer LLM, turn by turn with its tool calls, or by a tool named in the  *)
(* prompt; and the conversation history this leaves in memory and in the   *)
(* database.                                                               *)
(*                                                                         *)
(* Source: src/src/core/llm.py (run_agentic_loop, stream_turn),            *)
(* core/prompt_router.py (handle_prompt, _execute_tool,                    *)
(* execute_one_shot_tool, _drain_one), core/context.py,                    *)
(* services/telemetry_service.py (the rows of LLM turns),                  *)
(* core/session.py (what a flush and a reload do to the history).          *)
(***************************************************************************)
EXTENDS Integers, SequencesExt

CONSTANTS
    MaxPrompts,    \* bound: prompts of the session
    MaxCalls,      \* bound: tool calls of one reply
    MaxLoopTurns,  \* _MAX_AGENTIC_TURNS
    LoopEnv        \* a subset of AllLoopEnv

AllLoopEnv ==
    {"end",       \* the session is ended, whatever it is doing
     "crash",     \* the worker is killed and started again
     "overtake"}  \* a prompt comes in while a drain is delivering another

ASSUME LoopAssumption ==
    /\ {MaxPrompts, MaxCalls, MaxLoopTurns} \subseteq Nat \ {0}
    /\ LoopEnv \subseteq AllLoopEnv

VARIABLES
    provider,   \* LLM_PROVIDER; "none" is direct tool mode
    state,      \* the session's status
    activity,   \* its activity state
    lock,       \* the prompt that holds _prompt_lock, 0 for none
    history,    \* conversation_history
    stored,     \* the history in the session's row
    loaded,     \* history: how many messages this object was loaded with
    prompt,     \* the calls of handle_prompt
    codeBlocks, \* whose code blocks are pending, 0 for none
    agentOn,    \* the session has an executor
    mixed,      \* history: an agent was started with the code blocks of another prompt
    turnRow,    \* the last telemetry row of an LLM turn: "none", "open" or "ended"
    draining    \* a _drain_one task runs: it tests the queue, or delivers

loopVars == <<provider, state, activity, lock, history, stored, loaded, prompt, codeBlocks,
              agentOn, mixed, turnRow, draining>>

Prompts == 1 .. MaxPrompts
Terminal == {"failed", "ended"}
User == [kind |-> "user", calls |-> 0]
Reply(n) == [kind |-> "assistant", calls |-> n]
Result(n) == [kind |-> "results", calls |-> n]
\* The results of n calls: one message, or one per call.
Results(n) == IF provider = "openai" THEN [i \in 1 .. n |-> Result(1)] ELSE <<Result(n)>>
NewPrompt == [pc |-> "none", drained |-> FALSE, asked |-> 0, left |-> 0, round |-> 0]

LoopTypeOK ==
    /\ provider \in {"none", "anthropic", "openai"} /\ agentOn \in BOOLEAN /\ mixed \in BOOLEAN
    /\ state \in {"active", "executing"} \cup Terminal \cup {"archived"}
    /\ activity \in {"idle", "llm", "tool", "agent"}
    /\ lock \in 0 .. MaxPrompts /\ codeBlocks \in 0 .. MaxPrompts
    /\ \A h \in {history, stored} :
          h \in Seq([kind : {"user", "assistant", "results"}, calls : 0 .. MaxCalls])
    /\ loaded \in 0 .. Len(history)
    /\ prompt \in [Prompts -> [pc : {"none", "row", "queued", "wait", "context", "open", "llm",
                                     "close", "append", "tool", "runTool", "runAgent", "post",
                                     "error", "fail", "directTool", "directAgent", "done"},
                               drained : BOOLEAN, asked : 0 .. MaxCalls,
                               left : 0 .. MaxCalls, round : 0 .. MaxLoopTurns]]
    /\ turnRow \in {"none", "open", "ended"}
    /\ draining \in {"no", "test", "deliver"}

LoopInit ==
    /\ provider \in {"none", "anthropic", "openai"}
    /\ state = "active" /\ activity = "idle" /\ lock = 0
    /\ history = <<>> /\ stored = <<>> /\ loaded = 0
    /\ prompt = [p \in Prompts |-> NewPrompt]
    /\ codeBlocks = 0 /\ agentOn = FALSE /\ mixed = FALSE /\ turnRow = "none"
    /\ draining = "no"

(***************************************************************************)
(* Helpers                                                                 *)
(***************************************************************************)
Is(p, pc) == prompt[p].pc = pc
LoopGoto(p, pc) == prompt' = [prompt EXCEPT ![p].pc = pc]
InProgress == {p \in Prompts : prompt[p].pc \notin {"none", "queued", "done"}}

Direct == provider = "none"
Occupied == lock # 0 \/ activity # "idle"

\* set_active and set_executing leave a terminal status alone.
To(s) == IF state \in {"active", "executing"} THEN s ELSE state

\* schedule_pending_drain.
ScheduleDrain ==
    draining' = IF draining = "no" /\ state \notin Terminal \cup {"archived"}
                   /\ \E p \in Prompts : Is(p, "queued")
                THEN "test" ELSE draining

\* What becomes of the drain when its handle_prompt returns.
Delivered(p) == draining' = IF prompt[p].drained THEN "test" ELSE draining

(***************************************************************************)
(* A prompt comes in and is routed                                         *)
(***************************************************************************)
\* ensure_session, then the row of the session.
Arrive(p) ==
    /\ Is(p, "none") /\ \A q \in Prompts : q < p => ~ Is(q, "none")
    /\ state \in {"active", "executing"}
    /\ LoopGoto(p, "row")
    /\ UNCHANGED <<provider, state, activity, lock, history, stored, loaded, codeBlocks, agentOn,
                   mixed, turnRow, draining>>

\* After the await: only a prompt that a drain delivers passes a busy session.
Routed(p) ==
    /\ Is(p, "row")
    /\ ~ prompt[p].drained /\ draining = "deliver" => "overtake" \in LoopEnv
    /\ prompt[p].drained \/ ~ Occupied

Enqueue(p) ==
    /\ Is(p, "row") /\ ~ prompt[p].drained /\ Occupied
    /\ LoopGoto(p, "queued")
    /\ UNCHANGED <<provider, state, activity, lock, history, stored, loaded, codeBlocks, agentOn,
                   mixed, turnRow, draining>>

\* A running agent gets the prompt; so does one a bare mention has started.
Forward(p) ==
    /\ Routed(p) /\ agentOn
    /\ LoopGoto(p, "done")
    /\ activity' = "agent"
    /\ Delivered(p)
    /\ UNCHANGED <<provider, state, lock, history, stored, loaded, codeBlocks, agentOn, mixed, turnRow>>

\* The provider has no key, the budget is spent, or direct mode cannot parse the prompt.
Refuse(p) ==
    /\ Routed(p) /\ ~ agentOn
    /\ LoopGoto(p, "done")
    /\ \/ state' = state                                         \* the token limit
       \/ Direct /\ state' \in {state, "failed"}                 \* DIRECT_TOOL_ERROR
       \/ ~ Direct /\ state' = "failed"                          \* LLM_CONFIG_ERROR
    /\ activity' = IF state' = "failed" \/ Direct THEN "idle" ELSE activity
    /\ Delivered(p)
    /\ UNCHANGED <<provider, lock, history, stored, loaded, codeBlocks, agentOn, mixed, turnRow>>

\* The tool is started before the first await; an agent takes the pending code blocks,
\* whoever they are of.
DirectTool(p) ==
    /\ Routed(p) /\ ~ agentOn
    /\ \/ LoopGoto(p, "directAgent") /\ codeBlocks' = 0 /\ mixed' = (mixed \/ codeBlocks # 0)
       \/ Direct /\ LoopGoto(p, "directTool") /\ UNCHANGED <<codeBlocks, mixed>>
    /\ state' = To("executing") /\ activity' = "tool"
    /\ UNCHANGED <<provider, lock, history, stored, loaded, agentOn, turnRow, draining>>

\* The direct path ends here: nobody schedules a drain.
DirectDone(p) ==
    /\ prompt[p].pc \in {"directTool", "directAgent"}
    /\ LoopGoto(p, "done")
    /\ \/ activity' = "idle" /\ UNCHANGED <<state, agentOn>>     \* it raises
       \/ Is(p, "directTool") /\ activity' = "idle" /\ state' = To("active") /\ agentOn' = agentOn
       \/ Is(p, "directAgent") /\ activity' = "agent" /\ agentOn' = TRUE /\ state' = state
    /\ Delivered(p)
    /\ UNCHANGED <<provider, lock, history, stored, loaded, codeBlocks, mixed, turnRow>>

\* Acquiring a free lock without waiters does not yield.
Waiters == {p \in Prompts : Is(p, "wait")}
AskLlm(p) ==
    /\ Routed(p) /\ ~ agentOn /\ ~ Direct
    /\ IF lock = 0 /\ Waiters = {}
       THEN /\ lock' = p /\ LoopGoto(p, "context")
            /\ state' = To("active") /\ activity' = "llm"
       ELSE LoopGoto(p, "wait") /\ UNCHANGED <<lock, state, activity>>
    /\ UNCHANGED <<provider, history, stored, loaded, codeBlocks, agentOn, mixed, turnRow, draining>>

TakeLock(p) ==
    /\ Is(p, "wait") /\ lock = 0
    /\ lock' = p /\ LoopGoto(p, "context")
    /\ state' = To("active") /\ activity' = "llm"
    /\ UNCHANGED <<provider, history, stored, loaded, codeBlocks, agentOn, mixed, turnRow, draining>>

(***************************************************************************)
(* The agentic loop                                                        *)
(***************************************************************************)
\* The files and the plan are read; then the user's message is appended.
BuildContext(p) ==
    /\ Is(p, "context")
    /\ history' = Append(history, User)
    /\ codeBlocks' = p
    /\ LoopGoto(p, "open")
    /\ UNCHANGED <<provider, state, activity, lock, stored, loaded, agentOn, mixed, turnRow, draining>>

\* record_turn_start.
OpenTurn(p) ==
    /\ Is(p, "open")
    /\ turnRow' = "open"
    /\ prompt' = [prompt EXCEPT ![p].pc = "llm", ![p].round = 1]
    /\ UNCHANGED <<provider, state, activity, lock, history, stored, loaded, codeBlocks, agentOn,
                   mixed, draining>>

\* StreamDone: the consumer closes the turn's row before the loop goes on.
Replied(p, n) ==
    /\ Is(p, "llm")
    /\ turnRow' = "ended"
    /\ prompt' = [prompt EXCEPT ![p].pc = "close", ![p].asked = n, ![p].left = n]
    /\ UNCHANGED <<provider, state, activity, lock, history, stored, loaded, codeBlocks, agentOn,
                   mixed, draining>>

\* A call is complete when its content block stops.
AnthropicReplies(p) == provider = "anthropic" /\ \E n \in 0 .. MaxCalls : Replied(p, n)

\* The calls are complete when a finish reason comes; without one there are none.
OpenAiReplies(p) == provider = "openai" /\ \E n \in 0 .. MaxCalls : Replied(p, n)

\* It opens the next row at once, whether there will be another turn or not.
OpenNextTurn(p) ==
    /\ Is(p, "close")
    /\ turnRow' = "open"
    /\ LoopGoto(p, "append")
    /\ UNCHANGED <<provider, state, activity, lock, history, stored, loaded, codeBlocks, agentOn,
                   mixed, draining>>

AppendReply(p) ==
    /\ Is(p, "append")
    /\ LET n == prompt[p].asked IN
       /\ \/ history' = Append(history, Reply(n))
          \/ n = 0 /\ history' = history            \* neither text nor calls
       /\ LoopGoto(p, IF n = 0 THEN "post" ELSE "tool")
    /\ UNCHANGED <<provider, state, activity, lock, stored, loaded, codeBlocks, agentOn, mixed,
                   turnRow, draining>>

\* _execute_tool up to its first await.
StartTool(p) ==
    /\ Is(p, "tool") /\ prompt[p].left > 0
    /\ state' = To("executing") /\ activity' = "tool"
    /\ \/ LoopGoto(p, "runTool") /\ UNCHANGED <<codeBlocks, mixed>>
       \/ /\ LoopGoto(p, "runAgent")
          /\ codeBlocks' = 0 /\ mixed' = (mixed \/ codeBlocks \notin {0, p})
    /\ UNCHANGED <<provider, lock, history, stored, loaded, agentOn, turnRow, draining>>

\* A one-shot tool never raises, whatever it runs; an unknown one leaves the activity as it is.
ToolReturns(p) ==
    /\ \/ /\ Is(p, "runTool") /\ agentOn' = agentOn
          /\ \/ state' = To("active") /\ activity' = "llm"
             \/ UNCHANGED <<state, activity>>
       \/ Is(p, "runAgent") /\ agentOn' = TRUE /\ state' = state /\ activity' = "agent"
    /\ prompt' = [prompt EXCEPT ![p].pc = "tool", ![p].left = @ - 1]
    /\ UNCHANGED <<provider, lock, history, stored, loaded, codeBlocks, mixed, turnRow, draining>>

\* Mutant: the loop makes one turn more.
LimitPassed(p) == prompt[p].round > MaxLoopTurns
LimitReached(p) == prompt[p].round = MaxLoopTurns
\* The results are appended together; the loop stops at its limit, or once an agent runs.
AppendResults(p) ==
    /\ Is(p, "tool") /\ prompt[p].left = 0
    /\ history' = history \o Results(prompt[p].asked)
    /\ IF agentOn \/ LimitReached(p)
       THEN LoopGoto(p, "post")
       ELSE prompt' = [prompt EXCEPT ![p].pc = "llm", ![p].round = @ + 1]
    /\ UNCHANGED <<provider, state, activity, lock, stored, loaded, codeBlocks, agentOn, mixed,
                   turnRow, draining>>

\* An agent cannot be started, or the permission for a worktree cannot be asked.
\* Mutant: the reply stays in the history.
ToolRaisesKeepsReply(p) ==
    /\ prompt[p].pc \in {"runTool", "runAgent"}
    /\ UNCHANGED history
    /\ LoopGoto(p, "error")
    /\ UNCHANGED <<provider, state, activity, lock, stored, loaded, codeBlocks, agentOn, mixed,
                   turnRow, draining>>
ToolRaises(p) ==
    /\ prompt[p].pc \in {"runTool", "runAgent"}
    /\ history' = Front(history)
    /\ LoopGoto(p, "error")
    /\ UNCHANGED <<provider, state, activity, lock, stored, loaded, codeBlocks, agentOn, mixed,
                   turnRow, draining>>

LlmRaises(p) ==
    /\ Is(p, "llm")
    /\ LoopGoto(p, "error")
    /\ UNCHANGED <<provider, state, activity, lock, history, stored, loaded, codeBlocks, agentOn,
                   mixed, turnRow, draining>>

(***************************************************************************)
(* The end of the prompt                                                   *)
(***************************************************************************)
AfterLoop(p) ==
    /\ Is(p, "post")
    /\ LoopGoto(p, "done")
    /\ activity' = IF agentOn THEN activity ELSE "idle"
    /\ lock' = 0 /\ codeBlocks' = 0
    /\ IF prompt[p].drained THEN Delivered(p) ELSE ScheduleDrain
    /\ UNCHANGED <<provider, state, history, stored, loaded, agentOn, mixed, turnRow>>

\* mark_turn_interrupted.
MarkInterrupted(p) ==
    /\ Is(p, "error")
    /\ turnRow' = "ended"
    /\ LoopGoto(p, "fail")
    /\ UNCHANGED <<provider, state, activity, lock, history, stored, loaded, codeBlocks, agentOn,
                   mixed, draining>>

\* The session fails and is to be archived; schedule_pending_drain finds it terminal.
Fail(p) ==
    /\ Is(p, "fail")
    /\ LoopGoto(p, "done")
    /\ state' = IF state = "archived" THEN state ELSE "failed"
    /\ activity' = "idle"
    /\ lock' = 0 /\ codeBlocks' = 0
    /\ Delivered(p)
    /\ UNCHANGED <<provider, history, stored, loaded, agentOn, mixed, turnRow>>

\* _drain_one: pop the head while the session is not busy.
DrainTests ==
    /\ draining = "test"
    /\ LET waiting == {p \in Prompts : Is(p, "queued")} IN
       IF waiting = {} \/ Occupied
       THEN draining' = "no" /\ prompt' = prompt
       ELSE \E p \in waiting :
              /\ \A q \in waiting : p <= q
              /\ draining' = "deliver"
              /\ prompt' = [prompt EXCEPT ![p].pc = "row", ![p].drained = TRUE]
    /\ UNCHANGED <<provider, state, activity, lock, history, stored, loaded, codeBlocks, agentOn,
                   mixed, turnRow>>

(***************************************************************************)
(* The agent and the session around the loop                               *)
(***************************************************************************)
\* The turn of the agent ends and the queue is drained.
AgentRests ==
    /\ agentOn /\ activity = "agent"
    /\ activity' = "idle"
    /\ ScheduleDrain
    /\ UNCHANGED <<provider, state, lock, history, stored, loaded, prompt, codeBlocks, agentOn, mixed, turnRow>>

\* end_session and cancel_session stop the agent, not the prompts in progress.
LoopEnd ==
    /\ "end" \in LoopEnv /\ state \in {"active", "executing"}
    /\ state' = "ended" /\ activity' = "idle" /\ agentOn' = FALSE
    /\ UNCHANGED <<provider, lock, history, stored, loaded, prompt, codeBlocks, mixed, turnRow, draining>>

\* flush_session, and save_all_sessions at shutdown.
FlushHistory ==
    /\ state # "archived" /\ stored # history
    /\ stored' = history
    /\ UNCHANGED <<provider, state, activity, lock, history, loaded, prompt, codeBlocks, agentOn,
                   mixed, turnRow, draining>>

ArchiveHistory ==
    /\ state \in Terminal
    /\ state' = "archived"
    /\ stored' = history
    /\ UNCHANGED <<provider, activity, lock, history, loaded, prompt, codeBlocks, agentOn, mixed,
                   turnRow, draining>>

\* A new object; prompts in progress go on with the old one, which nobody sees any more.
Reload(s) ==
    /\ state' = s /\ activity' = "idle" /\ lock' = 0
    /\ history' = stored /\ loaded' = Len(stored)
    /\ prompt' = [p \in Prompts |-> IF p \in InProgress THEN [prompt[p] EXCEPT !.pc = "done"]
                                                       ELSE prompt[p]]
    /\ codeBlocks' = 0 /\ agentOn' = FALSE
    /\ draining' = "no"
    /\ UNCHANGED <<provider, stored, mixed, turnRow>>

RestoreArchived == state = "archived" /\ Reload("active")
RestartWorker == "crash" \in LoopEnv /\ state \in {"active", "executing"} /\ stored # <<>> /\ Reload("active")

LoopNext ==
    \/ \E p \in Prompts :
          \/ Arrive(p) \/ Enqueue(p) \/ Forward(p) \/ Refuse(p) \/ DirectTool(p) \/ DirectDone(p)
          \/ AskLlm(p) \/ TakeLock(p) \/ BuildContext(p) \/ OpenTurn(p) \/ AnthropicReplies(p) \/ OpenAiReplies(p)
          \/ OpenNextTurn(p) \/ AppendReply(p) \/ StartTool(p) \/ ToolReturns(p)
          \/ AppendResults(p) \/ ToolRaises(p) \/ LlmRaises(p) \/ AfterLoop(p)
          \/ MarkInterrupted(p) \/ Fail(p)
    \/ DrainTests \/ AgentRests \/ LoopEnd \/ FlushHistory \/ ArchiveHistory \/ RestoreArchived \/ RestartWorker

LoopSpec == LoopInit /\ [][LoopNext]_loopVars

(***************************************************************************)
(* Properties                                                              *)
(***************************************************************************)
\* In the messages of h after the first one and up to the last one: every reply with tool
\* calls is followed by their results, and every result follows the reply that asked for it.
Paired(h, first, last) ==
    LET Asks(i) == h[i].kind = "assistant" /\ h[i].calls > 0
        Owed(i) == Results(h[i].calls)
    IN \A i \in first + 1 .. last :
          /\ Asks(i) => /\ i + Len(Owed(i)) <= last
                        /\ \A j \in 1 .. Len(Owed(i)) : h[i + j] = Owed(i)[j]
          /\ h[i].kind = "results" => \E k \in first + 1 .. i - 1 : Asks(k) /\ i <= k + Len(Owed(k))

\* Whenever no prompt holds the lock and whenever one calls the LLM, what this object
\* has appended to the history is paired: a provider refuses any other history, in
\* every later turn of the session.
HistoryPaired ==
    (lock = 0 \/ Is(lock, "llm")) => Paired(history, loaded, Len(history))

(***************************************************************************)
(* Claims of the repository that the code does not keep (README, section 6).*)
(***************************************************************************)
\* "keep conversation history valid" (llm.py:645), also after a reload.
ReloadPaired == Len(history) = loaded => Paired(history, 0, Len(history))

\* "open next if loop continues" (prompt_router.py:1697).
TurnsClosed == InProgress = {} => turnRow # "open"

\* "delivery happens on the next turn boundary" (input_text.py:632): a prompt does not wait
\* in the queue of a session that is free.
QueueServed ==
    (\E p \in Prompts : Is(p, "queued")) /\ state = "active" =>
        Occupied \/ draining # "no" \/ InProgress # {}

\* "cannot leak into the next turn" (prompt_router.py:1782).
BlocksOwn == ~ mixed
=============================================================================
