-------------------------- MODULE SessionLifecycle --------------------------
(***************************************************************************)
(* The life of ONE Claude Code session in memory: its status, its executor *)
(* and stream task, the gate a question of the agent opens, the lifecycle  *)
(* calls (cancel, end, pause, interrupt, resume), the prompts that are     *)
(* forwarded to the agent, and the turns of the outer LLM.                 *)
(*                                                                         *)
(* Source: src/src/core/session_lifecycle.py, session.py,                  *)
(* agent_claude_code.py, prompt_router.py, executors/claude_code_sdk.py.   *)
(*                                                                         *)
(* An action is the code between two awaits.  An executor is a number; a   *)
(* turn is a stream task.  ACTIVE and EXECUTING are one status: no guard   *)
(* tells them apart.  The three gates (question, plan mode, plan review)   *)
(* differ in their messages; the question's is modelled.  A client connects in one    *)
(* step.                                                                   *)
(***************************************************************************)
EXTENDS Integers, Sequences

CONSTANTS
    Callers,   \* lifecycle calls in progress at a time
    Prompters, \* runs of handle_prompt in progress at a time
    Env,       \* which of Disturbances this instance has
    MaxExecs,  \* bound: executors built for the session
    MaxTurns   \* bound: stream tasks created

Disturbances == {"cancel", "end", "pause", "interrupt", "resume", "ask", "answer", "timeout",
                 "maxTurns", "exit", "fail", "sent", "drained", "llm", "llmFail", "noKey"}

ASSUME LifecycleAssumption ==
    /\ Env \subseteq Disturbances
    /\ MaxExecs \in Nat \ {0} /\ MaxTurns \in Nat \ {0}

VARIABLES
    ses,    \* the fields of the ActiveSession
    live,   \* the executors whose client is connected (is_running)
    turn,   \* the stream tasks, in the order they were created
    asker,  \* the executor whose can_use_tool callback waits for an answer
    call,   \* the lifecycle calls in progress
    prompt, \* the prompts in progress
    made    \* executors built so far

vars == <<ses, live, turn, asker, call, prompt, made>>

Terminal == {"completed", "failed", "cancelled"}
Execs == 0 .. MaxExecs
Turns == 0 .. MaxTurns
NoCall == [op |-> "none", pc |-> "idle", x |-> 0, t |-> 0, had |-> FALSE]
NoPrompt == [pc |-> "idle", kind |-> "sent", x |-> 0, t |-> 0]

TypeOK ==
    /\ ses \in [status : Terminal \cup {"active", "paused"},
                saved : BOOLEAN,      \* _status_before_input_wait is set
                later : BOOLEAN,      \* metadata["completed_while_paused"]
                known : BOOLEAN,      \* metadata names the agent's session
                exec : Execs, task : Turns,
                busy : BOOLEAN,       \* _activity_state is not IDLE
                gate : {"none", "open", "set"},
                question : BOOLEAN,   \* _question_tool_use_id is set
                groups : Int,         \* AGENT_GROUP_START less AGENT_GROUP_END pushed
                ended : Nat,          \* SESSION_END pushed
                fired : BOOLEAN]      \* an archive task was created
    /\ live \subseteq Execs \ {0}
    /\ turn \in Seq([pc : {"new", "relay", "asking", "more", "stopping", "ending", "exiting",
                           "lingering", "cut", "done"}, e : Execs, x : Execs])
    /\ Len(turn) <= MaxTurns
    /\ asker \in Execs
    /\ call \in [Callers -> [op : {"none", "cancel", "end", "pause", "interrupt", "resume"},
                             pc : {"idle", "kill", "join", "drop", "finish"},
                             x : Execs, t : Turns, had : BOOLEAN]]
    /\ prompt \in [Prompters -> [pc : {"idle", "row", "join", "lock", "llm", "started"},
                                 kind : {"sent", "drained"}, x : Execs, t : Turns]]
    /\ made \in Execs

\* A session whose agent has just been started, or one nothing was sent to.
Init ==
    /\ \E blank \in BOOLEAN :
         /\ blank => "llm" \in Env
         /\ ses = [status |-> "active", saved |-> FALSE, later |-> FALSE,
                   known |-> ~ blank, exec |-> IF blank THEN 0 ELSE 1,
                   task |-> IF blank THEN 0 ELSE 1, busy |-> ~ blank, gate |-> "none",
                   question |-> FALSE, groups |-> IF blank THEN 0 ELSE 1, ended |-> 0,
                   fired |-> FALSE]
         /\ turn = IF blank THEN << >> ELSE << [pc |-> "new", e |-> 1, x |-> 0] >>
         /\ made = IF blank THEN 0 ELSE 1
    /\ live = {} /\ asker = 0
    /\ call = [c \in Callers |-> NoCall]
    /\ prompt = [p \in Prompters |-> NoPrompt]

(***************************************************************************)
(* Steps of the session object.                                            *)
(***************************************************************************)
Alive(t) == t \in DOMAIN turn /\ turn[t].pc # "done"

Paused(s) == [s EXCEPT !.status = "paused", !.busy = FALSE]
Resumed(s) == [s EXCEPT !.status = "active", !.busy = FALSE]

Completed(s) ==
    IF s.status = "paused" THEN [s EXCEPT !.later = TRUE]
    ELSE [s EXCEPT !.status = "completed", !.busy = FALSE]

BeginWait(s) ==
    IF s.status = "active"
    THEN [s EXCEPT !.status = "paused", !.saved = TRUE, !.busy = TRUE]
    ELSE [s EXCEPT !.busy = TRUE]

\* Mutant: the wait ends whatever became of the session meanwhile.
EndWaitAlways(s) ==
    IF s.saved
    THEN [s EXCEPT !.status = "active", !.saved = FALSE, !.busy = TRUE]
    ELSE [s EXCEPT !.busy = TRUE]

EndWait(s) ==
    IF s.status = "paused" /\ s.saved
    THEN [s EXCEPT !.status = "active", !.saved = FALSE, !.busy = TRUE]
    ELSE [s EXCEPT !.saved = FALSE, !.busy = TRUE]

Opened(s) == [s EXCEPT !.groups = @ + 1]
Closed(s) == [s EXCEPT !.groups = @ - 1]
Ended(s) == [s EXCEPT !.ended = @ + 1]
Freed(s) == [s EXCEPT !.exec = 0, !.task = 0]

Released(s) == IF s.gate = "open" THEN [s EXCEPT !.gate = "set", !.question = FALSE] ELSE s

\* _end_claude_code_session after the process has stopped.
AgentEnded(s) ==
    LET r == Freed(s)
    IN  IF r.status = "paused" THEN Completed(r)
        ELSE [Completed(Ended(r)) EXCEPT !.fired = TRUE]

\* The set event also wakes a stream task that waits for the answer.
Woken(tn) == [t \in DOMAIN tn |-> IF tn[t].pc = "asking" THEN [tn[t] EXCEPT !.pc = "more"]
                                  ELSE tn[t]]
WokenIf(released, tn) == IF released /\ ses.gate = "open" THEN Woken(tn) ELSE tn

\* Mutant: a task that waits for an answer swallows its cancellation.
CutsLater(t) == {IF turn[t].pc = "asking" THEN turn ELSE [turn EXCEPT ![t].pc = "cut"]}
\* A cancelled task unwinds, unless the disconnect it is in swallows the
\* CancelledError (contextlib.suppress around the reader).
Cuts(t) == {[turn EXCEPT ![t].pc = "cut"]}
           \cup (IF turn[t].pc \in {"stopping", "ending", "exiting"} THEN {turn} ELSE {})

\* A client that was disconnected takes its callbacks with it.
Orphaned(x) == IF asker = x THEN 0 ELSE asker

\* _disconnect waits for the client it finds; without one it returns at once, and a
\* second call may or may not find the client the first is closing.
Closing(x) == \/ \E t \in DOMAIN turn : turn[t].x = x
              \/ \E c \in Callers : call[c].x = x
Waits(x) == CASE x = 0 -> {FALSE}
              [] x \in live -> {TRUE}
              [] x # 0 /\ x \notin live -> IF Closing(x) THEN BOOLEAN ELSE {FALSE}

(***************************************************************************)
(* The lifecycle calls.                                                    *)
(***************************************************************************)
\* Mutant: an interrupted session keeps its activity.
FinishedBusy(op, had, s) ==
    LET r == IF had THEN Closed(s) ELSE s
    IN  CASE op = "cancel" -> [Ended(Released(r)) EXCEPT !.status = "cancelled", !.busy = FALSE]
          [] op = "end" -> [Ended(r) EXCEPT !.status = "completed", !.busy = FALSE]
          [] op = "pause" -> Released(r)
          [] op = "interrupt" -> r
\* What the call does once the executor and the stream task are gone.
Finished(op, had, s) ==
    LET r == IF had THEN Closed(s) ELSE s
    IN  CASE op = "cancel" -> [Ended(Released(r)) EXCEPT !.status = "cancelled", !.busy = FALSE]
          [] op = "end" -> [Ended(r) EXCEPT !.status = "completed", !.busy = FALSE]
          [] op = "pause" -> Released(r)
          [] op = "interrupt" -> [r EXCEPT !.busy = FALSE]

After(op) == IF op \in {"cancel", "end"} THEN "drop" ELSE "idle"
At(op, pc, x, t, had) ==
    IF pc = "idle" THEN NoCall ELSE [op |-> op, pc |-> pc, x |-> x, t |-> t, had |-> had]

\* The rest of _teardown_executors: the stream task is cancelled and awaited.
Torn(c, op, had, s) ==
    IF Alive(s.task)
    THEN /\ turn' \in Cuts(s.task)
         /\ ses' = s
         /\ call' = [call EXCEPT ![c] = At(op, "join", 0, s.task, had)]
    ELSE /\ ses' = Finished(op, had, [s EXCEPT !.task = 0])
         /\ turn' = WokenIf(op \in {"cancel", "pause"}, turn)
         /\ call' = [call EXCEPT ![c] = At(op, After(op), 0, 0, had)]

Allowed(op) ==
    CASE op \in {"cancel", "end"} -> ses.status \notin Terminal
      [] op \in {"pause", "interrupt"} -> ses.status = "active"

\* pause_session marks the session before the first await.
Marked(op) == IF op = "pause" THEN Paused(ses) ELSE ses

CallStart(c, op) ==
    /\ op \in Env /\ call[c] = NoCall /\ Allowed(op)
    /\ live' = live \ {ses.exec}
    /\ \E waits \in Waits(ses.exec) :
         IF waits
         THEN /\ ses' = Marked(op)
              /\ call' = [call EXCEPT ![c] = At(op, "kill", ses.exec, 0, TRUE)]
              /\ UNCHANGED turn
         ELSE Torn(c, op, ses.exec # 0, [Marked(op) EXCEPT !.exec = 0])
    /\ UNCHANGED <<asker, prompt, made>>

\* executor.cancel() returns; the attribute is cleared whatever it holds by now.
CallKilled(c) ==
    /\ call[c].pc = "kill"
    /\ asker' = Orphaned(call[c].x)
    /\ Torn(c, call[c].op, TRUE, [ses EXCEPT !.exec = 0])
    /\ UNCHANGED <<live, prompt, made>>

CallJoined(c) ==
    /\ call[c].pc = "join" /\ ~ Alive(call[c].t)
    /\ ses' = Finished(call[c].op, call[c].had, [ses EXCEPT !.task = 0])
    /\ turn' = WokenIf(call[c].op \in {"cancel", "pause"}, turn)
    /\ call' = [call EXCEPT ![c] = At(call[c].op, After(call[c].op), 0, 0, TRUE)]
    /\ UNCHANGED <<live, asker, prompt, made>>

\* The queue and the wakes were dropped; the archive task is created.
CallDropped(c) ==
    /\ call[c].pc = "drop"
    /\ ses' = [ses EXCEPT !.fired = TRUE]
    /\ call' = [call EXCEPT ![c] = NoCall]
    /\ UNCHANGED <<live, turn, asker, prompt, made>>

\* Resume builds an executor for the agent's session when there is none.
Rebuilds(s) == s.exec = 0 /\ s.known

Resume(c) ==
    /\ "resume" \in Env /\ call[c] = NoCall /\ ses.status = "paused"
    /\ turn' = WokenIf(TRUE, turn)
    /\ LET s == Resumed(Released(ses)) IN
         IF s.later
         THEN /\ live' = live \ {s.exec}
              /\ \E waits \in Waits(s.exec) :
                   IF waits
                   THEN /\ ses' = [s EXCEPT !.later = FALSE]
                        /\ call' = [call EXCEPT ![c] = At("resume", "finish", s.exec, 0, TRUE)]
                   ELSE ses' = AgentEnded([s EXCEPT !.later = FALSE]) /\ UNCHANGED call
              /\ UNCHANGED made
         ELSE /\ Rebuilds(s) => made < MaxExecs
              /\ made' = IF Rebuilds(s) THEN made + 1 ELSE made
              /\ ses' = IF Rebuilds(s) THEN [s EXCEPT !.exec = made + 1] ELSE s
              /\ UNCHANGED <<live, call>>
    /\ UNCHANGED <<asker, prompt>>

ResumeFinished(c) ==
    /\ call[c].pc = "finish"
    /\ ses' = AgentEnded(ses)
    /\ asker' = Orphaned(call[c].x)
    /\ call' = [call EXCEPT ![c] = NoCall]
    /\ UNCHANGED <<live, turn, prompt, made>>

(***************************************************************************)
(* The stream task of a turn.                                              *)
(***************************************************************************)
Moved(t, pc, x) == [turn EXCEPT ![t].pc = pc, ![t].x = x]
Gone(t) == [turn EXCEPT ![t] = [pc |-> "done", e |-> 0, x |-> 0]]

\* What a task does once its executor's client is gone: the paused session loses its
\* executor, the failed one is ended, and the exited one can be restarted.
Left(why, s) ==
    CASE why = "stopping" -> Freed(s)
      [] why = "ending" -> AgentEnded(s)
      [] why = "exiting" -> s
Leave(t, why, x, s) ==
    /\ live' = live \ {x}
    /\ \E waits \in Waits(x) :
         IF waits THEN ses' = s /\ turn' = Moved(t, why, x)
         ELSE ses' = Left(why, s) /\ turn' = Gone(t)

\* The relay is over: a paused session's process is stopped; otherwise the agent
\* group is closed and the task lingers over monitors and background commands.
RelayOver(t, s) ==
    IF s.status = "paused" THEN Leave(t, "stopping", s.exec, s)
    ELSE ses' = Closed(s) /\ turn' = Moved(t, "lingering", 0) /\ UNCHANGED live

\* The relay raised: the group is closed and the session is ended.
Raised(t, s) == Leave(t, "ending", s.exec, Closed(s))

\* The turn connects a client, reuses the one of the last turn, or finds the one that is
\* being closed (which of the two is left open while it is being closed).
TurnStart(t) ==
    /\ turn[t].pc = "new"
    /\ turn' = Moved(t, "relay", 0)
    /\ live' \in {live \cup {turn[t].e}} \cup (IF Closing(turn[t].e) THEN {live} ELSE {})
    /\ UNCHANGED <<ses, asker, call, prompt, made>>

TurnFails(t) ==
    /\ "fail" \in Env /\ turn[t].pc \in {"new", "relay"}
    /\ Raised(t, ses)
    /\ UNCHANGED <<asker, call, prompt, made>>

\* The turn's result: if a question is still open the task waits for its answer.
TurnResult(t) ==
    /\ turn[t].pc = "relay" /\ turn[t].e \in live
    /\ LET s == [ses EXCEPT !.busy = FALSE] IN
         IF s.status \in Terminal
         THEN ses' = s /\ turn' = Gone(t) /\ UNCHANGED live
         ELSE IF s.question /\ s.gate # "none"
              THEN /\ ses' = s /\ UNCHANGED live
                   /\ turn' = Moved(t, IF s.gate = "open" THEN "asking" ELSE "more", 0)
              ELSE RelayOver(t, s)
    /\ UNCHANGED <<asker, call, prompt, made>>

\* The turn limit pauses the session; pause() raises if it is paused or over.
TurnMaxTurns(t) ==
    /\ "maxTurns" \in Env /\ turn[t].pc = "relay" /\ turn[t].e \in live
    /\ LET s == Closed([ses EXCEPT !.busy = FALSE]) IN
         IF s.status = "active" THEN RelayOver(t, Paused(s)) ELSE Raised(t, s)
    /\ UNCHANGED <<asker, call, prompt, made>>

\* The stream ends without a result.
TurnExit(t) ==
    /\ turn[t].pc = "relay"
    /\ turn[t].e \in live => "exit" \in Env
    /\ CASE ses.status \in Terminal -> turn' = Gone(t) /\ UNCHANGED <<ses, live>>
         [] ses.status = "active" ->
                Leave(t, "exiting", turn[t].e, Closed([ses EXCEPT !.busy = FALSE]))
         [] ses.status = "paused" -> Leave(t, "stopping", ses.exec, ses)
    /\ UNCHANGED <<asker, call, prompt, made>>

\* The awaited disconnect of the task returned.
TurnStopped(t) ==
    /\ turn[t].pc \in {"stopping", "ending", "exiting"}
    /\ ses' = Left(turn[t].pc, ses)
    /\ asker' = Orphaned(turn[t].x)
    /\ turn' = Gone(t)
    /\ UNCHANGED <<live, call, prompt, made>>

\* The agent goes on after the answer until nothing arrives for
\* _DRAIN_IDLE_TIMEOUT; the result of that turn may or may not have arrived.
TurnMore(t) ==
    /\ turn[t].pc = "more"
    /\ ses.gate = "set" => asker = 0 \/ turn[t].e \notin live
    /\ IF ses.question /\ ses.gate = "open" /\ turn[t].e \in live
       THEN turn' = Moved(t, "asking", 0) /\ UNCHANGED <<ses, live>>
       ELSE \E result \in BOOLEAN :
              RelayOver(t, [ses EXCEPT !.question = FALSE,
                                       !.busy = IF result THEN FALSE ELSE @])
    /\ UNCHANGED <<asker, call, prompt, made>>

\* The task's own wait for the answer runs out, after that of the gate.
TurnGivesUp(t) ==
    /\ turn[t].pc = "asking" /\ (ses.gate = "none" \/ asker = 0)
    /\ RelayOver(t, ses)
    /\ UNCHANGED <<asker, call, prompt, made>>

\* The task ends, or its CancelledError has unwound it.
TurnOver(t) ==
    /\ turn[t].pc \in {"lingering", "cut"}
    /\ turn' = Gone(t)
    /\ UNCHANGED <<ses, live, asker, call, prompt, made>>

(***************************************************************************)
(* The question gate.                                                      *)
(***************************************************************************)
Ask(t) ==
    /\ "ask" \in Env /\ asker = 0
    /\ turn[t].pc \in {"relay", "more"} /\ turn[t].e \in live
    /\ asker' = turn[t].e
    /\ ses' = BeginWait([ses EXCEPT !.gate = "open", !.question = TRUE])
    /\ UNCHANGED <<live, turn, call, prompt, made>>

\* send_interactive_response: an unset event takes the answer, whoever waits.
Answer ==
    /\ "answer" \in Env /\ ses.gate = "open" /\ ses.status \notin Terminal
    /\ ses' = [ses EXCEPT !.gate = "set"]
    /\ turn' = Woken(turn)
    /\ UNCHANGED <<live, asker, call, prompt, made>>

\* The callback returns; the relay sees the tool's result and clears the question.
GateWakes ==
    /\ ses.gate = "set" /\ asker # 0
    /\ ses' = EndWait([ses EXCEPT !.gate = "none", !.question = FALSE])
    /\ asker' = 0
    /\ UNCHANGED <<live, turn, call, prompt, made>>

GateTimeout ==
    /\ "timeout" \in Env /\ ses.gate = "open" /\ asker # 0
    /\ ses' = EndWait([ses EXCEPT !.gate = "none"])
    /\ asker' = 0
    /\ UNCHANGED <<live, turn, call, prompt, made>>

(***************************************************************************)
(* Prompts and turns of the outer LLM.                                     *)
(***************************************************************************)
LlmHeld == \E p \in Prompters : prompt[p].pc \in {"llm", "started"}
Busy == \/ ses.exec # 0 /\ Alive(ses.task)
        \/ LlmHeld
        \/ ses.status = "paused"
        \/ ses.busy

\* A prompt awaits the session's database row; a drained one was claimed when
\* the session was not busy.
PromptArrive(p, kind) ==
    /\ kind \in Env /\ prompt[p] = NoPrompt /\ ses.status \notin Terminal
    /\ kind = "drained" =>
         ~ Busy /\ \A q \in Prompters : prompt[q].pc = "idle" \/ prompt[q].kind # "drained"
    /\ prompt' = [prompt EXCEPT ![p] = [NoPrompt EXCEPT !.pc = "row", !.kind = kind]]
    /\ UNCHANGED <<ses, live, turn, asker, call, made>>

\* A new stream task for executor e; the session's attribute takes it.
Spawned(p, e, s) ==
    /\ Len(turn) < MaxTurns
    /\ turn' = Append(turn, [pc |-> "new", e |-> e, x |-> 0])
    /\ ses' = [s EXCEPT !.task = Len(turn) + 1]
    /\ prompt' = [prompt EXCEPT ![p] = NoPrompt]

\* Mutant: a prompt is forwarded whatever the session is doing.
NotQueued(p) == ses.status # "paused"
\* A busy or a paused session queues the prompt; a drained prompt is not queued again.
Delivered(p) == ses.status # "paused" /\ (prompt[p].kind = "sent" => ~ Busy)

PromptQueued(p) ==
    /\ prompt[p].pc = "row" /\ ~ Delivered(p)
    /\ prompt' = [prompt EXCEPT ![p] = NoPrompt]
    /\ UNCHANGED <<ses, live, turn, asker, call, made>>

\* _forward_to_claude_code: a live stream task is cancelled and awaited first.
PromptForward(p) ==
    /\ prompt[p].pc = "row" /\ Delivered(p) /\ ses.exec # 0
    /\ LET s == Opened([ses EXCEPT !.busy = TRUE]) IN
         IF Alive(s.task)
         THEN /\ turn' \in Cuts(s.task)
              /\ ses' = s
              /\ prompt' = [prompt EXCEPT ![p].pc = "join", ![p].x = s.exec, ![p].t = s.task]
         ELSE Spawned(p, s.exec, s)
    /\ UNCHANGED <<live, asker, call, made>>

PromptJoined(p) ==
    /\ prompt[p].pc = "join" /\ ~ Alive(prompt[p].t)
    /\ Spawned(p, prompt[p].x, ses)
    /\ UNCHANGED <<live, asker, call, made>>

\* Without an agent: an LLM without credentials fails the session, or the prompt
\* waits for the session's prompt lock.
PromptToLlm(p) ==
    /\ prompt[p].pc = "row" /\ Delivered(p) /\ ses.exec = 0
    /\ \/ /\ "noKey" \in Env
          /\ ses' = [ses EXCEPT !.status = "failed", !.busy = FALSE]
          /\ prompt' = [prompt EXCEPT ![p] = NoPrompt]
       \/ /\ "llm" \in Env
          /\ prompt' = [prompt EXCEPT ![p].pc = "lock"]
          /\ UNCHANGED ses
    /\ UNCHANGED <<live, turn, asker, call, made>>

LlmLock(p) ==
    /\ prompt[p].pc = "lock" /\ ~ LlmHeld
    /\ ses' = [ses EXCEPT !.busy = TRUE]
    /\ prompt' = [prompt EXCEPT ![p].pc = "llm"]
    /\ UNCHANGED <<live, turn, asker, call, made>>

\* The LLM calls the agent tool; the agentic loop stops after it.
LlmTool(p) ==
    /\ prompt[p].pc = "llm" /\ made < MaxExecs /\ Len(turn) < MaxTurns
    /\ made' = made + 1
    /\ turn' = Append(turn, [pc |-> "new", e |-> made + 1, x |-> 0])
    /\ ses' = Opened([ses EXCEPT !.exec = made + 1, !.task = Len(turn) + 1, !.known = TRUE,
                                 !.busy = TRUE])
    /\ prompt' = [prompt EXCEPT ![p].pc = "started"]
    /\ UNCHANGED <<live, asker, call>>

LlmEnd(p) ==
    /\ prompt[p].pc \in {"llm", "started"}
    /\ ses' = IF ses.exec = 0 THEN [ses EXCEPT !.busy = FALSE] ELSE ses
    /\ prompt' = [prompt EXCEPT ![p] = NoPrompt]
    /\ UNCHANGED <<live, turn, asker, call, made>>

LlmFails(p) ==
    /\ "llmFail" \in Env /\ prompt[p].pc \in {"llm", "started"}
    /\ ses' = [ses EXCEPT !.status = "failed", !.busy = FALSE, !.fired = TRUE]
    /\ prompt' = [prompt EXCEPT ![p] = NoPrompt]
    /\ UNCHANGED <<live, turn, asker, call, made>>

(***************************************************************************)
(* Specification                                                           *)
(***************************************************************************)
\* A connected agent that is between turns, or one that waits for an answer.
Resting ==
    /\ \A t \in DOMAIN turn : turn[t].pc \in {"done", "asking"}
    /\ \A c \in Callers : call[c] = NoCall
    /\ \A p \in Prompters : prompt[p].pc = "idle"

TurnStep(t) ==
    TurnStart(t) \/ TurnFails(t) \/ TurnResult(t) \/ TurnMaxTurns(t) \/ TurnExit(t)
    \/ TurnStopped(t) \/ TurnMore(t) \/ TurnGivesUp(t) \/ TurnOver(t)
CallReturns(c) == CallKilled(c) \/ CallJoined(c) \/ CallDropped(c) \/ ResumeFinished(c)
PromptStep(p) ==
    PromptQueued(p) \/ PromptForward(p) \/ PromptJoined(p) \/ PromptToLlm(p) \/ LlmLock(p)
    \/ LlmTool(p) \/ LlmEnd(p) \/ LlmFails(p)

Next ==
    \/ \E c \in Callers :
         \/ \E op \in {"cancel", "end", "pause", "interrupt"} : CallStart(c, op)
         \/ Resume(c)
         \/ CallReturns(c)
    \/ \E t \in DOMAIN turn : TurnStep(t) \/ Ask(t)
    \/ Answer \/ GateWakes \/ GateTimeout
    \/ \E p \in Prompters :
         \/ \E kind \in {"sent", "drained"} : PromptArrive(p, kind)
         \/ PromptStep(p)

Spec == Init /\ [][Next]_vars

\* A lifecycle call and a prompt do not overlap once the prompt waits for the last stream
\* task, and no agent is built while either waits for one. Nothing in the code keeps
\* clients from it: OneReader is stated under it, not claimed of every behaviour.
Orderly ==
    /\ made' # made => /\ \A c \in Callers : call[c].pc # "join"
                       /\ \A p \in Prompters : prompt[p].pc # "join"
    /\ (\E p \in Prompters : prompt'[p].pc = "join") => \A c \in Callers : call'[c] = NoCall

OrderlySpec == Init /\ [][Next /\ Orderly]_vars

\* A pause that was called has returned before the session is resumed (nor does anything
\* in the code keep clients from this).
PauseFirst ==
    ses.status = "paused" /\ ses'.status = "active" =>
        \A c \in Callers : ~ (call[c].op = "pause" /\ call[c].pc \in {"kill", "join"})

\* The event loop runs every ready task and a disconnect returns: a call goes on when
\* it can, a cancelled task unwinds, and a task that is disconnecting returns.
FairSpec ==
    /\ Spec
    /\ \A c \in Callers : WF_vars(CallReturns(c))
    /\ \A t \in 1 .. MaxTurns : WF_vars(t \in DOMAIN turn /\ TurnStopped(t))
    /\ \A t \in 1 .. MaxTurns : WF_vars(t \in DOMAIN turn /\ turn[t].pc = "cut" /\ TurnOver(t))

(***************************************************************************)
(* Properties                                                              *)
(***************************************************************************)
\* A session that has ended stays ended, whatever answers, timeouts and teardowns
\* are still on their way (SessionStatus; there is no way back but restore).
TerminalStays == [][ses.status \in Terminal => ses'.status \in Terminal]_vars

\* Of all calls, tasks, answers and agents the clients and the archive see only this: the
\* session is open, paused or over, and nothing is announced or archived before it is over
\* (SessionContract), although each call awaits between its look at the status and its end.
Stands == CASE ses.status \in Terminal -> "over"
            [] ses.status = "paused" -> "paused"
            [] ses.status = "active" -> "open"
Contract == INSTANCE SessionContract WITH stands <- Stands, announced <- ses.ended > 0, archived <- ses.fired
KeepsContract == Contract!Spec

\* An ended session is handed to the archive once nothing is going on in it
\* (docs/design/sessions.md:146); a session that failed for want of LLM
\* credentials ("noKey") is the exception.
EndArchived == Resting /\ ses.status \in Terminal => ses.fired

\* One stream task at a time reads an executor's messages: a session whose task runs
\* queues a prompt, and the one a drain forwards cancels that task and waits for it
\* (agent_claude_code.py:1624). The teardown and the forward both write the attribute
\* they read before that wait, whatever it holds by then: this holds under OrderlySpec
\* without turns of the outer LLM, and fails when the waits overlap (README, section 6).
OneReader ==
    \A t, u \in DOMAIN turn :
        /\ turn[t].pc \in {"relay", "asking", "more"} /\ turn[u].pc \in {"relay", "asking", "more"}
        /\ turn[t].e = turn[u].e
        => t = u

\* A session that nothing works for is not busy, so that it takes prompts instead
\* of queueing them for a turn that will never end: every stop of a turn, by a
\* call, an exit, a failure or its limit, clears the activity. It fails once the
\* agent is silent after an answered question, when a resume overlaps a pause
\* (PauseFirst), and when one gives an agent to a turn of the outer LLM that waits for its
\* lock (README, section 6).
IdleIsFree == Resting /\ ses.status = "active" /\ asker = 0 => ~ Busy

\* Every lifecycle call returns, although calls wait for stream tasks that may
\* wait for a disconnect or for an answer.
CallsReturn == \A c \in Callers : (call[c] # NoCall) ~> (call[c] = NoCall)

\* Claims of the repository that the code does not keep (README, section 6).

\* An ended session has no agent connected: cancel_session is documented as
\* "killing any active subprocess" (session_lifecycle.py:219).
EndKills == Resting /\ ses.status \in Terminal => live = {}

\* A stream task never takes the end of its stream for an unexpected exit while a
\* call is killing the process (session_lifecycle.py:495-502 of the pause).
StopIsClean ==
    [][\A t \in DOMAIN turn :
          ses'.groups < ses.groups /\ turn[t].pc = "relay" /\ turn'[t].pc # "relay" =>
              \A c \in Callers : ~ (call[c].pc = "kill" /\ call[c].x = turn[t].e)]_vars

\* A cancel or end of a session "already in a terminal state" is refused
\* (session_lifecycle.py:225), so SESSION_END is pushed once.
OneEnd == ses.ended <= 1

\* "Close any open agent group" (session_lifecycle.py:539): no group is closed
\* that is not open.
GroupsNest == ses.groups >= 0

\* While a pause is in progress no answer of a gate makes the session active again.
PauseHolds ==
    [][ses.status = "paused" /\ ses'.status = "active" /\ asker' # asker =>
         \A c \in Callers : call[c].op # "pause"]_vars

\* Nothing is started for a session that is paused or has ended.
StoppedStartsNothing == [][made' # made => ses'.status = "active"]_vars

\* A session that has been resumed, and whose agent is known, has an executor for it.
ResumeKeepsAgent ==
    Resting /\ ses.status = "active" /\ ses.known => ses.exec # 0

\* An answer is taken by a callback that waits for it.
AnswerReaches == ses.gate = "open" /\ Resting /\ ses.status \notin Terminal => asker # 0
=============================================================================
