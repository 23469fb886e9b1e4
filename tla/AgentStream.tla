----------------------------- MODULE AgentStream ----------------------------
(***************************************************************************)
(* The messages of a Claude Code process: one reader fills a queue; a turn *)
(* reads it up to a result, and between turns it is read on while Monitor  *)
(* watches or background commands are alive.                               *)
(*                                                                         *)
(* Source: src/src/executors/claude_code_sdk.py and                        *)
(* src/src/core/agent_claude_code.py.                                      *)
(*                                                                         *)
(* A message is <<kind, of>>: "watch" and "command" start task `of`,       *)
(* "tick" is an event of a watch, "note" the end of a task, "result" ends  *)
(* the answer to prompt `of` (0: to no prompt), "end" is the end of the    *)
(* stream.  Text goes with the result it precedes.                         *)
(***************************************************************************)
EXTENDS Naturals, Sequences

CONSTANTS
    MaxAsked,    \* bound: prompts of the user
    MaxTasks,    \* bound: watches and commands
    MaxStops     \* bound: requests to stop a watch, ticks and deaths of the process

ASSUME StreamAssumption == MaxAsked \in Nat /\ MaxTasks \in Nat /\ MaxStops \in Nat

Asked == 0 .. MaxAsked
TaskIds == 1 .. MaxTasks
Messages == ({"watch", "command", "tick", "note"} \X TaskIds) \cup ({"result"} \X Asked) \cup {<<"end", 0>>}

VARIABLES
    proc,       \* the process: what it answers, was asked, and the tasks it runs
    messages,   \* _queue
    connected,  \* _connected
    relay,      \* the stream task: its step, its prompt, whether it reads everything
    watches,    \* _active_monitors
    background, \* _pending_bg_tasks
    closed,     \* how often MONITOR_END was shown for each task
    matched,    \* each prompt: the answer its turn ended with
    spent       \* the bounded events so far

messageVars == <<proc, messages, connected, relay, watches, background, closed, matched, spent>>

Resting == [pc |-> "idle", turn |-> 0, all |-> FALSE]
Fresh == [alive |-> TRUE, busy |-> FALSE, of |-> 0, asked |-> <<>>, tasks |-> {}]
Unanswered == MaxAsked + 1

AgentStreamTypeOK ==
    /\ proc.alive \in BOOLEAN /\ proc.busy \in BOOLEAN /\ proc.of \in Asked
    /\ proc.asked \in Seq(Asked) /\ proc.tasks \subseteq TaskIds
    /\ messages \in Seq(Messages) /\ connected \in BOOLEAN
    /\ relay \in [pc : {"idle", "turn", "loop", "more"}, turn : Asked, all : BOOLEAN]
    /\ watches \subseteq TaskIds /\ background \in 0 .. MaxTasks
    /\ closed \in [TaskIds -> 0 .. 2]
    /\ matched \in [1 .. MaxAsked -> 0 .. Unanswered]
    /\ spent \in [asked : Asked, tasks : 0 .. MaxTasks, stops : 0 .. MaxStops]

AgentStreamInit ==
    /\ proc = [Fresh EXCEPT !.alive = FALSE] /\ messages = <<>> /\ connected = FALSE
    /\ relay = Resting /\ watches = {} /\ background = 0
    /\ closed = [n \in TaskIds |-> 0]
    /\ matched = [p \in 1 .. MaxAsked |-> Unanswered]
    /\ spent = [asked |-> 0, tasks |-> 0, stops |-> 0]

\* _read_loop: what the process says is in the queue.
Says(m) == messages' = Append(messages, m)
SessionVars == <<connected, relay, watches, background, closed, matched>>
Spend(what) == spent[what] < (IF what = "tasks" THEN MaxTasks ELSE MaxStops) /\ spent' = [spent EXCEPT ![what] = @ + 1]

-----------------------------------------------------------------------------
(* The process.                                                            *)
ProcBegins ==
    /\ proc.alive /\ ~proc.busy /\ proc.asked # <<>>
    /\ proc' = [proc EXCEPT !.busy = TRUE, !.of = Head(proc.asked), !.asked = Tail(proc.asked)]
    /\ UNCHANGED <<messages, spent, SessionVars>>
\* A Monitor, or a Bash with run_in_background.
ProcStarts ==
    /\ proc.alive /\ proc.busy /\ Spend("tasks")
    /\ \E kind \in {"watch", "command"} : Says(<<kind, spent.tasks + 1>>)
    /\ proc' = [proc EXCEPT !.tasks = @ \cup {spent.tasks + 1}]
    /\ UNCHANGED SessionVars
ProcResult ==
    /\ proc.alive /\ proc.busy
    /\ Says(<<"result", proc.of>>)
    /\ proc' = [proc EXCEPT !.busy = FALSE, !.of = 0]
    /\ UNCHANGED <<spent, SessionVars>>
ProcTicks(n) ==
    /\ proc.alive /\ n \in proc.tasks /\ Spend("stops")
    /\ Says(<<"tick", n>>)
    /\ UNCHANGED <<proc, SessionVars>>
\* A task ends, and wakes the model: it answers, to no prompt.
ProcNotes(n) ==
    /\ proc.alive /\ n \in proc.tasks
    /\ Says(<<"note", n>>)
    /\ proc' = [proc EXCEPT !.tasks = @ \ {n}, !.asked = Append(@, 0)]
    /\ UNCHANGED <<spent, SessionVars>>
ProcDies ==
    /\ proc.alive /\ Spend("stops")
    /\ Says(<<"end", 0>>)
    /\ proc' = [Fresh EXCEPT !.alive = FALSE]
    /\ UNCHANGED SessionVars

-----------------------------------------------------------------------------
(* The relay of a message (_relay_claude_code_stream).                     *)
\* _process_monitor_event, and the end of a background command, whose number is not tracked.
Relayed(m) ==
    /\ watches' = CASE m[1] = "watch" -> watches \cup {m[2]}
                    [] m[1] = "note" -> watches \ {m[2]}
                    [] OTHER -> watches
    /\ closed' = IF m[1] = "note" /\ m[2] \in watches THEN [closed EXCEPT ![m[2]] = @ + 1] ELSE closed
    /\ background' = CASE m[1] = "command" -> background + 1
                       [] m[1] = "note" /\ m[2] \notin watches /\ background > 0 -> background - 1
                       [] OTHER -> background

\* _forward_to_claude_code, once the last turn has its result: a task that still drains is
\* cancelled; a process that is gone is opened again, with a queue of its own.
ForwardPrompt ==
    /\ relay.pc \in {"idle", "loop", "more"} /\ spent.asked < MaxAsked
    /\ spent' = [spent EXCEPT !.asked = @ + 1]
    /\ relay' = [pc |-> "turn", turn |-> spent.asked + 1, all |-> TRUE]
    /\ IF connected THEN /\ proc' = IF proc.alive THEN [proc EXCEPT !.asked = Append(@, spent.asked + 1)] ELSE proc
                         /\ UNCHANGED <<messages, connected>>
       ELSE proc' = [Fresh EXCEPT !.asked = <<spent.asked + 1>>] /\ messages' = <<>> /\ connected' = TRUE
    /\ UNCHANGED <<watches, background, closed, matched>>

\* _stream_turn: up to a result, whosever it is.
ReadTurn ==
    /\ relay.pc = "turn" /\ messages # <<>>
    /\ messages' = Tail(messages)
    /\ Relayed(Head(messages))
    /\ IF Head(messages)[1] = "result"
         THEN /\ relay' = [relay EXCEPT !.pc = "loop"]
              /\ matched' = [matched EXCEPT ![relay.turn] = Head(messages)[2]]
         ELSE UNCHANGED <<relay, matched>>
    /\ Head(messages)[1] # "end"
    /\ UNCHANGED <<proc, connected, spent>>
\* The process has gone without a result: the client is torn down (stop_process).
TurnBreaks ==
    /\ relay.pc = "turn" /\ messages # <<>> /\ Head(messages)[1] = "end"
    /\ messages' = <<>> /\ connected' = FALSE /\ relay' = Resting
    /\ UNCHANGED <<proc, watches, background, closed, matched, spent>>

\* _drain_monitor_events: read on, or the watches of a process that has gone are ended.
DrainMore ==
    /\ relay.pc = "loop" /\ connected /\ (watches # {} \/ background > 0)
    /\ relay' = [relay EXCEPT !.pc = "more", !.all = background > 0]
    /\ UNCHANGED <<proc, messages, connected, watches, background, closed, matched, spent>>
DrainDone ==
    /\ relay.pc = "loop" /\ ~(connected /\ (watches # {} \/ background > 0))
    /\ relay' = Resting
    /\ IF connected THEN UNCHANGED <<watches, background, closed>>
       ELSE /\ closed' = [n \in TaskIds |-> IF n \in watches THEN closed[n] + 1 ELSE closed[n]]
            /\ watches' = {} /\ background' = IF watches # {} THEN 0 ELSE background
    /\ UNCHANGED <<proc, messages, connected, matched, spent>>
\* read_more_events: everything while a command runs, otherwise the events of tools alone.
ReadMore ==
    /\ relay.pc = "more" /\ messages # <<>> /\ Head(messages)[1] # "end"
    /\ messages' = Tail(messages)
    /\ IF relay.all \/ Head(messages)[1] \in {"tick", "note"} THEN Relayed(Head(messages))
       ELSE UNCHANGED <<watches, background, closed>>
    /\ UNCHANGED <<proc, connected, relay, matched, spent>>
MoreEnds ==
    /\ relay.pc = "more" /\ messages # <<>> /\ Head(messages)[1] = "end"
    /\ messages' = Tail(messages) /\ connected' = FALSE
    /\ relay' = [relay EXCEPT !.pc = "loop"]
    /\ UNCHANGED <<proc, watches, background, closed, matched, spent>>
\* Five seconds without a message.
IdleGap ==
    /\ relay.pc = "more" /\ messages = <<>>
    /\ relay' = [relay EXCEPT !.pc = "loop"]
    /\ UNCHANGED <<proc, messages, connected, watches, background, closed, matched, spent>>

-----------------------------------------------------------------------------
\* Mutant: the watch is still tracked after its end was shown.
UntrackedLate(n) == watches
\* cancel_monitor forgets the watch before anything can be awaited.
Untracked(n) == watches \ {n}

\* cancel_monitor: the end is shown at once, and the process asked to stop the watch.
CancelMonitor(n) ==
    /\ n \in watches /\ Spend("stops")
    /\ watches' = Untracked(n)
    /\ closed' = [closed EXCEPT ![n] = @ + 1]
    /\ proc' = IF connected /\ proc.alive THEN [proc EXCEPT !.asked = Append(@, 0)] ELSE proc
    /\ UNCHANGED <<messages, connected, relay, background, matched>>
\* The end, an interrupt or a pause of the session: _terminate_active_monitors, and the
\* process is stopped.
StopAgent ==
    /\ connected /\ Spend("stops")
    /\ closed' = [n \in TaskIds |-> IF n \in watches THEN closed[n] + 1 ELSE closed[n]]
    /\ watches' = {} /\ background' = 0
    /\ proc' = [Fresh EXCEPT !.alive = FALSE] /\ messages' = <<>> /\ connected' = FALSE
    /\ relay' = Resting
    /\ UNCHANGED matched

AgentStreamNext ==
    \/ ProcBegins \/ ProcStarts \/ ProcResult \/ ProcDies
    \/ \E n \in TaskIds : ProcTicks(n) \/ ProcNotes(n) \/ CancelMonitor(n)
    \/ ForwardPrompt \/ ReadTurn \/ TurnBreaks \/ DrainMore \/ DrainDone \/ ReadMore \/ MoreEnds \/ IdleGap
    \/ StopAgent

AgentStreamSpec == AgentStreamInit /\ [][AgentStreamNext]_messageVars

(***************************************************************************)
(* Properties                                                              *)
(***************************************************************************)
\* The end of a watch is shown once, and not while it is tracked, although the user, the process,
\* its death and the end of the session each end it, and its own terminal may be in the queue
\* already (cancel_monitor, _process_monitor_event, _terminate_active_monitors).
WatchEndsOnce == \A n \in TaskIds : closed[n] <= IF n \in watches THEN 0 ELSE 1

(***************************************************************************)
(* Claims of the repository that the code does not keep (README, section 6).*)
(***************************************************************************)
\* "so the between-turns drain stays alive to stream the completion + continuation instead of
\* leaving them buffered until the next user message" (agent_claude_code.py:793): after a gap in
\* the continuation it is left in the queue, and its result ends the turn of the next prompt.
OwnResult == \A p \in 1 .. MaxAsked : matched[p] \in {p, Unanswered}

\* The count is there for the commands (agent_claude_code.py:791): the terminal of a watch that
\* the user cancelled is taken for the end of one.
CommandsCounted ==
    [][\A n \in TaskIds : ReadMore /\ Head(messages) = <<"note", n>> /\ closed[n] > 0
          => background' = background]_messageVars

\* "so the UI never sees a perpetually live block" (agent_claude_code.py:1476): a process that
\* dies within a turn leaves its watches.
NoDeadWatch == relay.pc = "idle" /\ ~connected => watches = {}
=============================================================================
