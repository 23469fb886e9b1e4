---------------------------- MODULE PendingQueue ----------------------------
(***************************************************************************)
(* The queue of user messages of ONE session: the rows of the table         *)
(* session_pending_messages, their mirror in memory, the store operations   *)
(* that write the row first and the mirror after an await, the drain task   *)
(* that hands queued messages to the agent, and what races with them: other *)
(* clients, turn ends, pause, resume, session end and a crash.              *)
(*                                                                         *)
(* The worker is one asyncio event loop.  An action is the code between two *)
(* awaits; a database transaction takes effect in the action of its COMMIT. *)
(* A process of the model is a task: a client connection or prompt task     *)
(* (Senders) or the drain task (Drainer).  The turn of the agent, and the   *)
(* pausing and the ending lifecycle call, have variables of their own.      *)
(***************************************************************************)
EXTENDS Naturals, FiniteSets, SequencesExt

CONSTANTS Prompts,   \* what is submitted; each prompt once
          Senders,   \* client connections and prompt tasks
          Drainer,   \* the drain task of the session
          MaxGen,    \* bound: how often one prompt may enter the queue
          Env,       \* the disturbances the environment may cause
          NoJob

Disturbances == {"cancel", "edit", "wake", "pause", "end", "exit", "refuse", "crash"}

ASSUME DrainerAssumption == Drainer \notin Senders
ASSUME MaxGenAssumption == MaxGen \in Nat \ {0}
ASSUME EnvAssumption == Env \subseteq Disturbances

Procs == Senders \cup {Drainer}

(* A queued_id.  A prompt that enters the queue again (handle_prompt found the *)
(* session paused) gets a new id, hence the generation.                        *)
Msgs == Prompts \X (1 .. MaxGen)

(* A row of the table; an entry of the mirror has the same fields. *)
Rows == [msg : Msgs, pos : Nat, edited : BOOLEAN]
ASSUME NoJobAssumption == NoJob \notin Rows

VARIABLES
    db,       \* the committed rows
    files,    \* the queued_ids whose attachment directory exists
    mirror,   \* session.pending_user_messages
    status,   \* session.status; "down" while the worker is not running
    turn,     \* a stream task of the agent is live
    soon,     \* done-callbacks that are due, in the order call_soon runs them
    pc,       \* where each task stands
    job,      \* the row each task works on
    quiet,    \* the tasks whose enqueue is not followed by a resume
    pauser,   \* progress of PromptRouter.pause_session
    ender,    \* progress of SessionLifecycle.end_session / cancel_session
    owed,     \* the agent is gone: the session is to complete, now or once resumed
    fate,     \* history: what became of each prompt
    runs,     \* history: how often each prompt was handed to an agent
    replies   \* history: the cancels and edits acknowledged as done

life == <<status, turn, soon, pauser, ender, owed>>
vars == <<db, files, mirror, status, turn, soon, pc, job, quiet, pauser, ender, owed, fate, runs, replies>>

PCs == {"idle", "prepare", "insert", "mirror", "resume", "offer",
        "cancelDelete", "cancelMirror", "editUpdate", "editMirror",
        "loop", "delete", "take", "finished"}

Fates == {"unsent", "offered", "queued", "claimed", "delivered", "cancelled",
          "dropped", "misrouted", "failed", "aborted", "lost"}

Init ==
    /\ db = {} /\ files = {} /\ mirror = << >>
    /\ status = "active" /\ turn \in BOOLEAN /\ soon = << >>
    /\ pc = [p \in Procs |-> "idle"]
    /\ job = [p \in Procs |-> NoJob] /\ quiet = {}
    /\ pauser = "no" /\ ender = "no" /\ owed = "no"
    /\ fate = [x \in Prompts |-> "unsent"]
    /\ runs = [x \in Prompts |-> 0]
    /\ replies = {}

-----------------------------------------------------------------------------
(* The table and the mirror *)

HasRow(m) == \E r \in db : r.msg = m

(* SessionPendingMessageStore._next_position *)
NextPosition == IF db = {} THEN 0 ELSE 1 + Max({r.pos : r \in db})

(* What ORDER BY position may return: equal positions come in any order. *)
ByPosition(rows) ==
    {s \in [1 .. Cardinality(rows) -> rows] :
        /\ Range(s) = rows
        /\ \A i, j \in 1 .. Cardinality(rows) : i < j => s[i].pos <= s[j].pos}

(* Variant: the head is renumbered as if it were still there. *)
RenumberedFromHead(s) == [i \in 1 .. Len(s) |-> [s[i] EXCEPT !.pos = i - 2]]

(* Dense positions from 0, in list order. *)
Renumbered(s) == [i \in 1 .. Len(s) |-> [s[i] EXCEPT !.pos = i - 1]]

(* The commit of _delete_one: the row leaves, the others are renumbered. *)
DeleteRow(m) ==
    \E s \in ByPosition({r \in db : r.msg # m}) : db' = Range(Renumbered(s))

(* SessionPendingState.add *)
MirrorAdd(s, r) ==
    LET later == {i \in 1 .. Len(s) : s[i].pos > r.pos}
    IN  IF later = {} THEN Append(s, r) ELSE InsertAt(s, Min(later), r)

MirrorHas(m) == \E i \in 1 .. Len(mirror) : mirror[i].msg = m
MirrorAt(m) == CHOOSE i \in 1 .. Len(mirror) : mirror[i].msg = m

(* SessionPendingState.remove and SessionPendingState.update *)
MirrorRemove(m) ==
    mirror' = IF MirrorHas(m) THEN Renumbered(RemoveAt(mirror, MirrorAt(m))) ELSE mirror
MirrorUpdate(m) ==
    mirror' = IF MirrorHas(m) THEN [mirror EXCEPT ![MirrorAt(m)].edited = TRUE] ELSE mirror

(* ActiveSession.is_busy_for_queue *)
Busy == turn \/ status = "paused"
Up == status \in {"active", "paused"}

(* PromptRouter.schedule_pending_drain: the program counters it leaves, from   *)
(* counters c and with session status st.  A drainer that is not idle is in    *)
(* _draining_sessions.                                                         *)
Scheduled(c, st) ==
    IF mirror # << >> /\ st = "active" /\ c[Drainer] = "idle"
    THEN [c EXCEPT ![Drainer] = "loop"]
    ELSE c

Settle(x, f) == fate' = [fate EXCEPT ![x] = f]
Goto(p, label) == pc' = [pc EXCEPT ![p] = label]
Work(p, j) == job' = [job EXCEPT ![p] = j]
Prompt(p) == job[p].msg[1]

(* _drain_one returns: its done-callback will take it off _draining_sessions. *)
FinishDrain ==
    /\ Goto(Drainer, "finished") /\ Work(Drainer, NoJob)
    /\ soon' = Append(soon, "gone")

(* A task done with an enqueue or a delivery: the drain loops, others end. *)
Return(p) == IF p = Drainer THEN "loop" ELSE "idle"

(* Announced to the clients as queued and not claimed yet. *)
Waiting(x) == fate[x] = "queued" /\ \E i \in 1 .. Len(mirror) : mirror[i].msg[1] = x

-----------------------------------------------------------------------------
(* Submitting a prompt *)

(* The /ws/input/text handler: enqueue_user_prompt when the session is busy,   *)
(* otherwise a task that runs handle_prompt.                                   *)
Submit(s, x, next) ==
    /\ Up /\ pc[s] = "idle" /\ fate[x] = "unsent"
    /\ Settle(x, "offered")
    /\ Work(s, [msg |-> <<x, 1>>, pos |-> 0, edited |-> FALSE])
    /\ Goto(s, next) /\ quiet' = quiet \ {s}
    /\ UNCHANGED <<db, files, mirror, life, runs, replies>>

Send(s, x) == Submit(s, x, IF Busy THEN "prepare" ELSE "offer")

(* _fire_pending_wakeup calls handle_prompt without asking whether the session *)
(* is busy.                                                                    *)
Wake(s, x) == "wake" \in Env /\ Submit(s, x, "offer")

(* SessionPendingMessageStore.enqueue up to its INSERT: the attachments are    *)
(* spilled and the last position is read, outside the inserting transaction.   *)
EnqueuePrepare(p) ==
    /\ pc[p] = "prepare"
    /\ files' = files \cup {job[p].msg}
    /\ Work(p, [job[p] EXCEPT !.pos = NextPosition])
    /\ Goto(p, "insert")
    /\ UNCHANGED <<quiet, db, mirror, life, fate, runs, replies>>

(* The commit of the row. *)
EnqueueCommit(p) ==
    /\ pc[p] = "insert"
    /\ db' = db \cup {job[p]}
    /\ Settle(Prompt(p), "queued")
    /\ Goto(p, "mirror")
    /\ UNCHANGED <<quiet, files, mirror, life, job, runs, replies>>

(* Back on the event loop: the mirror, message_queued and the reply. *)
EnqueueMirror(p) ==
    /\ pc[p] = "mirror"
    /\ mirror' = MirrorAdd(mirror, job[p])
    /\ Work(p, NoJob)
    /\ Goto(p, "resume")
    /\ UNCHANGED <<quiet, db, files, life, fate, runs, replies>>

(* SessionLifecycle.resume_session, from counters c: it has no await before it  *)
(* schedules the drain.  A completion that was put off while paused comes      *)
(* first, and then no drain is scheduled.                                      *)
ResumeSession(c) ==
    /\ status' = "active"
    /\ IF owed = "whenResumed"
       THEN owed' = "now" /\ pc' = c
       ELSE pc' = Scheduled(c, "active") /\ UNCHANGED owed

(* The resume_session after an enqueue on a paused session.  handle_prompt     *)
(* calls it when it found the session paused, the websocket handler when it    *)
(* finds it paused now, and handle_prompt does not after a live turn.          *)
ResumeAfterEnqueue(p) ==
    /\ pc[p] = "resume"
    /\ LET back == [pc EXCEPT ![p] = Return(p)]
       IN  IF status = "paused" /\ p \notin quiet
           THEN ResumeSession(back)
           ELSE pc' = back /\ UNCHANGED <<status, owed>>
    /\ UNCHANGED <<quiet, db, files, mirror, turn, soon, job, pauser, ender, fate, runs, replies>>

-----------------------------------------------------------------------------
(* handle_prompt, past the await of _ensure_session_row_in_db *)

(* The prompt of p reaches an agent: _forward_to_claude_code cancels a live    *)
(* stream task and starts the new turn.                                        *)
HandOver(p) ==
    /\ Settle(Prompt(p), "delivered")
    /\ runs' = [runs EXCEPT ![Prompt(p)] = @ + 1]
    /\ turn' = TRUE
    /\ Goto(p, Return(p))
    /\ Work(p, NoJob)
    /\ UNCHANGED <<status, soon, pauser, ender, owed, replies>>

(* Variant: a paused session just returns, as _forward_to_claude_code would. *)
OfferPausedReturns(p) ==
    /\ pc[p] = "offer" /\ status = "paused"
    /\ Goto(p, Return(p)) /\ Work(p, NoJob)
    /\ UNCHANGED <<quiet, db, files, mirror, life, fate, runs, replies>>

(* A paused session: into the queue (again, with a new id) and resume.         *)
OfferPaused(p) ==
    /\ pc[p] = "offer" /\ status = "paused"
    /\ IF p = Drainer
       THEN job[p].msg[2] < MaxGen /\ Work(p, [job[p] EXCEPT !.msg[2] = @ + 1])
       ELSE UNCHANGED job
    /\ Goto(p, "prepare")
    /\ UNCHANGED <<quiet, db, files, mirror, life, fate, runs, replies>>

(* A live turn: a prompt that is not a drain delivery is queued. *)
OfferBusy(p) ==
    /\ pc[p] = "offer" /\ status = "active" /\ turn /\ p # Drainer
    /\ Goto(p, "prepare") /\ quiet' = quiet \cup {p}
    /\ UNCHANGED <<db, files, mirror, life, job, fate, runs, replies>>

OfferRun(p) ==
    /\ pc[p] = "offer" /\ status = "active" /\ (turn => p = Drainer)
    /\ HandOver(p)
    /\ UNCHANGED <<quiet, db, files, mirror>>

(* The session ended meanwhile: ensure_session makes a new one for the prompt, *)
(* or, already past that check, the prompt goes to the LLM of the ended one.   *)
OfferEnded(p) ==
    /\ pc[p] = "offer" /\ status = "ended"
    /\ Settle(Prompt(p), "misrouted")
    /\ runs' = [runs EXCEPT ![Prompt(p)] = @ + 1]
    /\ Goto(p, Return(p)) /\ Work(p, NoJob)
    /\ UNCHANGED <<quiet, db, files, mirror, life, replies>>

(* The delivery raises: the drain reports an error and returns, and with it    *)
(* the rest of the queue stays.  Refused by the token limit, it reports and    *)
(* goes on.                                                                    *)
OfferFails(p) ==
    /\ "refuse" \in Env
    /\ pc[p] = "offer" /\ status = "active" /\ (turn => p = Drainer)
    /\ Settle(Prompt(p), "failed")
    /\ \/ Goto(p, Return(p)) /\ Work(p, NoJob) /\ UNCHANGED soon
       \/ p = Drainer /\ FinishDrain
    /\ UNCHANGED <<quiet, db, files, mirror, status, turn, pauser, ender, owed, runs, replies>>

-----------------------------------------------------------------------------
(* The drain: _drain_one and pop_head *)

DrainLoop ==
    /\ pc[Drainer] = "loop"
    /\ IF mirror # << >> /\ ~ Busy
       THEN Goto(Drainer, "delete") /\ Work(Drainer, Head(mirror)) /\ UNCHANGED soon
       ELSE FinishDrain
    /\ UNCHANGED <<quiet, db, files, mirror, status, turn, pauser, ender, owed, fate, runs, replies>>

(* Variant: the rowcount of the DELETE is not looked at. *)
DrainClaimUnchecked ==
    /\ pc[Drainer] = "delete"
    /\ DeleteRow(job[Drainer].msg)
    /\ Settle(Prompt(Drainer), "claimed")
    /\ Goto(Drainer, "take")
    /\ UNCHANGED <<quiet, files, mirror, life, job, runs, replies>>

(* Variant: the row is deleted only after the delivery. *)
DrainClaimLateDelete ==
    /\ pc[Drainer] = "delete" /\ HasRow(job[Drainer].msg)
    /\ Settle(Prompt(Drainer), "claimed")
    /\ Goto(Drainer, "take")
    /\ UNCHANGED <<quiet, db, files, mirror, life, job, runs, replies>>

(* The commit of the DELETE.  No row: pop_head returns None and the drain ends. *)
DrainClaim ==
    /\ pc[Drainer] = "delete" /\ HasRow(job[Drainer].msg)
    /\ DeleteRow(job[Drainer].msg)
    /\ Settle(Prompt(Drainer), "claimed")
    /\ Goto(Drainer, "take")
    /\ UNCHANGED <<quiet, files, mirror, life, job, runs, replies>>

DrainMiss ==
    /\ pc[Drainer] = "delete" /\ ~ HasRow(job[Drainer].msg)
    /\ FinishDrain
    /\ UNCHANGED <<quiet, db, files, mirror, status, turn, pauser, ender, owed, fate, runs, replies>>

(* The mirror, the attachment directory, message_dequeued, then the awaits of  *)
(* rehydrate_attachments and handle_prompt.                                    *)
DrainTake ==
    /\ pc[Drainer] = "take"
    /\ MirrorRemove(job[Drainer].msg)
    /\ files' = files \ {job[Drainer].msg}
    /\ IF MirrorHas(job[Drainer].msg)
       THEN /\ Work(Drainer, mirror[MirrorAt(job[Drainer].msg)])
            /\ Goto(Drainer, "offer")
            /\ UNCHANGED <<soon, fate>>
       ELSE /\ FinishDrain
            /\ Settle(Prompt(Drainer), "dropped")
    /\ UNCHANGED <<quiet, db, status, turn, pauser, ender, owed, runs, replies>>

(* The task's done-callback leaves _draining_sessions. *)
DrainGone ==
    /\ soon # << >> /\ Head(soon) = "gone"
    /\ soon' = Tail(soon)
    /\ Goto(Drainer, "idle")
    /\ UNCHANGED <<quiet, db, files, mirror, status, turn, job, pauser, ender, owed, fate, runs, replies>>

-----------------------------------------------------------------------------
(* cancel_queued and edit_queued: the client names a message it was shown. *)

Ask(s, label) ==
    /\ Up /\ pc[s] = "idle"
    /\ \E i \in 1 .. Len(mirror) : Work(s, mirror[i])
    /\ Goto(s, label)
    /\ UNCHANGED <<quiet, db, files, mirror, life, fate, runs, replies>>

CancelAsk(s) == "cancel" \in Env /\ Ask(s, "cancelDelete")
EditAsk(s) == "edit" \in Env /\ Ask(s, "editUpdate")

(* The store answers with the entry it found in the mirror; with none, the     *)
(* reply is "already_delivered", as it is when the row is gone.                *)
Reply(s, done) ==
    replies' = IF MirrorHas(job[s].msg) THEN replies \cup {<<Prompt(s), done>>} ELSE replies

StoreMiss(s) ==
    /\ pc[s] \in {"cancelDelete", "editUpdate"} /\ ~ HasRow(job[s].msg)
    /\ Goto(s, "idle") /\ Work(s, NoJob)
    /\ UNCHANGED <<quiet, db, files, mirror, life, fate, runs, replies>>

(* Variant: the DELETE is never committed. *)
CancelUncommitted(s) ==
    /\ pc[s] = "cancelDelete" /\ HasRow(job[s].msg)
    /\ Settle(Prompt(s), "cancelled")
    /\ Goto(s, "cancelMirror")
    /\ UNCHANGED <<quiet, db, files, mirror, life, job, runs, replies>>

CancelCommit(s) ==
    /\ pc[s] = "cancelDelete" /\ HasRow(job[s].msg)
    /\ DeleteRow(job[s].msg)
    /\ Settle(Prompt(s), "cancelled")
    /\ Goto(s, "cancelMirror")
    /\ UNCHANGED <<quiet, files, mirror, life, job, runs, replies>>

CancelMirror(s) ==
    /\ pc[s] = "cancelMirror"
    /\ MirrorRemove(job[s].msg)
    /\ files' = files \ {job[s].msg}
    /\ Reply(s, "cancelled")
    /\ Goto(s, "idle") /\ Work(s, NoJob)
    /\ UNCHANGED <<quiet, db, life, fate, runs>>

EditCommit(s) ==
    /\ pc[s] = "editUpdate" /\ HasRow(job[s].msg)
    /\ db' = {IF r.msg = job[s].msg THEN [r EXCEPT !.edited = TRUE] ELSE r : r \in db}
    /\ Goto(s, "editMirror")
    /\ UNCHANGED <<quiet, files, mirror, life, job, fate, runs, replies>>

(* Variant: the reply is taken from the rowcount of the UPDATE. *)
EditMirrorByRowcount(s) ==
    /\ pc[s] = "editMirror"
    /\ MirrorUpdate(job[s].msg)
    /\ replies' = replies \cup {<<Prompt(s), "edited">>}
    /\ Goto(s, "idle") /\ Work(s, NoJob)
    /\ UNCHANGED <<quiet, db, files, life, fate, runs>>

EditMirror(s) ==
    /\ pc[s] = "editMirror"
    /\ MirrorUpdate(job[s].msg)
    /\ Reply(s, "edited")
    /\ Goto(s, "idle") /\ Work(s, NoJob)
    /\ UNCHANGED <<quiet, db, files, life, fate, runs>>

-----------------------------------------------------------------------------
(* The agent's turn *)

(* Variant: the stream task leaves no done-callback. *)
TurnEndSilent ==
    /\ turn /\ Up
    /\ turn' = FALSE
    /\ UNCHANGED <<quiet, db, files, mirror, status, soon, pc, job, pauser, ender, owed, fate, runs, replies>>

(* The turn ends with a result.  On an active session its stream task leaves a *)
(* done-callback; on a paused or ended one it just returns.                    *)
TurnEnd ==
    /\ turn /\ Up
    /\ turn' = FALSE
    /\ soon' = IF status = "active" THEN Append(soon, "hook") ELSE soon
    /\ UNCHANGED <<quiet, db, files, mirror, status, pc, job, pauser, ender, owed, fate, runs, replies>>

TurnHook ==
    /\ soon # << >> /\ Head(soon) = "hook"
    /\ soon' = Tail(soon)
    /\ pc' = Scheduled(pc, status)
    /\ UNCHANGED <<quiet, db, files, mirror, status, turn, job, pauser, ender, owed, fate, runs, replies>>

(* The agent process exits without a result: the stream task returns without   *)
(* scheduling a drain.                                                         *)
TurnExit ==
    /\ "exit" \in Env /\ turn /\ Up
    /\ turn' = FALSE
    /\ UNCHANGED <<quiet, db, files, mirror, status, soon, pc, job, pauser, ender, owed, fate, runs, replies>>

(* The stream raises: _end_claude_code_session starts to complete the session. *)
TurnRaises ==
    /\ "exit" \in Env /\ turn /\ Up
    /\ turn' = FALSE /\ owed' = "now"
    /\ UNCHANGED <<quiet, db, files, mirror, status, soon, pc, job, pauser, ender, fate, runs, replies>>

(* It stops the process, and then a paused session completes when resumed, any *)
(* other one at once.  Neither touches the queue.                              *)
TurnCompletes ==
    /\ owed = "now" /\ status # "down"
    /\ turn' = FALSE
    /\ IF status = "paused" THEN owed' = "whenResumed" /\ UNCHANGED status
       ELSE owed' = "no" /\ status' = "ended"
    /\ UNCHANGED <<quiet, db, files, mirror, soon, pc, job, pauser, ender, fate, runs, replies>>

-----------------------------------------------------------------------------
(* Pause and resume *)

(* The bound MaxGen is on the environment: no further pause once a prompt has  *)
(* used up its queued_ids.                                                     *)
GensLeft ==
    /\ \A r \in db : r.msg[2] < MaxGen
    /\ \A p \in Procs : job[p] # NoJob => job[p].msg[2] < MaxGen

PauseBegin ==
    /\ "pause" \in Env /\ status = "active" /\ pauser = "no" /\ GensLeft
    /\ status' = "paused" /\ pauser' = "teardown"
    /\ UNCHANGED <<quiet, db, files, mirror, turn, soon, pc, job, ender, owed, fate, runs, replies>>

(* _teardown_executors has killed the subprocess and its stream task. *)
PauseTeardown ==
    /\ pauser = "teardown"
    /\ turn' = FALSE /\ pauser' = "wrapUp"
    /\ UNCHANGED <<quiet, db, files, mirror, status, soon, pc, job, ender, owed, fate, runs, replies>>

(* PromptRouter.pause_session resumes at once when messages are waiting. *)
PauseFinish ==
    /\ pauser = "wrapUp"
    /\ pauser' = "no"
    /\ IF mirror # << >> /\ status = "paused"
       THEN ResumeSession(pc)
       ELSE UNCHANGED <<status, pc, owed>>
    /\ UNCHANGED <<quiet, db, files, mirror, turn, soon, job, ender, fate, runs, replies>>

(* The user's resume. *)
Resume ==
    /\ status = "paused"
    /\ ResumeSession(pc)
    /\ UNCHANGED <<quiet, db, files, mirror, turn, soon, job, pauser, ender, fate, runs, replies>>

-----------------------------------------------------------------------------
(* End of the session *)

EndBegin ==
    /\ "end" \in Env /\ Up /\ ender = "no"
    /\ ender' = "teardown"
    /\ UNCHANGED <<quiet, db, files, mirror, status, turn, soon, pc, job, pauser, owed, fate, runs, replies>>

(* complete() or cancel(), and _drop_pending_on_session_end, which does nothing *)
(* when the mirror is empty.                                                   *)
EndComplete ==
    /\ ender = "teardown"
    /\ turn' = FALSE /\ status' = "ended"
    /\ ender' = IF mirror = << >> THEN "no" ELSE "clear"
    /\ UNCHANGED <<quiet, db, files, mirror, soon, pc, job, pauser, owed, fate, runs, replies>>

(* clear_session: the rows, then the mirror and the directories it names. *)
EndClear ==
    /\ ender = "clear"
    /\ db' = {}
    /\ fate' = [x \in Prompts |-> IF \E r \in db : r.msg[1] = x THEN "dropped" ELSE fate[x]]
    /\ ender' = "mirror"
    /\ UNCHANGED <<quiet, files, mirror, status, turn, soon, pc, job, pauser, owed, runs, replies>>

EndMirror ==
    /\ ender = "mirror"
    /\ files' = files \ {mirror[i].msg : i \in 1 .. Len(mirror)}
    /\ mirror' = << >>
    /\ ender' = "no"
    /\ UNCHANGED <<quiet, db, status, turn, soon, pc, job, pauser, owed, fate, runs, replies>>

-----------------------------------------------------------------------------
(* Crash and restart *)

(* What a crash does to a prompt in flight: a claimed message has no row any   *)
(* more.                                                                       *)
AfterCrash(f) == CASE f = "claimed" -> "lost" [] f = "offered" -> "aborted" [] OTHER -> f

Crash ==
    /\ "crash" \in Env /\ Up
    /\ mirror' = << >> /\ status' = "down" /\ turn' = FALSE /\ soon' = << >>
    /\ pc' = [p \in Procs |-> "idle"] /\ job' = [p \in Procs |-> NoJob]
    /\ pauser' = "no" /\ ender' = "no"
    /\ owed' = IF owed = "now" THEN "no" ELSE owed
    /\ fate' = [x \in Prompts |-> AfterCrash(fate[x])]
    /\ UNCHANGED <<quiet, db, files, runs, replies>>

(* reload_stale_sessions finds the session as it was last flushed. *)
Reloaded ==
    \/ status' = "active" /\ owed' = "no"
    \/ status' = "paused" /\ owed' \in {"no", owed}

(* Variant: the orphan sweep asks the mirror, not the table. *)
RestartSweepByMirror ==
    /\ status = "down"
    /\ Reloaded
    /\ files' = files \cap {mirror[i].msg : i \in 1 .. Len(mirror)}
    /\ mirror' \in ByPosition(db)
    /\ UNCHANGED <<quiet, db, turn, soon, pc, job, pauser, ender, fate, runs, replies>>

(* Variant: the mirror is not hydrated. *)
RestartUnloaded ==
    /\ status = "down"
    /\ Reloaded
    /\ files' = files \cap {r.msg : r \in db}
    /\ mirror' = << >>
    /\ UNCHANGED <<quiet, db, turn, soon, pc, job, pauser, ender, fate, runs, replies>>

(* Startup: the session as last flushed, the orphan sweep, load_for_session.   *)
(* No drain is scheduled.                                                      *)
Restart ==
    /\ status = "down"
    /\ Reloaded
    /\ files' = files \cap {r.msg : r \in db}
    /\ mirror' \in ByPosition(db)
    /\ UNCHANGED <<quiet, db, turn, soon, pc, job, pauser, ender, fate, runs, replies>>

-----------------------------------------------------------------------------
Enqueue(p) == EnqueuePrepare(p) \/ EnqueueCommit(p) \/ EnqueueMirror(p) \/ ResumeAfterEnqueue(p)
Offer(p) == OfferPaused(p) \/ OfferBusy(p) \/ OfferRun(p) \/ OfferEnded(p) \/ OfferFails(p)
Drain == DrainLoop \/ DrainClaim \/ DrainMiss \/ DrainTake \/ DrainGone
Store(s) == CancelAsk(s) \/ EditAsk(s) \/ StoreMiss(s)
            \/ CancelCommit(s) \/ CancelMirror(s) \/ EditCommit(s) \/ EditMirror(s)
Turn == TurnEnd \/ TurnHook \/ TurnExit \/ TurnRaises \/ TurnCompletes
Lifecycle == PauseBegin \/ PauseTeardown \/ PauseFinish \/ Resume
             \/ EndBegin \/ EndComplete \/ EndClear \/ EndMirror

Next ==
    \/ \E s \in Senders, x \in Prompts : Send(s, x) \/ Wake(s, x)
    \/ \E p \in Procs : Enqueue(p) \/ Offer(p)
    \/ \E s \in Senders : Store(s)
    \/ Drain \/ Turn \/ Lifecycle \/ Crash \/ Restart

Spec == Init /\ [][Next]_vars

(* The event loop runs every ready task, the database answers, and an agent    *)
(* that works on a turn brings it to an end.  Nothing makes a client act.      *)
Fairness ==
    /\ \A p \in Procs : WF_vars(Enqueue(p) \/ Offer(p))
    /\ \A s \in Senders : WF_vars(StoreMiss(s) \/ CancelCommit(s) \/ CancelMirror(s)
                                  \/ EditCommit(s) \/ EditMirror(s))
    /\ WF_vars(Drain)
    /\ WF_vars(TurnEnd) /\ WF_vars(TurnHook) /\ WF_vars(TurnCompletes)
    /\ WF_vars(PauseTeardown \/ PauseFinish)
    /\ WF_vars(EndComplete \/ EndClear \/ EndMirror)

FairSpec == Spec /\ Fairness

-----------------------------------------------------------------------------
(* Properties *)

(* Every variable has its type. *)
TypeOK ==
    /\ db \subseteq Rows /\ files \subseteq Msgs /\ mirror \in Seq(Rows)
    /\ status \in {"active", "paused", "ended", "down"}
    /\ turn \in BOOLEAN /\ soon \in Seq({"hook", "gone"})
    /\ pc \in [Procs -> PCs] /\ job \in [Procs -> Rows \cup {NoJob}] /\ quiet \subseteq Procs
    /\ pauser \in {"no", "teardown", "wrapUp"}
    /\ ender \in {"no", "teardown", "clear", "mirror"}
    /\ owed \in {"no", "whenResumed", "now"}
    /\ fate \in [Prompts -> Fates] /\ runs \in [Prompts -> Nat]
    /\ replies \subseteq Prompts \X {"cancelled", "edited"}

(* No prompt reaches an agent twice, whatever drains, cancels, pauses, ends    *)
(* and crashes do to its row: the DELETE of pop_head is the claim.             *)
AtMostOnce == \A x \in Prompts : runs[x] <= 1

(* A prompt accepted into the queue has its row until somebody claims it, and  *)
(* a row belongs to a prompt that is still to be delivered, so neither a crash *)
(* nor a restart can bring back a delivered one.                               *)
NoSilentLoss ==
    /\ \A x \in Prompts : fate[x] = "queued" => \E r \in db : r.msg[1] = x
    /\ \A r \in db : fate[r.msg[1]] = "queued"
    /\ \A x \in Prompts : fate[x] = "claimed" =>
          job[Drainer] # NoJob /\ Prompt(Drainer) = x

(* A client told that its cancel succeeded never sees the message run, also    *)
(* when the cancel raced the claim of the drain.                               *)
CancelHonoured ==
    \A x \in Prompts : <<x, "cancelled">> \in replies =>
        /\ runs[x] = 0
        /\ \A r \in db : r.msg[1] # x
        /\ \A p \in Procs : pc[p] \in {"offer", "prepare", "insert"} => Prompt(p) # x

(* A client told that its edit succeeded never sees the old text run: edit     *)
(* replies from the mirror, which the pop empties before it delivers.          *)
EditHonoured ==
    [][/\ \A p \in Procs : OfferRun(p) /\ <<Prompt(p), "edited">> \in replies => job[p].edited
       /\ \A r \in replies' \ replies : runs[r[1]] = 0]_vars

(* A row of a live session never refers to an attachment directory that is gone: the spill comes *)
(* before the INSERT, the removal after the DELETE, and the orphan sweep of a  *)
(* restart spares the directories of the rows.                                 *)
RowHasFiles == status # "ended" => \A r \in db : r.msg \in files

(* Whenever no store operation is between its commit and its mirror update,    *)
(* the mirror of a live session holds exactly the rows, each once, texts       *)
(* included.                                                                   *)
Between == \E p \in Procs : pc[p] \in {"mirror", "take", "cancelMirror", "editMirror"}
MirrorFaithful ==
    (Up /\ ~ Between) =>
        /\ {<<mirror[i].msg, mirror[i].edited>> : i \in 1 .. Len(mirror)}
             = {<<r.msg, r.edited>> : r \in db}
        /\ Len(mirror) = Cardinality(db)

(* A message that is in the mirror while a turn runs leaves it: the end of the *)
(* turn starts a drain that gets to it.                                        *)
TurnEndDrains == \A x \in Prompts : (Waiting(x) /\ turn) ~> ~ Waiting(x)

(* The queue implements its contract: seen from outside, every step accepts a   *)
(* prompt, gives it to an agent once, withdraws it, or gives it up.            *)
Held(x) == job[Drainer] # NoJob /\ Prompt(Drainer) = x
           /\ pc[Drainer] \in {"take", "offer", "prepare", "insert"}
Place(x) ==
    CASE runs[x] > 0 -> "given"
      [] fate[x] = "cancelled" -> "withdrawn"
      [] fate[x] \in {"dropped", "failed", "aborted", "lost"} -> "gone"
      [] Held(x) \/ (\E r \in db : r.msg[1] = x) -> "waiting"
      [] OTHER -> "out"
Contract == INSTANCE QueueContract WITH place <- [x \in Prompts |-> Place(x)]
ImplementsContract == Contract!Spec

(* Claims of the repository that the code does not keep (README, section 6). *)

(* "If the prompt was enqueued, delivery happens on the next turn boundary"    *)
(* (input_text.py): a message never waits on an idle, active session with no   *)
(* drain running or due.                                                       *)
NeverStranded ==
    ~ /\ status = "active" /\ ~ turn /\ soon = << >> /\ mirror # << >>
      /\ pauser = "no" /\ ender = "no" /\ owed = "no"
      /\ \A p \in Procs : pc[p] = "idle"

(* "Mid-turn delivery is not attempted for any agent" (sessions.md): handing a *)
(* message over never cancels a live turn.                                     *)
NoTurnCut == [][\A p \in Procs : OfferRun(p) => ~ turn]_vars

(* rehydrate_attachments "must be called before pop_head" (pending_store.py):  *)
(* a drained message is delivered with its attachments.                        *)
AttachmentsDelivered == [][OfferRun(Drainer) => job[Drainer].msg \in files]_vars

(* "clear_session deletes all rows" when a session ends (sessions.md): once    *)
(* the session has ended and nothing is in flight, it has no rows.             *)
EndLeavesNoRows ==
    (status = "ended" /\ ender = "no" /\ owed = "no" /\ \A p \in Procs : pc[p] = "idle") => db = {}

(* "position: dense integer, FIFO order within the session" (sessions.md): the *)
(* message that the drain took from the head and could not deliver because of  *)
(* a pause goes back to the head.                                              *)
QueueIsFifo == [][EnqueueMirror(Drainer) => Head(mirror').msg = job[Drainer].msg]_vars

(* pop_head returns None only "if the queue emptied" (prompt_router.py). *)
MissMeansEmpty == [][DrainMiss => db = {}]_vars
=============================================================================
