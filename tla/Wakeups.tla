------------------------------ MODULE Wakeups ------------------------------
(***************************************************************************)
(* The ScheduleWakeup calls of one session: rows of                        *)
(* session_scheduled_wakes, the mirror the clients' badge is drawn from,   *)
(* one timer task per wake, and the event loop on which the agent's        *)
(* stream, the timers, the HTTP handlers and the end of the session meet.  *)
(*                                                                         *)
(* Source: src/src/core/wakeup_store.py, wakeup_scheduler.py,              *)
(* session_lifecycle.py, agent_claude_code.py, prompt_router.py, main.py.  *)
(*                                                                         *)
(* A write to the store is two steps: the commit, made by the database     *)
(* thread, and the return to the waiting task.  Nothing else happens       *)
(* between two awaits of a task.                                           *)
(***************************************************************************)
EXTENDS Naturals, FiniteSets

CONSTANTS
    Wakes,       \* the wakes the agent may ask for
    Callers,     \* concurrent HTTP or WebSocket calls
    Env,         \* which of Disturbances this instance has
    MaxRestarts  \* bound: restarts of the worker

Disturbances == {"cancel", "cancelAll", "end", "finish", "kill", "restore", "restart"}

ASSUME WakeupAssumption ==
    /\ Env \subseteq Disturbances
    /\ MaxRestarts \in Nat

VARIABLES
    row,       \* the row of a wake: which of Marks it carries
    mirror,    \* ActiveSession.scheduled_wakes
    timer,     \* the scheduler's task for a wake
    shown,     \* the WAKEUP_* events pushed to the session's buffer
    sent,      \* how often the prompt of a wake was routed, and where
    placing,   \* the agent's ScheduleWakeup call for a wake
    session,   \* the session: live, in a terminal state, or out of memory
    saved,     \* what the sessions row says of it
    archiving, \* an archive task was fired
    call,      \* the calls in progress
    restarts

vars == <<row, mirror, timer, shown, sent, placing, session, saved,
          archiving, call, restarts>>

Marks == {"stored", "fired", "cancelled"}
Stages == {"off", "armed", "marking", "marked", "toOwn", "toNew"}
Places == {"own", "new"}
Idle == [op |-> "none", pc |-> "idle", at |-> {}, todo |-> {}, ids |-> {}]

TypeOK ==
    /\ row \in [Wakes -> SUBSET Marks]
    /\ mirror \subseteq Wakes
    /\ timer \in [Wakes -> Stages]
    /\ shown \in [Wakes -> SUBSET {"scheduled", "fired", "cancelled"}]
    /\ sent \in [Wakes -> [Places -> Nat]]
    /\ placing \in [Wakes -> {"new", "writing", "stored", "over"}]
    /\ session \in {"live", "ended", "gone"}
    /\ saved \in {"open", "closed"}
    /\ archiving \in BOOLEAN
    /\ call \in [Callers -> [op : {"none", "one", "all", "end"},
                             pc : {"idle", "tearing", "writing", "written"},
                             at : SUBSET Wakes, todo : SUBSET Wakes,
                             ids : SUBSET Wakes]]
    /\ restarts \in 0 .. MaxRestarts

Init ==
    /\ row = [w \in Wakes |-> {}]
    /\ mirror = {}
    /\ timer = [w \in Wakes |-> "off"]
    /\ shown = [w \in Wakes |-> {}]
    /\ sent = [w \in Wakes |-> [p \in Places |-> 0]]
    /\ placing = [w \in Wakes |-> "new"]
    /\ session = "live"
    /\ saved = "open"
    /\ archiving = FALSE
    /\ call = [c \in Callers |-> Idle]
    /\ restarts = 0

Show(w, event) == [shown EXCEPT ![w] = @ \cup {event}]

(***************************************************************************)
(* The agent asks for a wake.  Its relay handles one block at a time, so   *)
(* at most one such call is in progress.                                   *)
(***************************************************************************)
Placing == {w \in Wakes : placing[w] \in {"writing", "stored"}}

ScheduleWakeup(w) ==
    /\ session = "live" /\ Placing = {} /\ placing[w] = "new"
    /\ placing' = [placing EXCEPT ![w] = "writing"]
    /\ UNCHANGED <<row, mirror, timer, shown, sent, session, saved, archiving, call, restarts>>

EnqueueCommit(w) ==
    /\ placing[w] = "writing"
    /\ placing' = [placing EXCEPT ![w] = "stored"]
    /\ row' = [row EXCEPT ![w] = {"stored"}]
    /\ UNCHANGED <<mirror, timer, shown, sent, session, saved, archiving, call, restarts>>

\* The commit returns: mirror, event and timer without an await in between.
Arm(w) ==
    /\ placing[w] = "stored"
    /\ placing' = [placing EXCEPT ![w] = "over"]
    /\ mirror' = mirror \cup {w}
    /\ shown' = Show(w, "scheduled")
    /\ timer' = [timer EXCEPT ![w] = "armed"]
    /\ UNCHANGED <<row, sent, session, saved, archiving, call, restarts>>

\* Mutant: a call that is cut is left in a state nobody knows.
KillStreamOpen(landed) ==
    /\ landed \subseteq {w \in Wakes : placing[w] = "writing"}
    /\ placing' = [w \in Wakes |-> IF w \in Placing THEN "cut" ELSE placing[w]]
    /\ row' = [w \in Wakes |-> IF w \in landed THEN {"stored"} ELSE row[w]]

\* Killing the stream cuts a call in progress; the commit it was waiting for
\* is made or not, and nobody returns to the mirror and the timer.
KillStream(landed) ==
    /\ landed \subseteq {w \in Wakes : placing[w] = "writing"}
    /\ placing' = [w \in Wakes |-> IF w \in Placing THEN "over" ELSE placing[w]]
    /\ row' = [w \in Wakes |-> IF w \in landed THEN {"stored"} ELSE row[w]]

StreamKilled ==
    /\ "kill" \in Env /\ session = "live" /\ Placing # {}
    /\ \E landed \in SUBSET Placing : KillStream(landed)
    /\ UNCHANGED <<mirror, timer, shown, sent, session, saved, archiving, call, restarts>>

(***************************************************************************)
(* A timer.                                                                *)
(***************************************************************************)
\* The sleep is over.  Without the session in memory the wake is dropped.
TimerFires(w) ==
    /\ timer[w] = "armed"
    /\ timer' = [timer EXCEPT ![w] = IF session = "gone" THEN "off" ELSE "marking"]
    /\ UNCHANGED <<row, mirror, shown, sent, placing, session, saved, archiving, call, restarts>>

MarkFired(w) ==
    /\ timer[w] = "marking"
    /\ timer' = [timer EXCEPT ![w] = "marked"]
    /\ row' = [row EXCEPT ![w] = @ \cup {"fired"}]
    /\ UNCHANGED <<mirror, shown, sent, placing, session, saved, archiving, call, restarts>>

\* Mutant: the event is pushed whoever took the wake out.
RouteAlways(w) ==
    /\ timer[w] = "marked"
    /\ mirror' = mirror \ {w}
    /\ shown' = Show(w, "fired")
    /\ timer' = [timer EXCEPT ![w] = IF session = "live" THEN "toOwn" ELSE "toNew"]
    /\ UNCHANGED <<row, sent, placing, session, saved, archiving, call, restarts>>

\* Whether the wake was still in the mirror decides about the event only; the
\* prompt goes on, to a new session when this one has ended.
Route(w) ==
    /\ timer[w] = "marked"
    /\ mirror' = mirror \ {w}
    /\ shown' = IF w \in mirror THEN Show(w, "fired") ELSE shown
    /\ timer' = [timer EXCEPT ![w] = IF session = "live" THEN "toOwn" ELSE "toNew"]
    /\ UNCHANGED <<row, sent, placing, session, saved, archiving, call, restarts>>

Deliver(w) ==
    /\ timer[w] \in {"toOwn", "toNew"}
    /\ sent' = [sent EXCEPT ![w][IF timer[w] = "toOwn" THEN "own" ELSE "new"] = @ + 1]
    /\ timer' = [timer EXCEPT ![w] = "off"]
    /\ UNCHANGED <<row, mirror, shown, placing, session, saved, archiving, call, restarts>>

\* scheduler.cancel of every wake of a set; a fired mark on its way to the
\* database still lands or not.
CancelTimers(ws, landed) ==
    /\ landed \subseteq {w \in ws : timer[w] = "marking"}
    /\ timer' = [w \in Wakes |-> IF w \in ws THEN "off" ELSE timer[w]]

\* The rows once a call has returned: the marks that landed on the way.
Landed(landed) == [w \in Wakes |-> IF w \in landed THEN row[w] \cup {"fired"} ELSE row[w]]

(***************************************************************************)
(* Calls: DELETE of one wake, DELETE of all, and the end of the session.   *)
(***************************************************************************)
CancelOne(c) ==
    /\ "cancel" \in Env /\ call[c] = Idle /\ session # "gone"
    /\ \E w \in {v \in Wakes : "scheduled" \in shown[v]} :
         call' = [call EXCEPT ![c] = [op |-> "one", pc |-> "writing", at |-> {w},
                                      todo |-> {}, ids |-> {w}]]
    /\ UNCHANGED <<row, mirror, timer, shown, sent, placing, session, saved, archiving, restarts>>

\* cancel_all_for_session walks a copy of the mirror, one commit per wake.
CancelAll(c) ==
    /\ "cancelAll" \in Env /\ call[c] = Idle /\ session # "gone" /\ mirror # {}
    /\ \E w \in mirror :
         call' = [call EXCEPT ![c] = [op |-> "all", pc |-> "writing", at |-> {w},
                                      todo |-> mirror \ {w}, ids |-> mirror]]
    /\ UNCHANGED <<row, mirror, timer, shown, sent, placing, session, saved, archiving, restarts>>

EndSession(c) ==
    /\ "end" \in Env /\ call[c] = Idle /\ session = "live"
    /\ call' = [call EXCEPT ![c] = [Idle EXCEPT !.op = "end", !.pc = "tearing"]]
    /\ UNCHANGED <<row, mirror, timer, shown, sent, placing, session, saved, archiving, restarts>>

\* The executors are down: the session is terminal, and its wakes are dropped
\* before the archive task is fired.
EndTorn(c) ==
    /\ call[c].pc = "tearing"
    /\ \E landed \in SUBSET Placing : KillStream(landed)
    /\ session' = IF session = "live" THEN "ended" ELSE session
    /\ IF mirror = {}
       THEN archiving' = TRUE /\ call' = [call EXCEPT ![c] = Idle]
       ELSE /\ \E w \in mirror :
                 call' = [call EXCEPT ![c] = [op |-> "end", pc |-> "writing", at |-> {w},
                                              todo |-> mirror \ {w}, ids |-> mirror]]
            /\ UNCHANGED archiving
    /\ UNCHANGED <<mirror, timer, shown, sent, saved, restarts>>

\* Mutant: cancelling writes no row.
CancelCommitUnwritten(c) ==
    /\ call[c].pc = "writing"
    /\ call' = [call EXCEPT ![c].pc = "written"]
    /\ UNCHANGED <<row, mirror, timer, shown, sent, placing, session, saved, archiving, restarts>>

CancelCommit(c) ==
    /\ call[c].pc = "writing"
    /\ call' = [call EXCEPT ![c].pc = "written"]
    /\ row' = [w \in Wakes |-> IF w \in call[c].at /\ row[w] # {}
                               THEN row[w] \cup {"cancelled"} ELSE row[w]]
    /\ UNCHANGED <<mirror, timer, shown, sent, placing, session, saved, archiving, restarts>>

\* The cancelled wake leaves the mirror; the event is pushed by whoever takes
\* it out.
Removed(c) ==
    /\ mirror' = mirror \ call[c].at
    /\ shown' = [w \in Wakes |-> IF w \in call[c].at \cap mirror
                                 THEN shown[w] \cup {"cancelled"} ELSE shown[w]]

\* Mutant: the timer is left running.
CancelledOneNoTimer(c) ==
    /\ call[c].op = "one" /\ call[c].pc = "written"
    /\ Removed(c)
    /\ call' = [call EXCEPT ![c] = Idle]
    /\ UNCHANGED <<row, timer, sent, placing, session, saved, archiving, restarts>>

\* One wake: 404, and no timer cancelled, when it was not in the mirror.
CancelledOne(c) ==
    /\ call[c].op = "one" /\ call[c].pc = "written"
    /\ Removed(c)
    /\ \E landed \in SUBSET call[c].at :
         /\ CancelTimers(call[c].at \cap mirror, landed)
         /\ row' = Landed(landed)
    /\ call' = [call EXCEPT ![c] = Idle]
    /\ UNCHANGED <<sent, placing, session, saved, archiving, restarts>>

CancelNext(c) ==
    /\ call[c].op \in {"all", "end"} /\ call[c].pc = "written" /\ call[c].todo # {}
    /\ Removed(c)
    /\ \E w \in call[c].todo :
         call' = [call EXCEPT ![c].pc = "writing", ![c].at = {w}, ![c].todo = @ \ {w}]
    /\ UNCHANGED <<row, timer, sent, placing, session, saved, archiving, restarts>>

\* The last one: only now are the timers cancelled, those of every wake the
\* mirror held at the start.
CancelledAll(c) ==
    /\ call[c].op \in {"all", "end"} /\ call[c].pc = "written" /\ call[c].todo = {}
    /\ Removed(c)
    /\ \E landed \in SUBSET call[c].ids :
         /\ CancelTimers(call[c].ids, landed)
         /\ row' = Landed(landed)
    /\ archiving' = (archiving \/ call[c].op = "end")
    /\ call' = [call EXCEPT ![c] = Idle]
    /\ UNCHANGED <<sent, placing, session, saved, restarts>>

(***************************************************************************)
(* The session and the worker.                                             *)
(***************************************************************************)
\* The agent's stream ends the session itself; it drops no wakes.
AgentFinishes ==
    /\ "finish" \in Env /\ session = "live" /\ Placing = {}
    /\ session' = "ended"
    /\ archiving' = TRUE
    /\ UNCHANGED <<row, mirror, timer, shown, sent, placing, saved, call, restarts>>

Archive ==
    /\ archiving /\ session = "ended"
    /\ session' = "gone"
    /\ saved' = "closed"
    /\ archiving' = FALSE
    /\ UNCHANGED <<row, mirror, timer, shown, sent, placing, call, restarts>>

\* The periodic flush writes the status the session has.
Flush ==
    /\ session # "gone"
    /\ saved # (IF session = "live" THEN "open" ELSE "closed")
    /\ saved' = IF session = "live" THEN "open" ELSE "closed"
    /\ UNCHANGED <<row, mirror, timer, shown, sent, placing, session, archiving, call, restarts>>

\* restore_session makes a new object with an empty mirror.  Bound: no call on
\* the old object is still in progress.
RestoreSession ==
    /\ "restore" \in Env /\ session = "gone" /\ saved = "closed"
    /\ \A c \in Callers : call[c] = Idle
    /\ \A w \in Wakes : timer[w] \in {"off", "armed"}
    /\ session' = "live"
    /\ mirror' = {}
    /\ archiving' = FALSE
    /\ UNCHANGED <<row, timer, shown, sent, placing, saved, call, restarts>>

\* Mutant: the query does not ask for fired_at.
PendingUnfiltered == {w \in Wakes : "stored" \in row[w] /\ "cancelled" \notin row[w]}

Pending == {w \in Wakes : row[w] = {"stored"}}

\* restore_all_pending and the arming of what it found, for a session that
\* reload_stale_sessions brought back.
Hydrated == IF saved = "open" THEN Pending ELSE {}

\* Mutant: the mirror is hydrated and nothing is armed.
ArmedNone == [w \in Wakes |-> "off"]

Armed == [w \in Wakes |-> IF w \in Hydrated THEN "armed" ELSE "off"]

Restart ==
    /\ "restart" \in Env /\ restarts < MaxRestarts
    /\ restarts' = restarts + 1
    /\ session' = IF saved = "open" THEN "live" ELSE "gone"
    /\ mirror' = Hydrated
    /\ timer' = Armed
    /\ placing' = [w \in Wakes |-> IF w \in Placing THEN "over" ELSE placing[w]]
    /\ archiving' = FALSE
    /\ call' = [c \in Callers |-> Idle]
    /\ UNCHANGED <<row, shown, sent, saved>>

Next ==
    \/ \E w \in Wakes : ScheduleWakeup(w) \/ EnqueueCommit(w) \/ Arm(w)
    \/ \E w \in Wakes : TimerFires(w) \/ MarkFired(w) \/ Route(w) \/ Deliver(w)
    \/ \E c \in Callers : CancelOne(c) \/ CancelAll(c) \/ EndSession(c)
    \/ \E c \in Callers : EndTorn(c) \/ CancelCommit(c) \/ CancelledOne(c)
                          \/ CancelNext(c) \/ CancelledAll(c)
    \/ StreamKilled \/ AgentFinishes \/ Archive \/ Flush \/ RestoreSession \/ Restart

Spec == Init /\ [][Next]_vars

\* Commits return, sleeps end and woken tasks run.
FairSpec ==
    /\ Spec
    /\ \A w \in Wakes : WF_vars(EnqueueCommit(w) \/ Arm(w))
    /\ \A w \in Wakes : WF_vars(TimerFires(w) \/ MarkFired(w) \/ Route(w) \/ Deliver(w))
    /\ \A c \in Callers : WF_vars(EndTorn(c) \/ CancelCommit(c) \/ CancelledOne(c)
                                  \/ CancelNext(c) \/ CancelledAll(c))

(***************************************************************************)
(* Properties.                                                             *)
(***************************************************************************)
\* The prompt of a wake reaches an agent at most once, over every race of its
\* timer with calls, ends and restarts: mark_fired is durable before the prompt
\* is routed, and a restart arms only what is neither fired nor cancelled.
SentOnce == \A w \in Wakes : sent[w]["own"] + sent[w]["new"] <= 1

\* The mirror is what the badge shows.  A wake that is shown there has a timer
\* task that will bring it out, also after a restart and while it is being
\* cancelled together with others.
ShownWillFire ==
    session # "gone" =>
      \A w \in mirror : timer[w] \in {"armed", "marking", "marked"}

\* Clients are told of one end of a wake, fired or cancelled, although a cancel
\* and the timer both write the row: whoever takes it out of the mirror speaks.
OneVerdict == \A w \in Wakes : ~ ({"fired", "cancelled"} \subseteq shown[w])

\* An end the clients were told of is in the row, so that a restart does not
\* bring the wake back.
VerdictDurable ==
    \A w \in Wakes : shown[w] \cap {"fired", "cancelled"} \subseteq row[w]

\* Once the calls that cancel have returned, no wake the clients were shown as
\* cancelled has a timer task left, whichever of the two was first at the mirror
\* and whatever restarts armed meanwhile.
CancelledTimersStop ==
    (\A c \in Callers : call[c] = Idle) =>
        \A w \in Wakes : "cancelled" \in shown[w] => timer[w] = "off"

\* A wake that is shown leaves the badge, whatever calls, ends and restarts meet
\* its timer, unless the session leaves memory first.
BadgeClears == \A w \in Wakes : (w \in mirror) ~> (w \notin mirror \/ session = "gone")

\* Claims of the repository that the code does not keep (README, section 6).

\* buffer.py:54-55 of WAKEUP_FIRED: "FIRED when the timer expires and the prompt
\* is forwarded back into CC".
FiredMeansForwarded ==
    \A w \in Wakes : "fired" \in shown[w] =>
        sent[w]["own"] + sent[w]["new"] = 1 \/ timer[w] \in {"toOwn", "toNew"}

\* wakeup_scheduler.py:9: "Cancelling a wake or ending the session removes the
\* timer."  A wake the clients were shown as cancelled does not reach the agent
\* any more.  The bulk calls break it: they cancel the timers last.
CancelledIsNotSent ==
    \A w \in Wakes : "cancelled" \in shown[w] => sent[w]["own"] + sent[w]["new"] = 0

\* sessions.md:205: "When a session ends / is cancelled, ... scheduled wakes are
\* cancelled."  A session that was archived leaves no timer behind.
EndRemovesTimers == session = "gone" => \A w \in Wakes : timer[w] # "armed"

\* wakeup_store.py:208-209 of wakes of a session that is not in memory: "their
\* wakes still survive in the DB and will be re-hydrated when the session is
\* restored."
RestoredHasWakes ==
    session = "live" /\ Placing = {} /\ (\A w \in Wakes : timer[w] = "off") => Pending = {}
=============================================================================
