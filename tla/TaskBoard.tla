------------------------------ MODULE TaskBoard ------------------------------
(***************************************************************************)
(* The tasks of the worker: requests that change them, the two agents that *)
(* create and judge them for a session, and the Linear issue one may be    *)
(* linked to.                                                              *)
(*                                                                         *)
(* Source: src/src/api/routes/tasks.py, api/integrations/linear.py,        *)
(* core/background_tasks.py, database/engine.py.                           *)
(*                                                                         *)
(* A database session reads in one step and writes in another: SQLite lets *)
(* a second one commit in between, and only columns whose value changes    *)
(* are written.                                                            *)
(***************************************************************************)
EXTENDS Naturals, FiniteSets

CONSTANTS
    Calls,           \* HTTP requests that may run at once
    MaxTasks,        \* bound: tasks that are created, the first at the start
    CallOps          \* the requests of this instance, a subset of AllCallOps

AllCallOps == {"patch", "delete", "attach", "detach", "link", "unlink", "issue", "sync"}

ASSUME BoardAssumption ==
    MaxTasks \in Nat \ {0} /\ CallOps \subseteq AllCallOps

Tasks == 1 .. MaxTasks
TaskStatus == {"todo", "in_progress", "review", "done"}

VARIABLES
    task,        \* the rows of tasks
    member,      \* the tasks the session is attached to (task_sessions)
    issue,       \* the cached row of a Linear issue, and the task it is linked to
    rows,        \* the last id given to a task
    call,        \* what each request does, and what it has read
    work,        \* the session whose results the agents judge
    maker,       \* the agent that creates tasks
    judge        \* the agent that updates them

boardVars == <<task, member, issue, rows, call, work, maker, judge>>

NoTask == [at |-> "none", source |-> "none"]
NoCall == [op |-> "none", task |-> 0, read |-> "none", was |-> 0]
NoMaker == [pc |-> "none", seen |-> {}, had |-> {}, promote |-> {}]
Live(t) == task[t].at \in TaskStatus

BoardTypeOK ==
    /\ task \in [Tasks -> [at : TaskStatus \cup {"none"}, source : {"none", "user", "ai", "linear"}]]
    /\ member \subseteq Tasks
    /\ issue \in [row : BOOLEAN, task : 0 .. MaxTasks]
    /\ rows \in Tasks
    /\ \A c \in Calls : call[c].op \in CallOps \cup {"none"}
    /\ work.mine \subseteq Tasks /\ work.at \in {"active", "ended"} /\ work.fired \in BOOLEAN
    /\ maker.pc \in {"none", "ask", "attach", "done"} /\ maker.seen \subseteq Tasks /\ maker.had \subseteq maker.seen
    /\ judge.pc \in {"none", "load", "ask", "done"} /\ judge.left \subseteq Tasks

BoardInit ==
    /\ task = [t \in Tasks |-> IF t = 1 THEN [at |-> "todo", source |-> "user"] ELSE NoTask]
    /\ member = {}
    /\ issue = [row |-> FALSE, task |-> 0]
    /\ rows = 1
    /\ call = [c \in Calls |-> NoCall]
    /\ work = [at |-> "active", mine |-> {}, fired |-> FALSE]
    /\ maker = NoMaker
    /\ judge = [pc |-> "none", left |-> {}, on |-> 0, read |-> "none"]

\* VALID_TASK_TRANSITIONS
Transition ==
    [todo |-> {"in_progress", "done"}, in_progress |-> {"todo", "review", "done"},
     review |-> {"in_progress", "done"}, done |-> {"todo", "in_progress"}]

\* Mutant: foreign keys are not enforced.
RefUnchecked(t) == TRUE
\* PRAGMA foreign_keys: a row may refer to a task that exists.
RefAllowed(t) == Live(t)

aiVars == <<work, maker, judge>>

-----------------------------------------------------------------------------
(* Requests.                                                               *)
Reads(c, op, t, read, was) ==
    call' = [call EXCEPT ![c] = [op |-> op, task |-> t, read |-> read, was |-> was]]
Ends(c) == call' = [call EXCEPT ![c] = NoCall]

\* _get_task_scoped, and what else the request selects before it writes.
LoadTask(c) ==
    /\ call[c].op = "none"
    /\ \E op \in CallOps \cap {"patch", "delete", "attach", "detach", "link"}, t \in Tasks :
         /\ op # "detach" => Live(t)
         /\ op = "attach" => t \notin member           \* 409: already attached
         /\ op = "detach" => t \in member
         /\ op = "link" => issue.row
         /\ Reads(c, op, t, IF op = "patch" THEN task[t].at ELSE "none", IF op = "link" THEN issue.task ELSE 0)
    /\ UNCHANGED <<task, member, issue, rows, aiVars>>

\* create_task: the row, and a link to the session of the request, in one transaction.
CreateTask ==
    /\ rows < MaxTasks
    /\ rows' = rows + 1
    /\ task' = [task EXCEPT ![rows + 1] = [at |-> "todo", source |-> "user"]]
    /\ \/ member' = member
       \/ member' = member \cup {rows + 1}
    /\ UNCHANGED <<issue, call, aiVars>>

\* update_task: the status is validated against the one that was read; another column
\* may change alone.  An UPDATE of a row that is gone is a 500.
PatchTask(c) ==
    LET t == call[c].task IN
    /\ call[c].op = "patch"
    /\ \/ Live(t) /\ \E s \in Transition[call[c].read] : task' = [task EXCEPT ![t].at = s]
       \/ task' = task
    /\ Ends(c)
    /\ UNCHANGED <<member, issue, rows, aiVars>>

\* delete_task: the links of the row are deleted with it, and the issue loses its task.
DeleteTask(c) ==
    LET t == call[c].task IN
    /\ call[c].op = "delete"
    /\ task' = [task EXCEPT ![t] = NoTask]
    /\ member' = member \ {t}
    /\ issue' = IF issue.task = t THEN [issue EXCEPT !.task = 0] ELSE issue
    /\ Ends(c)
    /\ UNCHANGED <<rows, aiVars>>

\* attach_session_to_task: a link that exists by now, or a task that is gone, is a 500.
AttachSession(c) ==
    /\ call[c].op = "attach"
    /\ member' = IF RefAllowed(call[c].task) THEN member \cup {call[c].task} ELSE member
    /\ Ends(c)
    /\ UNCHANGED <<task, issue, rows, aiVars>>
DetachSession(c) ==
    /\ call[c].op = "detach"
    /\ member' = member \ {call[c].task}
    /\ Ends(c)
    /\ UNCHANGED <<task, issue, rows, aiVars>>

-----------------------------------------------------------------------------
(* The Linear issue.                                                       *)

\* sync_linear_issues, create_linear_issue and update_linear_issue ask Linear first; an
\* error there is a 502.
SyncIssues(c) ==
    /\ call[c].op = "none" /\ "sync" \in CallOps
    /\ Reads(c, "sync", 0, "none", 0)
    /\ UNCHANGED <<task, member, issue, rows, aiVars>>
CreateIssue(c) == SyncIssues(c)
UpdateIssue(c) == issue.row /\ SyncIssues(c)

\* The requests that select the row of the issue.
LoadIssue(c) ==
    /\ call[c].op = "none" /\ issue.row
    /\ \/ "unlink" \in CallOps /\ Reads(c, "unlink", 0, "none", issue.task)
       \/ "issue" \in CallOps /\ issue.task = 0 /\ Reads(c, "issue", 0, "none", 0)     \* else a 409
    /\ UNCHANGED <<task, member, issue, rows, aiVars>>

\* _upsert_issues, after a sync and after a change that Linear took: the row is inserted,
\* or its columns from Linear, which are left out here, change; never its task.
UpsertIssue(c) ==
    /\ call[c].op = "sync"
    /\ issue' = [issue EXCEPT !.row = TRUE]
    /\ Ends(c)
    /\ UNCHANGED <<task, member, rows, aiVars>>

\* link_issue_to_task: the column is written if it changes what was read; a task that is
\* gone breaks its foreign key.
LinkIssue(c) ==
    /\ call[c].op = "link"
    /\ issue' = IF call[c].task # call[c].was /\ RefAllowed(call[c].task)
                THEN [issue EXCEPT !.task = call[c].task] ELSE issue
    /\ Ends(c)
    /\ UNCHANGED <<task, member, rows, aiVars>>
UnlinkIssue(c) ==
    /\ call[c].op = "unlink"
    /\ issue' = IF call[c].was # 0 THEN [issue EXCEPT !.task = 0] ELSE issue
    /\ Ends(c)
    /\ UNCHANGED <<task, member, rows, aiVars>>

\* create_task_from_linear_issue: the task and the link in one transaction.
CreateFromIssue(c) ==
    /\ call[c].op = "issue" /\ rows < MaxTasks
    /\ rows' = rows + 1
    /\ task' = [task EXCEPT ![rows + 1] = [at |-> "todo", source |-> "linear"]]
    /\ issue' = [issue EXCEPT !.task = rows + 1]
    /\ Ends(c)
    /\ UNCHANGED <<member, aiVars>>

-----------------------------------------------------------------------------
(* The agents.  An answer of the model is any; an error ends the agent.    *)
humanVars == <<issue, call>>

\* _create_tasks_from_session: the tasks that are not done go to the model ...
MakerStart ==
    /\ maker.pc = "none" /\ work.at = "active"
    /\ maker' = [NoMaker EXCEPT !.pc = "ask", !.seen = {t \in Tasks : Live(t) /\ task[t].at # "done"}]
    /\ UNCHANGED <<task, member, rows, humanVars, work, judge>>

\* ... which names some to attach; they are loaded again, with their links ...
MakerLoad ==
    /\ maker.pc = "ask"
    /\ \/ \E s \in SUBSET {t \in maker.seen : Live(t)} :
            maker' = [pc |-> "attach", seen |-> s, had |-> s \cap member,
                      promote |-> {t \in s : task[t].at \in {"todo", "review"}}]
       \/ maker' = [NoMaker EXCEPT !.pc = "done"]       \* the model fails
    /\ UNCHANGED <<task, member, rows, humanVars, work, judge>>

\* ... and written, with a new one perhaps, in one transaction; the ids go to the session
\* at the end.  A link that exists by now, or an update or a link of a task that is gone,
\* fails it all.
MakerWrite ==
    LET s == maker.seen
        new == s \ maker.had
        fails == \/ new \cap member # {}
                 \/ \E t \in new : ~ RefAllowed(t)
                 \/ \E t \in maker.promote : ~ Live(t)
        promoted == [t \in Tasks |-> IF t \in maker.promote THEN [task[t] EXCEPT !.at = "in_progress"] ELSE task[t]]
    IN
    /\ maker.pc = "attach"
    /\ maker' = [NoMaker EXCEPT !.pc = "done"]
    /\ \/ fails /\ UNCHANGED <<task, member, rows, work>>
       \/ /\ ~ fails
          /\ task' = promoted /\ member' = member \cup new
          /\ work' = [work EXCEPT !.mine = s]
          /\ rows' = rows
       \/ /\ ~ fails /\ rows < MaxTasks
          /\ rows' = rows + 1
          /\ task' = [promoted EXCEPT ![rows + 1] = [at |-> "in_progress", source |-> "ai"]]
          /\ member' = member \cup new \cup {rows + 1}
          /\ work' = [work EXCEPT !.mine = s \cup {rows + 1}]
    /\ UNCHANGED <<humanVars, judge>>

\* _fire_task_update_task, at a result of the session's agent: nothing without tasks.
\* Here one update runs at a time.
JudgeIs(pc) == judge' = [judge EXCEPT !.pc = pc, !.on = 0, !.read = "none"]
JudgeStart == judge' = [pc |-> "load", left |-> work.mine, on |-> 0, read |-> "none"]
FireUpdate ==
    /\ work.at = "active" /\ work.mine # {} /\ judge.pc \in {"none", "done"}
    /\ work' = [work EXCEPT !.fired = TRUE]
    /\ JudgeStart
    /\ UNCHANGED <<task, member, rows, humanVars, maker>>

\* cancel_session and end_session: the update is fired if no result has.
EndWork ==
    /\ work.at = "active"
    /\ work' = [work EXCEPT !.at = "ended", !.fired = work.fired \/ work.mine # {}]
    /\ IF work.fired \/ work.mine = {} THEN judge' = judge ELSE JudgeStart
    /\ UNCHANGED <<task, member, rows, humanVars, maker>>

\* _update_tasks_from_session: each task is loaded ...
JudgeLoad ==
    /\ judge.pc = "load"
    /\ \/ \E t \in judge.left :
            judge' = IF Live(t) THEN [pc |-> "ask", left |-> judge.left \ {t}, on |-> t, read |-> task[t].at]
                               ELSE [judge EXCEPT !.left = @ \ {t}]
       \/ judge.left = {} /\ JudgeIs("done")
    /\ UNCHANGED <<task, member, rows, humanVars, work, maker>>

\* ... and changed as the model says, never to done, from the status that was read.  An
\* UPDATE of a row that is gone ends the agent.
JudgeWrite ==
    LET t == judge.on IN
    /\ judge.pc = "ask"
    /\ \/ /\ Live(t)
          /\ \E s \in Transition[judge.read] \ {"done"} : task' = [task EXCEPT ![t].at = s]
          /\ JudgeIs("load")
       \/ task' = task /\ JudgeIs("load")       \* nothing to change
       \/ task' = task /\ JudgeIs("done")       \* an error
    /\ UNCHANGED <<member, rows, humanVars, work, maker>>

-----------------------------------------------------------------------------
BoardNext ==
    \/ \E c \in Calls :
         \/ LoadTask(c) \/ PatchTask(c) \/ DeleteTask(c) \/ AttachSession(c) \/ DetachSession(c)
         \/ SyncIssues(c) \/ CreateIssue(c) \/ UpdateIssue(c) \/ UpsertIssue(c)
         \/ LoadIssue(c) \/ LinkIssue(c) \/ UnlinkIssue(c) \/ CreateFromIssue(c)
    \/ CreateTask
    \/ MakerStart \/ MakerLoad \/ MakerWrite \/ FireUpdate \/ EndWork \/ JudgeLoad \/ JudgeWrite

BoardSpec == BoardInit /\ [][BoardNext]_boardVars

(***************************************************************************)
(* Properties                                                              *)
(***************************************************************************)
\* However a deletion and the requests and agents that have read a task interleave, the
\* issue and the session never keep a link to a task that is gone.
NoDangling ==
    /\ issue.task # 0 => Live(issue.task)
    /\ \A t \in member : Live(t)

(***************************************************************************)
(* Claims of the repository that the code does not keep (README, section 6).*)
(***************************************************************************)
\* "Status transitions are validated" (tasks.py:299), and so are those of the agents
\* (background_tasks.py:536): each is checked against a status that was read earlier.
MovesValid ==
    [][\A t \in Tasks : Live(t) /\ task'[t].at \notin {"none", task[t].at} => task'[t].at \in Transition[task[t].at]]_boardVars

\* Creating a task from an issue "Returns 409 if the issue is already linked to a task"
\* (linear.py:560): two requests that read the issue both create one.
OneTaskPerIssue == Cardinality({t \in Tasks : task[t].source = "linear"}) <= 1

\* "Fire task update when a session ends, if not already fired by a tool result"
\* (background_tasks.py:468): nothing is attached while the model still names the tasks.
EndJudged == work.at = "ended" /\ maker.pc = "done" => work.mine = {} \/ judge.pc # "none"
=============================================================================
