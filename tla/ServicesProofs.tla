---------------------------- MODULE ServicesProofs ----------------------------
(***************************************************************************)
(* Proofs about the services of the worker: the task board and the plans,  *)
(* the managed command-line agents with their settings, logins and models, *)
(* the terminals, the pull requests, and the output that clients follow,   *)
(* each for every value of its constants. No step of one changes the       *)
(* variables of another.                                                   *)
(***************************************************************************)
EXTENDS TaskBoard, PlanArtifacts, ToolManagement, ToolSettings, AgentLogin, ModelCatalog,
        Terminals, PullRequests, OutputStream, ListLemmas, TLAPS

-----------------------------------------------------------------------------
(***************************************************************************)
(* TaskBoard, for any number of tasks, requests and agents.                *)
(*                                                                         *)
(* The rows are never checked when a link is written: a request and the    *)
(* agents that make and judge tasks link what they have loaded, or what    *)
(* they make in the same transaction. The links themselves are therefore   *)
(* the invariant, with what each has read: a status that was read is that  *)
(* of a task.                                                              *)
(***************************************************************************)

TaskRow == [at : TaskStatus \cup {"none"}, source : {"none", "user", "ai", "linear"}]
CallType == [op : CallOps \cup {"none"}, task : 0 .. MaxTasks, read : TaskStatus \cup {"none"}, was : 0 .. MaxTasks]
WorkType == [at : {"active", "ended"}, mine : SUBSET Tasks, fired : BOOLEAN]
MakerType == [pc : {"none", "ask", "attach", "done"}, seen : SUBSET Tasks, had : SUBSET Tasks, promote : SUBSET Tasks]
JudgeType == [pc : {"none", "load", "ask", "done"}, left : SUBSET Tasks, on : 0 .. MaxTasks,
              read : TaskStatus \cup {"none"}]

BoardTyped ==
    /\ task \in [Tasks -> TaskRow] /\ member \in SUBSET Tasks
    /\ issue \in [row : BOOLEAN, task : 0 .. MaxTasks] /\ rows \in Tasks
    /\ call \in [Calls -> CallType]
    /\ work \in WorkType /\ maker \in MakerType /\ judge \in JudgeType
    /\ maker.had \subseteq maker.seen

(* A status that a request or the judge has read is one of a task.          *)
StatusRead ==
    /\ \A c \in Calls : /\ call[c].op = "patch" => call[c].read \in TaskStatus
                        /\ call[c].op \in {"patch", "delete", "attach", "detach", "link"} => call[c].task \in Tasks
    /\ judge.pc = "ask" => judge.read \in TaskStatus /\ judge.on \in Tasks

BoardInv == BoardTyped /\ StatusRead /\ NoDangling
-----------------------------------------------------------------------------
LEMMA BoardConstants ==
    /\ 0 \in 0 .. MaxTasks /\ Tasks \subseteq 0 .. MaxTasks /\ 0 \notin Tasks /\ 1 \in Tasks
    /\ \A n \in Tasks : n < MaxTasks => n + 1 \in Tasks
    /\ NoTask \in TaskRow /\ NoCall \in CallType /\ NoMaker \in MakerType
    /\ NoTask.at \notin TaskStatus /\ NoCall.op = "none" /\ NoMaker.pc = "none" /\ NoMaker.had = {}
    /\ "patch" # "none" /\ \A s \in TaskStatus : Transition[s] \subseteq TaskStatus
<1>1. /\ 0 \in 0 .. MaxTasks /\ Tasks \subseteq 0 .. MaxTasks /\ 0 \notin Tasks /\ 1 \in Tasks
      /\ \A n \in Tasks : n < MaxTasks => n + 1 \in Tasks
  BY BoardAssumption DEF Tasks
<1>2. NoTask \in TaskRow /\ NoTask.at \notin TaskStatus
  BY DEF NoTask, TaskRow, TaskStatus
<1>3. NoCall \in CallType /\ NoCall.op = "none"
  BY <1>1 DEF NoCall, CallType
<1>4. NoMaker \in MakerType /\ NoMaker.pc = "none" /\ NoMaker.had = {}
  BY DEF NoMaker, MakerType
<1>5. \A s \in TaskStatus : Transition[s] \subseteq TaskStatus
  BY DEF TaskStatus, Transition
<1> QED
  BY <1>1, <1>2, <1>3, <1>4, <1>5

LEMMA InitBoardInv == BoardInit => BoardInv
<1> SUFFICES ASSUME BoardInit PROVE BoardInv
  OBVIOUS
<1>1. task \in [Tasks -> TaskRow]
  BY BoardConstants DEF BoardInit, TaskRow, TaskStatus
<1>2. call \in [Calls -> CallType] /\ \A c \in Calls : call[c].op = "none"
  BY BoardConstants DEF BoardInit
<1>3. maker \in MakerType /\ maker.had = {}
  BY BoardConstants DEF BoardInit
<1>4. judge \in JudgeType /\ work \in WorkType /\ judge.pc = "none"
  BY BoardConstants DEF BoardInit, JudgeType, WorkType
<1>5. BoardTyped
  BY <1>1, <1>2, <1>3, <1>4, BoardConstants DEF BoardInit, BoardTyped
<1> QED
  BY <1>2, <1>4, <1>5 DEF BoardInit, BoardInv, StatusRead, NoDangling

(* A new row is a task, and the others stay what they are.                  *)
LEMMA NewTask ==
    ASSUME NEW f \in [Tasks -> TaskRow], NEW t \in Tasks, NEW at \in TaskStatus, NEW src \in {"user", "ai", "linear"},
           NEW g, g = [f EXCEPT ![t] = [at |-> at, source |-> src]]
    PROVE  /\ g \in [Tasks -> TaskRow] /\ g[t].at \in TaskStatus
           /\ \A q \in Tasks : f[q].at \in TaskStatus => g[q].at \in TaskStatus
<1> DEFINE e == [at |-> at, source |-> src]
<1>1. e \in TaskRow /\ e.at = at
  BY DEF TaskRow
<1>2. g = [f EXCEPT ![t] = e]
  OBVIOUS
<1> HIDE DEF e
<1> QED
  BY <1>1, <1>2

(* A request loads or ends, and the rows keep their tasks.                  *)
LEMMA CallStep ==
    ASSUME BoardInv, NEW c \in Calls, NEW e \in CallType, call' = [call EXCEPT ![c] = e],
           e.op = "patch" => e.read \in TaskStatus,
           e.op \in {"patch", "delete", "attach", "detach", "link"} => e.task \in Tasks,
           task' \in [Tasks -> TaskRow], member' \in SUBSET Tasks, rows' \in Tasks,
           issue' \in [row : BOOLEAN, task : 0 .. MaxTasks],
           NoDangling', UNCHANGED aiVars
    PROVE  BoardInv'
<1>1. call' \in [Calls -> CallType] /\ \A q \in Calls : call'[q] = IF q = c THEN e ELSE call[q]
  BY DEF BoardInv, BoardTyped
<1>2. BoardTyped'
  BY <1>1 DEF BoardInv, BoardTyped, aiVars
<1>3. StatusRead'
  BY <1>1 DEF BoardInv, StatusRead, aiVars
<1> QED
  BY <1>2, <1>3 DEF BoardInv

LEMMA LoadSteps ==
    ASSUME BoardInv, NEW c \in Calls,
           LoadTask(c) \/ SyncIssues(c) \/ CreateIssue(c) \/ UpdateIssue(c) \/ LoadIssue(c)
    PROVE  BoardInv'
<1>1. /\ task \in [Tasks -> TaskRow] /\ member \in SUBSET Tasks /\ rows \in Tasks
      /\ issue \in [row : BOOLEAN, task : 0 .. MaxTasks] /\ NoDangling
  BY DEF BoardInv, BoardTyped
<1>2. UNCHANGED <<task, member, issue, rows, aiVars>>
  BY DEF LoadTask, SyncIssues, CreateIssue, UpdateIssue, LoadIssue
<1>3. NoDangling'
  BY <1>1, <1>2 DEF NoDangling, Live
<1>4. ASSUME NEW op \in CallOps, NEW t \in 0 .. MaxTasks, NEW read \in TaskStatus \cup {"none"}, NEW was \in 0 .. MaxTasks,
             op = "patch" => read \in TaskStatus,
             op \in {"patch", "delete", "attach", "detach", "link"} => t \in Tasks,
             Reads(c, op, t, read, was)
      PROVE  BoardInv'
  <2> DEFINE e == [op |-> op, task |-> t, read |-> read, was |-> was]
  <2>1. e \in CallType /\ e.op = op /\ e.read = read /\ e.task = t
    BY DEF CallType
  <2>2. call' = [call EXCEPT ![c] = e]
    BY <1>4 DEF Reads
  <2> HIDE DEF e
  <2> QED
    BY <1>1, <1>2, <1>3, <1>4, <2>1, <2>2, CallStep
<1>5. CASE LoadTask(c)
  <2>1. PICK op \in CallOps \cap {"patch", "delete", "attach", "detach", "link"}, t \in Tasks :
         /\ op # "detach" => Live(t)
         /\ Reads(c, op, t, IF op = "patch" THEN task[t].at ELSE "none", IF op = "link" THEN issue.task ELSE 0)
    BY <1>5 DEF LoadTask
  <2> DEFINE read == IF op = "patch" THEN task[t].at ELSE "none"
             was == IF op = "link" THEN issue.task ELSE 0
  <2>2. read \in TaskStatus \cup {"none"} /\ was \in 0 .. MaxTasks /\ (op = "patch" => read \in TaskStatus)
        /\ t \in 0 .. MaxTasks
    BY <1>1, <2>1, BoardConstants DEF TaskRow, Live
  <2>3. Reads(c, op, t, read, was)
    BY <2>1
  <2> HIDE DEF read, was
  <2> QED
    BY <1>4, <2>2, <2>3
<1>6. CASE SyncIssues(c) \/ CreateIssue(c) \/ UpdateIssue(c)
  BY <1>4, <1>6, BoardConstants DEF SyncIssues, CreateIssue, UpdateIssue
<1>7. CASE LoadIssue(c)
  <2>1. issue.task \in 0 .. MaxTasks
    BY <1>1
  <2> QED
    BY <1>4, <1>7, <2>1, BoardConstants DEF LoadIssue
<1> QED
  BY <1>5, <1>6, <1>7

LEMMA TaskRequests ==
    ASSUME BoardInv, NEW c \in Calls,
           \/ PatchTask(c) \/ DeleteTask(c) \/ AttachSession(c) \/ DetachSession(c)
           \/ UpsertIssue(c) \/ LinkIssue(c) \/ UnlinkIssue(c) \/ CreateFromIssue(c)
    PROVE  BoardInv'
<1>1. /\ task \in [Tasks -> TaskRow] /\ member \in SUBSET Tasks /\ rows \in Tasks
      /\ issue \in [row : BOOLEAN, task : 0 .. MaxTasks] /\ NoDangling /\ call[c] \in CallType
  BY DEF BoardInv, BoardTyped
<1>2. call[c].op \in {"patch", "delete", "attach", "detach", "link"} => call[c].task \in Tasks
  BY DEF BoardInv, StatusRead
<1>3. ASSUME Ends(c), UNCHANGED aiVars,
             task' \in [Tasks -> TaskRow], member' \in SUBSET Tasks, rows' \in Tasks,
             issue' \in [row : BOOLEAN, task : 0 .. MaxTasks], NoDangling'
      PROVE  BoardInv'
  BY <1>3, BoardConstants, CallStep DEF Ends
<1>4. CASE PatchTask(c)
  <2>1. task' \in [Tasks -> TaskRow] /\ \A t \in Tasks : Live(t) => Live(t)'
    <3>1. CASE task' = task
      BY <1>1, <3>1 DEF Live
    <3>2. CASE task' # task
      <4>1. PICK s \in Transition[call[c].read] : task' = [task EXCEPT ![call[c].task].at = s]
        BY <1>4, <3>2 DEF PatchTask
      <4>2. call[c].read \in TaskStatus
        BY <1>4 DEF PatchTask, BoardInv, StatusRead
      <4>3. s \in TaskStatus
        BY <4>1, <4>2, BoardConstants
      <4>4. call[c].task \in Tasks
        BY <1>2, <1>4 DEF PatchTask
      <4> QED
        BY <1>1, <4>1, <4>3, <4>4 DEF TaskRow, Live
    <3> QED
      BY <3>1, <3>2
  <2>2. NoDangling' /\ UNCHANGED <<member, issue, rows, aiVars>> /\ Ends(c)
    BY <1>1, <1>4, <2>1, BoardConstants DEF PatchTask, NoDangling, Tasks
  <2> QED
    BY <1>1, <1>3, <2>1, <2>2
<1>5. CASE DeleteTask(c)
  <2> DEFINE t == call[c].task
  <2>1. t \in Tasks /\ task' = [task EXCEPT ![t] = NoTask] /\ member' = member \ {t}
        /\ issue' = (IF issue.task = t THEN [issue EXCEPT !.task = 0] ELSE issue)
        /\ Ends(c) /\ UNCHANGED <<rows, aiVars>>
    BY <1>2, <1>5 DEF DeleteTask
  <2>2. task' \in [Tasks -> TaskRow] /\ \A q \in Tasks : q # t => (Live(q)' <=> Live(q))
    BY <1>1, <2>1, BoardConstants DEF Live
  <2>3. issue' \in [row : BOOLEAN, task : 0 .. MaxTasks] /\ (issue'.task # 0 => issue'.task = issue.task /\ issue.task # t)
    BY <1>1, <2>1, BoardConstants
  <2>4. NoDangling'
    BY <1>1, <2>1, <2>2, <2>3 DEF NoDangling, Tasks
  <2> QED
    BY <1>1, <1>3, <2>1, <2>2, <2>3, <2>4
<1>6. CASE AttachSession(c) \/ DetachSession(c)
  <2>1. call[c].task \in Tasks
    BY <1>2, <1>6 DEF AttachSession, DetachSession
  <2>2. UNCHANGED <<task, issue, rows, aiVars>> /\ Ends(c)
    BY <1>6 DEF AttachSession, DetachSession
  <2>3. member' \in SUBSET Tasks /\ \A t \in member' : Live(t)
    BY <1>1, <1>6, <2>1 DEF AttachSession, DetachSession, RefAllowed, NoDangling
  <2>4. NoDangling'
    BY <1>1, <2>2, <2>3 DEF NoDangling, Live
  <2> QED
    BY <1>1, <1>3, <2>2, <2>3, <2>4
<1>7. CASE UpsertIssue(c) \/ LinkIssue(c) \/ UnlinkIssue(c)
  <2>1. UNCHANGED <<task, member, rows, aiVars>> /\ Ends(c)
    BY <1>7 DEF UpsertIssue, LinkIssue, UnlinkIssue
  <2>2. issue' \in [row : BOOLEAN, task : 0 .. MaxTasks] /\ (issue'.task # 0 => Live(issue'.task))
    <3>1. CASE UpsertIssue(c)
      <4>1. issue' = [issue EXCEPT !.row = TRUE]
        BY <3>1 DEF UpsertIssue
      <4> QED
        BY <1>1, <4>1 DEF NoDangling
    <3>2. CASE LinkIssue(c)
      <4>1. call[c].task \in Tasks /\ call[c].task \in 0 .. MaxTasks
        BY <1>2, <3>2, BoardConstants DEF LinkIssue
      <4> QED
        BY <1>1, <3>2, <4>1 DEF LinkIssue, RefAllowed, NoDangling
    <3>3. CASE UnlinkIssue(c)
      BY <1>1, <3>3, BoardConstants DEF UnlinkIssue, NoDangling
    <3> QED
      BY <1>7, <3>1, <3>2, <3>3
  <2>3. NoDangling'
    BY <1>1, <2>1, <2>2 DEF NoDangling, Live
  <2> QED
    BY <1>1, <1>3, <2>1, <2>2, <2>3
<1>8. CASE CreateFromIssue(c)
  <2>1. rows + 1 \in Tasks /\ rows' = rows + 1 /\ task' = [task EXCEPT ![rows + 1] = [at |-> "todo", source |-> "linear"]]
        /\ issue' = [issue EXCEPT !.task = rows + 1] /\ Ends(c) /\ UNCHANGED <<member, aiVars>>
    BY <1>1, <1>8, BoardConstants DEF CreateFromIssue
  <2>2. task' \in [Tasks -> TaskRow] /\ task'[rows + 1].at \in TaskStatus /\ \A t \in Tasks : Live(t) => Live(t)'
    <3>1. "todo" \in TaskStatus
      BY DEF TaskStatus
    <3> QED
      BY <1>1, <2>1, <3>1, NewTask DEF Live
  <2>3. issue' \in [row : BOOLEAN, task : 0 .. MaxTasks] /\ issue'.task = rows + 1
    BY <1>1, <2>1, BoardConstants
  <2>4. NoDangling'
    <3>1. Live(issue.task)'
      BY <2>2, <2>3 DEF Live
    <3>2. \A t \in member' : Live(t)'
      BY <1>1, <2>1, <2>2 DEF NoDangling, Live
    <3> QED
      BY <3>1, <3>2 DEF NoDangling
  <2> QED
    BY <1>1, <1>3, <2>1, <2>2, <2>3, <2>4
<1> QED
  BY <1>4, <1>5, <1>6, <1>7, <1>8

LEMMA CreateTaskStep == ASSUME BoardInv, CreateTask PROVE BoardInv'
<1>1. /\ task \in [Tasks -> TaskRow] /\ member \in SUBSET Tasks /\ rows \in Tasks
      /\ issue \in [row : BOOLEAN, task : 0 .. MaxTasks] /\ NoDangling
  BY DEF BoardInv, BoardTyped
<1>2. rows + 1 \in Tasks /\ rows' = rows + 1 /\ task' = [task EXCEPT ![rows + 1] = [at |-> "todo", source |-> "user"]]
      /\ member' \in {member, member \cup {rows + 1}} /\ UNCHANGED <<issue, call, aiVars>>
  BY <1>1, BoardConstants DEF CreateTask
<1>3. task' \in [Tasks -> TaskRow] /\ task'[rows + 1].at \in TaskStatus /\ \A t \in Tasks : Live(t) => Live(t)'
  <2>1. "todo" \in TaskStatus
    BY DEF TaskStatus
  <2> QED
    BY <1>1, <1>2, <2>1, NewTask DEF Live
<1>4. NoDangling'
  <2>1. (issue.task # 0 => Live(issue.task))'
    BY <1>1, <1>2, <1>3 DEF NoDangling, Tasks
  <2>2. \A t \in member' : Live(t)'
    BY <1>1, <1>2, <1>3 DEF NoDangling, Live
  <2> QED
    BY <2>1, <2>2 DEF NoDangling
<1>5. BoardTyped'
  BY <1>1, <1>2, <1>3 DEF BoardInv, BoardTyped, aiVars
<1>6. StatusRead'
  BY <1>2 DEF BoardInv, StatusRead, aiVars
<1> QED
  BY <1>4, <1>5, <1>6 DEF BoardInv

(* A step of an agent that writes no row.                                   *)
LEMMA AgentStep ==
    ASSUME BoardInv, UNCHANGED <<task, member, rows, issue, call>>,
           work' \in WorkType, maker' \in MakerType, judge' \in JudgeType,
           maker'.had \subseteq maker'.seen,
           judge'.pc = "ask" => judge'.read \in TaskStatus /\ judge'.on \in Tasks
    PROVE  BoardInv'
<1>1. BoardTyped' /\ StatusRead'
  BY DEF BoardInv, BoardTyped, StatusRead
<1>2. NoDangling'
  BY DEF BoardInv, NoDangling, Live
<1> QED
  BY <1>1, <1>2 DEF BoardInv

LEMMA MakerReads == ASSUME BoardInv, MakerStart \/ MakerLoad PROVE BoardInv'
<1>1. /\ work \in WorkType /\ maker \in MakerType /\ judge \in JudgeType /\ maker.had \subseteq maker.seen
      /\ judge.pc = "ask" => judge.read \in TaskStatus /\ judge.on \in Tasks
  BY DEF BoardInv, BoardTyped, StatusRead
<1>2. UNCHANGED <<task, member, rows, issue, call, work, judge>>
  BY DEF MakerStart, MakerLoad, humanVars
<1>3. maker' \in MakerType /\ maker'.had \subseteq maker'.seen
  <2>1. CASE MakerStart
    <3> DEFINE x == [NoMaker EXCEPT !.pc = "ask"]
               y == [x EXCEPT !.seen = {t \in Tasks : Live(t) /\ task[t].at # "done"}]
    <3>1. maker' = y
      BY <2>1 DEF MakerStart
    <3>2. x \in MakerType /\ x.had = {}
      BY BoardConstants DEF MakerType
    <3> HIDE DEF x
    <3>3. y \in MakerType /\ y.had = {}
      BY <3>2 DEF MakerType
    <3> HIDE DEF y
    <3> QED
      BY <3>1, <3>3
  <2>2. CASE MakerLoad
    <3>1. ASSUME NEW s \in SUBSET {t \in maker.seen : Live(t)},
                 maker' = [pc |-> "attach", seen |-> s, had |-> s \cap member,
                           promote |-> {t \in s : task[t].at \in {"todo", "review"}}]
          PROVE  maker' \in MakerType /\ maker'.had \subseteq maker'.seen
      <4>1. s \in SUBSET Tasks
        BY <1>1 DEF MakerType
      <4> QED
        BY <3>1, <4>1 DEF MakerType
    <3>2. CASE maker' = [NoMaker EXCEPT !.pc = "done"]
      BY <3>2, BoardConstants DEF MakerType
    <3> QED
      BY <2>2, <3>1, <3>2 DEF MakerLoad
  <2> QED
    BY <2>1, <2>2
<1> QED
  BY <1>1, <1>2, <1>3, AgentStep

(* The transaction of the maker: what it links exists when it commits.      *)
LEMMA MakerWrites == ASSUME BoardInv, MakerWrite PROVE BoardInv'
<1> DEFINE s == maker.seen
           new == s \ maker.had
           fails == \/ new \cap member # {}
                    \/ \E t \in new : ~ RefAllowed(t)
                    \/ \E t \in maker.promote : ~ Live(t)
           promoted == [t \in Tasks |-> IF t \in maker.promote THEN [task[t] EXCEPT !.at = "in_progress"] ELSE task[t]]
<1>1. /\ task \in [Tasks -> TaskRow] /\ member \in SUBSET Tasks /\ rows \in Tasks
      /\ issue \in [row : BOOLEAN, task : 0 .. MaxTasks] /\ NoDangling
      /\ work \in WorkType /\ maker \in MakerType /\ s \in SUBSET Tasks /\ maker.promote \in SUBSET Tasks
  BY DEF BoardInv, BoardTyped, MakerType
<1>2. maker' \in MakerType /\ maker'.had = {} /\ UNCHANGED <<issue, call, judge>>
  <2>1. [NoMaker EXCEPT !.pc = "done"] \in MakerType /\ [NoMaker EXCEPT !.pc = "done"].had = {}
    BY BoardConstants DEF MakerType
  <2> QED
    BY <2>1 DEF MakerWrite, humanVars
<1>3. promoted \in [Tasks -> TaskRow] /\ \A t \in Tasks : Live(t) => promoted[t].at \in TaskStatus
  BY <1>1 DEF TaskRow, TaskStatus, Live
<1>4. \/ fails /\ UNCHANGED <<task, member, rows, work>>
      \/ /\ ~ fails
         /\ task' = promoted /\ member' = member \cup new
         /\ work' = [work EXCEPT !.mine = s]
         /\ rows' = rows
      \/ /\ ~ fails /\ rows < MaxTasks
         /\ rows' = rows + 1
         /\ task' = [promoted EXCEPT ![rows + 1] = [at |-> "in_progress", source |-> "ai"]]
         /\ member' = member \cup new \cup {rows + 1}
         /\ work' = [work EXCEPT !.mine = s \cup {rows + 1}]
  BY DEF MakerWrite
<1>5. ~fails => \A t \in new : Live(t)
  BY DEF RefAllowed
<1> HIDE DEF fails, promoted
<1>6. /\ task' \in [Tasks -> TaskRow] /\ member' \in SUBSET Tasks /\ rows' \in Tasks /\ work' \in WorkType
      /\ \A t \in Tasks : Live(t) => Live(t)'
      /\ \A t \in member' : Live(t)'
  <2>1. CASE fails /\ UNCHANGED <<task, member, rows, work>>
    BY <1>1, <2>1 DEF NoDangling, Live
  <2>2. CASE /\ ~ fails
             /\ task' = promoted /\ member' = member \cup new
             /\ work' = [work EXCEPT !.mine = s]
             /\ rows' = rows
    <3>1. \A t \in Tasks : Live(t) => Live(t)'
      BY <1>3, <2>2 DEF Live
    <3>2. work' \in WorkType
      BY <1>1, <2>2 DEF WorkType
    <3> QED
      BY <1>1, <1>3, <1>5, <2>2, <3>1, <3>2 DEF NoDangling
  <2>3. CASE /\ ~ fails /\ rows < MaxTasks
             /\ rows' = rows + 1
             /\ task' = [promoted EXCEPT ![rows + 1] = [at |-> "in_progress", source |-> "ai"]]
             /\ member' = member \cup new \cup {rows + 1}
             /\ work' = [work EXCEPT !.mine = s \cup {rows + 1}]
    <3>1. rows + 1 \in Tasks
      BY <1>1, <2>3, BoardConstants
    <3>2. task' \in [Tasks -> TaskRow] /\ task'[rows + 1].at \in TaskStatus /\ \A t \in Tasks : Live(t) => Live(t)'
      <4>1. "in_progress" \in TaskStatus
        BY DEF TaskStatus
      <4> QED
        BY <1>3, <2>3, <3>1, <4>1, NewTask DEF Live
    <3>3. work' \in WorkType
      BY <1>1, <2>3, <3>1 DEF WorkType
    <3>4. \A t \in member' : t \in Tasks /\ Live(t)'
      BY <1>1, <1>5, <2>3, <3>1, <3>2 DEF NoDangling, Live
    <3> QED
      BY <2>3, <3>1, <3>2, <3>3, <3>4
  <2> QED
    BY <1>4, <2>1, <2>2, <2>3
<1>7. NoDangling'
  BY <1>1, <1>2, <1>6, BoardConstants DEF NoDangling, Tasks
<1>8. BoardTyped' /\ StatusRead'
  BY <1>2, <1>6 DEF BoardInv, BoardTyped, StatusRead
<1> QED
  BY <1>7, <1>8 DEF BoardInv

LEMMA JudgeSteps ==
    ASSUME BoardInv, FireUpdate \/ EndWork \/ JudgeLoad \/ JudgeWrite PROVE BoardInv'
<1>1. /\ task \in [Tasks -> TaskRow] /\ work \in WorkType /\ maker \in MakerType /\ judge \in JudgeType
      /\ maker.had \subseteq maker.seen
      /\ judge.pc = "ask" => judge.read \in TaskStatus /\ judge.on \in Tasks
      /\ NoDangling
  BY DEF BoardInv, BoardTyped, StatusRead
<1>2. JudgeStart => judge' \in JudgeType /\ judge'.pc = "load"
  BY <1>1, BoardConstants DEF JudgeStart, JudgeType, WorkType
<1>3. ASSUME NEW pc \in {"load", "done"}, JudgeIs(pc) PROVE judge' \in JudgeType /\ judge'.pc = pc
  <2> DEFINE x == [judge EXCEPT !.pc = pc]
             y == [x EXCEPT !.on = 0]
             z == [y EXCEPT !.read = "none"]
  <2>1. judge' = z
    BY <1>3 DEF JudgeIs
  <2>2. x \in JudgeType /\ x.pc = pc
    BY <1>1 DEF JudgeType
  <2> HIDE DEF x
  <2>3. y \in JudgeType /\ y.pc = pc
    BY <2>2, BoardConstants DEF JudgeType
  <2> HIDE DEF y
  <2>4. z \in JudgeType /\ z.pc = pc
    BY <2>3 DEF JudgeType
  <2> HIDE DEF z
  <2> QED
    BY <2>1, <2>4
<1>4. CASE FireUpdate
  <2>1. work' \in WorkType
    BY <1>1, <1>4 DEF FireUpdate, WorkType
  <2> QED
    BY <1>1, <1>2, <1>4, <2>1, AgentStep DEF FireUpdate, humanVars
<1>5. CASE EndWork
  <2> DEFINE f == work.fired \/ work.mine # {}
             x == [work EXCEPT !.at = "ended"]
             y == [x EXCEPT !.fired = f]
  <2>1. work' = y /\ (judge' = judge \/ JudgeStart) /\ UNCHANGED <<task, member, rows, issue, call, maker>>
    BY <1>5 DEF EndWork, humanVars
  <2>2. f \in BOOLEAN
    OBVIOUS
  <2> HIDE DEF f
  <2>3. x \in WorkType
    BY <1>1 DEF WorkType
  <2> HIDE DEF x
  <2>4. y \in WorkType
    BY <2>2, <2>3 DEF WorkType
  <2> HIDE DEF y
  <2> QED
    BY <1>1, <1>2, <2>1, <2>4, AgentStep
<1>6. CASE JudgeLoad
  <2>1. UNCHANGED <<task, member, rows, issue, call, work, maker>>
    BY <1>6 DEF JudgeLoad, humanVars
  <2>2. judge' \in JudgeType /\ (judge'.pc = "ask" => judge'.read \in TaskStatus /\ judge'.on \in Tasks)
    <3>1. CASE JudgeIs("done")
      BY <1>3, <3>1
    <3>2. ASSUME NEW t \in judge.left,
                 judge' = IF Live(t) THEN [pc |-> "ask", left |-> judge.left \ {t}, on |-> t, read |-> task[t].at]
                                     ELSE [judge EXCEPT !.left = @ \ {t}]
          PROVE  judge' \in JudgeType /\ (judge'.pc = "ask" => judge'.read \in TaskStatus /\ judge'.on \in Tasks)
      <4>1. t \in Tasks /\ t \in 0 .. MaxTasks /\ judge.left \in SUBSET Tasks
        BY <1>1, BoardConstants DEF JudgeType
      <4>2. CASE Live(t)
        BY <1>1, <3>2, <4>1, <4>2 DEF JudgeType, Live
      <4>3. CASE ~Live(t)
        BY <1>1, <3>2, <4>1, <4>3 DEF JudgeType
      <4> QED
        BY <4>2, <4>3
    <3> QED
      BY <1>6, <3>1, <3>2 DEF JudgeLoad
  <2> QED
    BY <1>1, <2>1, <2>2, AgentStep
<1>7. CASE JudgeWrite
  <2>1. UNCHANGED <<member, rows, issue, call, work, maker>> /\ judge.pc = "ask"
    BY <1>7 DEF JudgeWrite, humanVars
  <2>2. judge' \in JudgeType /\ judge'.pc # "ask"
    BY <1>3, <1>7 DEF JudgeWrite
  <2>3. task' \in [Tasks -> TaskRow] /\ \A t \in Tasks : Live(t) => Live(t)'
    <3>1. CASE task' = task
      BY <1>1, <3>1 DEF Live
    <3>2. ASSUME NEW r \in Transition[judge.read], task' = [task EXCEPT ![judge.on].at = r]
          PROVE  task' \in [Tasks -> TaskRow] /\ \A t \in Tasks : Live(t) => Live(t)'
      <4>1. r \in TaskStatus /\ judge.on \in Tasks
        BY <1>1, <2>1, BoardConstants
      <4> QED
        BY <1>1, <3>2, <4>1 DEF TaskRow, Live
    <3> QED
      BY <1>7, <3>1, <3>2 DEF JudgeWrite
  <2>4. NoDangling'
    BY <1>1, <2>1, <2>3, BoardConstants DEF NoDangling, BoardInv, BoardTyped, Tasks
  <2>5. BoardTyped' /\ StatusRead'
    BY <2>1, <2>2, <2>3 DEF BoardInv, BoardTyped, StatusRead
  <2> QED
    BY <2>4, <2>5 DEF BoardInv
<1> QED
  BY <1>4, <1>5, <1>6, <1>7

LEMMA NextBoardInv == ASSUME BoardInv, [BoardNext]_boardVars PROVE BoardInv'
<1>1. CASE UNCHANGED boardVars
  BY <1>1 DEF boardVars, BoardInv, BoardTyped, StatusRead, NoDangling, Live
<1> QED
  BY <1>1, LoadSteps, TaskRequests, CreateTaskStep, MakerReads, MakerWrites, JudgeSteps DEF BoardNext

(* The Linear issue and the session never keep a link to a task that is    *)
(* gone, however deletions, requests, the sync and the two agents          *)
(* interleave (the routes of tasks.py and linear.py,                       *)
(* create_tasks_from_session, judge_task_updates).                         *)
THEOREM LinksHaveTasks == BoardSpec => []NoDangling
<1>1. BoardInv => NoDangling
  BY DEF BoardInv
<1> QED
  BY <1>1, InitBoardInv, NextBoardInv, PTL DEF BoardSpec

-----------------------------------------------------------------------------
(***************************************************************************)
(* PlanArtifacts, for any number of rows, scans and requests.              *)
(*                                                                         *)
(* The finalization of a plan reads the row of the file, writes one if     *)
(* there is none, and links the task in a last step; the scans and the     *)
(* requests run between them. What it has read stays true: a row of the    *)
(* file stays there under the id it has, unless a deletion dropped it.     *)
(***************************************************************************)

ArtifactType == [id : 0 .. MaxArtifacts, present : BOOLEAN]
ScanType == [pc : {"idle", "write"}, seen : 0 .. MaxArtifacts]
AskType == [op : {"none", "plan", "delete", "drop", "recheck"}, read : {"none", "here", "gone"},
            was : 0 .. MaxArtifacts]

(* What the finalization has read still is so, unless the row was deleted.  *)
RowIsKept ==
    Finalizing /\ ~dropped =>
        /\ plan.pc = "write" /\ plan.seen # 0 => artifact.id = plan.seen
        /\ plan.pc = "refetch" => artifact.id # 0
        /\ plan.pc = "link" => plan.seen # 0 /\ artifact.id = plan.seen

PlanInv == PlanTypeOK /\ RowIsKept
-----------------------------------------------------------------------------
LEMMA InitPlanInv == PlanInit => PlanInv
<1> SUFFICES ASSUME PlanInit PROVE PlanInv
  OBVIOUS
<1>1. 0 \in 0 .. MaxArtifacts
  BY PlanAssumption
<1>2. NoArtifact \in ArtifactType /\ NoScan \in ScanType /\ NoAsk \in AskType
  BY <1>1 DEF NoArtifact, NoScan, NoAsk, ArtifactType, ScanType, AskType
<1> HIDE DEF NoAsk, NoScan, NoArtifact
<1> QED
  BY <1>1, <1>2
     DEF PlanInit, PlanInv, PlanTypeOK, RowIsKept, Finalizing, Patterns, ArtifactType, ScanType, AskType

(* The steps of the planning session, and those of its finalization before  *)
(* the one that ends it.                                                    *)
LEMMA SessionSteps ==
    ASSUME PlanInv, PreparePlan \/ ChangeFile \/ EndPlan \/ AgentEndsPlan
    PROVE  PlanInv'
<1> USE PlanAssumption DEF PlanInv, PlanTypeOK, RowIsKept, Finalizing, PlanIs, restVars
<1>1. CASE PreparePlan
  BY <1>1 DEF PreparePlan
<1>2. CASE ChangeFile
  BY <1>2 DEF ChangeFile
<1>3. CASE EndPlan
  <2>1. dropped' = FALSE /\ dropped' \in BOOLEAN
    BY <1>3 DEF EndPlan
  <2>2. plan'.seen = 0 /\ plan'.pc \in {"select", "done"} /\ plan' = [pc |-> plan'.pc, seen |-> 0]
    BY <1>3 DEF EndPlan
  <2> QED
    BY <1>3, <2>1, <2>2 DEF EndPlan
<1>4. CASE AgentEndsPlan
  BY <1>4 DEF AgentEndsPlan
<1> QED
  BY <1>1, <1>2, <1>3, <1>4

LEMMA FinalizeSteps ==
    ASSUME PlanInv,
           FinalizeSelect \/ FinalizeConflict \/ FinalizeInsert \/ FinalizeUpdate \/ FinalizeRefetch \/ FinalizeLink
    PROVE  PlanInv'
<1> USE PlanAssumption DEF PlanInv, PlanTypeOK, RowIsKept, Finalizing, PlanIs, restVars
<1>1. CASE FinalizeSelect
  BY <1>1 DEF FinalizeSelect
<1>2. CASE FinalizeConflict
  BY <1>2 DEF FinalizeConflict
<1>3. CASE FinalizeInsert
  BY <1>3 DEF FinalizeInsert, Insert, Linked
<1>4. CASE FinalizeUpdate
  <2>1. artifact' \in ArtifactType /\ artifact'.id = artifact.id
    BY <1>4 DEF FinalizeUpdate, ArtifactType
  <2>2. owner' \in [live : BOOLEAN, plan : 0 .. MaxArtifacts]
    BY <1>4 DEF FinalizeUpdate, Linked
  <2> QED
    BY <1>4, <2>1, <2>2 DEF FinalizeUpdate, ArtifactType
<1>5. CASE FinalizeRefetch
  BY <1>5 DEF FinalizeRefetch
<1>6. CASE FinalizeLink
  BY <1>6 DEF FinalizeLink, Linked
<1> QED
  BY <1>1, <1>2, <1>3, <1>4, <1>5, <1>6

(* A row that is there stays, whatever the scans do.                        *)
LEMMA ScanSteps ==
    ASSUME PlanInv, NEW s \in Scans, ScanTexts(s) \/ ScanArchived(s) \/ ScanWrite(s)
    PROVE  PlanInv'
<1> USE PlanAssumption DEF PlanInv, PlanTypeOK, restVars, fileVars
<1>1. CASE ScanTexts(s) \/ ScanArchived(s)
  <2>1. scan' \in [Scans -> ScanType] /\ UNCHANGED <<owner, artifact, planFile, plan, asked, restVars>>
    BY <1>1 DEF ScanTexts, ScanArchived, ScanSelect, ScanType
  <2> QED
    BY <2>1 DEF RowIsKept, Finalizing, ScanType
<1>2. CASE ScanWrite(s)
  <2>1. scan' \in [Scans -> [pc : {"idle", "write"}, seen : 0 .. MaxArtifacts]]
    BY <1>2 DEF ScanWrite, NoScan
  <2>2. artifact' \in [id : 0 .. MaxArtifacts, present : BOOLEAN] /\ made' \in 0 .. MaxArtifacts
        /\ (artifact.id # 0 => artifact' = artifact) /\ UNCHANGED <<owner, planFile, plan, asked, scanner, dropped>>
    <3>1. CASE scan[s].seen = 0 /\ artifact.id = 0
      <4>1. made + 1 \in 0 .. MaxArtifacts /\ made' = made + 1 /\ artifact' = [id |-> made + 1, present |-> TRUE]
        BY <1>2, <3>1 DEF ScanWrite, Insert
      <4> QED
        BY <1>2, <3>1, <4>1 DEF ScanWrite
    <3>2. CASE ~(scan[s].seen = 0 /\ artifact.id = 0)
      BY <1>2, <3>2 DEF ScanWrite
    <3> QED
      BY <3>1, <3>2
  <2>3. RowIsKept'
    BY <2>2 DEF RowIsKept, Finalizing
  <2> QED
    BY <2>1, <2>2, <2>3
<1> QED
  BY <1>1, <1>2

LEMMA CallSteps ==
    ASSUME PlanInv, NEW c \in PlanCalls,
           LoadOwner(c) \/ LoadArtifact(c) \/ PatchPlan(c) \/ DeleteOwner(c) \/ DeleteArtifact(c) \/ RecheckArtifact(c)
    PROVE  PlanInv'
<1>1. asked[c] \in AskType /\ artifact.id \in 0 .. MaxArtifacts /\ 0 \in 0 .. MaxArtifacts
  BY PlanAssumption DEF PlanInv, PlanTypeOK, AskType
<1>2. \E a \in AskType : asked' = [asked EXCEPT ![c] = a]
  <2>1. CASE LoadOwner(c)
    BY <1>1, <2>1 DEF LoadOwner, Ask, AskType
  <2>2. CASE LoadArtifact(c)
    BY <1>1, <2>2 DEF LoadArtifact, Ask, AskType
  <2>3. CASE PatchPlan(c) \/ DeleteOwner(c) \/ DeleteArtifact(c) \/ RecheckArtifact(c)
    BY <1>1, <2>3 DEF PatchPlan, DeleteOwner, DeleteArtifact, RecheckArtifact, Answered, NoAsk, AskType
  <2> QED
    BY <2>1, <2>2, <2>3
<1>3. asked' \in [PlanCalls -> AskType]
  BY <1>2 DEF PlanInv, PlanTypeOK, AskType
<1>4. /\ owner' \in [live : BOOLEAN, plan : 0 .. MaxArtifacts]
      /\ artifact' \in [id : 0 .. MaxArtifacts, present : BOOLEAN]
      /\ (artifact'.id = artifact.id /\ dropped' = dropped) \/ dropped' = TRUE
      /\ dropped' \in BOOLEAN /\ UNCHANGED <<made, planFile, plan, scan, scanner>>
  <2> USE PlanAssumption DEF PlanInv, PlanTypeOK, restVars, fileVars
  <2>1. CASE LoadOwner(c) \/ LoadArtifact(c)
    BY <2>1 DEF LoadOwner, LoadArtifact
  <2>2. CASE PatchPlan(c)
    BY <1>1, <2>2 DEF PatchPlan
  <2>3. CASE DeleteOwner(c)
    BY <2>3 DEF DeleteOwner
  <2>4. CASE DeleteArtifact(c)
    <3>1. CASE artifact.id = asked[c].was
      <4>1. artifact' \in ArtifactType
        <5>1. NoArtifact \in ArtifactType
          BY DEF NoArtifact, ArtifactType
        <5>2. artifact' = NoArtifact
          BY <2>4, <3>1 DEF DeleteArtifact
        <5> QED
          BY <5>1, <5>2
      <4>2. owner' \in [live : BOOLEAN, plan : 0 .. MaxArtifacts]
        BY <2>4, <3>1 DEF DeleteArtifact
      <4> QED
        BY <2>4, <3>1, <4>1, <4>2 DEF DeleteArtifact, ArtifactType
    <3>2. CASE artifact.id # asked[c].was
      BY <2>4, <3>2 DEF DeleteArtifact
    <3> QED
      BY <3>1, <3>2
  <2>5. CASE RecheckArtifact(c)
    BY <2>5 DEF RecheckArtifact
  <2> QED
    BY <2>1, <2>2, <2>3, <2>4, <2>5
<1>5. PlanTypeOK'
  BY <1>3, <1>4 DEF PlanInv, PlanTypeOK, AskType
<1>6. RowIsKept'
  BY <1>4 DEF PlanInv, RowIsKept, Finalizing
<1> QED
  BY <1>5, <1>6 DEF PlanInv

LEMMA ScannerStep == ASSUME PlanInv, UpdateScanner PROVE PlanInv'
BY DEF UpdateScanner, PlanInv, PlanTypeOK, RowIsKept, Finalizing, fileVars, Patterns

LEMMA NextPlanInv == ASSUME PlanInv, [PlanNext]_planVars PROVE PlanInv'
<1>1. CASE UNCHANGED planVars
  BY <1>1 DEF planVars, PlanInv, PlanTypeOK, RowIsKept, Finalizing
<1> QED
  BY <1>1, SessionSteps, FinalizeSteps, ScanSteps, CallSteps, ScannerStep DEF PlanNext

(* The finalization ends by three of its steps, or by one that fails.       *)
LEMMA StepLinked ==
    ASSUME PlanInv, [PlanNext]_planVars, Finalizing, plan'.pc \in {"done", "failed"}, ~dropped
    PROVE  artifact'.id # 0 /\ (owner.live => owner'.plan = artifact'.id)
<1> USE PlanAssumption DEF PlanInv, PlanTypeOK, RowIsKept, Finalizing, PlanIs
<1>1. FinalizeInsert \/ FinalizeUpdate \/ FinalizeRefetch \/ FinalizeLink
  <2>1. plan' # plan
    OBVIOUS
  <2> QED
    BY <2>1 DEF PlanNext, planVars, fileVars, PreparePlan, ChangeFile, EndPlan, AgentEndsPlan, FinalizeSelect,
                FinalizeConflict, ScanTexts, ScanArchived, ScanSelect, ScanWrite, LoadOwner, LoadArtifact, PatchPlan,
                DeleteOwner, DeleteArtifact, RecheckArtifact, UpdateScanner
<1>2. CASE FinalizeInsert
  BY <1>2 DEF FinalizeInsert, Insert, Linked
<1>3. CASE FinalizeUpdate
  BY <1>3 DEF FinalizeUpdate, Linked
<1>4. CASE FinalizeRefetch
  BY <1>4 DEF FinalizeRefetch
<1>5. CASE FinalizeLink
  BY <1>5 DEF FinalizeLink, Linked
<1> QED
  BY <1>1, <1>2, <1>3, <1>4, <1>5

(* The finalization of a plan whose file was there ends with the task, if  *)
(* it still exists, linked to the one row of that file, whatever scans,    *)
(* rechecks and requests do meanwhile; only a deletion of that row stops it*)
(* (_finalize_plan_session, the artifact scanner).                         *)
THEOREM TaskGetsItsPlan == PlanSpec => PlanLinked
<1>1. PlanInv /\ [PlanNext]_planVars
      => [Finalizing /\ plan'.pc \in {"done", "failed"} =>
            \/ dropped
            \/ artifact'.id # 0 /\ (owner.live => owner'.plan = artifact'.id)]_planVars
  BY StepLinked
<1> QED
  BY <1>1, InitPlanInv, NextPlanInv, PTL DEF PlanSpec, PlanLinked

-----------------------------------------------------------------------------
(***************************************************************************)
(* ToolManagement, for any number of operations at once, any release and   *)
(* every kind of tool, where no uninstall overlaps an install.             *)
(*                                                                         *)
(* The entry and the binary are written by different steps, and an         *)
(* uninstall, a crash and a detection come in between. The invariant       *)
(* follows both through every operation: the one that places a binary      *)
(* holds the lock, has checked what it places, and finds it there when it  *)
(* writes the entry.                                                       *)
(***************************************************************************)

OpType ==
    [pc : {"idle", "compare", "lock", "version", "download", "check",
           "place", "verify", "record", "detect", "probe"},
     stream : BOOLEAN, ver : 0 .. MaxRelease, good : BOOLEAN, musl : BOOLEAN]
DiskType == [bin : [ver : 0 .. MaxRelease, good : BOOLEAN, musl : BOOLEAN], file : 0 .. MaxRelease, parked : BOOLEAN]
EntryType == [installed : BOOLEAN, cur : 0 .. MaxRelease]
ToolType == [kind : {"claude", "codex", "acp", "opencode"}, win : BOOLEAN, sums : BOOLEAN, oldGlibc : BOOLEAN]
LockPcs == {"version", "download", "check", "place", "verify", "record"}

(* An operation that has placed a binary, or found one, finds it there; one *)
(* that is about to place a download has checked it where it can.           *)
OpOK(x) ==
    /\ x \in OpType
    /\ x.pc \in {"download", "check", "place", "verify", "record"} => x.ver # 0
    /\ x.pc \in {"verify", "record", "probe"} => disk.bin.ver # 0
    /\ x.pc = "place" /\ tool.sums => x.good

ToolTyped ==
    /\ tool \in ToolType /\ (tool.kind = "opencode" => ~tool.sums)
    /\ release \in ToolReleases /\ disk \in DiskType /\ inUse \in BOOLEAN /\ entry \in EntryType
    /\ toolOp \in [ToolOps -> OpType]
LockHeld ==
    /\ \A o \in ToolOps : o \in lock <=> toolOp[o].pc \in LockPcs
    /\ lock \subseteq ToolOps /\ \A o, p \in lock : o = p
OpsOK == \A o \in ToolOps : OpOK(toolOp[o])

ToolInv == ToolTyped /\ LockHeld /\ OpsOK /\ EntryOnDisk
-----------------------------------------------------------------------------
LEMMA IdleOK == Idle \in OpType /\ Idle.pc = "idle" /\ ~Idle.stream
  BY ToolAssumption DEF Idle, OpType

LEMMA InitToolInv == ToolInit => ToolInv
<1> SUFFICES ASSUME ToolInit PROVE ToolInv
  OBVIOUS
<1>1. toolOp \in [ToolOps -> OpType] /\ \A o \in ToolOps : toolOp[o] = Idle
  BY IdleOK DEF ToolInit
<1>2. disk \in DiskType /\ entry \in EntryType /\ disk.bin.good /\ ~entry.installed
  BY ToolAssumption DEF ToolInit, DiskType, EntryType, NoBinary, NotInstalled
<1>3. ToolTyped
  <2>1. release \in ToolReleases
    BY ToolAssumption DEF ToolInit, ToolReleases
  <2>2. tool \in ToolType /\ (tool.kind = "opencode" => ~tool.sums) /\ inUse \in BOOLEAN
    BY DEF ToolInit, ToolType
  <2> QED
    BY <1>1, <1>2, <2>1, <2>2 DEF ToolTyped
<1>4. LockHeld
  BY <1>1, IdleOK DEF ToolInit, LockHeld, LockPcs
<1>5. OpsOK
  BY <1>1, IdleOK DEF OpsOK, OpOK
<1> QED
  BY <1>2, <1>3, <1>4, <1>5 DEF ToolInv, EntryOnDisk

(* A step of one operation that takes no binary away.                       *)
LEMMA OpStep ==
    ASSUME ToolInv, NEW o \in ToolOps,
           toolOp' = [toolOp EXCEPT ![o] = toolOp'[o]], OpOK(toolOp[o])',
           UNCHANGED <<tool, release, inUse>>, disk' \in DiskType, entry' \in EntryType,
           disk.bin.ver # 0 => disk'.bin.ver # 0, tool.sums => disk'.bin.good,
           entry'.installed => disk'.bin.ver # 0,
           toolOp'[o].pc \in LockPcs => lock \subseteq {o} /\ lock' = {o},
           toolOp'[o].pc \notin LockPcs => lock' = lock \ {o}
    PROVE  ToolInv'
<1>1. \A p \in ToolOps : p # o => toolOp'[p] = toolOp[p]
  BY DEF ToolInv, ToolTyped
<1>2. ToolTyped'
  BY DEF ToolInv, ToolTyped, OpOK
<1>3. LockHeld'
  BY <1>1 DEF ToolInv, LockHeld
<1>4. OpsOK'
  BY <1>1 DEF ToolInv, OpsOK, OpOK
<1> QED
  BY <1>2, <1>3, <1>4 DEF ToolInv, EntryOnDisk

(* An operation goes on with the lock as it was.                            *)
LEMMA GoesOn ==
    ASSUME ToolInv, NEW o \in ToolOps,
           toolOp' = [toolOp EXCEPT ![o] = toolOp'[o]], OpOK(toolOp[o])',
           toolOp'[o].pc \in LockPcs <=> toolOp[o].pc \in LockPcs,
           UNCHANGED <<tool, release, inUse, disk, entry, lock>>
    PROVE  ToolInv'
<1>1. /\ disk' \in DiskType /\ entry' \in EntryType
      /\ disk.bin.ver # 0 => disk'.bin.ver # 0
      /\ tool.sums => disk'.bin.good
      /\ entry'.installed => disk'.bin.ver # 0
  BY DEF ToolInv, ToolTyped, EntryOnDisk
<1>2. /\ toolOp'[o].pc \in LockPcs => lock \subseteq {o} /\ lock' = {o}
      /\ toolOp'[o].pc \notin LockPcs => lock' = lock \ {o}
  BY DEF ToolInv, LockHeld
<1> QED
  BY <1>1, <1>2, OpStep

(* An operation ends, or goes over to a detection.                          *)
LEMMA LeaveStep ==
    ASSUME ToolInv, NEW o \in ToolOps, Leave(o) \/ DetectNext(o),
           UNCHANGED <<tool, release, inUse>>, disk' \in DiskType, entry' \in EntryType,
           disk.bin.ver # 0 => disk'.bin.ver # 0, tool.sums => disk'.bin.good,
           entry'.installed => disk'.bin.ver # 0
    PROVE  ToolInv'
<1> DEFINE d == [Idle EXCEPT !.pc = "detect"]
           e == [d EXCEPT !.stream = TRUE]
<1>1. DetectNext(o) => lock' = lock \ {o} /\ toolOp' = [toolOp EXCEPT ![o] = e]
  BY DEF DetectNext
<1>2. d \in OpType /\ d.pc = "detect"
  BY IdleOK DEF OpType
<1> HIDE DEF d
<1>3. e \in OpType /\ e.pc = "detect"
  BY <1>2 DEF OpType
<1> HIDE DEF e
<1>4. toolOp \in [ToolOps -> OpType]
  BY DEF ToolInv, ToolTyped
<1>5. CASE Leave(o)
  <2>1. toolOp' = [toolOp EXCEPT ![o] = toolOp'[o]] /\ toolOp'[o] = Idle /\ lock' = lock \ {o}
    BY <1>4, <1>5 DEF Leave
  <2>2. OpOK(toolOp[o])' /\ toolOp'[o].pc \notin LockPcs
    BY <2>1, IdleOK DEF OpOK, LockPcs
  <2> QED
    BY <2>1, <2>2, OpStep
<1>6. CASE DetectNext(o)
  <2>1. toolOp' = [toolOp EXCEPT ![o] = toolOp'[o]] /\ toolOp'[o] = e /\ lock' = lock \ {o}
    BY <1>1, <1>4, <1>6
  <2>2. OpOK(toolOp[o])' /\ toolOp'[o].pc \notin LockPcs
    BY <1>3, <2>1 DEF OpOK, LockPcs
  <2> QED
    BY <2>1, <2>2, OpStep
<1> QED
  BY <1>5, <1>6

LEMMA FailStep == ASSUME ToolInv, NEW o \in ToolOps, HasFailed(o) PROVE ToolInv'
<1>1. /\ disk' \in DiskType /\ entry' \in EntryType /\ UNCHANGED <<tool, release, inUse>>
      /\ disk.bin.ver # 0 => disk'.bin.ver # 0
      /\ tool.sums => disk'.bin.good
      /\ entry'.installed => disk'.bin.ver # 0
  BY DEF ToolInv, ToolTyped, EntryOnDisk, HasFailed
<1> QED
  BY <1>1, LeaveStep DEF HasFailed

(* An operation changes its place only.                                     *)
LEMMA GotoStep ==
    ASSUME ToolInv, NEW o \in ToolOps, NEW pc, ToolGoto(o, pc),
           OpOK([toolOp[o] EXCEPT !.pc = pc]),
           pc \in LockPcs <=> toolOp[o].pc \in LockPcs,
           UNCHANGED <<tool, release, inUse, disk, entry, lock>>
    PROVE  ToolInv'
<1>1. toolOp \in [ToolOps -> OpType] /\ toolOp[o] \in OpType
  BY DEF ToolInv, ToolTyped
<1>2. toolOp' = [toolOp EXCEPT ![o] = toolOp'[o]] /\ toolOp'[o] = [toolOp[o] EXCEPT !.pc = pc]
  BY <1>1 DEF ToolGoto
<1>3. toolOp'[o].pc = pc
  BY <1>1, <1>2 DEF OpType
<1>4. OpOK(toolOp[o])'
  BY <1>2 DEF OpOK
<1> QED
  BY <1>2, <1>3, <1>4, GoesOn

LEMMA DetectSteps == ASSUME ToolInv, NEW o \in ToolOps, Detect(o) \/ Detected(o) PROVE ToolInv'
<1>1. toolOp \in [ToolOps -> OpType] /\ toolOp[o] \in OpType /\ OpOK(toolOp[o])
      /\ disk \in DiskType /\ entry \in EntryType /\ (tool.sums => disk.bin.good)
  BY DEF ToolInv, ToolTyped, OpsOK, EntryOnDisk
<1>2. CASE Detect(o) /\ disk.bin.ver = 0
  <2>1. entry' \in EntryType /\ ~entry'.installed
    <3>1. NotInstalled \in EntryType /\ ~NotInstalled.installed
      BY ToolAssumption DEF NotInstalled, EntryType
    <3> QED
      BY <1>2, <3>1 DEF Detect
  <2> QED
    BY <1>1, <1>2, <2>1, LeaveStep DEF Detect
<1>3. CASE Detect(o) /\ disk.bin.ver # 0
  <2> DEFINE v == IF Answers(disk.bin) THEN disk.bin.ver ELSE 0
             x == [toolOp[o] EXCEPT !.pc = "probe"]
             y == [x EXCEPT !.ver = v]
  <2>1. toolOp' = [toolOp EXCEPT ![o] = y]
    BY <1>1, <1>3 DEF Detect, OpType
  <2>2. v \in 0 .. MaxRelease
    BY <1>1, ToolAssumption DEF DiskType
  <2>3. x \in OpType /\ x.pc = "probe"
    BY <1>1 DEF OpType
  <2> HIDE DEF v, x
  <2>4. y \in OpType /\ y.pc = "probe"
    BY <2>2, <2>3 DEF OpType
  <2> HIDE DEF y
  <2>5. toolOp' = [toolOp EXCEPT ![o] = toolOp'[o]] /\ toolOp'[o] = y
    BY <1>1, <2>1
  <2>6. UNCHANGED <<tool, release, inUse, disk, entry, lock>>
    BY <1>3 DEF Detect
  <2>7. OpOK(toolOp[o])'
    BY <1>3, <2>4, <2>5, <2>6 DEF OpOK
  <2>8. toolOp'[o].pc \notin LockPcs /\ toolOp[o].pc \notin LockPcs
    BY <1>3, <2>4, <2>5 DEF Detect, LockPcs
  <2> QED
    BY <2>5, <2>6, <2>7, <2>8, GoesOn
<1>4. CASE Detected(o)
  <2>1. entry' \in EntryType
    BY <1>1, <1>4 DEF Detected, DetectedVersion, Installed, EntryType, OpType, DiskType
  <2> QED
    BY <1>1, <1>4, <2>1, LeaveStep DEF Detected, OpOK
<1> QED
  BY <1>2, <1>3, <1>4 DEF Detect

LEMMA RequestSteps ==
    ASSUME ToolInv, NEW o \in ToolOps,
           InstallManagedTool(o) \/ UpdateToolStreaming(o) \/ UpdateTool(o) \/ UpdateLoop(o)
    PROVE  ToolInv'
<1>1. PICK streamed \in BOOLEAN, pc \in {"lock", "compare"} : Requested(o, streamed, pc)
  BY DEF InstallManagedTool, UpdateToolStreaming, UpdateTool, UpdateLoop
<1> DEFINE x == [Idle EXCEPT !.pc = pc]
           y == [x EXCEPT !.stream = streamed]
           z == [y EXCEPT !.ver = entry.cur]
<1>2. toolOp' = [toolOp EXCEPT ![o] = z] /\ UNCHANGED <<tool, release, disk, inUse, entry, lock>>
      /\ toolOp[o].pc = "idle"
  BY <1>1 DEF Requested
<1>3. x \in OpType /\ x.pc = pc
  BY IdleOK DEF OpType
<1> HIDE DEF x
<1>4. y \in OpType /\ y.pc = pc
  BY <1>3 DEF OpType
<1> HIDE DEF y
<1>5. z \in OpType /\ z.pc = pc
  BY <1>4 DEF OpType, ToolInv, ToolTyped, EntryType
<1> HIDE DEF z
<1>6. toolOp' = [toolOp EXCEPT ![o] = toolOp'[o]] /\ toolOp'[o] = z
  BY <1>2 DEF ToolInv, ToolTyped
<1>7. OpOK(toolOp[o])' /\ toolOp'[o].pc \notin LockPcs /\ toolOp[o].pc \notin LockPcs
  BY <1>2, <1>5, <1>6 DEF OpOK, LockPcs
<1> QED
  BY <1>2, <1>6, <1>7, GoesOn

LEMMA CompareSteps == ASSUME ToolInv, NEW o \in ToolOps, CompareStreaming(o) \/ ComparePlain(o) PROVE ToolInv'
<1>1. toolOp[o] \in OpType /\ toolOp[o].pc = "compare"
      /\ UNCHANGED <<tool, release, disk, inUse, entry>>
  BY DEF ToolInv, ToolTyped, CompareStreaming, ComparePlain
<1>2. \A pc \in {"detect", "lock"} :
        OpOK([toolOp[o] EXCEPT !.pc = pc]) /\ (pc \in LockPcs <=> toolOp[o].pc \in LockPcs)
  BY <1>1 DEF OpOK, OpType, LockPcs
<1>3. CASE Leave(o)
  BY <1>1, <1>3, LeaveStep DEF ToolInv, ToolTyped, EntryOnDisk
<1>4. CASE UNCHANGED lock /\ (ToolGoto(o, "detect") \/ ToolGoto(o, "lock"))
  BY <1>1, <1>2, <1>4, GotoStep
<1> QED
  BY <1>3, <1>4 DEF CompareStreaming, ComparePlain

LEMMA SweptKeepsBinary ==
    ASSUME disk \in DiskType PROVE Swept \in DiskType /\ Swept.bin = disk.bin /\ Swept.file = disk.file
  BY DEF Swept, DiskType

LEMMA LockStep == ASSUME ToolInv, NEW o \in ToolOps, Lock(o) PROVE ToolInv'
<1>1. toolOp \in [ToolOps -> OpType] /\ toolOp[o] \in OpType /\ disk \in DiskType /\ entry \in EntryType
  BY DEF ToolInv, ToolTyped
<1>2. disk' \in DiskType /\ disk'.bin = disk.bin
  BY <1>1, SweptKeepsBinary DEF Lock
<1>3. toolOp' = [toolOp EXCEPT ![o] = toolOp'[o]] /\ toolOp'[o] = [toolOp[o] EXCEPT !.pc = "version"]
  BY <1>1 DEF Lock, ToolGoto
<1>4. OpOK(toolOp[o])' /\ toolOp'[o].pc = "version"
  BY <1>1, <1>3 DEF OpOK, OpType
<1>5. lock = {} /\ lock' = {o} /\ UNCHANGED <<tool, release, inUse, entry>>
  BY DEF Lock
<1> QED
  BY <1>1, <1>2, <1>3, <1>4, <1>5, OpStep DEF LockPcs, ToolInv, EntryOnDisk

LEMMA ReleaseSteps ==
    ASSUME ToolInv, NEW o \in ToolOps, NEW streamed, NEW kinds, FindsRelease(o, streamed, kinds)
    PROVE  ToolInv'
<1>1. toolOp \in [ToolOps -> OpType] /\ toolOp[o] \in OpType /\ release \in ToolReleases
      /\ toolOp[o].pc = "version"
  BY DEF ToolInv, ToolTyped, FindsRelease
<1> DEFINE x == [toolOp[o] EXCEPT !.pc = "download"]
           y == [x EXCEPT !.ver = release]
<1>2. CASE /\ toolOp' = [toolOp EXCEPT ![o].pc = "download", ![o].ver = release]
           /\ UNCHANGED <<tool, release, disk, inUse, entry, lock>>
  <2>1. toolOp' = [toolOp EXCEPT ![o] = y]
    BY <1>1, <1>2 DEF OpType
  <2>2. x \in OpType /\ x.pc = "download"
    BY <1>1 DEF OpType
  <2> HIDE DEF x
  <2>3. y \in OpType /\ y.pc = "download" /\ y.ver # 0
    BY <1>1, <2>2, ToolAssumption DEF OpType, ToolReleases
  <2> HIDE DEF y
  <2>4. toolOp' = [toolOp EXCEPT ![o] = toolOp'[o]] /\ toolOp'[o] = y
    BY <1>1, <2>1
  <2>5. OpOK(toolOp[o])'
    BY <2>3, <2>4 DEF OpOK
  <2> QED
    BY <1>1, <1>2, <2>3, <2>4, <2>5, GoesOn DEF LockPcs
<1> QED
  BY <1>2, FailStep DEF FindsRelease

(* What has no checksum to be checked is OpenCode's, whose releases have    *)
(* none.                                                                    *)
LEMMA DownloadSteps ==
    ASSUME ToolInv, NEW o \in ToolOps, NEW pc, toolOp[o].pc = "download", ToolDownloads(o, pc),
           pc = "check" \/ (pc = "place" /\ tool.kind = "opencode")
    PROVE  ToolInv'
<1>1. toolOp \in [ToolOps -> OpType] /\ toolOp[o] \in OpType /\ toolOp[o].ver # 0
      /\ (tool.kind = "opencode" => ~tool.sums)
  BY DEF ToolInv, ToolTyped, OpsOK, OpOK
<1>2. ASSUME NEW good \in BOOLEAN,
             toolOp' = [toolOp EXCEPT ![o].pc = pc, ![o].good = good],
             UNCHANGED <<tool, release, disk, inUse, entry, lock>>
      PROVE  ToolInv'
  <2> DEFINE x == [toolOp[o] EXCEPT !.pc = pc]
             y == [x EXCEPT !.good = good]
  <2>1. toolOp' = [toolOp EXCEPT ![o] = y]
    BY <1>1, <1>2 DEF OpType
  <2>2. x \in OpType /\ x.pc = pc /\ x.ver # 0
    BY <1>1 DEF OpType
  <2> HIDE DEF x
  <2>3. y \in OpType /\ y.pc = pc /\ y.ver # 0
    BY <2>2 DEF OpType
  <2> HIDE DEF y
  <2>4. toolOp' = [toolOp EXCEPT ![o] = toolOp'[o]] /\ toolOp'[o] = y
    BY <1>1, <2>1
  <2>5. OpOK(toolOp[o])'
    BY <1>1, <1>2, <2>3, <2>4 DEF OpOK
  <2> QED
    BY <1>2, <2>3, <2>4, <2>5, GoesOn DEF LockPcs
<1> QED
  BY <1>2, FailStep DEF ToolDownloads

LEMMA CheckStep == ASSUME ToolInv, NEW o \in ToolOps, VerifyChecksum(o) PROVE ToolInv'
<1>1. toolOp[o] \in OpType /\ toolOp[o].pc = "check" /\ toolOp[o].ver # 0
  BY DEF ToolInv, ToolTyped, OpsOK, OpOK, VerifyChecksum
<1>2. CASE tool.sums /\ ~toolOp[o].good
  BY <1>2, FailStep DEF VerifyChecksum
<1>3. CASE ~(tool.sums /\ ~toolOp[o].good)
  <2>1. ToolGoto(o, "place") /\ UNCHANGED <<tool, release, disk, inUse, entry, lock>>
    BY <1>3 DEF VerifyChecksum
  <2>2. OpOK([toolOp[o] EXCEPT !.pc = "place"])
    BY <1>1, <1>3 DEF OpOK, OpType
  <2> QED
    BY <1>1, <2>1, <2>2, GotoStep DEF LockPcs
<1> QED
  BY <1>2, <1>3

LEMMA PlaceSteps == ASSUME ToolInv, NEW o \in ToolOps, ExtractFails(o) \/ AtomicInstall(o) PROVE ToolInv'
<1>1. toolOp \in [ToolOps -> OpType] /\ toolOp[o] \in OpType /\ toolOp[o].pc = "place" /\ toolOp[o].ver # 0
      /\ (tool.sums => toolOp[o].good) /\ disk \in DiskType /\ entry \in EntryType
      /\ inUse \in BOOLEAN /\ tool \in ToolType
  BY DEF ToolInv, ToolTyped, OpsOK, OpOK, ExtractFails, AtomicInstall
<1>2. CASE HasFailed(o)
  BY <1>2, FailStep
<1>3. CASE /\ disk' = [disk EXCEPT !.bin = Binary(o), !.parked = @ \/ (tool.win /\ inUse /\ disk.bin.ver # 0)]
           /\ Placed(o)
  <2> DEFINE x == [disk EXCEPT !.bin = Binary(o)]
             p == disk.parked \/ (tool.win /\ inUse /\ disk.bin.ver # 0)
  <2>1. disk' = [x EXCEPT !.parked = p]
    BY <1>1, <1>3 DEF DiskType
  <2>2. Binary(o) \in [ver : 0 .. MaxRelease, good : BOOLEAN, musl : BOOLEAN]
        /\ Binary(o).ver # 0 /\ (tool.sums => Binary(o).good)
    BY <1>1 DEF Binary, OpType
  <2> HIDE DEF Binary
  <2>3. x \in DiskType /\ x.bin = Binary(o)
    BY <1>1, <2>2 DEF DiskType
  <2>4. p \in BOOLEAN
    OBVIOUS
  <2> HIDE DEF x, p
  <2>5. disk' \in DiskType /\ disk'.bin = Binary(o)
    BY <2>1, <2>3, <2>4 DEF DiskType
  <2>6. UNCHANGED <<tool, release, inUse, entry, lock>> /\ AfterPlacing \in {"record", "verify"}
        /\ toolOp' = [toolOp EXCEPT ![o] = toolOp'[o]]
        /\ toolOp'[o] = [toolOp[o] EXCEPT !.pc = AfterPlacing]
    BY <1>1, <1>3 DEF Placed, ToolGoto, AfterPlacing
  <2> HIDE DEF AfterPlacing
  <2>7. toolOp'[o] \in OpType /\ toolOp'[o].pc \in {"record", "verify"} /\ toolOp'[o].ver # 0
    BY <1>1, <2>6 DEF OpType
  <2>8. OpOK(toolOp[o])'
    BY <2>2, <2>5, <2>7 DEF OpOK
  <2>9. lock \subseteq {o} /\ lock' = {o}
    BY <1>1, <2>6 DEF ToolInv, LockHeld, LockPcs
  <2> QED
    BY <1>1, <2>2, <2>5, <2>6, <2>7, <2>8, <2>9, OpStep DEF LockPcs
<1> QED
  BY <1>2, <1>3 DEF ExtractFails, AtomicInstall

LEMMA VerifyStep == ASSUME ToolInv, NEW o \in ToolOps, VerifyRuns(o) PROVE ToolInv'
<1>1. toolOp \in [ToolOps -> OpType] /\ toolOp[o] \in OpType /\ toolOp[o].pc = "verify" /\ toolOp[o].ver # 0
      /\ disk.bin.ver # 0
  BY DEF ToolInv, ToolTyped, OpsOK, OpOK, VerifyRuns
<1>2. UNCHANGED <<tool, release, disk, inUse, entry, lock>>
  BY DEF VerifyRuns
<1>3. CASE ToolGoto(o, "record")
  <2>1. OpOK([toolOp[o] EXCEPT !.pc = "record"])
    BY <1>1 DEF OpOK, OpType
  <2> QED
    BY <1>1, <1>2, <1>3, <2>1, GotoStep DEF LockPcs
<1>4. CASE toolOp' = [toolOp EXCEPT ![o].pc = "download", ![o].musl = TRUE]
  <2> DEFINE x == [toolOp[o] EXCEPT !.pc = "download"]
             y == [x EXCEPT !.musl = TRUE]
  <2>1. toolOp' = [toolOp EXCEPT ![o] = y]
    BY <1>1, <1>4 DEF OpType
  <2>2. x \in OpType /\ x.pc = "download" /\ x.ver # 0
    BY <1>1 DEF OpType
  <2> HIDE DEF x
  <2>3. y \in OpType /\ y.pc = "download" /\ y.ver # 0
    BY <2>2 DEF OpType
  <2> HIDE DEF y
  <2>4. toolOp' = [toolOp EXCEPT ![o] = toolOp'[o]] /\ toolOp'[o] = y
    BY <1>1, <2>1
  <2>5. OpOK(toolOp[o])'
    BY <2>3, <2>4 DEF OpOK
  <2> QED
    BY <1>1, <1>2, <2>3, <2>4, <2>5, GoesOn DEF LockPcs
<1> QED
  BY <1>3, <1>4 DEF VerifyRuns

LEMMA RecordStep ==
    ASSUME ToolInv, NEW o \in ToolOps, NEW streamed, NEW kinds, Record(o, streamed, kinds)
    PROVE  ToolInv'
<1>1. toolOp[o] \in OpType /\ disk.bin.ver # 0 /\ disk \in DiskType /\ (tool.sums => disk.bin.good)
  BY DEF ToolInv, ToolTyped, OpsOK, OpOK, EntryOnDisk, Record
<1>2. disk' \in DiskType /\ disk'.bin = disk.bin
  BY <1>1 DEF Record, DiskType, OpType
<1>3. entry' \in EntryType
  BY <1>1 DEF Record, Installed, EntryType, OpType
<1> QED
  BY <1>1, <1>2, <1>3, LeaveStep DEF Record

LEMMA ClientLeavesStep == ASSUME ToolInv, NEW o \in ToolOps, ToolClientLeaves(o) PROVE ToolInv'
  BY LeaveStep DEF ToolClientLeaves, ToolInv, ToolTyped, EntryOnDisk

(* The worker starts over, with or without a binary.                        *)
LEMMA AllIdle ==
    ASSUME ToolInv, lock' = {}, toolOp' = [o \in ToolOps |-> Idle], UNCHANGED <<tool, release>>,
           inUse' \in BOOLEAN, disk' \in DiskType, entry' \in EntryType, EntryOnDisk'
    PROVE  ToolInv'
<1>1. toolOp' \in [ToolOps -> OpType] /\ \A o \in ToolOps : toolOp'[o] = Idle
  BY IdleOK
<1>2. ToolTyped'
  BY <1>1 DEF ToolInv, ToolTyped
<1>3. LockHeld'
  BY <1>1, IdleOK DEF LockHeld, LockPcs
<1>4. OpsOK'
  BY <1>1, IdleOK DEF OpsOK, OpOK
<1> QED
  BY <1>2, <1>3, <1>4 DEF ToolInv

LEMMA EmptyDisk == NoBinary \in [ver : 0 .. MaxRelease, good : BOOLEAN, musl : BOOLEAN]
                   /\ NoBinary.ver = 0 /\ NoBinary.good
                   /\ NotInstalled \in EntryType /\ ~NotInstalled.installed
  BY ToolAssumption DEF NoBinary, NotInstalled, EntryType

LEMMA DiesStep == ASSUME ToolInv, NEW o \in ToolOps, DiesWhileParked(o) PROVE ToolInv'
<1>1. disk \in DiskType /\ inUse' \in BOOLEAN /\ entry' = NotInstalled
      /\ lock' = {} /\ toolOp' = [x \in ToolOps |-> Idle] /\ UNCHANGED <<tool, release>>
      /\ disk' = [disk EXCEPT !.bin = NoBinary, !.parked = inUse']
  BY DEF DiesWhileParked, ToolInv, ToolTyped
<1> HIDE DEF NoBinary, NotInstalled
<1> DEFINE x == [disk EXCEPT !.bin = NoBinary]
<1>2. disk' = [x EXCEPT !.parked = inUse']
  BY <1>1 DEF DiskType
<1>3. x \in DiskType /\ x.bin = NoBinary
  BY <1>1, EmptyDisk DEF DiskType
<1> HIDE DEF x
<1>4. disk' \in DiskType /\ disk'.bin = NoBinary
  BY <1>1, <1>2, <1>3 DEF DiskType
<1> QED
  BY <1>1, <1>4, EmptyDisk, AllIdle DEF EntryOnDisk

LEMMA RestartStep == ASSUME ToolInv, Restart PROVE ToolInv'
<1>1. disk \in DiskType /\ inUse' \in BOOLEAN /\ (tool.sums => disk.bin.good) /\ disk' = Swept
      /\ lock' = {} /\ toolOp' = [x \in ToolOps |-> Idle] /\ UNCHANGED <<tool, release>>
  BY DEF Restart, ToolInv, ToolTyped, EntryOnDisk
<1>2. disk' \in DiskType /\ disk'.bin = disk.bin /\ Swept.file \in 0 .. MaxRelease
      /\ Swept.bin = disk.bin /\ disk.bin.ver \in 0 .. MaxRelease
  BY <1>1, SweptKeepsBinary DEF DiskType
<1>3. entry' \in EntryType /\ (entry'.installed => disk.bin.ver # 0)
  BY <1>2, EmptyDisk DEF Restart, EnsureTools, Installed, EntryType
<1> QED
  BY <1>1, <1>2, <1>3, AllIdle DEF EntryOnDisk

LEMMA UninstallStep == ASSUME ToolInv, "overlap" \notin ToolEnv, UninstallTool PROVE ToolInv'
<1>1. disk \in DiskType /\ UNCHANGED <<tool, release, inUse, lock, toolOp>> /\ entry' = NotInstalled
      /\ disk' = [disk EXCEPT !.bin = NoBinary, !.file = 0] /\ \A o \in ToolOps : toolOp[o].pc = "idle"
  BY DEF UninstallTool, ToolInv, ToolTyped
<1> HIDE DEF NoBinary, NotInstalled
<1> DEFINE x == [disk EXCEPT !.bin = NoBinary]
<1>2. disk' = [x EXCEPT !.file = 0]
  BY <1>1 DEF DiskType
<1>3. x \in DiskType /\ x.bin = NoBinary
  BY <1>1, EmptyDisk DEF DiskType
<1> HIDE DEF x
<1>4. disk' \in DiskType /\ disk'.bin = NoBinary
  BY <1>2, <1>3, ToolAssumption DEF DiskType
<1>5. ToolTyped' /\ LockHeld'
  BY <1>1, <1>4, EmptyDisk DEF ToolInv, ToolTyped, LockHeld
<1>6. OpsOK'
  BY <1>1 DEF ToolInv, OpsOK, OpOK
<1> QED
  BY <1>1, <1>4, <1>5, <1>6, EmptyDisk DEF ToolInv, EntryOnDisk

LEMMA OutsideSteps == ASSUME ToolInv, ReleaseComesOut \/ AgentRuns PROVE ToolInv'
<1>1. UNCHANGED <<tool, disk, entry, lock, toolOp>> /\ release' \in ToolReleases /\ inUse' \in BOOLEAN
  <2>1. release \in ToolReleases /\ inUse \in BOOLEAN
    BY DEF ToolInv, ToolTyped
  <2>2. CASE ReleaseComesOut
    BY <2>1, <2>2, ToolAssumption DEF ReleaseComesOut, ToolReleases
  <2>3. CASE AgentRuns
    BY <2>1, <2>3 DEF AgentRuns
  <2> QED
    BY <2>2, <2>3
<1> QED
  BY <1>1 DEF ToolInv, ToolTyped, LockHeld, OpsOK, OpOK, EntryOnDisk

LEMMA NextToolInv ==
    ASSUME ToolInv, "overlap" \notin ToolEnv, [ToolNext]_toolVars PROVE ToolInv'
<1>1. CASE UNCHANGED toolVars
  BY <1>1 DEF toolVars, ToolInv, ToolTyped, LockHeld, OpsOK, OpOK, EntryOnDisk
<1>2. ASSUME NEW o \in ToolOps,
             \/ InstallManagedTool(o) \/ UpdateToolStreaming(o) \/ UpdateTool(o) \/ UpdateLoop(o)
             \/ CompareStreaming(o) \/ ComparePlain(o) \/ Lock(o)
      PROVE  ToolInv'
  BY <1>2, RequestSteps, CompareSteps, LockStep
<1>3. ASSUME NEW o \in ToolOps,
             \/ InstallClaudeCode(o) \/ InstallClaudeCodeStreaming(o)
             \/ InstallCodex(o) \/ InstallCodexStreaming(o)
             \/ InstallCodexAcp(o) \/ InstallCodexAcpStreaming(o)
             \/ InstallOpencode(o) \/ InstallOpencodeStreaming(o)
      PROVE  ToolInv'
  BY <1>3, ReleaseSteps DEF InstallClaudeCode, InstallClaudeCodeStreaming, InstallCodex, InstallCodexStreaming,
       InstallCodexAcp, InstallCodexAcpStreaming, InstallOpencode, InstallOpencodeStreaming
<1>4. ASSUME NEW o \in ToolOps,
             \/ DownloadClaudeCode(o) \/ StreamCodexDownload(o) \/ StreamCodexAcpDownload(o)
             \/ DownloadOpencodeBinary(o)
      PROVE  ToolInv'
  BY <1>4, DownloadSteps DEF DownloadClaudeCode, StreamCodexDownload, StreamCodexAcpDownload, DownloadOpencodeBinary
<1>5. ASSUME NEW o \in ToolOps,
             \/ VerifyChecksum(o) \/ ExtractFails(o) \/ AtomicInstall(o) \/ DiesWhileParked(o) \/ VerifyRuns(o)
      PROVE  ToolInv'
  BY <1>5, CheckStep, PlaceSteps, DiesStep, VerifyStep
<1>6. ASSUME NEW o \in ToolOps,
             \/ UpdateClaudeCode(o) \/ UpdateCodex(o) \/ UpdateCodexAcp(o) \/ UpdateOpencode(o)
             \/ InstalledStreaming(o) \/ ToolClientLeaves(o) \/ Detect(o) \/ Detected(o)
      PROVE  ToolInv'
  BY <1>6, RecordStep, ClientLeavesStep, DetectSteps
     DEF UpdateClaudeCode, UpdateCodex, UpdateCodexAcp, UpdateOpencode, InstalledStreaming
<1> QED
  BY <1>1, <1>2, <1>3, <1>4, <1>5, <1>6, UninstallStep, OutsideSteps, RestartStep DEF ToolNext

(* The entry of a tool sends sessions to a binary that is there, and what  *)
(* is there has passed the check of its checksum where the release has one,*)
(* through installs, updates, failures, clients that leave and restarts    *)
(* (ToolManager, install_binary), as long as no uninstall overlaps an      *)
(* install: uninstall_tool takes no lock (README, section 6).              *)
THEOREM EntryIsOnDisk == "overlap" \notin ToolEnv => (ToolSpec => []EntryOnDisk)
<1> SUFFICES ASSUME "overlap" \notin ToolEnv PROVE ToolSpec => []EntryOnDisk
  OBVIOUS
<1>1. ToolInv => EntryOnDisk
  BY DEF ToolInv
<1> QED
  BY InitToolInv, NextToolInv, <1>1, PTL DEF ToolSpec

-----------------------------------------------------------------------------
(***************************************************************************)
(* ToolSettings, for any sequence of updates, losses of the file and       *)
(* starts of agents.                                                       *)
(*                                                                         *)
(* The env section is derived when the provider or a key is saved, and the *)
(* command-line agent writes its own stale copy of the file back at any    *)
(* time. It is enough that the section follows the provider in the file    *)
(* and in every copy that may come back.                                   *)
(***************************************************************************)

EnvOf(f) ==
    [on |-> TRUE, main |-> IF UsesMain(cli, f.provider) THEN f.main ELSE "",
     other |-> IF UsesOther(cli, f.provider) THEN f.other ELSE ""]
EnvFollows(f) == f.provider # "" => f.env = EnvOf(f)

(* The saved file and the copy the CLI will write back.                     *)
CopiesFollow == EnvFollows(file) /\ \A f \in stale : EnvFollows(f)

SettingsInv == SettingsTypeOK /\ CopiesFollow
-----------------------------------------------------------------------------
LEMMA EmptyFileFollows == EmptyFile \in Files /\ EnvFollows(EmptyFile)
<1>1. "" \in Keys /\ "" \in ProvidersOf(cli) /\ NoEnv \in Env
  BY DEF Keys, ProvidersOf, NoEnv, Env
<1> HIDE DEF NoEnv, Env, Keys, ProvidersOf
<1>2. EmptyFile \in Files
  BY <1>1 DEF EmptyFile, Files
<1>3. EmptyFile.provider = ""
  BY DEF EmptyFile
<1> QED
  BY <1>2, <1>3 DEF EnvFollows

LEMMA SettingsAreTyped ==
    ASSUME SettingsInv PROVE GetSettings \in Files /\ EnvFollows(GetSettings)
  BY EmptyFileFollows DEF SettingsInv, SettingsTypeOK, CopiesFollow, GetSettings

(* An update keeps a file a file; one that names no key of the provider     *)
(* leaves the provider, the keys and the section alone.                     *)
LEMMA AppliedTyped ==
    ASSUME NEW f \in Files, NEW u \in Updates
    PROVE  /\ Applied(f, u) \in Files
           /\ Applied(f, u).env = f.env
           /\ DOMAIN u \cap ProviderKeys(cli) = {} =>
                  /\ Applied(f, u).provider = f.provider
                  /\ Applied(f, u).main = f.main /\ Applied(f, u).other = f.other
<1> DEFINE g == Applied(f, u)
<1>1. DOMAIN f = {"ok", "provider", "main", "other", "model", "deny", "env"}
  BY DEF Files
<1>2. DOMAIN u \subseteq Fields /\ \A x \in DOMAIN u : u[x] \in ValuesOf(x)
  BY DEF Updates
<1>3. Fields \subseteq {"provider", "main", "other", "model"} /\ (cli = "codex" => "other" \notin Fields)
  BY DEF Fields
<1>4. /\ "provider" \in DOMAIN u => u["provider"] \in ProvidersOf(cli)
      /\ "model" \in DOMAIN u => u["model"] \in {"", "m"}
      /\ "main" \in DOMAIN u /\ u["main"] # "masked" => u["main"] \in Keys
      /\ "other" \in DOMAIN u /\ u["other"] # "masked" => u["other"] \in Keys
  <2>1. ValuesOf("provider") = ProvidersOf(cli) /\ ValuesOf("model") = {"", "m"}
    BY DEF ValuesOf
  <2>2. \A x \in {"main", "other"} : ValuesOf(x) = (Keys \ {"****"}) \cup {MaskOf(GetSettings[x])}
    BY DEF ValuesOf
  <2>3. \A k : MaskOf(k) # "masked" => MaskOf(k) \in Keys
    BY DEF MaskOf, Keys
  <2> QED
    BY <1>2, <2>1, <2>2, <2>3
<1>5. /\ g.ok = f.ok /\ g.deny = f.deny /\ g.env = f.env
      /\ g.provider \in ProvidersOf(cli) /\ g.main \in Keys /\ g.other \in Keys /\ g.model \in {"", "m"}
  <2>1. /\ g.ok = f.ok /\ g.deny = f.deny /\ g.env = f.env
    BY <1>1, <1>2, <1>3 DEF Applied
  <2>2. g.provider \in ProvidersOf(cli) /\ g.model \in {"", "m"}
    BY <1>1, <1>4 DEF Applied, Files
  <2>3. g.main \in Keys
    BY <1>1, <1>4 DEF Applied, IsMasked, Files
  <2>4. g.other \in Keys
    BY <1>1, <1>4 DEF Applied, IsMasked, Files
  <2> QED
    BY <2>1, <2>2, <2>3, <2>4
<1>6. g = [ok |-> g.ok, provider |-> g.provider, main |-> g.main, other |-> g.other, model |-> g.model,
           deny |-> g.deny, env |-> g.env]
  BY <1>1 DEF Applied
<1>7. g \in Files
  BY <1>5, <1>6 DEF Files
<1>8. ASSUME DOMAIN u \cap ProviderKeys(cli) = {}
      PROVE  g.provider = f.provider /\ g.main = f.main /\ g.other = f.other
  <2>1. "provider" \notin DOMAIN u /\ "main" \notin DOMAIN u /\ "other" \notin DOMAIN u
    BY <1>2, <1>3, <1>8 DEF ProviderKeys
  <2> QED
    BY <1>1, <2>1 DEF Applied
<1> QED
  BY <1>5, <1>7, <1>8

(* Whatever the section held, it follows after the provider was synced.     *)
LEMMA SyncFollows == ASSUME NEW f \in Files PROVE SyncEnv(f) \in Files /\ EnvFollows(SyncEnv(f))
<1> DEFINE e == IF f.provider = "" THEN NoEnv ELSE EnvOf(f)
           x == [f EXCEPT !.env = e]
           m == IF f.provider = "anthropic_login" THEN "" ELSE f.model
<1>1. SyncEnv(f) = [x EXCEPT !.model = m]
  BY DEF SyncEnv, EnvOf, Files
<1>2. e \in Env
  BY DEF NoEnv, EnvOf, Env, Keys, Files
<1> HIDE DEF e, Env
<1>3. x \in Files /\ x.env = e /\ x.provider = f.provider /\ x.main = f.main /\ x.other = f.other
      /\ m \in {"", "m"}
  BY <1>2 DEF Files
<1> HIDE DEF x, m
<1>4. SyncEnv(f) \in Files /\ SyncEnv(f).env = e /\ SyncEnv(f).provider = f.provider
      /\ SyncEnv(f).main = f.main /\ SyncEnv(f).other = f.other
  BY <1>1, <1>3 DEF Files
<1> QED
  BY <1>4 DEF EnvFollows, EnvOf, e

LEMMA InitSettingsInv == SettingsInit => SettingsInv
  BY EmptyFileFollows, FS_EmptySet DEF SettingsInit, SettingsInv, SettingsTypeOK, CopiesFollow

LEMMA UpdateStep == ASSUME SettingsInv, UpdateSettings PROVE SettingsInv'
<1>1. UNCHANGED <<cli, stale, memo, toml>>
  BY DEF UpdateSettings
<1>2. PICK u \in Updates :
         file' = IF DOMAIN u \cap ProviderKeys(cli) # {} THEN SyncEnv(Applied(GetSettings, u))
                 ELSE Applied(GetSettings, u)
  BY DEF UpdateSettings
<1> DEFINE f == GetSettings
           g == Applied(f, u)
<1>3. f \in Files /\ EnvFollows(f)
  BY SettingsAreTyped
<1> HIDE DEF f
<1>4. g \in Files /\ g.env = f.env
      /\ (DOMAIN u \cap ProviderKeys(cli) = {} => g.provider = f.provider /\ g.main = f.main /\ g.other = f.other)
  BY <1>3, AppliedTyped
<1>5. file' \in Files /\ EnvFollows(file')
  <2>1. CASE DOMAIN u \cap ProviderKeys(cli) # {}
    BY <1>2, <1>4, <2>1, SyncFollows DEF f
  <2>2. CASE DOMAIN u \cap ProviderKeys(cli) = {}
    BY <1>2, <1>3, <1>4, <2>2 DEF f, EnvFollows, EnvOf
  <2> QED
    BY <2>1, <2>2
<1> QED
  BY <1>1, <1>5 DEF SettingsInv, SettingsTypeOK, CopiesFollow, EnvFollows, EnvOf, Files, ProvidersOf

LEMMA OtherSettingsSteps ==
    ASSUME SettingsInv,
           EnsureDefaults \/ CliReads \/ CliWrites \/ UserEdits \/ SyncCaveman \/ UserMemo
           \/ RegisterBridge \/ UserToml
    PROVE  SettingsInv'
<1>1. UNCHANGED cli /\ Files' = Files
  BY DEF EnsureDefaults, CliReads, CliWrites, UserEdits, SyncCaveman, UserMemo, RegisterBridge, UserToml,
         Files, ProvidersOf
<1>2. /\ file' \in Files /\ EnvFollows(file')
      /\ stale' \subseteq Files /\ Cardinality(stale') <= 1
      /\ \A f \in stale' : EnvFollows(f)
  <2>1. file \in Files /\ EnvFollows(file) /\ stale \subseteq Files /\ Cardinality(stale) <= 1
        /\ \A f \in stale : EnvFollows(f)
    BY DEF SettingsInv, SettingsTypeOK, CopiesFollow
  <2>2. CASE EnsureDefaults
    <3>1. file' = [GetSettings EXCEPT !.deny = TRUE] /\ UNCHANGED stale
      BY <2>2 DEF EnsureDefaults
    <3> QED
      BY <2>1, <3>1, SettingsAreTyped DEF Files, EnvFollows, EnvOf
  <2>3. CASE CliReads
    BY <2>1, <2>3, FS_Singleton DEF CliReads
  <2>4. CASE CliWrites
    <3>1. PICK f \in stale : \E model \in {"", "m"} : file' = [f EXCEPT !.model = model]
      BY <2>4 DEF CliWrites
    <3>2. stale' = {}
      BY <2>4 DEF CliWrites
    <3>3. f \in Files /\ EnvFollows(f)
      BY <2>1
    <3>4. file' \in Files /\ EnvFollows(file')
      BY <3>1, <3>3 DEF Files, EnvFollows, EnvOf
    <3>5. Cardinality(stale') <= 1
      BY <3>2, FS_EmptySet
    <3>6. stale' \subseteq Files /\ \A g \in stale' : EnvFollows(g)
      BY <3>2
    <3> QED
      BY <3>4, <3>5, <3>6
  <2>5. CASE UserEdits
    BY <2>1, <2>5 DEF UserEdits, Files, EnvFollows, EnvOf
  <2>6. CASE SyncCaveman \/ UserMemo \/ RegisterBridge \/ UserToml
    BY <2>1, <2>6 DEF SyncCaveman, UserMemo, RegisterBridge, UserToml
  <2> QED
    BY <2>2, <2>3, <2>4, <2>5, <2>6
<1>3. memo' \in {"none", "user", "caveman"}
      /\ toml' \in [user : BOOLEAN, block : {"none", "whole", "broken"}, own : BOOLEAN]
  <2>1. memo \in {"none", "user", "caveman"}
        /\ toml \in [user : BOOLEAN, block : {"none", "whole", "broken"}, own : BOOLEAN]
    BY DEF SettingsInv, SettingsTypeOK
  <2>2. CASE RegisterBridge
    <3> DEFINE x == [toml EXCEPT !.block = "none"]
               y == [x EXCEPT !.user = IF toml.block = "broken" THEN FALSE ELSE toml.user]
    <3>1. StripBlock = y
      BY <2>1 DEF StripBlock
    <3>2. x \in [user : BOOLEAN, block : {"none", "whole", "broken"}, own : BOOLEAN]
      BY <2>1
    <3> HIDE DEF x
    <3>3. y \in [user : BOOLEAN, block : {"none", "whole", "broken"}, own : BOOLEAN]
      BY <2>1, <3>2
    <3> HIDE DEF y
    <3>4. toml' = [y EXCEPT !.block = "whole"] \/ toml' = y
      BY <2>2, <3>1 DEF RegisterBridge
    <3> QED
      BY <2>1, <2>2, <3>3, <3>4 DEF RegisterBridge
  <2>3. CASE EnsureDefaults \/ CliReads \/ CliWrites \/ UserEdits \/ SyncCaveman \/ UserMemo \/ UserToml
    BY <2>1, <2>3 DEF EnsureDefaults, CliReads, CliWrites, UserEdits, SyncCaveman, UserMemo, UserToml
  <2> QED
    BY <2>2, <2>3
<1>4. SettingsTypeOK'
  BY <1>1, <1>2, <1>3 DEF SettingsInv, SettingsTypeOK
<1>5. CopiesFollow'
  BY <1>1, <1>2 DEF CopiesFollow, EnvFollows, EnvOf
<1> QED
  BY <1>4, <1>5 DEF SettingsInv

LEMMA NextSettingsInv == ASSUME SettingsInv, [SettingsNext]_cliVars PROVE SettingsInv'
<1>1. CASE UNCHANGED cliVars
  BY <1>1 DEF cliVars, SettingsInv, SettingsTypeOK, CopiesFollow, EnvFollows, EnvOf, Files, ProvidersOf
<1> QED
  BY <1>1, UpdateStep, OtherSettingsSteps DEF SettingsNext

(* An agent that the preflight lets start is given the saved key of its    *)
(* provider and none of another, whatever was saved, lost or written back  *)
(* before (update_settings, _sync_provider_env, agent_auth).               *)
THEOREM AgentGetsItsKey == SettingsSpec => []AgentHasKey
<1>1. SettingsInv => AgentHasKey
  <2> SUFFICES ASSUME SettingsInv, Configured
               PROVE  GetSettings.env = EnvOf(GetSettings)
    <3>1. \A f : EnvOf(f).on /\ EnvOf(f).main = (IF UsesMain(cli, f.provider) THEN f.main ELSE "")
                 /\ EnvOf(f).other = (IF UsesOther(cli, f.provider) THEN f.other ELSE "")
      BY DEF EnvOf
    <3> QED
      BY <3>1 DEF AgentHasKey
  <2> QED
    BY SettingsAreTyped DEF Configured, EnvFollows
<1> QED
  BY InitSettingsInv, NextSettingsInv, <1>1, PTL DEF SettingsSpec

-----------------------------------------------------------------------------
(***************************************************************************)
(* AgentLogin, for any number of logins, codes and polls.                  *)
(*                                                                         *)
(* A login stream can end at each of its steps; from the check of the      *)
(* status on, its process has exited before.                               *)
(***************************************************************************)

SubmitType == [pc : {"idle", "exchange", "keychain", "verify", "rewrite"}, login : 0 .. MaxLogins, code : 0 .. MaxLogins]

(* A login that reads has its process; from the check of the status on it   *)
(* has exited.                                                              *)
ChildExited == codex \in {"verify", "asked", "ended"} => child.login = "exited"

(* A code is exchanged for a login that has begun.                          *)
SubmitsBegun ==
    /\ flow <= begun /\ creds <= begun
    /\ \A r \in Submits : submit[r].login <= begun /\ (submit[r].pc # "idle" => submit[r].login # 0)

LoginInv == LoginTypeOK /\ ChildExited /\ SubmitsBegun
-----------------------------------------------------------------------------
LEMMA InitLoginInv == LoginInit => LoginInv
<1> SUFFICES ASSUME LoginInit PROVE LoginInv
  OBVIOUS
<1>1. NoSubmit \in SubmitType /\ NoSubmit.pc = "idle" /\ NoSubmit.login = 0
  BY LoginAssumption DEF NoSubmit, SubmitType
<1> HIDE DEF NoSubmit
<1>2. submit \in [Submits -> SubmitType] /\ \A r \in Submits : submit[r].pc = "idle" /\ submit[r].login = 0
  BY <1>1 DEF LoginInit
<1>3. LoginTypeOK
  <2>1. 0 \in 0 .. MaxLogins /\ 0 \in 0 .. MaxBackoff
    BY LoginAssumption
  <2> QED
    BY <1>2, <2>1 DEF LoginInit, LoginTypeOK, Logins, SubmitType
<1> QED
  BY <1>2, <1>3 DEF LoginInit, LoginInv, ChildExited, SubmitsBegun

(* The steps that touch no code request: a new login, the logout, the poll  *)
(* of the usage.                                                            *)
LEMMA AccountSteps ==
    ASSUME LoginInv, BeginLogin \/ BeginLogout \/ LogoutCli \/ ResetProvider \/ PollToken \/ PollUsage
    PROVE  LoginInv'
<1> USE LoginAssumption DEF LoginInv, LoginTypeOK, ChildExited, SubmitsBegun, codexVars
<1>1. CASE BeginLogin
  BY <1>1 DEF BeginLogin
<1>2. CASE BeginLogout
  BY <1>2 DEF BeginLogout
<1>3. CASE LogoutCli
  BY <1>3 DEF LogoutCli
<1>4. CASE ResetProvider
  BY <1>4 DEF ResetProvider
<1>5. CASE PollToken
  <2>1. usage' \in [token : 0 .. MaxLogins, pc : {"idle", "fetch"}, backoff : 0 .. MaxBackoff, shown : 0 .. MaxLogins]
    <3>1. CASE creds = 0
      <4> DEFINE u == [usage EXCEPT !.shown = 0]
      <4>1. u \in [token : 0 .. MaxLogins, pc : {"idle", "fetch"}, backoff : 0 .. MaxBackoff, shown : 0 .. MaxLogins]
        OBVIOUS
      <4>2. usage' = [u EXCEPT !.backoff = 0]
        BY <1>5, <3>1 DEF PollToken
      <4> HIDE DEF u
      <4> QED
        BY <4>1, <4>2
    <3>2. CASE creds # 0
      BY <1>5, <3>2 DEF PollToken
    <3> QED
      BY <3>1, <3>2
  <2> QED
    BY <1>5, <2>1 DEF PollToken
<1>6. CASE PollUsage
  <2>1. usage' \in [token : 0 .. MaxLogins, pc : {"idle", "fetch"}, backoff : 0 .. MaxBackoff, shown : 0 .. MaxLogins]
    BY <1>6 DEF PollUsage
  <2> QED
    BY <1>6, <2>1 DEF PollUsage
<1> QED
  BY <1>1, <1>2, <1>3, <1>4, <1>5, <1>6

LEMMA SubmitSteps ==
    ASSUME LoginInv, NEW r \in Submits,
           SubmitCode(r) \/ Exchanged(r) \/ SetProvider(r) \/ VerifyLogin(r) \/ RewriteCreds(r)
    PROVE  LoginInv'
<1>1. submit[r] \in SubmitType /\ submit \in [Submits -> SubmitType] /\ flow \in 0 .. MaxLogins
      /\ begun \in 0 .. MaxLogins /\ creds \in 0 .. MaxLogins /\ spent \subseteq Logins
      /\ NoSubmit \in SubmitType /\ NoSubmit.pc = "idle" /\ NoSubmit.login = 0
  BY LoginAssumption DEF LoginInv, LoginTypeOK, SubmitType, NoSubmit
<1>2. flow <= begun /\ creds <= begun /\ submit[r].login <= begun
      /\ (submit[r].pc # "idle" => submit[r].login \in Logins)
  BY <1>1 DEF LoginInv, SubmitsBegun, SubmitType, Logins
<1> HIDE DEF NoSubmit
<1>3. \E e \in SubmitType : /\ submit' = [submit EXCEPT ![r] = e]
                            /\ e.login <= begun /\ (e.pc # "idle" => e.login # 0)
  <2>1. \A pc \in {"exchange", "keychain", "verify", "rewrite"} :
            [submit[r] EXCEPT !.pc = pc] \in SubmitType /\ [submit[r] EXCEPT !.pc = pc].login = submit[r].login
    BY <1>1 DEF SubmitType
  <2>2. CASE SubmitCode(r)
    <3>1. PICK code \in 0 .. begun :
              submit' = [submit EXCEPT ![r] = [pc |-> "exchange", login |-> flow, code |-> code]]
      BY <2>2 DEF SubmitCode
    <3>2. [pc |-> "exchange", login |-> flow, code |-> code] \in SubmitType
      BY <1>1, LoginAssumption DEF SubmitType
    <3> QED
      BY <1>2, <2>2, <3>1, <3>2 DEF SubmitCode
  <2>3. \A pc \in {"exchange", "keychain", "verify", "rewrite"} :
            submit[r].pc # "idle" /\ submit' = [submit EXCEPT ![r].pc = pc] =>
                \E e \in SubmitType : /\ submit' = [submit EXCEPT ![r] = e]
                                      /\ e.login <= begun /\ (e.pc # "idle" => e.login # 0)
    <3> TAKE pc \in {"exchange", "keychain", "verify", "rewrite"}
    <3> HAVE submit[r].pc # "idle" /\ submit' = [submit EXCEPT ![r].pc = pc]
    <3> DEFINE e == [submit[r] EXCEPT !.pc = pc]
    <3>1. e \in SubmitType /\ e.login = submit[r].login
      BY <2>1
    <3>2. submit' = [submit EXCEPT ![r] = e]
      OBVIOUS
    <3>3. e.login <= begun /\ e.login # 0
      BY <1>2, <3>1 DEF Logins
    <3> HIDE DEF e
    <3> QED
      BY <3>1, <3>2, <3>3
  <2>4. submit' = [submit EXCEPT ![r] = NoSubmit] =>
            \E e \in SubmitType : /\ submit' = [submit EXCEPT ![r] = e]
                                  /\ e.login <= begun /\ (e.pc # "idle" => e.login # 0)
    <3>1. NoSubmit.login <= begun
      BY <1>1, LoginAssumption
    <3> QED
      BY <1>1, <3>1
  <2>5. CASE Exchanged(r)
    BY <2>3, <2>4, <2>5 DEF Exchanged
  <2>6. CASE SetProvider(r)
    BY <2>3, <2>6 DEF SetProvider
  <2>7. CASE VerifyLogin(r)
    BY <2>3, <2>4, <2>7 DEF VerifyLogin
  <2>8. CASE RewriteCreds(r)
    BY <2>4, <2>8 DEF RewriteCreds
  <2> QED
    BY <2>2, <2>5, <2>6, <2>7, <2>8
<1>4. submit' \in [Submits -> SubmitType]
      /\ \A q \in Submits : submit'[q].login <= begun /\ (submit'[q].pc # "idle" => submit'[q].login # 0)
  BY <1>1, <1>3 DEF LoginInv, SubmitsBegun
<1>5. /\ flow' \in {flow, 0} /\ creds' \in {creds, submit[r].login} /\ spent' \subseteq Logins
      /\ provider' \in BOOLEAN /\ UNCHANGED <<begun, logout, usage, codexVars>>
  BY <1>1, <1>2 DEF SubmitCode, Exchanged, SetProvider, VerifyLogin, RewriteCreds, LoginInv, LoginTypeOK
<1>6. LoginTypeOK'
  BY <1>1, <1>4, <1>5, LoginAssumption DEF LoginInv, LoginTypeOK, codexVars, SubmitType
<1> QED
  BY <1>2, <1>4, <1>5, <1>6, <1>1 DEF LoginInv, ChildExited, SubmitsBegun, codexVars

LEMMA CodexSteps ==
    ASSUME LoginInv,
           \/ BeginCodex \/ ReadBrowser \/ ReadDevice \/ CodexStatus \/ ExitCodex \/ AskCodex \/ AnswerCodex
           \/ ClientLeaves
    PROVE  LoginInv'
<1> USE DEF LoginInv, LoginTypeOK, ChildExited, SubmitsBegun, claudeVars
<1>1. CASE BeginCodex
  BY <1>1 DEF BeginCodex
<1>2. CASE ReadBrowser \/ ReadDevice
  <2>1. child' \in [login : {"none", "running", "exited"}, status : BOOLEAN]
    BY <1>2 DEF ReadBrowser, ReadDevice
  <2> QED
    BY <1>2, <2>1 DEF ReadBrowser, ReadDevice
<1>3. CASE CodexStatus
  BY <1>3 DEF CodexStatus
<1>4. CASE ExitCodex
  BY <1>4 DEF ExitCodex
<1>5. CASE AskCodex
  BY <1>5 DEF AskCodex
<1>6. CASE AnswerCodex
  BY <1>6 DEF AnswerCodex
<1>7. CASE ClientLeaves
  BY <1>7 DEF ClientLeaves
<1> QED
  BY <1>1, <1>2, <1>3, <1>4, <1>5, <1>6, <1>7

LEMMA NextLoginInv == ASSUME LoginInv, [LoginNext]_loginVars PROVE LoginInv'
<1>1. CASE UNCHANGED loginVars
  BY <1>1 DEF loginVars, LoginInv, LoginTypeOK, ChildExited, SubmitsBegun
<1> QED
  BY <1>1, AccountSteps, SubmitSteps, CodexSteps DEF LoginNext

(* However a Codex login ends (its process, its time, its client, an       *)
(* error), it leaves no login process that could still store credentials:  *)
(* the finally clauses of the two streams (codex_login_stream,             *)
(* _stream_process).                                                       *)
THEOREM NoLoginIsLeft == LoginSpec => []LoginProcessEnds
<1>1. LoginInv => LoginProcessEnds
  BY DEF LoginInv, ChildExited, LoginProcessEnds
<1> QED
  BY <1>1, InitLoginInv, NextLoginInv, PTL DEF LoginSpec

-----------------------------------------------------------------------------
(***************************************************************************)
(* ModelCatalog, for any set of requests, keys and accounts.               *)
(*                                                                         *)
(* Of the requests of one key only one is past the lock of that key, and   *)
(* it keeps the lock until its answer is stored.                           *)
(***************************************************************************)

LookupType == [pc : {"idle", "lock", "fetch", "persist", "write"}, of : Accounts, force : BOOLEAN]

(* Of the requests of one key, one is past its lock.                        *)
OneHolder == \A q, r \in Lookups : Holds(q) /\ Holds(r) /\ LockOf(q) = LockOf(r) => q = r

CatalogInv == CatalogTypeOK /\ OneHolder
-----------------------------------------------------------------------------
LEMMA CachesType ==
    /\ \A P \in SUBSET Prints : \A f : f \in [P -> Entry] => f \in Caches
    /\ \A f \in Caches : DOMAIN f \in SUBSET Prints /\ f \in [DOMAIN f -> Entry]
    /\ <<>> \in Caches
<1>1. \A P \in SUBSET Prints : \A f : f \in [P -> Entry] => f \in Caches
  BY DEF Caches
<1>2. \A f \in Caches : DOMAIN f \in SUBSET Prints /\ f \in [DOMAIN f -> Entry]
  BY DEF Caches
<1>3. <<>> \in [{} -> Entry]
  BY SMT
<1> QED
  BY <1>1, <1>2, <1>3

LEMMA NoLookupType == saved \in Accounts => NoLookup \in LookupType /\ NoLookup.pc = "idle"
BY DEF NoLookup, LookupType

LEMMA InitCatalogInv == CatalogInit => CatalogInv
<1> SUFFICES ASSUME CatalogInit PROVE CatalogInv
  OBVIOUS
<1>1. NoLookup \in LookupType /\ NoLookup.pc = "idle"
  BY NoLookupType DEF CatalogInit
<1> HIDE DEF NoLookup
<1>2. CatalogTypeOK
  BY <1>1, CachesType DEF CatalogInit, CatalogTypeOK, LookupType
<1> QED
  BY <1>1, <1>2 DEF CatalogInit, CatalogInv, OneHolder, Holds

(* A step of one request that takes the lock of its key only if it is free. *)
LEMMA LookupStep ==
    ASSUME CatalogInv, NEW r \in Lookups, NEW e \in LookupType, lookup' = [lookup EXCEPT ![r] = e],
           e.pc \in {"fetch", "persist", "write"} => e.of = lookup[r].of /\ (Holds(r) \/ LockFree(r)),
           memory' \in Caches, writer' \in [pc : {"none", "start", "replace"}, read : Caches],
           UNCHANGED <<scope, keyed, saved, cacheFile>>
    PROVE  CatalogInv'
<1>1. lookup \in [Lookups -> LookupType] /\ lookup' \in [Lookups -> LookupType]
      /\ \A q \in Lookups : lookup'[q] = IF q = r THEN e ELSE lookup[q]
  BY DEF CatalogInv, CatalogTypeOK, LookupType
<1>2. CatalogTypeOK'
  BY <1>1 DEF CatalogInv, CatalogTypeOK, LookupType, Caches, Entry, Prints
<1>3. \A q \in Lookups : q # r => (Holds(q)' <=> Holds(q)) /\ LockOf(q)' = LockOf(q)
  BY <1>1 DEF Holds, LockOf, Fingerprint
<1>4. Holds(r)' => LockOf(r)' = LockOf(r) /\ \A q \in Lookups : q # r /\ Holds(q) => LockOf(q) # LockOf(r)
  BY <1>1 DEF Holds, LockOf, Fingerprint, LockFree, CatalogInv, OneHolder
<1>5. OneHolder'
  BY <1>3, <1>4 DEF CatalogInv, OneHolder
<1> QED
  BY <1>2, <1>5 DEF CatalogInv

LEMMA LookupActions ==
    ASSUME CatalogInv, NEW r \in Lookups, Lookup(r) \/ Locked(r) \/ Fetched(r) \/ Persist(r)
    PROVE  CatalogInv'
<1>1. /\ lookup[r] \in LookupType /\ memory \in Caches /\ writer \in [pc : {"none", "start", "replace"}, read : Caches]
      /\ UNCHANGED <<scope, keyed, saved, cacheFile>> /\ saved \in Accounts
  BY DEF CatalogInv, CatalogTypeOK, LookupType, Lookup, Locked, Fetched, Persist
<1>2. NoLookup \in LookupType /\ NoLookup.pc = "idle"
  BY <1>1, NoLookupType
<1> HIDE DEF NoLookup
<1>3. CASE Lookup(r)
  <2>1. PICK force \in BOOLEAN : lookup' = [lookup EXCEPT ![r] = [pc |-> "lock", of |-> saved, force |-> force]]
    BY <1>3 DEF Lookup
  <2>2. [pc |-> "lock", of |-> saved, force |-> force] \in LookupType
    BY <1>1 DEF LookupType
  <2> QED
    BY <1>1, <1>3, <2>1, <2>2, LookupStep DEF Lookup
<1>4. CASE Locked(r)
  <2> DEFINE e == [lookup[r] EXCEPT !.pc = "fetch"]
  <2>1. e \in LookupType /\ e.of = lookup[r].of
    BY <1>1 DEF LookupType
  <2>2. LockFree(r) /\ lookup' \in {[lookup EXCEPT ![r] = NoLookup], [lookup EXCEPT ![r] = e]}
        /\ UNCHANGED <<memory, writer>>
    BY <1>4 DEF Locked
  <2> HIDE DEF e
  <2> QED
    BY <1>1, <1>2, <2>1, <2>2, LookupStep
<1>5. CASE Fetched(r)
  <2>1. CASE lookup' = [lookup EXCEPT ![r] = NoLookup] /\ UNCHANGED memory
    BY <1>1, <1>2, <1>5, <2>1, LookupStep DEF Fetched
  <2>2. CASE ~(lookup' = [lookup EXCEPT ![r] = NoLookup] /\ UNCHANGED memory)
    <3> DEFINE e == [lookup[r] EXCEPT !.pc = "persist"]
    <3>1. e \in LookupType /\ e.of = lookup[r].of
      BY <1>1 DEF LookupType
    <3>2. Holds(r) /\ lookup' = [lookup EXCEPT ![r] = e] /\ UNCHANGED writer
      BY <1>5, <2>2 DEF Fetched, Holds
    <3>3. PICK P \in SUBSET (DOMAIN memory \cup {LockOf(r)}) :
              memory' = [p \in P |-> IF p = LockOf(r) THEN [of |-> lookup[r].of, fresh |-> TRUE] ELSE memory[p]]
      BY <1>5, <2>2 DEF Fetched
    <3>4. LockOf(r) \in Prints /\ DOMAIN memory \in SUBSET Prints /\ memory \in [DOMAIN memory -> Entry]
      BY <1>1, CachesType DEF LockOf, Fingerprint, Prints, LookupType
    <3>5. memory' \in [P -> Entry]
      BY <1>1, <3>3, <3>4 DEF Entry, LookupType
    <3>6. memory' \in Caches
      BY <3>3, <3>4, <3>5, CachesType
    <3> HIDE DEF e
    <3> QED
      BY <1>1, <3>1, <3>2, <3>6, LookupStep
  <2> QED
    BY <2>1, <2>2
<1>6. CASE Persist(r)
  <2> DEFINE e == [lookup[r] EXCEPT !.pc = "write"]
  <2>1. e \in LookupType /\ e.of = lookup[r].of
    BY <1>1 DEF LookupType
  <2>2. Holds(r) /\ lookup' = [lookup EXCEPT ![r] = e] /\ UNCHANGED memory
        /\ writer' \in [pc : {"none", "start", "replace"}, read : Caches]
    BY <1>6, CachesType DEF Persist, Holds
  <2> HIDE DEF e
  <2> QED
    BY <1>1, <2>1, <2>2, LookupStep
<1> QED
  BY <1>3, <1>4, <1>5, <1>6

(* The other steps let requests go, if they touch them at all.              *)
LEMMA OtherStep ==
    ASSUME CatalogInv, lookup' \in [Lookups -> LookupType],
           \A r \in Lookups : lookup'[r] = lookup[r] \/ lookup'[r].pc = "idle",
           UNCHANGED <<scope, keyed>>, saved' \in Accounts, memory' \in Caches, cacheFile' \in Caches,
           writer' \in [pc : {"none", "start", "replace"}, read : Caches]
    PROVE  CatalogInv'
<1>1. CatalogTypeOK'
  BY DEF CatalogInv, CatalogTypeOK, LookupType, Caches, Entry, Prints
<1>2. \A r \in Lookups : Holds(r)' => Holds(r) /\ LockOf(r)' = LockOf(r)
  BY DEF Holds, LockOf, Fingerprint
<1> QED
  BY <1>1, <1>2 DEF CatalogInv, OneHolder

LEMMA OtherActions ==
    ASSUME CatalogInv,
           \/ WriterReads \/ WriterReplaces \/ CatalogRestarts
           \/ \E p \in Prints : Expires(p)
           \/ \E a \in Accounts : SaveGlobal(a) \/ SaveTool(a)
    PROVE  CatalogInv'
<1>1. /\ lookup \in [Lookups -> LookupType] /\ memory \in Caches /\ cacheFile \in Caches /\ <<>> \in Caches
      /\ writer \in [pc : {"none", "start", "replace"}, read : Caches] /\ saved \in Accounts
      /\ NoLookup \in LookupType /\ NoLookup.pc = "idle"
  BY CachesType, NoLookupType DEF CatalogInv, CatalogTypeOK, LookupType
<1> HIDE DEF NoLookup
<1>2. CASE WriterReads
  BY <1>1, <1>2, OtherStep DEF WriterReads
<1>3. CASE WriterReplaces
  <2>1. lookup' \in [Lookups -> LookupType] /\ \A r \in Lookups : lookup'[r] = lookup[r] \/ lookup'[r].pc = "idle"
    BY <1>1, <1>3 DEF WriterReplaces
  <2>2. UNCHANGED <<scope, keyed, saved, memory>> /\ cacheFile' \in Caches
        /\ writer' \in [pc : {"none", "start", "replace"}, read : Caches]
    BY <1>1, <1>3 DEF WriterReplaces
  <2> QED
    BY <1>1, <2>1, <2>2, OtherStep
<1>4. CASE CatalogRestarts
  <2>1. lookup' \in [Lookups -> LookupType] /\ \A r \in Lookups : lookup'[r].pc = "idle"
    BY <1>1, <1>4 DEF CatalogRestarts
  <2>2. UNCHANGED <<scope, keyed, saved>> /\ memory' \in Caches /\ cacheFile' \in Caches
        /\ writer' \in [pc : {"none", "start", "replace"}, read : Caches]
    BY <1>1, <1>4 DEF CatalogRestarts
  <2> QED
    BY <1>1, <2>1, <2>2, OtherStep
<1>5. ASSUME NEW p \in Prints, Expires(p) PROVE CatalogInv'
  <2>1. \A f \in Caches : [f EXCEPT ![p].fresh = FALSE] \in Caches
    <3> TAKE f \in Caches
    <3>1. DOMAIN f \in SUBSET Prints /\ f \in [DOMAIN f -> Entry]
      BY CachesType
    <3>2. [f EXCEPT ![p].fresh = FALSE] \in [DOMAIN f -> Entry]
      BY <3>1 DEF Entry
    <3> QED
      BY <3>1, <3>2, CachesType
  <2>2. memory' \in Caches /\ cacheFile' \in Caches /\ UNCHANGED <<scope, keyed, saved, lookup, writer>>
    BY <1>1, <1>5, <2>1 DEF Expires
  <2> QED
    BY <1>1, <2>2, OtherStep
<1>6. ASSUME NEW a \in Accounts, SaveGlobal(a) \/ SaveTool(a) PROVE CatalogInv'
  BY <1>1, <1>6, OtherStep DEF SaveGlobal, SaveTool, Invalidated
<1> QED
  BY <1>2, <1>3, <1>4, <1>5, <1>6

LEMMA NextCatalogInv == ASSUME CatalogInv, [CatalogNext]_catalogVars PROVE CatalogInv'
<1>1. CASE UNCHANGED catalogVars
  BY <1>1 DEF catalogVars, CatalogInv, CatalogTypeOK, Caches, Entry, Prints, OneHolder, Holds, LockOf, Fingerprint
<1> QED
  BY <1>1, LookupActions, OtherActions DEF CatalogNext

(* Only Locked makes a request fetch.                                       *)
LEMMA StepDeduplicated ==
    ASSUME CatalogInv, [CatalogNext]_catalogVars, NEW r \in Lookups,
           lookup[r].pc # "fetch", lookup'[r].pc = "fetch"
    PROVE  /\ ~lookup[r].force => ~IsFresh(LockOf(r))
           /\ \A q \in Lookups \ {r} : lookup[q].pc = "fetch" => LockOf(q) # LockOf(r)
<1>1. lookup \in [Lookups -> LookupType] /\ NoLookup.pc = "idle"
  BY NoLookupType DEF CatalogInv, CatalogTypeOK, LookupType
<1> HIDE DEF NoLookup
<1>2. Locked(r)
  <2>1. ASSUME NEW q \in Lookups, Lookup(q) \/ Fetched(q) \/ Persist(q) PROVE FALSE
    <3>1. \E e : lookup' = [lookup EXCEPT ![q] = e] /\ e.pc # "fetch"
      <4>1. CASE Lookup(q)
        <5>1. PICK force : lookup' = [lookup EXCEPT ![q] = [pc |-> "lock", of |-> saved, force |-> force]]
          BY <4>1 DEF Lookup
        <5> QED
          BY <5>1
      <4>2. CASE Fetched(q)
        BY <1>1, <4>2 DEF Fetched, LookupType
      <4>3. CASE Persist(q)
        BY <1>1, <4>3 DEF Persist, LookupType
      <4> QED
        BY <2>1, <4>1, <4>2, <4>3
    <3> QED
      BY <1>1, <3>1
  <2>2. ASSUME NEW q \in Lookups, Locked(q), q # r PROVE FALSE
    BY <1>1, <2>2 DEF Locked
  <2>3. ASSUME \/ WriterReads \/ CatalogRestarts \/ UNCHANGED catalogVars
               \/ \E p \in Prints : Expires(p)
               \/ \E a \in Accounts : SaveGlobal(a) \/ SaveTool(a)
        PROVE  FALSE
    BY <1>1, <2>3 DEF WriterReads, CatalogRestarts, catalogVars, Expires, SaveGlobal, SaveTool
  <2>4. ASSUME WriterReplaces PROVE FALSE
    BY <1>1, <2>4 DEF WriterReplaces
  <2> QED
    BY <2>1, <2>2, <2>3, <2>4 DEF CatalogNext
<1>3. ~Recheck(r)
  BY <1>1, <1>2 DEF Locked
<1> QED
  BY <1>2, <1>3 DEF Locked, LockFree, Holds, Recheck

(* Requests that come together ask the provider once: a request begins to  *)
(* fetch only when no other one of its key fetches, and, unless it was     *)
(* forced, when no fresh answer is there (ModelCatalog.get_models under the*)
(* lock of the key).                                                       *)
THEOREM FetchedOnce == CatalogSpec => Deduplicated
<1>1. CatalogInv /\ [CatalogNext]_catalogVars
      => [\A r \in Lookups :
            lookup[r].pc # "fetch" /\ lookup'[r].pc = "fetch"
              => /\ ~lookup[r].force => ~IsFresh(LockOf(r))
                 /\ \A q \in Lookups \ {r} : lookup[q].pc = "fetch" => LockOf(q) # LockOf(r)]_catalogVars
  BY StepDeduplicated
<1> QED
  BY <1>1, InitCatalogInv, NextCatalogInv, PTL DEF CatalogSpec, Deduplicated

-----------------------------------------------------------------------------
(***************************************************************************)
(* Terminals, for any ids, connections and numbers of sessions, on both    *)
(* platforms.                                                              *)
(*                                                                         *)
(* Entries are removed by id alone, by whoever gets there: what protects a *)
(* session that runs is that the map of the manager is one to one, and     *)
(* that a connection which leaves has every session of its own on its      *)
(* list.                                                                   *)
(***************************************************************************)

SessionType == [id : TermIds, by : TermConns, closed : BOOLEAN, fd : BOOLEAN,
                reader : {"none", "read", "wait", "done"}, shell : {"none", "run", "exited", "reaped"}]
ClientType == [pc : {"absent", "open", "closing", "leaving"}, todo : SUBSET TermIds, on : 0 .. MaxSessions]

ShellRuns(s) == session[s].reader \in {"read", "wait"} /\ ~session[s].closed

(* A session that was not created yet has no reader.                        *)
Unborn == \A s \in TermSessions : s > born => session[s].reader = "none"
(* An entry of the manager is a session of that id that runs.               *)
EntryRuns == \A t \in TermIds : registry[t] # 0 => ShellRuns(registry[t]) /\ session[registry[t]].id = t
(* The list of a connection that leaves has all that it may leave behind.   *)
ListComplete ==
    \A c \in TermConns, s \in TermSessions :
        client[c].pc = "leaving" /\ ShellRuns(s) /\ session[s].by = c => session[s].id \in client[c].todo

(* What NoOrphan says of a session whose reader ended, on Unix.             *)
LeftNothing(s) ==
    ~windows /\ session[s].reader = "done"
        => ~session[s].fd /\ (session[s].closed \/ session[s].shell = "reaped")

TermInv == TermTypeOK /\ Unborn /\ EntryRuns /\ ListComplete /\ NoOrphan
-----------------------------------------------------------------------------
LEMMA SessionsAreNumbers ==
    /\ TermSessions \subseteq 1 .. MaxSessions /\ 1 .. MaxSessions \subseteq TermSessions
    /\ \A s \in TermSessions : s \in Nat /\ s # 0
    /\ MaxSessions \in Nat
BY TerminalAssumption DEF TermSessions

LEMMA InitTermInv == TermInit => TermInv
<1> SUFFICES ASSUME TermInit PROVE TermInv
  OBVIOUS
<1>1. NoSession \in SessionType /\ NoSession.reader = "none"
  BY TerminalAssumption DEF NoSession, SessionType
<1>2. Absent \in ClientType /\ Absent.pc = "absent"
  BY TerminalAssumption DEF Absent, ClientType
<1> HIDE DEF NoSession, Absent
<1>3. TermTypeOK
  BY <1>1, <1>2, TerminalAssumption DEF TermInit, TermTypeOK, SessionType, ClientType
<1> QED
  BY <1>1, <1>2, <1>3 DEF TermInit, TermInv, Unborn, EntryRuns, ListComplete, NoOrphan, ShellRuns

(* A session changes in nothing that the maps depend on.                    *)
LEMMA QuietSession ==
    ASSUME TermInv, NEW s \in TermSessions, NEW e \in SessionType,
           session' = [session EXCEPT ![s] = e],
           e.id = session[s].id, e.by = session[s].by, e.closed = session[s].closed,
           e.reader = session[s].reader \/ (session[s].reader = "read" /\ e.reader = "wait"),
           e.fd = session[s].fd, session[s].shell = "reaped" => e.shell = "reaped",
           UNCHANGED <<windows, born, registry, owned, client>>
    PROVE  TermInv'
<1>1. session' \in [TermSessions -> SessionType]
      /\ \A q \in TermSessions : session'[q] = IF q = s THEN e ELSE session[q]
  BY DEF TermInv, TermTypeOK, SessionType
<1>2. TermTypeOK'
  BY <1>1 DEF TermInv, TermTypeOK, SessionType
<1>3. \A q \in TermSessions : ShellRuns(q)' <=> ShellRuns(q)
  BY <1>1 DEF ShellRuns
<1>4. Unborn'
  BY <1>1 DEF TermInv, Unborn
<1>5. EntryRuns' /\ ListComplete'
  BY <1>1, <1>3, SessionsAreNumbers DEF TermInv, TermTypeOK, EntryRuns, ListComplete
<1>6. NoOrphan'
  BY <1>1, <1>3 DEF TermInv, NoOrphan, ShellRuns
<1> QED
  BY <1>2, <1>4, <1>5, <1>6 DEF TermInv

LEMMA ShellStep ==
    ASSUME TermInv, NEW s \in TermSessions, ShellExits(s) \/ ReadEnds(s) \/ ReapShell(s)
    PROVE  TermInv'
<1>1. session \in [TermSessions -> SessionType]
  BY DEF TermInv, TermTypeOK, SessionType
<1>2. CASE ShellExits(s)
  <2> DEFINE e == [session[s] EXCEPT !.shell = "exited"]
  <2>1. /\ e \in SessionType /\ e.id = session[s].id /\ e.by = session[s].by /\ e.fd = session[s].fd
        /\ e.closed = session[s].closed /\ e.reader = session[s].reader /\ session[s].shell # "reaped"
    BY <1>1, <1>2 DEF SessionType, ShellExits
  <2>2. session' = [session EXCEPT ![s] = e]
    BY <1>2 DEF ShellExits
  <2> HIDE DEF e
  <2> QED
    BY <1>2, <2>1, <2>2, QuietSession DEF ShellExits
<1>3. CASE ReapShell(s)
  <2> DEFINE e == [session[s] EXCEPT !.shell = "reaped"]
  <2>1. /\ e \in SessionType /\ e.id = session[s].id /\ e.by = session[s].by /\ e.fd = session[s].fd
        /\ e.closed = session[s].closed /\ e.reader = session[s].reader /\ e.shell = "reaped"
    BY <1>1 DEF SessionType
  <2>2. session' = [session EXCEPT ![s] = e]
    BY <1>3 DEF ReapShell
  <2> HIDE DEF e
  <2> QED
    BY <1>3, <2>1, <2>2, QuietSession DEF ReapShell
<1>4. CASE ReadEnds(s)
  <2> DEFINE e == [session[s] EXCEPT !.reader = "wait"]
  <2>1. /\ e \in SessionType /\ e.id = session[s].id /\ e.by = session[s].by /\ e.fd = session[s].fd
        /\ e.closed = session[s].closed /\ e.reader = "wait" /\ session[s].reader = "read"
        /\ e.shell = session[s].shell
    BY <1>1, <1>4 DEF SessionType, ReadEnds
  <2>2. session' = [session EXCEPT ![s] = e]
    BY <1>4 DEF ReadEnds
  <2> HIDE DEF e
  <2> QED
    BY <1>4, <2>1, <2>2, QuietSession DEF ReadEnds
<1> QED
  BY <1>2, <1>3, <1>4

(* A reader that ends takes away its own entries, if its session was not     *)
(* closed: the map has that session under the id.                            *)
LEMMA ReaderStep ==
    ASSUME TermInv, NEW s \in TermSessions, ReaderEnds(s) \/ WindowsReaderEnds(s)
    PROVE  TermInv'
<1> DEFINE e == [session[s] EXCEPT !.reader = "done", !.fd = @ /\ windows]
<1>1. /\ session[s].reader \in {"read", "wait"} /\ (windows \/ session[s].shell = "reaped")
      /\ session' = [session EXCEPT ![s] = e]
      /\ IF session[s].closed THEN UNCHANGED <<registry, owned>> ELSE HandleExit(s)
      /\ UNCHANGED <<windows, born, client>>
  BY DEF ReaderEnds, WindowsReaderEnds, ReaderDone, TellsExit
<1>2. session \in [TermSessions -> SessionType]
  BY DEF TermInv, TermTypeOK, SessionType
<1>3. /\ e \in SessionType /\ e.id = session[s].id /\ e.by = session[s].by
      /\ e.reader = "done" /\ (~windows => ~e.fd) /\ e.shell = session[s].shell
  BY <1>2 DEF SessionType, TermInv, TermTypeOK
<1> HIDE DEF e
<1>4. session' \in [TermSessions -> SessionType]
      /\ \A q \in TermSessions : session'[q] = IF q = s THEN e ELSE session[q]
  BY <1>1, <1>2, <1>3
<1>5. /\ ~ ShellRuns(s)'
      /\ \A q \in TermSessions : q # s => (ShellRuns(q)' <=> ShellRuns(q))
  BY <1>3, <1>4 DEF ShellRuns
<1>6. session[s].id \in TermIds /\ session[s].by \in TermConns
  BY <1>2 DEF SessionType
<1>7. CASE session[s].closed
  <2>1. registry' = registry /\ owned' = owned
    BY <1>1, <1>7
  <2>2. ~ ShellRuns(s)
    BY <1>7 DEF ShellRuns
  <2>3. TermTypeOK'
    BY <1>1, <1>4, <2>1 DEF TermInv, TermTypeOK, SessionType
  <2>4. Unborn'
    BY <1>1, <1>4 DEF TermInv, Unborn
  <2>5. EntryRuns' /\ ListComplete'
    BY <1>1, <1>4, <1>5, <2>1, <2>2, SessionsAreNumbers DEF TermInv, TermTypeOK, EntryRuns, ListComplete
  <2>6. NoOrphan'
    BY <1>1, <1>3, <1>4, <1>5, <2>1 DEF TermInv, NoOrphan, ShellRuns
  <2> QED
    BY <2>3, <2>4, <2>5, <2>6 DEF TermInv
<1>8. CASE ~session[s].closed
  <2>1. ShellRuns(s) /\ registry[session[s].id] = s
    BY <1>1, <1>8 DEF ShellRuns, TermInv, NoOrphan
  <2>2. /\ registry' = [registry EXCEPT ![session[s].id] = 0]
        /\ owned' = [owned EXCEPT ![session[s].by] = @ \ {session[s].id}]
    BY <1>1, <1>8 DEF HandleExit
  <2>3. TermTypeOK'
    BY <1>1, <1>4, <2>2, SessionsAreNumbers DEF TermInv, TermTypeOK, SessionType
  <2>4. Unborn'
    BY <1>1, <1>4 DEF TermInv, Unborn
  <2>5. \A q \in TermSessions : q # s /\ ShellRuns(q) => session[q].id # session[s].id
    BY <2>1, <1>8 DEF TermInv, NoOrphan, ShellRuns
  <2>6. EntryRuns'
    <3> SUFFICES ASSUME NEW t \in TermIds, registry'[t] # 0
                 PROVE  ShellRuns(registry[t])' /\ session'[registry[t]].id = t /\ registry'[t] = registry[t]
      BY DEF EntryRuns, ShellRuns
    <3>1. t # session[s].id /\ registry'[t] = registry[t]
      BY <1>6, <2>2 DEF TermInv, TermTypeOK
    <3>2. ShellRuns(registry[t]) /\ session[registry[t]].id = t /\ registry[t] \in TermSessions
      BY <3>1, SessionsAreNumbers DEF TermInv, TermTypeOK, EntryRuns
    <3> QED
      BY <1>4, <1>5, <3>1, <3>2
  <2>7. ListComplete'
    BY <1>1, <1>4, <1>5 DEF TermInv, ListComplete
  <2>8. NoOrphan'
    BY <1>1, <1>3, <1>4, <1>5, <2>2, <2>5 DEF TermInv, TermTypeOK, SessionType, NoOrphan, ShellRuns
  <2> QED
    BY <2>3, <2>4, <2>6, <2>7, <2>8 DEF TermInv
<1> QED
  BY <1>7, <1>8

(* close_session: the entry of the id goes, and the session with it.         *)
LEMMA ClosingType ==
    ASSUME TermInv, NEW s \in TermSessions, ShellRuns(s)
    PROVE  /\ Closing(s) \in SessionType /\ Closing(s).closed /\ ~Closing(s).fd
           /\ Closing(s).id = session[s].id /\ Closing(s).by = session[s].by
           /\ Closing(s).reader # "none"
<1>1. session[s] \in SessionType /\ ~session[s].closed
  BY DEF TermInv, TermTypeOK, SessionType, ShellRuns
<1> QED
  BY <1>1 DEF Closing, HungUp, Terminated, SessionType, ShellRuns

LEMMA CloseEffect ==
    ASSUME TermInv, NEW t \in TermIds, CloseSession(t), UNCHANGED <<windows, born>>
    PROVE  /\ session' \in [TermSessions -> SessionType]
           /\ registry' \in [TermIds -> 0 .. MaxSessions]
           /\ Unborn' /\ EntryRuns'
           /\ \A s \in TermSessions :
                /\ session'[s].id = session[s].id /\ session'[s].by = session[s].by
                /\ ShellRuns(s)' => ShellRuns(s) /\ session[s].id # t /\ registry'[session[s].id] = s
                /\ LeftNothing(s)'
<1>1. /\ session \in [TermSessions -> SessionType] /\ registry \in [TermIds -> 0 .. MaxSessions]
      /\ registry' = [registry EXCEPT ![t] = 0]
  BY DEF TermInv, TermTypeOK, SessionType, CloseSession
<1>2. CASE registry[t] = 0
  <2>1. session' = session /\ registry' = registry
    BY <1>1, <1>2 DEF CloseSession
  <2>2. \A s \in TermSessions : session[s].id \in TermIds
    BY <1>1 DEF SessionType
  <2>3. Unborn' /\ EntryRuns'
    BY <2>1 DEF TermInv, Unborn, EntryRuns, ShellRuns
  <2>4. \A s \in TermSessions : ShellRuns(s)' => ShellRuns(s) /\ registry[session[s].id] = s /\ s # 0
    BY <2>1, SessionsAreNumbers DEF TermInv, NoOrphan, ShellRuns
  <2>5. \A s \in TermSessions : LeftNothing(s)'
    BY <2>1 DEF TermInv, NoOrphan, LeftNothing
  <2> QED
    BY <1>1, <1>2, <2>1, <2>3, <2>4, <2>5
<1>3. CASE registry[t] # 0
  <2>1. PICK s \in TermSessions : s = registry[t] /\ ShellRuns(s) /\ session[s].id = t
    BY <1>1, <1>3, SessionsAreNumbers DEF TermInv, EntryRuns
  <2> DEFINE e == Closing(s)
  <2>2. /\ e \in SessionType /\ e.closed /\ ~e.fd /\ e.id = session[s].id /\ e.by = session[s].by
        /\ e.reader # "none"
    BY <2>1, ClosingType
  <2>3. session' = [session EXCEPT ![s] = e]
    BY <1>3, <2>1 DEF CloseSession
  <2> HIDE DEF e
  <2>4. session' \in [TermSessions -> SessionType]
        /\ \A q \in TermSessions : session'[q] = IF q = s THEN e ELSE session[q]
    BY <1>1, <2>1, <2>2, <2>3
  <2>5. ~ ShellRuns(s)' /\ \A q \in TermSessions : q # s => (ShellRuns(q)' <=> ShellRuns(q))
    BY <2>2, <2>4, <2>1 DEF ShellRuns
  <2>6. \A q \in TermSessions : session[q].id \in TermIds
    BY <1>1 DEF SessionType
  <2>7. \A q \in TermSessions : ShellRuns(q)' => ShellRuns(q) /\ session[q].id # t /\ registry'[session[q].id] = q
    BY <1>1, <2>1, <2>5, <2>6 DEF TermInv, NoOrphan, ShellRuns
  <2>8. Unborn'
    BY <2>1, <2>4 DEF TermInv, Unborn, ShellRuns
  <2>9. EntryRuns'
    <3> SUFFICES ASSUME NEW u \in TermIds, registry'[u] # 0
                 PROVE  ShellRuns(registry[u])' /\ session'[registry[u]].id = u /\ registry'[u] = registry[u]
      BY DEF EntryRuns, ShellRuns
    <3>1. u # t /\ registry'[u] = registry[u] /\ registry[u] # 0
      BY <1>1
    <3>2. ShellRuns(registry[u]) /\ session[registry[u]].id = u /\ registry[u] \in TermSessions
      BY <1>1, <3>1, SessionsAreNumbers DEF TermInv, EntryRuns
    <3>3. registry[u] # s
      BY <3>1, <3>2, <2>1
    <3> QED
      BY <2>4, <2>5, <3>1, <3>2, <3>3
  <2>10. \A q \in TermSessions : LeftNothing(q)'
    BY <2>2, <2>4 DEF TermInv, NoOrphan, LeftNothing
  <2>11. \A q \in TermSessions : session'[q].id = session[q].id /\ session'[q].by = session[q].by
    BY <2>2, <2>4
  <2>12. registry' \in [TermIds -> 0 .. MaxSessions]
    BY <1>1, SessionsAreNumbers
  <2> QED
    BY <2>4, <2>7, <2>8, <2>9, <2>10, <2>11, <2>12
<1> QED
  BY <1>2, <1>3

LEMMA CloseStep ==
    ASSUME TermInv, NEW c \in TermConns, NEW t \in TermIds, CloseTerminal(c, t)
    PROVE  TermInv'
<1>1. /\ CloseSession(t) /\ owned' = [owned EXCEPT ![c] = @ \ {t}] /\ client[c].pc = "open"
      /\ client' = [client EXCEPT ![c] = [pc |-> "closing", todo |-> {}, on |-> registry[t]]]
      /\ UNCHANGED <<windows, born>>
  BY DEF CloseTerminal
<1>2. /\ session' \in [TermSessions -> SessionType]
      /\ registry' \in [TermIds -> 0 .. MaxSessions]
      /\ Unborn' /\ EntryRuns'
      /\ \A s \in TermSessions :
           /\ session'[s].id = session[s].id /\ session'[s].by = session[s].by
           /\ ShellRuns(s)' => ShellRuns(s) /\ session[s].id # t /\ registry'[session[s].id] = s
           /\ LeftNothing(s)'
  BY <1>1, CloseEffect
<1>3. TermTypeOK'
  <2>1. [pc |-> "closing", todo |-> {}, on |-> registry[t]] \in ClientType
    BY DEF TermInv, TermTypeOK, ClientType
  <2>2. client' \in [TermConns -> ClientType]
    BY <1>1, <2>1 DEF TermInv, TermTypeOK, ClientType
  <2> QED
    BY <1>1, <1>2, <2>2 DEF TermInv, TermTypeOK, SessionType, ClientType
<1>4. ListComplete'
  BY <1>1, <1>2 DEF TermInv, TermTypeOK, ListComplete
<1>5. NoOrphan'
  BY <1>1, <1>2 DEF TermInv, TermTypeOK, NoOrphan, ShellRuns, LeftNothing
<1> QED
  BY <1>2, <1>3, <1>4, <1>5 DEF TermInv

LEMMA LeaveNextStep ==
    ASSUME TermInv, NEW c \in TermConns, LeaveNext(c)
    PROVE  TermInv'
<1>1. PICK t \in client[c].todo :
         CloseSession(t) /\ client' = [client EXCEPT ![c].todo = @ \ {t}, ![c].on = registry[t]]
  BY DEF LeaveNext
<1>2. t \in TermIds /\ UNCHANGED <<windows, born, owned>> /\ client \in [TermConns -> ClientType]
      /\ registry[t] \in 0 .. MaxSessions
  BY DEF TermInv, TermTypeOK, ClientType, LeaveNext
<1>3. /\ session' \in [TermSessions -> SessionType]
      /\ registry' \in [TermIds -> 0 .. MaxSessions]
      /\ Unborn' /\ EntryRuns'
      /\ \A s \in TermSessions :
           /\ session'[s].id = session[s].id /\ session'[s].by = session[s].by
           /\ ShellRuns(s)' => ShellRuns(s) /\ session[s].id # t /\ registry'[session[s].id] = s
           /\ LeftNothing(s)'
  BY <1>1, <1>2, CloseEffect
<1>4. /\ client' \in [TermConns -> ClientType]
      /\ \A d \in TermConns : client'[d].pc = client[d].pc /\ client[d].todo \ {t} \subseteq client'[d].todo
  BY <1>1, <1>2 DEF ClientType
<1>5. TermTypeOK'
  BY <1>2, <1>3, <1>4 DEF TermInv, TermTypeOK, SessionType, ClientType
<1>6. ListComplete'
  BY <1>3, <1>4 DEF TermInv, ListComplete
<1>7. NoOrphan'
  BY <1>2, <1>3 DEF TermInv, NoOrphan, ShellRuns, LeftNothing
<1> QED
  BY <1>3, <1>5, <1>6, <1>7 DEF TermInv

LEMMA CreateStep ==
    ASSUME TermInv, NEW c \in TermConns, NEW t \in TermIds, CreateTerminal(c, t)
    PROVE  TermInv'
<1>0. PICK n : n = born + 1
  OBVIOUS
<1> DEFINE e == StartedSession(c, t)
<1>1. /\ client[c].pc = "open" /\ registry[t] = 0 /\ born < MaxSessions /\ born' = n
      /\ session' = [session EXCEPT ![n] = e] /\ registry' = [registry EXCEPT ![t] = n]
      /\ owned' = [owned EXCEPT ![c] = @ \cup {t}] /\ UNCHANGED <<windows, client>>
  BY <1>0 DEF CreateTerminal
<1>2. n \in TermSessions /\ n \in 0 .. MaxSessions /\ n > born /\ n # 0 /\ born \in Nat
  BY <1>0, <1>1, SessionsAreNumbers DEF TermInv, TermTypeOK, TermSessions
<1>3. /\ e \in SessionType /\ e.id = t /\ e.by = c /\ ~e.closed /\ e.reader = "read"
  BY DEF StartedSession, SessionType
<1> HIDE DEF e
<1>4. session' \in [TermSessions -> SessionType]
      /\ \A q \in TermSessions : session'[q] = IF q = n THEN e ELSE session[q]
  BY <1>1, <1>2, <1>3 DEF TermInv, TermTypeOK, SessionType
<1>5. session[n].reader = "none" /\ ~ ShellRuns(n)
  BY <1>2 DEF TermInv, Unborn, ShellRuns
<1>6. ShellRuns(n)' /\ \A q \in TermSessions : q # n => (ShellRuns(q)' <=> ShellRuns(q))
  BY <1>2, <1>3, <1>4 DEF ShellRuns
<1>7. \A q \in TermSessions : ShellRuns(q) => q # n /\ session[q].id # t
  BY <1>1, <1>5, SessionsAreNumbers DEF TermInv, NoOrphan, ShellRuns
<1>8. TermTypeOK'
  BY <1>1, <1>2, <1>4 DEF TermInv, TermTypeOK, SessionType
<1>9. Unborn'
  <2> SUFFICES ASSUME NEW s \in TermSessions, s > n PROVE session'[s].reader = "none"
    BY <1>1 DEF Unborn
  <2>1. s > born /\ s # n
    BY <1>2, SessionsAreNumbers
  <2> QED
    BY <1>4, <2>1 DEF TermInv, Unborn
<1>10. EntryRuns'
  <2> SUFFICES ASSUME NEW u \in TermIds, registry'[u] # 0
               PROVE  \E s \in TermSessions : registry'[u] = s /\ ShellRuns(s)' /\ session'[s].id = u
    BY DEF EntryRuns, ShellRuns
  <2>1. CASE u = t
    BY <2>1, <1>1, <1>2, <1>3, <1>4, <1>6 DEF TermInv, TermTypeOK
  <2>2. CASE u # t
    <3>1. registry'[u] = registry[u]
      BY <2>2, <1>1 DEF TermInv, TermTypeOK
    <3>2. ShellRuns(registry[u]) /\ session[registry[u]].id = u /\ registry[u] \in TermSessions
      BY <3>1, SessionsAreNumbers DEF TermInv, TermTypeOK, EntryRuns
    <3> QED
      BY <1>4, <1>6, <1>7, <3>1, <3>2
  <2> QED
    BY <2>1, <2>2
<1>11. ListComplete'
  BY <1>1, <1>3, <1>4, <1>6 DEF TermInv, ListComplete
<1>12. NoOrphan'
  <2> SUFFICES ASSUME NEW s \in TermSessions
               PROVE  /\ ShellRuns(s)' => registry'[session'[s].id] = s /\ session'[s].id \in owned'[session'[s].by]
                      /\ LeftNothing(s)'
    BY DEF NoOrphan, ShellRuns, LeftNothing
  <2>1. CASE s = n
    BY <2>1, <1>1, <1>3, <1>4 DEF TermInv, TermTypeOK, LeftNothing
  <2>2. CASE s # n
    <3>1. session'[s] = session[s] /\ (ShellRuns(s)' => ShellRuns(s)) /\ session[s] \in SessionType
      BY <2>2, <1>4, <1>6 DEF TermInv, TermTypeOK, SessionType
    <3> QED
      BY <3>1, <1>1, <1>7 DEF TermInv, TermTypeOK, SessionType, NoOrphan, ShellRuns, LeftNothing
  <2> QED
    BY <2>1, <2>2
<1> QED
  BY <1>8, <1>9, <1>10, <1>11, <1>12 DEF TermInv

(* The other steps of a connection.                                          *)
LEMMA ConnectionStep ==
    ASSUME TermInv, NEW c \in TermConns, TermConnect(c) \/ TerminalClosed(c) \/ TermLeave(c) \/ TermLeft(c)
    PROVE  TermInv'
<1>1. /\ UNCHANGED <<windows, session, born, registry>>
      /\ client' \in [TermConns -> ClientType] /\ owned' \in [TermConns -> SUBSET TermIds]
      /\ \A d \in TermConns : d # c => client'[d] = client[d] /\ owned'[d] = owned[d]
      /\ client'[c].pc = "leaving" => client'[c].todo = owned[c]
      /\ owned'[c] # owned[c] => client[c].pc = "leaving" /\ client[c].todo = {}
  <2>1. CASE TermConnect(c)
    BY <2>1 DEF TermInv, TermTypeOK, ClientType, TermConnect
  <2>2. CASE TerminalClosed(c)
    BY <2>2, TerminalAssumption DEF TermInv, TermTypeOK, ClientType, TerminalClosed
  <2>3. CASE TermLeave(c)
    BY <2>3, TerminalAssumption DEF TermInv, TermTypeOK, ClientType, TermLeave
  <2>4. CASE TermLeft(c)
    BY <2>4, TerminalAssumption DEF TermInv, TermTypeOK, ClientType, TermLeft, Absent
  <2> QED
    BY <2>1, <2>2, <2>3, <2>4
<1>2. TermTypeOK'
  BY <1>1 DEF TermInv, TermTypeOK, ClientType
<1>3. Unborn' /\ EntryRuns'
  BY <1>1 DEF TermInv, Unborn, EntryRuns, ShellRuns
<1>4. ListComplete'
  BY <1>1 DEF TermInv, ListComplete, NoOrphan, ShellRuns
<1>5. NoOrphan'
  BY <1>1 DEF TermInv, TermTypeOK, ListComplete, NoOrphan, ShellRuns
<1> QED
  BY <1>2, <1>3, <1>4, <1>5 DEF TermInv

LEMMA NextTermInv == TermInv /\ [TermNext]_termVars => TermInv'
<1> SUFFICES ASSUME TermInv, [TermNext]_termVars PROVE TermInv'
  OBVIOUS
<1>1. CASE UNCHANGED termVars
  BY <1>1 DEF termVars, TermInv, TermTypeOK, Unborn, EntryRuns, ListComplete, NoOrphan, ShellRuns
<1>2. CASE TermNext
  BY <1>2, ShellStep, ReaderStep, CloseStep, LeaveNextStep, CreateStep, ConnectionStep DEF TermNext
<1> QED
  BY <1>1, <1>2

(* A terminal that runs can always be closed: the manager has it under its   *)
(* id and its connection owns the id, although exits, closes and the end of  *)
(* connections each remove entries by id alone; on Unix a reader that ended  *)
(* has left no file open, and no shell that was neither hung up nor waited   *)
(* for (TerminalManager, handle_exit, PTYSession.close).                     *)
THEOREM NothingOrphaned == TermSpec => []NoOrphan
<1>1. TermInit => TermInv
  BY InitTermInv
<1>2. TermInv /\ [TermNext]_termVars => TermInv'
  BY NextTermInv
<1>3. TermInv => NoOrphan
  BY DEF TermInv
<1> QED
  BY <1>1, <1>2, <1>3, PTL DEF TermSpec

-----------------------------------------------------------------------------
(***************************************************************************)
(* PullRequests, for any requests, comments, rows and lost answers, with   *)
(* one reviewer.                                                           *)
(*                                                                         *)
(* A request reads the draft, awaits, and writes what it had read. With    *)
(* one reviewer no other request writes meanwhile, so what it read is the  *)
(* draft, unless a sync or an archive dropped that, and a new one has a    *)
(* new id. Two clients that review at once lose a comment.                 *)
(***************************************************************************)

PrRoles == {"for_me", "created", "all"}
DraftType == [id : Nat, queue : Seq(Comments)]
ReqType == [op : {"none", "sync", "add", "remove", "review", "merge", "open"},
            pc : {"idle", "fetch", "upsert", "prune", "attach", "resync", "recache", "select",
                  "insert", "read", "write", "load", "call", "clear", "push", "cache"},
            pr : [id : Nat, role : PrRoles], draft : DraftType, got : SUBSET PrFound,
            arg : Comments \cup Listings \cup {"none"}]

PrTyped ==
    /\ hub \in [exists : BOOLEAN, mine : BOOLEAN, asked : BOOLEAN, state : {"open", "merged"},
                archived : BOOLEAN]
    /\ posted \in [Comments -> Nat]
    /\ pr \in [id : Nat, role : PrRoles, state : {"open", "merged"}, project : BOOLEAN]
    /\ draft \in DraftType /\ draft.id <= ids.draft /\ (draft.id = 0 => draft = NoDraft)
    /\ ids \in [pr : Nat, draft : Nat]
    /\ req \in [Requests -> ReqType]
    /\ told \in [queued : SUBSET Comments, removed : SUBSET Comments]

(* The draft that a request of a reviewer has read is the one there is, unless *)
(* that one is gone; the comments of a review that is past GitHub are there.    *)
HasRead(q) == q.pc = "write" \/ (q.op = "review" /\ q.pc \in {"call", "clear"})
ReqOK(r, q, h, p, d, i) ==
    /\ r \in Reviewers \/ q.op \in {"none", "sync"}
    /\ q.op = "none" => q.pc = "idle"
    /\ q.op = "sync" => q.pc \in {"fetch", "upsert", "prune", "attach"}
    /\ q.op = "add" => q.arg \in Comments
    /\ \A f \in q.got : f.archived => h.archived
    /\ q.pc = "prune" => h.archived
    /\ q.draft.id <= i.draft
    /\ HasRead(q) /\ d.id # 0 /\ d.id = q.draft.id => d = q.draft
    /\ q.pc = "write" => q.draft.id # 0
    /\ q.op = "review" /\ q.pc = "clear" =>
         q.draft.id # 0 /\ \A c \in Range(q.draft.queue) : p[c] > 0
RequestsOK == \A r \in Requests : ReqOK(r, req[r], hub, posted, draft, ids)

PrInv == PrTyped /\ RequestsOK /\ CommentKept
OneReviewer == \A q, r \in Reviewers : q = r

-----------------------------------------------------------------------------
LEMMA PrConstants ==
    /\ PrIdle \in ReqType /\ PrIdle.op = "none" /\ PrIdle.pc = "idle" /\ PrIdle.got = {}
    /\ PrIdle.draft = NoDraft /\ NoDraft \in DraftType /\ NoDraft.id = 0
    /\ NoRow \in [id : Nat, role : PrRoles, state : {"open", "merged"}, project : BOOLEAN]
BY DEF PrIdle, NoDraft, NoRow, ReqType, DraftType, PrRoles

LEMMA InitPrInv == PrInit => PrInv
<1> SUFFICES ASSUME PrInit PROVE PrInv
  OBVIOUS
<1>1. PrTyped
  <2>1. hub \in [exists : BOOLEAN, mine : BOOLEAN, asked : BOOLEAN, state : {"open", "merged"},
                archived : BOOLEAN]
    <3>1. PICK m \in BOOLEAN : hub = [exists |-> ~ m, mine |-> m, asked |-> FALSE, state |-> "open",
                                      archived |-> FALSE]
      BY DEF PrInit
    <3> QED
      BY <3>1
  <2>2. req \in [Requests -> ReqType] /\ posted \in [Comments -> Nat]
    BY PrConstants DEF PrInit
  <2>3. draft \in DraftType /\ draft.id <= ids.draft /\ ids \in [pr : Nat, draft : Nat]
        /\ pr \in [id : Nat, role : PrRoles, state : {"open", "merged"}, project : BOOLEAN]
    BY PrConstants DEF PrInit
  <2>4. told \in [queued : SUBSET Comments, removed : SUBSET Comments]
    BY DEF PrInit
  <2> QED
    BY <2>1, <2>2, <2>3, <2>4 DEF PrTyped, PrInit
<1>2. RequestsOK
  <2> SUFFICES ASSUME NEW r \in Requests
               PROVE  ReqOK(r, req[r], hub, posted, draft, ids)
    BY DEF RequestsOK
  <2>1. req[r] = PrIdle /\ draft = NoDraft /\ ids.draft = 0
    BY DEF PrInit
  <2> QED
    BY <2>1, PrConstants DEF ReqOK, HasRead
<1>3. CommentKept
  BY DEF PrInit, CommentKept
<1> QED
  BY <1>1, <1>2, <1>3 DEF PrInv

(* What the other requests rely on when one moves.                          *)
PrStays ==
    /\ hub.archived => hub'.archived
    /\ ids.draft <= ids'.draft
    /\ \A c \in Comments : posted[c] > 0 => posted'[c] > 0
DraftStays(q) == draft' = draft \/ draft'.id = 0 \/ draft'.id > ids.draft \/ ~ HasRead(q)

LEMMA ReqStays ==
    ASSUME PrInv, PrStays, PrTyped', NEW r \in Requests, NEW q, q = req[r], DraftStays(q)
    PROVE  ReqOK(r, q, hub', posted', draft', ids')
<1>1. ReqOK(r, q, hub, posted, draft, ids) /\ q.draft.queue \in Seq(Comments) /\ q.draft.id \in Nat
  BY DEF PrInv, PrTyped, RequestsOK, ReqType, DraftType
<1>2. ids.draft \in Nat /\ ids'.draft \in Nat /\ draft'.id \in Nat
  BY DEF PrInv, PrTyped, DraftType
<1>3. Range(q.draft.queue) \subseteq Comments
  BY <1>1 DEF Range
<1>5. q.draft.id <= ids'.draft
  BY <1>1, <1>2 DEF ReqOK, PrStays
<1>6. HasRead(q) /\ draft'.id # 0 /\ draft'.id = q.draft.id => draft' = q.draft
  BY <1>1, <1>2 DEF ReqOK, DraftStays
<1>7. q.op = "review" /\ q.pc = "clear" =>
         q.draft.id # 0 /\ \A c \in Range(q.draft.queue) : posted'[c] > 0
  BY <1>1, <1>3 DEF ReqOK, PrStays
<1>8. (\A f \in q.got : f.archived => hub'.archived) /\ (q.pc = "prune" => hub'.archived)
  BY <1>1 DEF ReqOK, PrStays
<1> QED
  BY <1>1, <1>5, <1>6, <1>7, <1>8 DEF ReqOK

LEMMA PrStep ==
    ASSUME PrInv, PrStays, PrTyped', CommentKept', NEW r \in Requests, NEW q,
           req' = [req EXCEPT ![r] = q], ReqOK(r, q, hub', posted', draft', ids'),
           \A s \in Requests : s # r => DraftStays(req[s])
    PROVE  PrInv'
<1>1. req'[r] = q /\ \A s \in Requests : s # r => req'[s] = req[s]
  BY DEF PrInv, PrTyped
<1>2. \A s \in Requests : s # r => ReqOK(s, req[s], hub', posted', draft', ids')
  BY ReqStays
<1>3. \A s \in Requests : ReqOK(s, req'[s], hub', posted', draft', ids')
  BY <1>1, <1>2
<1> QED
  BY <1>3 DEF PrInv, RequestsOK

(* A step that leaves the draft, the reviews and what was answered alone.    *)
LEMMA QuietStep ==
    ASSUME PrInv, UNCHANGED <<posted, draft, told>>, ids'.draft = ids.draft,
           hub' \in [exists : BOOLEAN, mine : BOOLEAN, asked : BOOLEAN, state : {"open", "merged"},
                     archived : BOOLEAN],
           hub.archived => hub'.archived,
           pr' \in [id : Nat, role : PrRoles, state : {"open", "merged"}, project : BOOLEAN],
           ids' \in [pr : Nat, draft : Nat], NEW r \in Requests, NEW q \in ReqType,
           req' = [req EXCEPT ![r] = q], ReqOK(r, q, hub', posted, draft, ids)
    PROVE  PrInv'
<1>1. PrStays
  BY DEF PrStays, PrInv, PrTyped
<1>2. PrTyped'
  BY DEF PrInv, PrTyped
<1>3. CommentKept'
  BY DEF PrInv, PrTyped, CommentKept
<1>4. ReqOK(r, q, hub', posted', draft', ids')
  BY DEF ReqOK, HasRead
<1>5. \A s \in Requests : s # r => DraftStays(req[s])
  BY DEF DraftStays
<1> QED
  BY <1>1, <1>2, <1>3, <1>4, <1>5, PrStep

(* The same when the request only goes on to another point, or answers.      *)
LEMMA StepIs ==
    ASSUME PrInv, NEW r \in Requests, NEW pc, Step(r, pc),
           pc \in {"idle", "fetch", "upsert", "prune", "attach", "resync", "recache", "select",
                  "insert", "read", "write", "load", "call", "clear", "push", "cache"}
    PROVE  /\ req' = [req EXCEPT ![r] = [req[r] EXCEPT !.pc = pc]]
           /\ [req[r] EXCEPT !.pc = pc] \in ReqType
BY DEF Step, PrInv, PrTyped, ReqType

(* A request that has answered relies on nothing.                            *)
LEMMA PrIdleOK ==
    ASSUME NEW r \in Requests, NEW h, NEW p, NEW d, NEW i, i.draft \in Nat
    PROVE  ReqOK(r, PrIdle, h, p, d, i)
BY PrConstants DEF ReqOK, HasRead

HubType == [exists : BOOLEAN, mine : BOOLEAN, asked : BOOLEAN, state : {"open", "merged"},
            archived : BOOLEAN]
PrRowType == [id : Nat, role : PrRoles, state : {"open", "merged"}, project : BOOLEAN]
(* What a quiet step may change beside its request.                          *)
QuietRest ==
    /\ UNCHANGED <<posted, draft, told>> /\ ids'.draft = ids.draft
    /\ hub' \in HubType /\ (hub.archived => hub'.archived)
    /\ pr' \in PrRowType /\ ids' \in [pr : Nat, draft : Nat]

LEMMA QuietRequest ==
    ASSUME PrInv, QuietRest, NEW r \in Requests, NEW q \in ReqType,
           req' = [req EXCEPT ![r] = q], ReqOK(r, q, hub', posted, draft, ids)
    PROVE  PrInv'
BY QuietStep DEF QuietRest, HubType, PrRowType

LEMMA QuietAnswer ==
    ASSUME PrInv, QuietRest, NEW r \in Requests, Answer(r)
    PROVE  PrInv'
<1>1. ReqOK(r, PrIdle, hub', posted, draft, ids)
  BY PrIdleOK DEF PrInv, PrTyped
<1> QED
  BY <1>1, QuietRequest, PrConstants DEF Answer

LEMMA QuietUnchanged ==
    ASSUME PrInv, UNCHANGED <<posted, draft, told, ids, hub, pr>>
    PROVE  QuietRest
BY DEF QuietRest, PrInv, PrTyped, HubType, PrRowType

(* What a request that is at a point knows.                                  *)
LEMMA RequestIs ==
    ASSUME PrInv, NEW r \in Requests
    PROVE  /\ req[r] \in ReqType /\ ReqOK(r, req[r], hub, posted, draft, ids)
           /\ req[r].draft \in DraftType /\ req[r].got \subseteq PrFound
           /\ draft \in DraftType /\ ids.draft \in Nat /\ draft.id <= ids.draft
           /\ hub \in HubType
BY DEF PrInv, PrTyped, RequestsOK, ReqType, HubType

-----------------------------------------------------------------------------
(* The cache.                                                                *)
LEMMA PrSyncStart ==
    ASSUME PrInv, NEW r \in Requests, SyncStart(r)
    PROVE  PrInv'
<1>1. QuietRest
  BY QuietUnchanged DEF SyncStart
<1>2. PICK kind \in Listings :
        req' = [req EXCEPT ![r] = [PrIdle EXCEPT !.op = "sync", !.pc = "fetch", !.arg = kind]]
  BY DEF SyncStart
<1> DEFINE q == [PrIdle EXCEPT !.op = "sync", !.pc = "fetch", !.arg = kind]
<1>3. q \in ReqType /\ q.op = "sync" /\ q.pc = "fetch" /\ q.got = {} /\ q.draft = NoDraft
  BY PrConstants DEF ReqType, PrIdle
<1> HIDE DEF q
<1>4. ReqOK(r, q, hub', posted, draft, ids)
  BY <1>3, RequestIs, PrConstants DEF ReqOK, HasRead
<1> QED
  BY <1>1, <1>2, <1>3, <1>4, QuietRequest DEF q

LEMMA ListedOK ==
    ASSUME PrInv, NEW kind, NEW s \in {"open", "merged"}
    PROVE  /\ Listed(kind, s) \subseteq PrFound
           /\ \A f \in Listed(kind, s) : f.archived => hub.archived
<1> DEFINE in == {b \in {"for_me", "created", "all"} :
                 CASE b = "for_me" -> kind # "all" /\ hub.asked
                   [] b = "created" -> kind # "all" /\ hub.mine
                   [] OTHER -> kind = "all" /\ pr.id # 0}
           role == IF "created" \in in THEN "created" ELSE CHOOSE b \in in : TRUE
           f == [role |-> role, state |-> s, archived |-> hub.archived /\ s = "open"]
<1>1. Listed(kind, s) = IF ~ hub.exists \/ hub.state # s \/ in = {} THEN {} ELSE {f}
  BY DEF Listed
<1>2. in # {} => role \in PrRoles
  BY DEF PrRoles
<1>3. hub.archived \in BOOLEAN
  BY DEF PrInv, PrTyped
<1>4. in # {} => f \in PrFound /\ (f.archived => hub.archived)
  <2> HIDE DEF in
  <2> SUFFICES ASSUME in # {} PROVE f \in PrFound /\ (f.archived => hub.archived)
    OBVIOUS
  <2>1. role \in PrRoles
    BY <1>2
  <2> HIDE DEF role
  <2>2. (hub.archived /\ s = "open") \in BOOLEAN
    OBVIOUS
  <2> QED
    BY <1>3, <2>1, <2>2 DEF PrFound, PrRoles
<1> HIDE DEF in, f
<1>5. CASE Listed(kind, s) = {}
  BY <1>5
<1>6. CASE Listed(kind, s) = {f} /\ in # {}
  BY <1>6, <1>4
<1> QED
  BY <1>1, <1>5, <1>6

LEMMA PrSyncFetch ==
    ASSUME PrInv, NEW r \in Requests, SyncFetch(r)
    PROVE  PrInv'
<1>1. QuietRest /\ hub' = hub
  BY QuietUnchanged DEF SyncFetch
<1>2. CASE Answer(r)
  BY <1>1, <1>2, QuietAnswer
<1>3. ASSUME NEW s \in {"open", "merged"},
             req' = [req EXCEPT ![r].pc = "upsert", ![r].got = Listed(req[r].arg, s)]
      PROVE  PrInv'
  <2> DEFINE l == Listed(req[r].arg, s)
             q == [req[r] EXCEPT !.pc = "upsert", !.got = l]
  <2>1. l \subseteq PrFound /\ \A f \in l : f.archived => hub.archived
    BY ListedOK
  <2> HIDE DEF l
  <2>2. q \in ReqType /\ q.op = req[r].op /\ q.pc = "upsert" /\ q.got = l /\ q.draft = req[r].draft
    BY <2>1, RequestIs DEF ReqType
  <2>3. req' = [req EXCEPT ![r] = q]
    BY <1>3 DEF PrInv, PrTyped, l
  <2>4. req[r].op = "sync"
    BY DEF SyncFetch, At
  <2> HIDE DEF q
  <2>5. ReqOK(r, q, hub', posted, draft, ids)
    BY <1>1, <2>1, <2>2, <2>4, RequestIs DEF ReqOK, HasRead
  <2> QED
    BY <1>1, <2>2, <2>3, <2>5, QuietRequest
<1> QED
  BY <1>2, <1>3 DEF SyncFetch

(* An upsert keeps the row and the counters what they are.                   *)
LEMMA UpsertOK ==
    ASSUME PrInv, NEW f \in PrFound, NEW project \in BOOLEAN, Upsert(f, project)
    PROVE  pr' \in PrRowType /\ ids' \in [pr : Nat, draft : Nat] /\ ids'.draft = ids.draft
<1>1. pr \in PrRowType /\ ids \in [pr : Nat, draft : Nat]
      /\ f.role \in PrRoles /\ f.state \in {"open", "merged"}
  BY DEF PrInv, PrTyped, PrRowType, PrFound, PrRoles
<1>2. CASE pr.id = 0
  <2>1. pr' = [id |-> ids.pr + 1, role |-> f.role, state |-> f.state, project |-> project]
        /\ ids' = [ids EXCEPT !.pr = @ + 1]
    BY <1>2 DEF Upsert, Upserted
  <2> QED
    BY <1>1, <2>1 DEF PrRowType
<1>3. CASE pr.id # 0
  <2> DEFINE role == IF f.role = "all" THEN pr.role ELSE f.role
  <2>1. pr' = [pr EXCEPT !.role = role, !.state = f.state, !.project = project] /\ ids' = ids
    BY <1>3 DEF Upsert, Upserted
  <2>2. role \in PrRoles
    BY <1>1 DEF PrRowType
  <2> HIDE DEF role
  <2> QED
    BY <1>1, <2>1, <2>2 DEF PrRowType
<1> QED
  BY <1>2, <1>3

LEMMA PrSyncUpsert ==
    ASSUME PrInv, NEW r \in Requests, SyncUpsert(r)
    PROVE  PrInv'
<1> DEFINE pc == IF \E f \in req[r].got : f.archived THEN "prune" ELSE "attach"
           q == [req[r] EXCEPT !.pc = pc]
<1>1. QuietRest /\ hub' = hub
  <2>1. UNCHANGED <<hub, posted, draft, told>>
    BY DEF SyncUpsert
  <2>2. pr' \in PrRowType /\ ids' \in [pr : Nat, draft : Nat] /\ ids'.draft = ids.draft
    <3>1. CASE \E f \in req[r].got : ~ f.archived /\ Upsert(f, TRUE)
      BY <3>1, UpsertOK, RequestIs
    <3>2. CASE UNCHANGED <<pr, ids>>
      BY <3>2 DEF PrInv, PrTyped, PrRowType
    <3> QED
      BY <3>1, <3>2 DEF SyncUpsert
  <2> QED
    BY <2>1, <2>2 DEF QuietRest, PrInv, PrTyped, HubType
<1>2. Step(r, pc) /\ pc \in {"prune", "attach"} /\ req[r].op = "sync"
  BY DEF SyncUpsert, At
<1>3. pc = "prune" => hub.archived
  BY RequestIs DEF ReqOK
<1> HIDE DEF pc
<1>4. req' = [req EXCEPT ![r] = q] /\ q \in ReqType
  BY <1>2, StepIs
<1>5. q.op = "sync" /\ q.pc = pc /\ q.got = req[r].got /\ q.draft = req[r].draft
  BY <1>2, RequestIs DEF ReqType
<1> HIDE DEF q
<1>6. ReqOK(r, q, hub', posted, draft, ids)
  BY <1>1, <1>2, <1>3, <1>5, RequestIs DEF ReqOK, HasRead
<1> QED
  BY <1>1, <1>4, <1>6, QuietRequest

LEMMA PrSyncPrune ==
    ASSUME PrInv, NEW r \in Requests, SyncPrune(r)
    PROVE  PrInv'
<1>1. hub.archived
  BY RequestIs DEF SyncPrune, At, ReqOK
<1>2. UNCHANGED <<hub, posted, ids, told>> /\ pr' = NoRow /\ draft' = NoDraft
      /\ req' = [req EXCEPT ![r] = PrIdle]
  BY DEF SyncPrune, Answer
<1>3. PrTyped'
  BY <1>2, PrConstants DEF PrInv, PrTyped
<1>4. PrStays
  BY <1>2 DEF PrStays, PrInv, PrTyped
<1>5. CommentKept'
  BY <1>1, <1>2 DEF CommentKept
<1>6. ReqOK(r, PrIdle, hub', posted', draft', ids')
  BY <1>2, RequestIs, PrIdleOK
<1>7. \A s \in Requests : s # r => DraftStays(req[s])
  BY <1>2, PrConstants DEF DraftStays
<1> QED
  BY <1>2, <1>3, <1>4, <1>5, <1>6, <1>7, PrStep

LEMMA PrSyncAttach ==
    ASSUME PrInv, NEW r \in Requests, SyncAttach(r) \/ AttachCached(r)
    PROVE  PrInv'
<1>1. QuietRest /\ Answer(r)
  BY QuietUnchanged DEF SyncAttach, AttachCached
<1> QED
  BY <1>1, QuietAnswer

LEMMA PrResyncFetch ==
    ASSUME PrInv, NEW r \in Requests, ResyncFetch(r)
    PROVE  PrInv'
<1>1. QuietRest /\ hub' = hub
  BY QuietUnchanged DEF ResyncFetch
<1>2. CASE Answer(r)
  BY <1>1, <1>2, QuietAnswer
<1>3. CASE req' = [req EXCEPT ![r].pc = "recache",
                             ![r].got = {[role |-> req[r].pr.role, state |-> hub.state, archived |-> hub.archived]}]
  <2> DEFINE f == [role |-> req[r].pr.role, state |-> hub.state, archived |-> hub.archived]
             q == [req[r] EXCEPT !.pc = "recache", !.got = {f}]
  <2>1. f \in PrFound /\ f.archived = hub.archived
    BY RequestIs DEF PrFound, ReqType, PrRoles, HubType
  <2> HIDE DEF f
  <2>2. q \in ReqType /\ q.op = req[r].op /\ q.pc = "recache" /\ q.got = {f} /\ q.draft = req[r].draft
        /\ q.arg = req[r].arg
    BY <2>1, RequestIs DEF ReqType
  <2>3. req' = [req EXCEPT ![r] = q]
    BY <1>3 DEF PrInv, PrTyped, f
  <2>4. req[r].pc = "resync"
    BY DEF ResyncFetch
  <2> HIDE DEF q
  <2>5. ReqOK(r, q, hub', posted, draft, ids)
    BY <1>1, <2>1, <2>2, <2>4, RequestIs DEF ReqOK, HasRead
  <2> QED
    BY <1>1, <2>2, <2>3, <2>5, QuietRequest
<1> QED
  BY <1>2, <1>3 DEF ResyncFetch

LEMMA PrResyncUpsert ==
    ASSUME PrInv, NEW r \in Requests, ResyncUpsert(r)
    PROVE  PrInv'
<1>1. PICK f \in req[r].got : Upsert(f, FALSE)
  BY DEF ResyncUpsert
<1>2. QuietRest
  BY <1>1, UpsertOK, RequestIs DEF ResyncUpsert, QuietRest, PrInv, PrTyped, HubType
<1> QED
  BY <1>2, QuietAnswer DEF ResyncUpsert

-----------------------------------------------------------------------------
(* The draft of a review.                                                    *)
LEMMA PrLoads ==
    ASSUME PrInv, NEW r \in Requests, NEW op, NEW arg, NEW pc, LoadPr(r, op, arg, pc),
           <<op, pc>> \in {<<"add", "select">>, <<"remove", "read">>, <<"review", "load">>,
                           <<"merge", "call">>},
           arg \in Comments \cup {"none"}, op = "add" => arg \in Comments
    PROVE  PrInv'
<1>1. QuietRest /\ hub' = hub
  BY QuietUnchanged DEF LoadPr
<1> DEFINE q == [PrIdle EXCEPT !.op = op, !.pc = pc, !.pr = [id |-> pr.id, role |-> pr.role], !.arg = arg]
<1>2. req' = [req EXCEPT ![r] = q]
  BY DEF LoadPr
<1>3. [id |-> pr.id, role |-> pr.role] \in [id : Nat, role : PrRoles]
  BY DEF PrInv, PrTyped
<1>4. q \in ReqType /\ q.op = op /\ q.pc = pc /\ q.got = {} /\ q.draft = NoDraft /\ q.arg = arg
  BY <1>3, PrConstants DEF ReqType, PrIdle
<1>5. r \in Reviewers
  BY DEF LoadPr
<1> HIDE DEF q
<1>6. ReqOK(r, q, hub', posted, draft, ids)
  BY <1>4, <1>5, RequestIs, PrConstants DEF ReqOK, HasRead
<1> QED
  BY <1>1, <1>2, <1>4, <1>6, QuietRequest

LEMMA PrReviewerStarts ==
    ASSUME PrInv, NEW r \in Requests,
           AddComment(r) \/ RemoveComment(r) \/ SubmitReview(r) \/ MergePr(r)
    PROVE  PrInv'
<1>1. CASE AddComment(r)
  BY <1>1, PrLoads DEF AddComment
<1>2. CASE RemoveComment(r)
  BY <1>2, PrLoads DEF RemoveComment
<1>3. CASE SubmitReview(r)
  BY <1>3, PrLoads DEF SubmitReview
<1>4. CASE MergePr(r)
  BY <1>4, PrLoads DEF MergePr
<1> QED
  BY <1>1, <1>2, <1>3, <1>4

(* A request that goes on to a point where it relies on nothing it has read. *)
LEMMA QuietAdvance ==
    ASSUME PrInv, QuietRest, NEW r \in Requests, r \in Reviewers, NEW pc, Step(r, pc),
           pc \in {"resync", "insert", "read", "load", "call", "push", "cache"},
           ~ (req[r].op = "review" /\ pc = "call"), req[r].op \notin {"none", "sync"}
    PROVE  PrInv'
<1> DEFINE q == [req[r] EXCEPT !.pc = pc]
<1>1. req' = [req EXCEPT ![r] = q] /\ q \in ReqType
  BY StepIs
<1>2. q.op = req[r].op /\ q.pc = pc /\ q.got = req[r].got /\ q.draft = req[r].draft /\ q.arg = req[r].arg
  BY RequestIs DEF ReqType
<1> HIDE DEF q
<1>3. ReqOK(r, q, hub', posted, draft, ids)
  BY <1>2, RequestIs DEF ReqOK, HasRead, QuietRest
<1> QED
  BY <1>1, <1>3, QuietRequest

LEMMA PrSelectDraft ==
    ASSUME PrInv, NEW r \in Requests, SelectDraft(r)
    PROVE  PrInv'
<1> DEFINE pc == IF DraftOf(r).id = 0 THEN "insert" ELSE "read"
<1>1. QuietRest /\ Step(r, pc) /\ pc \in {"insert", "read"} /\ req[r].op = "add"
  BY QuietUnchanged DEF SelectDraft, At
<1> HIDE DEF pc
<1>2. r \in Reviewers
  BY <1>1, RequestIs DEF ReqOK
<1> QED
  BY <1>1, <1>2, QuietAdvance

(* The other requests, of which one reviewer sends none, hold no draft.      *)
LEMMA OthersHoldNone ==
    ASSUME PrInv, OneReviewer, NEW r \in Reviewers, NEW s \in Requests, s # r
    PROVE  ~ HasRead(req[s])
<1>1. s \notin Reviewers
  BY DEF OneReviewer
<1> QED
  BY <1>1, RequestIs DEF ReqOK, HasRead

LEMMA PrInsertDraft ==
    ASSUME PrInv, NEW r \in Requests, InsertDraft(r)
    PROVE  PrInv'
<1>1. UNCHANGED <<hub, posted, pr, told>> /\ req[r].op = "add"
  BY DEF InsertDraft, At
<1>2. CASE Answer(r) /\ UNCHANGED <<draft, ids>>
  BY <1>1, <1>2, QuietUnchanged, QuietAnswer
<1>3. CASE /\ draft.id = 0 /\ draft' = [id |-> ids.draft + 1, queue |-> <<>>]
           /\ ids' = [ids EXCEPT !.draft = @ + 1] /\ Step(r, "read")
  <2> DEFINE q == [req[r] EXCEPT !.pc = "read"]
  <2>1. req' = [req EXCEPT ![r] = q] /\ q \in ReqType
    BY <1>3, StepIs
  <2>2. q.op = "add" /\ q.pc = "read" /\ q.got = req[r].got /\ q.draft = req[r].draft /\ q.arg = req[r].arg
    BY <1>1, RequestIs DEF ReqType
  <2> HIDE DEF q
  <2>3. /\ draft'.id = ids.draft + 1 /\ draft'.queue = <<>> /\ draft' \in DraftType
        /\ ids'.draft = ids.draft + 1 /\ ids' \in [pr : Nat, draft : Nat]
    <3>1. ids.draft + 1 \in Nat /\ ids \in [pr : Nat, draft : Nat] /\ <<>> \in Seq(Comments)
      BY RequestIs DEF PrInv, PrTyped
    <3>2. draft' = [id |-> ids.draft + 1, queue |-> <<>>] /\ ids' = [ids EXCEPT !.draft = ids.draft + 1]
      BY <1>3
    <3> QED
      BY <3>1, <3>2 DEF DraftType
  <2>4. req' \in [Requests -> ReqType]
    BY <2>1 DEF PrInv, PrTyped
  <2>5. PrTyped'
    BY <1>1, <2>3, <2>4, RequestIs DEF PrInv, PrTyped
  <2>6. PrStays
    BY <1>1, <2>3, RequestIs DEF PrStays
  <2>7. CommentKept'
    <3>1. draft.queue = <<>> /\ draft'.queue = <<>>
      BY <1>3, <2>3 DEF PrInv, PrTyped, NoDraft
    <3> QED
      BY <1>1, <3>1 DEF PrInv, CommentKept
  <2>8. ReqOK(r, q, hub', posted', draft', ids')
    BY <1>1, <2>2, <2>3, RequestIs DEF ReqOK, HasRead, DraftType
  <2>9. \A s \in Requests : s # r => DraftStays(req[s])
    BY <2>3, RequestIs DEF DraftStays
  <2> QED
    BY <2>1, <2>5, <2>6, <2>7, <2>8, <2>9, PrStep
<1> QED
  BY <1>2, <1>3 DEF InsertDraft

LEMMA PrReadDraft ==
    ASSUME PrInv, NEW r \in Requests, ReadDraft(r)
    PROVE  PrInv'
<1>1. QuietRest /\ hub' = hub /\ req[r].pc = "read"
  BY QuietUnchanged DEF ReadDraft
<1>2. CASE Answer(r)
  BY <1>1, <1>2, QuietAnswer
<1>3. CASE DraftOf(r).id # 0 /\ req' = [req EXCEPT ![r].pc = "write", ![r].draft = draft]
  <2> DEFINE q == [req[r] EXCEPT !.pc = "write", !.draft = draft]
  <2>1. req' = [req EXCEPT ![r] = q]
    BY <1>3 DEF PrInv, PrTyped
  <2>2. q \in ReqType /\ q.op = req[r].op /\ q.pc = "write" /\ q.got = req[r].got /\ q.draft = draft
        /\ q.arg = req[r].arg
    BY RequestIs DEF ReqType
  <2>3. draft.id # 0
    BY <1>3, PrConstants DEF DraftOf
  <2> HIDE DEF q
  <2>4. ReqOK(r, q, hub', posted, draft, ids)
    BY <1>1, <2>2, <2>3, RequestIs DEF ReqOK, HasRead
  <2> QED
    BY <1>1, <2>1, <2>2, <2>4, QuietRequest
<1> QED
  BY <1>2, <1>3 DEF ReadDraft

(* A comment that a removal drops from the list is the one it answers.       *)
LEMMA RemovedIsOne ==
    ASSUME NEW s \in Seq(Comments), NEW i \in 1 .. Len(s)
    PROVE  Range(s) \subseteq Range(RemoveAt(s, i)) \cup {s[i]}
<1>1. /\ RemoveAt(s, i) \in Seq(Comments) /\ Len(RemoveAt(s, i)) = Len(s) - 1
      /\ \A j \in 1 .. Len(s) - 1 : RemoveAt(s, i)[j] = IF j < i THEN s[j] ELSE s[j + 1]
  BY RemoveAtType
<1>2. Len(s) \in Nat /\ DOMAIN s = 1 .. Len(s)
      /\ DOMAIN RemoveAt(s, i) = 1 .. Len(s) - 1
  BY <1>1
<1> SUFFICES ASSUME NEW j \in 1 .. Len(s), j # i PROVE s[j] \in Range(RemoveAt(s, i))
  BY <1>2 DEF Range
<1>3. CASE j < i
  <2>1. j \in 1 .. Len(s) - 1 /\ RemoveAt(s, i)[j] = s[j]
    BY <1>1, <1>2, <1>3
  <2> QED
    BY <1>2, <2>1 DEF Range
<1>4. CASE j > i
  <2>1. j - 1 \in 1 .. Len(s) - 1 /\ ~ (j - 1 < i) /\ (j - 1) + 1 = j
    BY <1>2, <1>4
  <2>2. RemoveAt(s, i)[j - 1] = s[j]
    BY <1>1, <2>1
  <2> QED
    BY <1>2, <2>1, <2>2 DEF Range
<1> QED
  BY <1>2, <1>3, <1>4

LEMMA AppendedIsIn ==
    ASSUME NEW s \in Seq(Comments), NEW c \in Comments
    PROVE  /\ Append(s, c) \in Seq(Comments)
           /\ Range(s) \cup {c} \subseteq Range(Append(s, c))
<1>1. Append(s, c) \in Seq(Comments) /\ Len(Append(s, c)) = Len(s) + 1
      /\ Append(s, c)[Len(s) + 1] = c /\ \A j \in 1 .. Len(s) : Append(s, c)[j] = s[j]
  OBVIOUS
<1>2. Len(s) \in Nat /\ DOMAIN s = 1 .. Len(s) /\ DOMAIN Append(s, c) = 1 .. Len(s) + 1
  BY <1>1
<1>3. Range(s) = {s[j] : j \in 1 .. Len(s)}
      /\ Range(Append(s, c)) = {Append(s, c)[j] : j \in 1 .. Len(s) + 1}
  BY <1>2 DEF Range
<1> QED
  BY <1>1, <1>2, <1>3

LEMMA PrWriteDraft ==
    ASSUME PrInv, OneReviewer, NEW r \in Requests, WriteDraft(r)
    PROVE  PrInv'
<1> DEFINE old == req[r].draft.queue
<1>1. UNCHANGED <<hub, posted, pr, ids>> /\ Answer(r) /\ req[r].pc = "write"
  BY DEF WriteDraft
<1>2. r \in Reviewers /\ req[r].draft.id # 0 /\ old \in Seq(Comments)
  BY <1>1, RequestIs DEF ReqOK, DraftType
<1>3. CASE UNCHANGED <<draft, told>>
  BY <1>1, <1>3, QuietUnchanged, QuietAnswer
<1>4. ASSUME draft.id = req[r].draft.id, NEW queue \in Seq(Comments),
             draft' = [draft EXCEPT !.queue = queue],
             told' \in [queued : SUBSET Comments, removed : SUBSET Comments],
             \A c \in told'.queued \ told'.removed :
                c \in Range(queue) \/ (c \in told.queued \ told.removed /\ c \notin Range(old))
      PROVE  PrInv'
  <2>1. draft = req[r].draft
    BY <1>1, <1>2, <1>4, RequestIs DEF ReqOK, HasRead
  <2>2. draft' \in DraftType /\ draft'.id = draft.id /\ draft'.queue = queue
    BY <1>4, RequestIs DEF DraftType
  <2>3. PrTyped'
    BY <1>1, <1>2, <1>4, <2>1, <2>2, PrConstants DEF PrInv, PrTyped, Answer
  <2>4. PrStays
    BY <1>1, RequestIs DEF PrStays
  <2>5. CommentKept'
    <3> SUFFICES ASSUME NEW c \in told'.queued \ told'.removed, c \notin Range(queue)
                 PROVE  posted[c] > 0 \/ hub.archived
      BY <1>1, <2>2 DEF CommentKept
    <3>1. c \in told.queued \ told.removed /\ c \notin Range(draft.queue)
      BY <1>4, <2>1
    <3> QED
      BY <3>1 DEF PrInv, CommentKept
  <2>6. ReqOK(r, PrIdle, hub', posted', draft', ids')
    BY <1>1, RequestIs, PrIdleOK
  <2>7. \A s \in Requests : s # r => DraftStays(req[s])
    BY <1>2, OthersHoldNone DEF DraftStays
  <2> QED
    BY <1>1, <2>3, <2>4, <2>5, <2>6, <2>7, PrStep DEF Answer
<1>5. ASSUME draft.id = req[r].draft.id, req[r].op = "add",
             draft' = [draft EXCEPT !.queue = Append(old, req[r].arg)],
             told' = [told EXCEPT !.queued = @ \cup {req[r].arg}]
      PROVE  PrInv'
  <2>1. req[r].arg \in Comments
    BY <1>5, RequestIs DEF ReqOK
  <2>2. Append(old, req[r].arg) \in Seq(Comments)
        /\ Range(old) \cup {req[r].arg} \subseteq Range(Append(old, req[r].arg))
    BY <1>2, <2>1, AppendedIsIn
  <2>3. told'.queued = told.queued \cup {req[r].arg} /\ told'.removed = told.removed
        /\ told' \in [queued : SUBSET Comments, removed : SUBSET Comments]
    BY <1>5, <2>1 DEF PrInv, PrTyped
  <2>4. \A c \in told'.queued \ told'.removed :
           c \in Range(Append(old, req[r].arg))
           \/ (c \in told.queued \ told.removed /\ c \notin Range(old))
    BY <2>2, <2>3
  <2> QED
    BY <1>4, <1>5, <2>2, <2>3, <2>4
<1>6. ASSUME draft.id = req[r].draft.id, NEW i \in 1 .. Len(old),
             draft' = [draft EXCEPT !.queue = RemoveAt(old, i)],
             told' = [told EXCEPT !.removed = @ \cup {old[i]}]
      PROVE  PrInv'
  <2>1. RemoveAt(old, i) \in Seq(Comments) /\ old[i] \in Comments
    BY <1>2, RemoveAtType
  <2>2. Range(old) \subseteq Range(RemoveAt(old, i)) \cup {old[i]}
    BY <1>2, RemovedIsOne
  <2>3. told'.queued = told.queued /\ told'.removed = told.removed \cup {old[i]}
        /\ told' \in [queued : SUBSET Comments, removed : SUBSET Comments]
    BY <1>6, <2>1 DEF PrInv, PrTyped
  <2>4. \A c \in told'.queued \ told'.removed :
           c \in Range(RemoveAt(old, i))
           \/ (c \in told.queued \ told.removed /\ c \notin Range(old))
    BY <2>2, <2>3
  <2> QED
    BY <1>4, <1>6, <2>1, <2>3, <2>4
<1> QED
  BY <1>3, <1>5, <1>6 DEF WriteDraft

LEMMA PrLoadDraft ==
    ASSUME PrInv, NEW r \in Requests, LoadDraft(r)
    PROVE  PrInv'
<1>1. QuietRest /\ hub' = hub /\ req[r].op = "review"
  BY QuietUnchanged DEF LoadDraft, At
<1> DEFINE d == DraftOf(r)
           q == [req[r] EXCEPT !.pc = "call", !.draft = d]
<1>2. req' = [req EXCEPT ![r] = q]
  BY DEF LoadDraft, PrInv, PrTyped
<1>3. d \in DraftType /\ (d = draft \/ d.id = 0) /\ d.id <= ids.draft
  BY RequestIs, PrConstants DEF DraftOf
<1> HIDE DEF d
<1>4. q \in ReqType /\ q.op = "review" /\ q.pc = "call" /\ q.got = req[r].got /\ q.draft = d
      /\ q.arg = req[r].arg
  BY <1>1, <1>3, RequestIs DEF ReqType
<1> HIDE DEF q
<1>5. ReqOK(r, q, hub', posted, draft, ids)
  BY <1>1, <1>3, <1>4, RequestIs DEF ReqOK, HasRead
<1> QED
  BY <1>1, <1>2, <1>4, <1>5, QuietRequest

LEMMA PrPostReview ==
    ASSUME PrInv, NEW r \in Requests, PostReview(r)
    PROVE  PrInv'
<1> DEFINE list == Range(req[r].draft.queue)
           after == [c \in Comments |-> IF c \in list THEN posted[c] + 1 ELSE posted[c]]
           pc == IF req[r].draft.id = 0 THEN "resync" ELSE "clear"
<1>1. UNCHANGED <<hub, pr, draft, ids, told>> /\ req[r].op = "review" /\ req[r].pc = "call"
  BY DEF PostReview, At
<1>2. posted \in [Comments -> Nat] /\ after \in [Comments -> Nat]
  BY DEF PrInv, PrTyped
<1>3. /\ \A c \in Comments : posted[c] > 0 => after[c] > 0
      /\ \A c \in Comments : c \in list => after[c] > 0
  BY <1>2
<1>4. list \subseteq Comments
  BY RequestIs DEF DraftType, Range
<1> HIDE DEF after
<1>5. (posted' = after /\ Step(r, pc)) \/ (posted' \in {posted, after} /\ Answer(r))
  BY DEF PostReview, Called, after
<1> HIDE DEF list
<1>6. PrStays /\ posted' \in [Comments -> Nat]
  BY <1>1, <1>2, <1>3, <1>5, RequestIs DEF PrStays
<1>7. CommentKept'
  BY <1>1, <1>6 DEF PrInv, PrTyped, CommentKept, PrStays
<1>8. \A s \in Requests : s # r => DraftStays(req[s])
  BY <1>1 DEF DraftStays
<1>9. CASE Answer(r)
  <2>1. PrTyped'
    BY <1>1, <1>6, <1>9, PrConstants DEF PrInv, PrTyped, Answer
  <2>2. ReqOK(r, PrIdle, hub', posted', draft', ids')
    BY <1>1, RequestIs, PrIdleOK
  <2> QED
    BY <1>6, <1>7, <1>8, <1>9, <2>1, <2>2, PrStep DEF Answer
<1>10. CASE posted' = after /\ Step(r, pc)
  <2> DEFINE q == [req[r] EXCEPT !.pc = pc]
  <2>1. pc \in {"resync", "clear"} /\ (pc = "clear" => req[r].draft.id # 0)
    OBVIOUS
  <2> HIDE DEF pc
  <2>2. req' = [req EXCEPT ![r] = q] /\ q \in ReqType
    BY <1>10, <2>1, StepIs
  <2>3. q.op = "review" /\ q.pc = pc /\ q.got = req[r].got /\ q.draft = req[r].draft /\ q.arg = req[r].arg
    BY <1>1, RequestIs DEF ReqType
  <2> HIDE DEF q
  <2>4. PrTyped'
    BY <1>1, <1>6, <2>2 DEF PrInv, PrTyped
  <2>5. \A c \in Range(q.draft.queue) : posted'[c] > 0
    BY <1>3, <1>4, <1>10, <2>3 DEF list
  <2>6. ReqOK(r, q, hub', posted', draft', ids')
    BY <1>1, <2>1, <2>3, <2>5, RequestIs DEF ReqOK, HasRead
  <2> QED
    BY <1>6, <1>7, <1>8, <2>2, <2>4, <2>6, PrStep
<1> QED
  BY <1>5, <1>9, <1>10

LEMMA PrClearDraft ==
    ASSUME PrInv, NEW r \in Requests, ClearDraft(r)
    PROVE  PrInv'
<1>1. UNCHANGED <<hub, posted, pr, ids, told>> /\ req[r].op = "review" /\ req[r].pc = "clear"
      /\ r \in Reviewers
  BY RequestIs DEF ClearDraft, At, ReqOK
<1>2. CASE draft' = draft /\ Answer(r)
  BY <1>1, <1>2, QuietUnchanged, QuietAnswer
<1>3. CASE draft.id = req[r].draft.id /\ draft' = NoDraft /\ Step(r, "resync")
  <2> DEFINE q == [req[r] EXCEPT !.pc = "resync"]
  <2>1. req' = [req EXCEPT ![r] = q] /\ q \in ReqType
    BY <1>3, StepIs
  <2>2. q.op = "review" /\ q.pc = "resync" /\ q.got = req[r].got /\ q.draft = req[r].draft /\ q.arg = req[r].arg
    BY <1>1, RequestIs DEF ReqType
  <2> HIDE DEF q
  <2>3. draft = req[r].draft /\ \A c \in Range(draft.queue) : posted[c] > 0
    BY <1>1, <1>3, RequestIs DEF ReqOK, HasRead
  <2>4. PrTyped'
    BY <1>1, <1>3, <2>1, PrConstants DEF PrInv, PrTyped
  <2>5. PrStays
    BY <1>1, RequestIs DEF PrStays
  <2>6. CommentKept'
    BY <1>1, <2>3 DEF PrInv, CommentKept
  <2>7. ReqOK(r, q, hub', posted', draft', ids')
    BY <1>1, <1>3, <2>2, PrConstants, RequestIs DEF ReqOK, HasRead
  <2>8. \A s \in Requests : s # r => DraftStays(req[s])
    BY <1>3, PrConstants DEF DraftStays
  <2> QED
    BY <2>1, <2>4, <2>5, <2>6, <2>7, <2>8, PrStep
<1> QED
  BY <1>2, <1>3 DEF ClearDraft

-----------------------------------------------------------------------------
(* Merging and opening.                                                      *)
LEMMA PrCallMerge ==
    ASSUME PrInv, NEW r \in Requests, CallMerge(r)
    PROVE  PrInv'
<1>1. UNCHANGED <<posted, pr, draft, ids, told>> /\ req[r].op = "merge" /\ r \in Reviewers
  BY RequestIs DEF CallMerge, At, ReqOK
<1>2. hub' \in {hub, [hub EXCEPT !.state = "merged"]} /\ (Step(r, "resync") \/ Answer(r))
  BY DEF CallMerge, Called
<1>3. hub' \in HubType /\ hub'.archived = hub.archived
  BY <1>2, RequestIs DEF HubType
<1>4. QuietRest
  BY <1>1, <1>3 DEF QuietRest, PrInv, PrTyped, PrRowType
<1> QED
  BY <1>1, <1>2, <1>4, QuietAnswer, QuietAdvance

LEMMA PrOpenPr ==
    ASSUME PrInv, NEW r \in Requests, OpenPr(r)
    PROVE  PrInv'
<1> DEFINE q == [PrIdle EXCEPT !.op = "open", !.pc = "push"]
<1>1. QuietRest /\ r \in Reviewers /\ req' = [req EXCEPT ![r] = q] /\ hub' = hub
  BY QuietUnchanged DEF OpenPr
<1>2. q \in ReqType /\ q.op = "open" /\ q.pc = "push" /\ q.got = {} /\ q.draft = NoDraft
  BY PrConstants DEF ReqType, PrIdle
<1> HIDE DEF q
<1>3. ReqOK(r, q, hub', posted, draft, ids)
  BY <1>1, <1>2, RequestIs, PrConstants DEF ReqOK, HasRead
<1> QED
  BY <1>1, <1>2, <1>3, QuietRequest

LEMMA PrPushBranch ==
    ASSUME PrInv, NEW r \in Requests, PushBranch(r)
    PROVE  PrInv'
<1>1. QuietRest /\ req[r].op = "open" /\ r \in Reviewers
  BY QuietUnchanged, RequestIs DEF PushBranch, At, ReqOK
<1>2. Step(r, "call") \/ Answer(r)
  BY DEF PushBranch
<1> QED
  BY <1>1, <1>2, QuietAnswer, QuietAdvance

LEMMA PrCreatePr ==
    ASSUME PrInv, NEW r \in Requests, CreatePr(r)
    PROVE  PrInv'
<1>1. UNCHANGED <<posted, pr, draft, ids, told>> /\ req[r].op = "open" /\ r \in Reviewers
  BY RequestIs DEF CreatePr, At, ReqOK
<1>2. hub' \in {hub, [hub EXCEPT !.exists = TRUE]} /\ (Step(r, "cache") \/ Answer(r))
  BY DEF CreatePr, Called
<1>3. hub' \in HubType /\ hub'.archived = hub.archived
  BY <1>2, RequestIs DEF HubType
<1>4. QuietRest
  BY <1>1, <1>3 DEF QuietRest, PrInv, PrTyped, PrRowType
<1> QED
  BY <1>1, <1>2, <1>4, QuietAnswer, QuietAdvance

LEMMA PrCacheOpened ==
    ASSUME PrInv, NEW r \in Requests, CacheOpened(r)
    PROVE  PrInv'
<1> DEFINE f == [role |-> "created", state |-> "open", archived |-> FALSE]
<1>1. f \in PrFound
  BY DEF PrFound
<1>2. UNCHANGED <<hub, posted, draft, told>> /\ Upsert(f, FALSE) /\ Answer(r)
  BY DEF CacheOpened
<1> HIDE DEF f
<1>3. QuietRest
  BY <1>1, <1>2, UpsertOK DEF QuietRest, PrInv, PrTyped, HubType
<1> QED
  BY <1>2, <1>3, QuietAnswer

-----------------------------------------------------------------------------
(* GitHub, and a restart of the worker.                                      *)
LEMMA PrHubChanges ==
    ASSUME PrInv, HubChanges
    PROVE  PrInv'
<1>1. UNCHANGED <<posted, pr, draft, ids, req, told>>
  BY DEF HubChanges
<1>2. hub' \in {[hub EXCEPT !.asked = ~ hub.asked], [hub EXCEPT !.state = "merged"],
                [hub EXCEPT !.archived = TRUE]}
  BY DEF HubChanges
<1>3. hub \in HubType
  BY DEF PrInv, PrTyped, HubType
<1>4. hub' \in HubType /\ (hub.archived => hub'.archived)
  BY <1>2, <1>3 DEF HubType
<1>5. PrTyped'
  BY <1>1, <1>4 DEF PrInv, PrTyped, HubType
<1>6. CommentKept'
  BY <1>1, <1>4 DEF PrInv, CommentKept
<1>7. ASSUME NEW s \in Requests PROVE ReqOK(s, req[s], hub', posted', draft', ids')
  BY <1>1, <1>4, RequestIs DEF ReqOK
<1> QED
  BY <1>1, <1>5, <1>6, <1>7 DEF PrInv, RequestsOK

LEMMA PrRestart ==
    ASSUME PrInv, RestartWorker
    PROVE  PrInv'
<1>1. UNCHANGED <<hub, posted, pr, draft, ids, told>> /\ req' = [r \in Requests |-> PrIdle]
  BY DEF RestartWorker
<1>2. PrTyped'
  BY <1>1, PrConstants DEF PrInv, PrTyped
<1>3. CommentKept'
  BY <1>1 DEF PrInv, CommentKept
<1>4. ASSUME NEW s \in Requests PROVE ReqOK(s, req'[s], hub', posted', draft', ids')
  BY <1>1, RequestIs, PrIdleOK
<1> QED
  BY <1>2, <1>3, <1>4 DEF PrInv, RequestsOK

LEMMA PrNextInv ==
    ASSUME PrInv, OneReviewer, [PrNext]_prVars
    PROVE  PrInv'
<1>1. CASE UNCHANGED prVars
  <2>1. UNCHANGED <<hub, posted, pr, draft, ids>> /\ UNCHANGED <<req, told>>
    BY <1>1 DEF prVars
  <2>2. PrTyped' /\ CommentKept'
    BY <2>1 DEF PrInv, PrTyped, CommentKept
  <2>3. RequestsOK'
    BY <2>1 DEF PrInv, RequestsOK
  <2> QED
    BY <2>2, <2>3 DEF PrInv
<1>2. CASE HubChanges \/ RestartWorker
  BY <1>2, PrHubChanges, PrRestart
<1>3. ASSUME NEW r \in Requests,
             \/ SyncStart(r) \/ SyncFetch(r) \/ SyncUpsert(r) \/ SyncPrune(r) \/ SyncAttach(r)
             \/ AttachCached(r) \/ ResyncFetch(r) \/ ResyncUpsert(r)
      PROVE  PrInv'
  BY <1>3, PrSyncStart, PrSyncFetch, PrSyncUpsert, PrSyncPrune, PrSyncAttach, PrResyncFetch,
     PrResyncUpsert
<1>4. ASSUME NEW r \in Requests,
             \/ AddComment(r) \/ RemoveComment(r) \/ SubmitReview(r) \/ MergePr(r)
             \/ SelectDraft(r) \/ InsertDraft(r) \/ ReadDraft(r) \/ WriteDraft(r)
      PROVE  PrInv'
  BY <1>4, PrReviewerStarts, PrSelectDraft, PrInsertDraft, PrReadDraft, PrWriteDraft
<1>5. ASSUME NEW r \in Requests,
             \/ LoadDraft(r) \/ PostReview(r) \/ ClearDraft(r) \/ CallMerge(r) \/ OpenPr(r)
             \/ PushBranch(r) \/ CreatePr(r) \/ CacheOpened(r)
      PROVE  PrInv'
  BY <1>5, PrLoadDraft, PrPostReview, PrClearDraft, PrCallMerge, PrOpenPr, PrPushBranch,
     PrCreatePr, PrCacheOpened
<1> QED
  BY <1>1, <1>2, <1>3, <1>4, <1>5 DEF PrNext

(* A comment whose queueing was answered is in the draft, on GitHub, or was*)
(* removed, whatever syncs, refusals, lost answers and restarts come       *)
(* between (queue_comment, remove_comment and submit_review of             *)
(* github_prs.py); only the end of the repository takes it away.           *)
THEOREM CommentIsKept == ASSUME OneReviewer PROVE PrSpec => []CommentKept
<1>1. PrInv => CommentKept
  BY DEF PrInv
<1> QED
  BY <1>1, InitPrInv, PrNextInv, PTL DEF PrSpec

-----------------------------------------------------------------------------
(***************************************************************************)
(* OutputStream, for any number of connections, messages and objects of    *)
(* the session, and any size of the history.                               *)
(*                                                                         *)
(* A stream copies the history into its queue and subscribes in one step,  *)
(* so all that happens to the buffer later comes after it in the queue.    *)
(* The invariant says what the queue holds: first what is left of the      *)
(* replay, then later messages, the end last. Together with what was sent, *)
(* the queue holds a stretch of the log without a hole, up to the newest   *)
(* message while the stream is subscribed.                                 *)
(***************************************************************************)

OutMessage == [seq : Nat, kept : BOOLEAN]
OutSent == [what : {"replay", "live", "marker"}, seq : Nat, kept : BOOLEAN]
OutBuffer == [log : Seq(Nat), seq : Nat, closed : BOOLEAN]
OutStreamType == [pc : {"none", "start", "marker", "run", "done"}, obj : {0} \cup Objects, left : Nat,
                  since : Nat, queue : Seq(OutMessage), marked : BOOLEAN]

OutTyped ==
    /\ buffers \in [Objects -> OutBuffer]
    /\ current \in {0} \cup Objects
    /\ listening \in [Objects -> SUBSET Viewers]
    /\ stream \in [Viewers -> OutStreamType]
    /\ got \in [Viewers -> Seq(OutSent)]

(* The history is numbered in the order of the pushes.                        *)
LogOK(b) ==
    /\ \A i \in DOMAIN b.log : b.log[i] \in 1 .. b.seq
    /\ \A i, j \in DOMAIN b.log : i < j => b.log[i] < b.log[j]
Used(o, bs) == o = 1 \/ bs[o].seq > 0

(* The first messages of the queue are the replay that is left, all others    *)
(* came after it; the end comes last, and nothing once it is there.           *)
QueueOK(s, on) ==
    /\ s.left <= Len(s.queue)
    /\ \A i \in 1 .. s.left : s.queue[i].kept /\ s.queue[i].seq <= s.since
    /\ \A i \in s.left + 1 .. Len(s.queue) : s.queue[i] = End \/ s.queue[i].seq > s.since
    /\ \A i \in 1 .. Len(s.queue) : s.queue[i] = End => i = Len(s.queue) /\ ~ on
(* The marker is sent when no replay is left, and until then only replay is.   *)
MarkOK(s, g) ==
    /\ s.left > 0 => s.pc = "run"
    /\ s.marked <=> s.left = 0 /\ s.pc # "marker"
    /\ ~ s.marked => \A i \in DOMAIN g : g[i].what = "replay"
    /\ s.marked => \E i \in DOMAIN g : g[i].what = "marker"
UpToDate(g, q, log) == log # <<>> => log[Len(log)] \in Kept(g) \cup Kept(q)

FlowOK(s, g, b, on) ==
    /\ s.since <= b.seq
    /\ QueueOK(s, on) /\ MarkOK(s, g)
    /\ Split(g, s.since)
    /\ Contiguous(g, s.queue, b.log)
    /\ on => UpToDate(g, s.queue, b.log)

ViewerOK(v, s, g, bs, ls) ==
    /\ s.pc \in {"none", "start"} => s.obj = 0 /\ g = <<>>
    /\ s.pc \in {"marker", "run"} => s.obj # 0
    /\ \A o \in Objects : v \in ls[o] => s.obj = o /\ s.pc \in {"marker", "run"}
    /\ s.obj # 0 => Used(s.obj, bs) /\ FlowOK(s, g, bs[s.obj], v \in ls[s.obj])

OutInv ==
    /\ OutTyped
    /\ \A o \in Objects : LogOK(buffers[o])
    /\ current # 0 => Used(current, buffers)
    /\ \A v \in Viewers : ViewerOK(v, stream[v], got[v], buffers, listening)

-----------------------------------------------------------------------------
LEMMA OutConstants ==
    /\ 0 \notin Objects /\ 1 \in Objects /\ Objects \subseteq Nat
    /\ HistoryCap \in Nat /\ HistoryCap > 0
    /\ NoStream \in OutStreamType /\ NoStream.pc = "none" /\ NoStream.obj = 0
    /\ End \in OutMessage /\ ~ End.kept /\ End.seq = 0
<1>1. <<>> \in Seq(OutMessage)
  OBVIOUS
<1> QED
  BY <1>1, OutputAssumption DEF Objects, NoStream, OutStreamType, End, OutMessage

LEMMA InitOutInv == OutInit => OutInv
<1> SUFFICES ASSUME OutInit PROVE OutInv
  OBVIOUS
<1> DEFINE b == [log |-> <<>>, seq |-> 0, closed |-> FALSE]
<1>1. b \in OutBuffer /\ b.log = <<>>
  BY DEF OutBuffer
<1> HIDE DEF b
<1>2. /\ buffers = [o \in Objects |-> b] /\ current = 1 /\ listening = [o \in Objects |-> {}]
      /\ stream = [v \in Viewers |-> NoStream] /\ got = [v \in Viewers |-> <<>>]
  BY DEF OutInit, b
<1>3. OutTyped
  BY <1>1, <1>2, OutConstants DEF OutTyped
<1>4. ASSUME NEW o \in Objects PROVE LogOK(buffers[o])
  BY <1>1, <1>2 DEF LogOK
<1>5. ASSUME NEW v \in Viewers PROVE ViewerOK(v, stream[v], got[v], buffers, listening)
  BY <1>2, OutConstants DEF ViewerOK
<1> QED
  BY <1>2, <1>3, <1>4, <1>5 DEF OutInv, Used

-----------------------------------------------------------------------------
(* What is kept of a list of messages.                                       *)
LEMMA KeptAppended ==
    ASSUME NEW T, NEW q \in Seq(T), NEW m \in T
    PROVE  /\ Kept(Append(q, m)) = Kept(q) \cup (IF m.kept THEN {m.seq} ELSE {})
           /\ Ascending(q) /\ (m.kept => \A x \in Kept(q) : x < m.seq) => Ascending(Append(q, m))
<1> DEFINE a == Append(q, m)
<1>1. /\ Len(q) \in Nat /\ DOMAIN q = 1 .. Len(q) /\ DOMAIN a = 1 .. Len(q) + 1
      /\ \A i \in 1 .. Len(q) : a[i] = q[i]
      /\ a[Len(q) + 1] = m
  OBVIOUS
<1> HIDE DEF a
<1>2. Kept(a) \subseteq Kept(q) \cup (IF m.kept THEN {m.seq} ELSE {})
  <2> SUFFICES ASSUME NEW i \in DOMAIN a, a[i].kept
               PROVE  a[i].seq \in Kept(q) \cup (IF m.kept THEN {m.seq} ELSE {})
    BY DEF Kept
  <2>1. CASE i \in 1 .. Len(q)
    BY <1>1, <2>1 DEF Kept
  <2>2. CASE i = Len(q) + 1
    BY <1>1, <2>2
  <2> QED
    BY <1>1, <2>1, <2>2
<1>3. Kept(q) \subseteq Kept(a)
  <2> SUFFICES ASSUME NEW i \in DOMAIN q, q[i].kept PROVE q[i].seq \in Kept(a)
    BY DEF Kept
  <2>1. i \in DOMAIN a /\ a[i] = q[i]
    BY <1>1
  <2> QED
    BY <2>1 DEF Kept
<1>4. m.kept => m.seq \in Kept(a)
  <2>1. Len(q) + 1 \in DOMAIN a
    BY <1>1
  <2> QED
    BY <1>1, <2>1 DEF Kept
<1>5. Ascending(q) /\ (m.kept => \A x \in Kept(q) : x < m.seq) => Ascending(a)
  <2> SUFFICES ASSUME Ascending(q), m.kept => \A x \in Kept(q) : x < m.seq,
                      NEW i \in DOMAIN a, NEW j \in DOMAIN a, i < j, a[i].kept, a[j].kept
               PROVE  a[i].seq < a[j].seq
    BY DEF Ascending
  <2>1. i \in 1 .. Len(q) /\ a[i] = q[i]
    BY <1>1
  <2>2. CASE j \in 1 .. Len(q)
    BY <1>1, <2>1, <2>2 DEF Ascending
  <2>3. CASE j = Len(q) + 1
    BY <1>1, <2>1, <2>3 DEF Kept
  <2> QED
    BY <1>1, <2>2, <2>3
<1>6. Kept(a) = Kept(q) \cup (IF m.kept THEN {m.seq} ELSE {})
  BY <1>2, <1>3, <1>4
<1> QED
  BY <1>5, <1>6 DEF a

LEMMA KeptTaken ==
    ASSUME NEW T, NEW q \in Seq(T), q # <<>>
    PROVE  /\ Kept(q) = Kept(Tail(q)) \cup (IF Head(q).kept THEN {Head(q).seq} ELSE {})
           /\ Ascending(q) => /\ Ascending(Tail(q))
                              /\ Head(q).kept => \A x \in Kept(Tail(q)) : Head(q).seq < x
<1> DEFINE t == Tail(q)
           h == Head(q)
<1>1. /\ Len(q) \in Nat /\ Len(q) > 0 /\ DOMAIN q = 1 .. Len(q) /\ DOMAIN t = 1 .. Len(q) - 1
      /\ \A i \in 1 .. Len(q) - 1 : t[i] = q[i + 1]
      /\ h = q[1]
  OBVIOUS
<1> HIDE DEF t, h
<1>2. Kept(q) \subseteq Kept(t) \cup (IF h.kept THEN {h.seq} ELSE {})
  <2> SUFFICES ASSUME NEW i \in DOMAIN q, q[i].kept
               PROVE  q[i].seq \in Kept(t) \cup (IF h.kept THEN {h.seq} ELSE {})
    BY DEF Kept
  <2>1. CASE i = 1
    BY <1>1, <2>1
  <2>2. CASE i # 1
    <3>1. i - 1 \in DOMAIN t /\ t[i - 1] = q[i]
      BY <1>1, <2>2
    <3> QED
      BY <3>1 DEF Kept
  <2> QED
    BY <2>1, <2>2
<1>3. Kept(t) \subseteq Kept(q)
  <2> SUFFICES ASSUME NEW i \in DOMAIN t, t[i].kept PROVE t[i].seq \in Kept(q)
    BY DEF Kept
  <2>1. i + 1 \in DOMAIN q /\ t[i] = q[i + 1]
    BY <1>1
  <2> QED
    BY <2>1 DEF Kept
<1>4. h.kept => h.seq \in Kept(q)
  <2>1. 1 \in DOMAIN q
    BY <1>1
  <2> QED
    BY <1>1, <2>1 DEF Kept
<1>5. ASSUME Ascending(q)
      PROVE  Ascending(t)
  <2> SUFFICES ASSUME NEW i \in DOMAIN t, NEW j \in DOMAIN t, i < j, t[i].kept, t[j].kept
               PROVE  t[i].seq < t[j].seq
    BY DEF Ascending
  <2>1. i + 1 \in DOMAIN q /\ j + 1 \in DOMAIN q /\ i + 1 < j + 1 /\ t[i] = q[i + 1] /\ t[j] = q[j + 1]
    BY <1>1
  <2> QED
    BY <1>5, <2>1 DEF Ascending
<1>6. ASSUME Ascending(q), h.kept, NEW x \in Kept(t)
      PROVE  h.seq < x
  <2>1. PICK i \in DOMAIN t : t[i].kept /\ t[i].seq = x
    BY DEF Kept
  <2>2. i + 1 \in DOMAIN q /\ 1 \in DOMAIN q /\ 1 < i + 1 /\ t[i] = q[i + 1]
    BY <1>1
  <2> QED
    BY <1>1, <1>6, <2>1, <2>2 DEF Ascending
<1>7. Kept(q) = Kept(t) \cup (IF h.kept THEN {h.seq} ELSE {})
  BY <1>2, <1>3, <1>4
<1> QED
  BY <1>5, <1>6, <1>7 DEF t, h

-----------------------------------------------------------------------------
(* What a push, a send and the marker do to the messages of a stream.          *)
LEMMA LogPushed ==
    ASSUME NEW b \in OutBuffer, LogOK(b), NEW c,
           c.log = Append(b.log, b.seq + 1), c.seq = b.seq + 1
    PROVE  /\ LogOK(c)
           /\ Range(c.log) = Range(b.log) \cup {b.seq + 1}
           /\ \A m \in Range(b.log) : m \in Nat /\ m < b.seq + 1
           /\ c.log # <<>> /\ c.log[Len(c.log)] = b.seq + 1
<1> DEFINE n == b.seq + 1
           l == Append(b.log, n)
<1>1. b.log \in Seq(Nat) /\ b.seq \in Nat /\ b.closed \in BOOLEAN /\ n \in Nat
  BY DEF OutBuffer
<1>2. /\ Len(b.log) \in Nat /\ DOMAIN b.log = 1 .. Len(b.log)
      /\ l \in Seq(Nat) /\ Len(l) = Len(b.log) + 1 /\ DOMAIN l = 1 .. Len(b.log) + 1
      /\ l[Len(b.log) + 1] = n
      /\ \A i \in 1 .. Len(b.log) : l[i] = b.log[i]
  BY <1>1
<1>3. \A i \in 1 .. Len(b.log) : b.log[i] \in 1 .. b.seq
  BY <1>2 DEF LogOK
<1> HIDE DEF l
<1>5. LogOK(c)
  <2>1. ASSUME NEW i \in 1 .. Len(b.log) + 1
        PROVE  l[i] \in 1 .. n
    <3>1. CASE i \in 1 .. Len(b.log)
      <4>1. l[i] = b.log[i] /\ b.log[i] \in 1 .. b.seq
        BY <1>2, <1>3, <3>1
      <4>2. b.seq \in Nat
        BY <1>1
      <4> QED
        BY <4>1, <4>2
    <3>2. CASE i = Len(b.log) + 1
      <4>1. l[i] = n /\ b.seq \in Nat
        BY <1>1, <1>2, <3>2
      <4> QED
        BY <4>1
    <3> QED
      BY <1>2, <3>1, <3>2
  <2>2. ASSUME NEW i \in 1 .. Len(b.log) + 1, NEW j \in 1 .. Len(b.log) + 1, i < j
        PROVE  l[i] < l[j]
    <3>1. i \in 1 .. Len(b.log)
      BY <1>2, <2>2
    <3>2. CASE j \in 1 .. Len(b.log)
      BY <1>2, <2>2, <3>1, <3>2 DEF LogOK
    <3>3. CASE j = Len(b.log) + 1
      <4>1. l[i] = b.log[i] /\ b.log[i] \in 1 .. b.seq /\ l[j] = n
        BY <1>2, <1>3, <3>1, <3>3
      <4>2. b.seq \in Nat
        BY <1>1
      <4> QED
        BY <4>1, <4>2
    <3> QED
      BY <1>2, <3>2, <3>3
  <2>3. c.log = l /\ c.seq = n
    BY DEF l
  <2> QED
    BY <1>2, <2>1, <2>2, <2>3 DEF LogOK
<1>6. Range(l) = Range(b.log) \cup {n}
  <2>1. ASSUME NEW i \in DOMAIN l PROVE l[i] \in Range(b.log) \cup {n}
    <3>1. CASE i \in 1 .. Len(b.log)
      BY <1>2, <3>1 DEF Range
    <3>2. CASE i = Len(b.log) + 1
      BY <1>2, <3>2
    <3> QED
      BY <1>2, <3>1, <3>2
  <2>2. ASSUME NEW i \in DOMAIN b.log PROVE b.log[i] \in Range(l)
    <3>1. i \in DOMAIN l /\ l[i] = b.log[i]
      BY <1>2
    <3> QED
      BY <3>1 DEF Range
  <2>3. n \in Range(l)
    <3>1. Len(b.log) + 1 \in DOMAIN l
      BY <1>2
    <3> QED
      BY <1>2, <3>1 DEF Range
  <2> QED
    BY <2>1, <2>2, <2>3 DEF Range
<1>7. ASSUME NEW m \in Range(b.log)
      PROVE  m \in Nat /\ m < n
  <2>1. PICK i \in 1 .. Len(b.log) : m = b.log[i]
    BY <1>2 DEF Range
  <2>2. m \in 1 .. b.seq
    BY <1>3, <2>1
  <2> QED
    BY <1>1, <2>2
<1>8. l # <<>> /\ l[Len(l)] = n
  BY <1>2
<1> QED
  BY <1>5, <1>6, <1>7, <1>8 DEF l

LEMMA PushSeen ==
    ASSUME NEW b \in OutBuffer, LogOK(b), NEW g \in Seq(OutSent), NEW q \in Seq(OutMessage),
           Contiguous(g, q, b.log), UpToDate(g, q, b.log)
    PROVE  LET n == b.seq + 1
               p == Append(q, [seq |-> n, kept |-> TRUE])
           IN Contiguous(g, p, Append(b.log, n)) /\ UpToDate(g, p, Append(b.log, n))
<1> DEFINE n == b.seq + 1
           l == Append(b.log, n)
           m == [seq |-> n, kept |-> TRUE]
           p == Append(q, m)
<1>1. n \in Nat /\ m \in OutMessage /\ m.kept /\ m.seq = n
  BY DEF OutBuffer, OutMessage
<1>2. /\ Range(l) = Range(b.log) \cup {n} /\ l # <<>> /\ l[Len(l)] = n
      /\ \A x \in Range(b.log) : x \in Nat /\ x < n
  <2> DEFINE c == [log |-> l, seq |-> n]
  <2>1. c.log = l /\ c.seq = n
    OBVIOUS
  <2> HIDE DEF c
  <2> QED
    BY <2>1, LogPushed
<1>3. Kept(g) \cup Kept(q) \subseteq Range(b.log) /\ Ascending(g) /\ Ascending(q)
      /\ \A x \in Kept(g), y \in Kept(q) : x < y
  BY DEF Contiguous
<1> HIDE DEF l, n, m
<1>4. Kept(p) = Kept(q) \cup {n} /\ Ascending(p)
  BY <1>1, <1>2, <1>3, KeptAppended
<1>5. \A x \in Kept(g), y \in Kept(p) : x < y
  BY <1>2, <1>3, <1>4
<1> HIDE DEF p
<1>6. ASSUME NEW x \in Kept(g) \cup Kept(p), NEW y \in Kept(g) \cup Kept(p), NEW k \in Range(l), x <= k, k <= y
      PROVE  k \in Kept(g) \cup Kept(p)
  <2>1. CASE k = n
    BY <1>4, <2>1
  <2>2. CASE k # n
    <3>1. k \in Range(b.log) /\ k < n /\ k \in Nat /\ x # n
      BY <1>1, <1>2, <1>6, <2>2
    <3>2. x \in Kept(g) \cup Kept(q)
      BY <1>4, <3>1
    <3> DEFINE d == Len(b.log)
    <3>3. b.log \in Seq(Nat) /\ d \in Nat /\ DOMAIN b.log = 1 .. d
      BY DEF OutBuffer
    <3>4. PICK i \in 1 .. d : b.log[i] = k
      BY <3>1, <3>3 DEF Range
    <3>5. d \in 1 .. d /\ b.log # <<>>
      BY <3>3, <3>4
    <3>6. k <= b.log[d] /\ b.log[d] \in Range(b.log)
      <4>1. b.log[d] \in Range(b.log)
        BY <3>3, <3>5 DEF Range
      <4>2. b.log[d] \in Nat
        BY <1>2, <4>1
      <4>3. i = d \/ i < d
        BY <3>3, <3>4
      <4>4. i < d => b.log[i] < b.log[d]
        BY <3>3, <3>4, <3>5 DEF LogOK
      <4> QED
        BY <3>1, <3>4, <4>1, <4>2, <4>3, <4>4
    <3>7. b.log[d] \in Kept(g) \cup Kept(q)
      BY <3>5 DEF UpToDate
    <3>8. k \in Kept(g) \cup Kept(q)
      BY <1>6, <3>1, <3>2, <3>6, <3>7 DEF Contiguous
    <3> QED
      BY <1>4, <3>8
  <2> QED
    BY <2>1, <2>2
<1>7. Contiguous(g, p, l)
  BY <1>2, <1>3, <1>4, <1>5, <1>6 DEF Contiguous
<1>8. UpToDate(g, p, l)
  BY <1>2, <1>4 DEF UpToDate
<1> QED
  BY <1>7, <1>8 DEF p, l, n, m

LEMMA PushUnseen ==
    ASSUME NEW b \in OutBuffer, LogOK(b), NEW g, NEW q, Contiguous(g, q, b.log)
    PROVE  Contiguous(g, q, Append(b.log, b.seq + 1))
<1> DEFINE n == b.seq + 1
           l == Append(b.log, n)
<1>1. Range(l) = Range(b.log) \cup {n} /\ \A x \in Range(b.log) : x \in Nat /\ x < n
  <2> DEFINE c == [log |-> l, seq |-> n]
  <2>1. c.log = l /\ c.seq = n
    OBVIOUS
  <2> HIDE DEF c
  <2> QED
    BY <2>1, LogPushed
<1>2. Kept(g) \cup Kept(q) \subseteq Range(b.log) /\ n \in Nat
  BY DEF Contiguous, OutBuffer
<1> HIDE DEF l, n
<1>3. ASSUME NEW x \in Kept(g) \cup Kept(q), NEW y \in Kept(g) \cup Kept(q), NEW k \in Range(l), x <= k, k <= y
      PROVE  k \in Kept(g) \cup Kept(q)
  <2>1. k # n
    BY <1>1, <1>2, <1>3
  <2> QED
    BY <1>1, <1>3, <2>1 DEF Contiguous
<1> QED
  BY <1>1, <1>2, <1>3 DEF Contiguous, l, n

LEMMA NothingKept ==
    ASSUME NEW g, NEW q, NEW log, NEW h, NEW p, Kept(h) = Kept(g), Kept(p) = Kept(q),
           Ascending(h), Ascending(p), Contiguous(g, q, log)
    PROVE  Contiguous(h, p, log) /\ (UpToDate(g, q, log) => UpToDate(h, p, log))
BY DEF Contiguous, UpToDate

LEMMA MessageSent ==
    ASSUME NEW g \in Seq(OutSent), NEW q \in Seq(OutMessage), q # <<>>, NEW log,
           NEW e \in OutSent, e.seq = Head(q).seq, e.kept = Head(q).kept, Contiguous(g, q, log)
    PROVE  /\ Contiguous(Append(g, e), Tail(q), log)
           /\ UpToDate(g, q, log) => UpToDate(Append(g, e), Tail(q), log)
<1> DEFINE t == Tail(q)
           h == Head(q)
           a == Append(g, e)
<1>1. /\ Ascending(g) /\ Ascending(q) /\ \A x \in Kept(g), y \in Kept(q) : x < y
  BY DEF Contiguous
<1>2. /\ Kept(q) = Kept(t) \cup (IF h.kept THEN {h.seq} ELSE {})
      /\ Ascending(t) /\ (h.kept => \A x \in Kept(t) : h.seq < x)
  BY <1>1, KeptTaken
<1>3. /\ Kept(a) = Kept(g) \cup (IF h.kept THEN {h.seq} ELSE {})
      /\ Ascending(a)
  <2>1. e.kept => \A x \in Kept(g) : x < e.seq
    BY <1>1, <1>2
  <2> QED
    BY <1>1, <2>1, KeptAppended
<1> HIDE DEF t, h, a
<1>4. Kept(a) \cup Kept(t) = Kept(g) \cup Kept(q)
  BY <1>2, <1>3
<1>5. \A x \in Kept(a), y \in Kept(t) : x < y
  BY <1>1, <1>2, <1>3
<1>6. Contiguous(a, t, log)
  <2>1. Kept(a) \cup Kept(t) \subseteq Range(log)
    BY <1>4 DEF Contiguous
  <2>2. \A x, y \in Kept(a) \cup Kept(t), m \in Range(log) :
           x <= m /\ m <= y => m \in Kept(a) \cup Kept(t)
    BY <1>4 DEF Contiguous
  <2> QED
    BY <1>2, <1>3, <1>5, <2>1, <2>2 DEF Contiguous
<1>7. UpToDate(g, q, log) => UpToDate(a, t, log)
  BY <1>4 DEF UpToDate
<1> QED
  BY <1>6, <1>7 DEF a, t

LEMMA SplitGrows ==
    ASSUME NEW g \in Seq(OutSent), NEW since \in Nat, NEW e \in OutSent, Split(g, since),
           \/ e.what = "replay" /\ e.seq <= since /\ \A i \in DOMAIN g : g[i].what = "replay"
           \/ e.what = "marker" /\ \A i \in DOMAIN g : g[i].what = "replay"
           \/ e.what = "live" /\ e.seq > since /\ \E i \in DOMAIN g : g[i].what = "marker"
    PROVE  /\ Split(Append(g, e), since)
           /\ e.what = "replay" => \A i \in DOMAIN Append(g, e) : Append(g, e)[i].what = "replay"
           /\ e.what # "replay" => \E i \in DOMAIN Append(g, e) : Append(g, e)[i].what = "marker"
<1> DEFINE a == Append(g, e)
           n == Len(g)
<1>1. /\ n \in Nat /\ DOMAIN g = 1 .. n /\ Len(a) = n + 1 /\ DOMAIN a = 1 .. n + 1
      /\ a[n + 1] = e
      /\ \A i \in 1 .. n : a[i] = g[i]
  OBVIOUS
<1>2. e.what \in {"replay", "live", "marker"}
  BY DEF OutSent
<1> HIDE DEF a, n
<1>3. e.what = "replay" => \A i \in DOMAIN a : a[i].what = "replay"
  <2> SUFFICES ASSUME e.what = "replay", NEW i \in DOMAIN a PROVE a[i].what = "replay"
    OBVIOUS
  <2>1. CASE i \in 1 .. n
    BY <1>1, <2>1
  <2>2. CASE i = n + 1
    BY <1>1, <2>2
  <2> QED
    BY <1>1, <2>1, <2>2
<1>4. e.what # "replay" => \E i \in DOMAIN a : a[i].what = "marker"
  <2>1. CASE e.what = "marker"
    <3>1. n + 1 \in DOMAIN a
      BY <1>1
    <3> QED
      BY <1>1, <2>1, <3>1
  <2>2. CASE e.what = "live"
    <3>1. PICK i \in DOMAIN g : g[i].what = "marker"
      BY <2>2
    <3>2. i \in DOMAIN a /\ a[i] = g[i]
      BY <1>1
    <3> QED
      BY <3>1, <3>2
  <2> QED
    BY <1>2, <2>1, <2>2
<1>5. ASSUME NEW i \in DOMAIN a
      PROVE  /\ a[i].what = "replay" => a[i].seq <= since
             /\ a[i].what = "live" => a[i].seq > since
  <2>1. CASE i \in 1 .. n
    BY <1>1, <2>1 DEF Split
  <2>2. CASE i = n + 1
    BY <1>1, <2>2
  <2> QED
    BY <1>1, <2>1, <2>2
<1>6. ASSUME NEW i \in DOMAIN a, a[i].what = "marker", NEW j \in 1 .. i - 1
      PROVE  a[j].what = "replay"
  <2>1. j \in 1 .. n /\ a[j] = g[j]
    BY <1>1
  <2>2. CASE i \in 1 .. n
    BY <1>1, <1>6, <2>1, <2>2 DEF Split
  <2>3. CASE i = n + 1
    BY <1>1, <1>6, <2>1, <2>3
  <2> QED
    BY <1>1, <2>2, <2>3
<1>7. ASSUME NEW i \in DOMAIN a, a[i].what = "marker", NEW j \in i + 1 .. Len(a)
      PROVE  a[j].what = "live"
  <2>1. i \in 1 .. n /\ a[i] = g[i] /\ g[i].what = "marker"
    BY <1>1, <1>7
  <2>2. CASE j \in 1 .. n
    BY <1>1, <2>1, <2>2 DEF Split
  <2>3. CASE j = n + 1
    <3>1. e.what = "live"
      BY <1>1, <2>1
    <3> QED
      BY <1>1, <2>3, <3>1
  <2> QED
    BY <1>1, <2>2, <2>3
<1>8. (\E i \in DOMAIN a : a[i].what = "live") => \E i \in DOMAIN a : a[i].what = "marker"
  BY <1>3, <1>4
<1>9. Split(a, since)
  BY <1>5, <1>6, <1>7, <1>8 DEF Split
<1> QED
  BY <1>3, <1>4, <1>9 DEF a

-----------------------------------------------------------------------------
(* A viewer whose stream stays, and one whose stream begins anew.             *)
LEMMA ViewerStays ==
    ASSUME NEW v, NEW s, s.obj \in {0} \cup Objects, NEW g, NEW bs, NEW ls, NEW cs, NEW ks, ViewerOK(v, s, g, bs, ls),
           s.obj # 0 => cs[s.obj] = bs[s.obj],
           \A o \in Objects : v \in ks[o] <=> v \in ls[o]
    PROVE  ViewerOK(v, s, g, cs, ks)
<1>1. (s.pc \in {"none", "start"} => s.obj = 0 /\ g = <<>>) /\ (s.pc \in {"marker", "run"} => s.obj # 0)
  BY DEF ViewerOK
<1>2. \A o \in Objects : v \in ks[o] => s.obj = o /\ s.pc \in {"marker", "run"}
  BY DEF ViewerOK
<1>3. ASSUME s.obj # 0
      PROVE  Used(s.obj, cs) /\ FlowOK(s, g, cs[s.obj], v \in ks[s.obj])
  <2>1. Used(s.obj, bs) /\ FlowOK(s, g, bs[s.obj], v \in ls[s.obj])
    BY <1>3 DEF ViewerOK
  <2>2. cs[s.obj] = bs[s.obj] /\ (v \in ks[s.obj] <=> v \in ls[s.obj])
    BY <1>3
  <2> QED
    BY <2>1, <2>2 DEF Used, FlowOK, QueueOK
<1> QED
  BY <1>1, <1>2, <1>3 DEF ViewerOK

LEMMA ViewerStarts ==
    ASSUME NEW v, NEW s, s.pc \in {"none", "start"}, s.obj = 0, NEW bs, NEW ls,
           \A o \in Objects : v \notin ls[o]
    PROVE  ViewerOK(v, s, <<>>, bs, ls)
BY OutConstants DEF ViewerOK

(* Steps that leave the streams and the buffers as they are.                   *)
LEMMA StreamsStay ==
    ASSUME OutInv, UNCHANGED <<buffers, listening, stream, got>>, current' \in {0, current}
    PROVE  OutInv'
<1>1. OutTyped'
  BY DEF OutInv, OutTyped
<1>2. \A o \in Objects : LogOK(buffers'[o])
  BY DEF OutInv
<1>3. current' # 0 => Used(current', buffers')
  BY DEF OutInv, Used
<1>4. \A v \in Viewers : ViewerOK(v, stream'[v], got'[v], buffers', listening')
  BY DEF OutInv
<1> QED
  BY <1>1, <1>2, <1>3, <1>4 DEF OutInv

(* One viewer's stream changes.                                              *)
LEMMA OneViewer ==
    ASSUME OutInv, NEW v \in Viewers, NEW s \in OutStreamType, NEW h \in Seq(OutSent),
           stream' = [stream EXCEPT ![v] = s], got' = [got EXCEPT ![v] = h],
           listening' \in [Objects -> SUBSET Viewers],
           \A o \in Objects, w \in Viewers : w # v => (w \in listening'[o] <=> w \in listening[o]),
           UNCHANGED <<buffers, current>>, ViewerOK(v, s, h, buffers, listening')
    PROVE  OutInv'
<1>1. /\ stream \in [Viewers -> OutStreamType] /\ got \in [Viewers -> Seq(OutSent)]
      /\ listening \in [Objects -> SUBSET Viewers]
  BY DEF OutInv, OutTyped
<1>2. /\ stream'[v] = s /\ got'[v] = h /\ \A w \in Viewers : w # v => stream'[w] = stream[w] /\ got'[w] = got[w]
      /\ stream' \in [Viewers -> OutStreamType] /\ got' \in [Viewers -> Seq(OutSent)]
  BY <1>1
<1>3. OutTyped'
  BY <1>2 DEF OutInv, OutTyped
<1>4. ASSUME NEW w \in Viewers
      PROVE  ViewerOK(w, stream'[w], got'[w], buffers', listening')
  <2>1. CASE w = v
    BY <1>2, <2>1
  <2>2. CASE w # v
    <3>1. stream'[w] = stream[w] /\ got'[w] = got[w] /\ stream[w].obj \in {0} \cup Objects
      BY <1>1, <1>2, <2>2 DEF OutStreamType
    <3>2. ViewerOK(w, stream[w], got[w], buffers, listening)
      BY DEF OutInv
    <3>3. buffers' = buffers /\ \A o \in Objects : w \in listening'[o] <=> w \in listening[o]
      BY <2>2
    <3>4. ViewerOK(w, stream[w], got[w], buffers, listening')
      BY <3>1, <3>2, <3>3, ViewerStays
    <3> QED
      BY <3>1, <3>3, <3>4
  <2> QED
    BY <2>1, <2>2
<1>5. (\A o \in Objects : LogOK(buffers'[o])) /\ (current' # 0 => Used(current', buffers'))
  BY DEF OutInv
<1> QED
  BY <1>3, <1>4, <1>5 DEF OutInv

LEMMA StreamReset ==
    ASSUME OutInv, NEW v \in Viewers, NEW s \in OutStreamType, s.pc \in {"none", "start"}, s.obj = 0,
           stream' = [stream EXCEPT ![v] = s], got' = [got EXCEPT ![v] = <<>>],
           listening' = Dropped(v), UNCHANGED <<buffers, current>>
    PROVE  OutInv'
<1>1. listening \in [Objects -> SUBSET Viewers]
  BY DEF OutInv, OutTyped
<1>2. /\ listening' \in [Objects -> SUBSET Viewers]
      /\ \A o \in Objects : v \notin listening'[o]
      /\ \A o \in Objects, w \in Viewers : w # v => (w \in listening'[o] <=> w \in listening[o])
  BY <1>1 DEF Dropped
<1>3. <<>> \in Seq(OutSent) /\ ViewerOK(v, s, <<>>, buffers, listening')
  BY <1>2, ViewerStarts
<1> QED
  BY <1>2, <1>3, OneViewer

LEMMA StreamBegins ==
    ASSUME OutInv, NEW v \in Viewers, Subscribe(v) \/ Unsubscribe(v) \/ Disconnect(v)
    PROVE  OutInv'
<1> DEFINE s == [NoStream EXCEPT !.pc = "start"]
<1>1. s \in OutStreamType /\ s.pc = "start" /\ s.obj = 0
  BY OutConstants DEF OutStreamType
<1>2. NoStream \in OutStreamType /\ NoStream.pc = "none" /\ NoStream.obj = 0
  BY OutConstants
<1>3. /\ stream' = [stream EXCEPT ![v] = s] \/ stream' = [stream EXCEPT ![v] = NoStream]
      /\ got' = [got EXCEPT ![v] = <<>>] /\ listening' = Dropped(v) /\ UNCHANGED <<buffers, current>>
  BY DEF Subscribe, Unsubscribe, Disconnect
<1> HIDE DEF s
<1> QED
  BY <1>1, <1>2, <1>3, StreamReset

LEMMA StreamBeginsAll ==
    ASSUME OutInv, NEW v \in Viewers, SubscribeAll(v)
    PROVE  OutInv'
<1> DEFINE s == [stream[v] EXCEPT !.pc = "start"]
<1>1. /\ stream[v].pc = "none" /\ stream' = [stream EXCEPT ![v].pc = "start"]
      /\ UNCHANGED <<buffers, current, listening, got>>
  BY DEF SubscribeAll
<1>2. stream \in [Viewers -> OutStreamType] /\ got \in [Viewers -> Seq(OutSent)]
      /\ listening \in [Objects -> SUBSET Viewers] /\ ViewerOK(v, stream[v], got[v], buffers, listening)
  BY DEF OutInv, OutTyped
<1>3. stream[v].obj = 0 /\ got[v] = <<>> /\ \A o \in Objects : v \notin listening[o]
  BY <1>1, <1>2 DEF ViewerOK
<1>4. s \in OutStreamType /\ s.pc = "start" /\ s.obj = 0
  BY <1>2, <1>3 DEF OutStreamType
<1>5. stream' = [stream EXCEPT ![v] = s]
  BY <1>1, <1>2
<1>6. got' = [got EXCEPT ![v] = <<>>]
  BY <1>1, <1>2, <1>3
<1>7. listening' = Dropped(v)
  <2>1. \A o \in Objects : listening[o] \ {v} = listening[o]
    BY <1>3
  <2> QED
    BY <1>1, <1>2, <2>1 DEF Dropped
<1> HIDE DEF s
<1> QED
  BY <1>1, <1>4, <1>5, <1>6, <1>7, StreamReset

-----------------------------------------------------------------------------
(* A message is offered to those who listen.                                 *)
LEMMA OfferedIs ==
    ASSUME OutInv, NEW o \in Objects, NEW m \in OutMessage, Offered(o, m)
    PROVE  /\ stream' \in [Viewers -> OutStreamType]
           /\ \A v \in Viewers : v \notin listening[o] => stream'[v] = stream[v]
           /\ \A v \in Viewers : v \in listening[o] =>
                 LET s == stream[v]  t == stream'[v]
                 IN /\ t.queue = Append(s.queue, m)
                    /\ t.pc = s.pc /\ t.obj = s.obj /\ t.left = s.left /\ t.since = s.since
                    /\ t.marked = s.marked
<1>1. ASSUME NEW v \in Viewers
      PROVE  /\ stream'[v] \in OutStreamType
             /\ v \notin listening[o] => stream'[v] = stream[v]
             /\ v \in listening[o] =>
                 /\ stream'[v].queue = Append(stream[v].queue, m)
                 /\ stream'[v].pc = stream[v].pc /\ stream'[v].obj = stream[v].obj
                 /\ stream'[v].left = stream[v].left /\ stream'[v].since = stream[v].since
                 /\ stream'[v].marked = stream[v].marked
  <2>1. stream[v] \in OutStreamType /\ stream[v].queue \in Seq(OutMessage)
    BY DEF OutInv, OutTyped, OutStreamType
  <2>2. CASE v \in listening[o]
    <3> DEFINE q == Append(stream[v].queue, m)
    <3>1. stream'[v] = [stream[v] EXCEPT !.queue = q] /\ q \in Seq(OutMessage)
      BY <2>1, <2>2 DEF Offered
    <3> HIDE DEF q
    <3>2. /\ stream'[v] \in OutStreamType /\ stream'[v].queue = q
          /\ stream'[v].pc = stream[v].pc /\ stream'[v].obj = stream[v].obj
          /\ stream'[v].left = stream[v].left /\ stream'[v].since = stream[v].since
          /\ stream'[v].marked = stream[v].marked
      BY <2>1, <3>1 DEF OutStreamType
    <3> QED
      BY <2>2, <3>2 DEF q
  <2>3. CASE v \notin listening[o]
    BY <2>1, <2>3 DEF Offered
  <2> QED
    BY <2>2, <2>3
<1>2. stream' \in [Viewers -> OutStreamType]
  BY <1>1 DEF Offered
<1> QED
  BY <1>1, <1>2

LEMMA QueueOffered ==
    ASSUME NEW s \in OutStreamType, NEW t \in OutStreamType, NEW m \in OutMessage, NEW g, QueueOK(s, TRUE),
           t.queue = Append(s.queue, m), t.pc = s.pc, t.left = s.left, t.since = s.since, t.marked = s.marked,
           NEW on \in BOOLEAN, (m = End /\ ~ on) \/ (m # End /\ m.seq > s.since)
    PROVE  QueueOK(t, on) /\ (MarkOK(s, g) => MarkOK(t, g))
<1> DEFINE n == Len(s.queue)
<1>1. /\ s.queue \in Seq(OutMessage) /\ n \in Nat /\ s.left \in Nat /\ Len(t.queue) = n + 1
      /\ \A i \in 1 .. n : t.queue[i] = s.queue[i]
      /\ t.queue[n + 1] = m
  BY DEF OutStreamType
<1>2. s.left <= n /\ \A i \in 1 .. n : s.queue[i] # End
  BY <1>1 DEF QueueOK
<1> HIDE DEF n
<1>3. t.left <= Len(t.queue)
  BY <1>1, <1>2
<1>4. \A i \in 1 .. t.left : t.queue[i].kept /\ t.queue[i].seq <= t.since
  BY <1>1, <1>2 DEF QueueOK
<1>5. ASSUME NEW i \in t.left + 1 .. Len(t.queue)
      PROVE  t.queue[i] = End \/ t.queue[i].seq > t.since
  <2>1. CASE i \in 1 .. n
    <3>1. i \in s.left + 1 .. n /\ t.queue[i] = s.queue[i]
      BY <1>1, <2>1
    <3> QED
      BY <3>1 DEF QueueOK, n
  <2>2. CASE i = n + 1
    BY <1>1, <2>2
  <2> QED
    BY <1>1, <2>1, <2>2
<1>6. ASSUME NEW i \in 1 .. Len(t.queue), t.queue[i] = End
      PROVE  i = Len(t.queue) /\ ~ on
  <2>1. i \notin 1 .. n
    BY <1>1, <1>2, <1>6
  <2>2. i = n + 1
    BY <1>1, <2>1
  <2> QED
    BY <1>1, <1>6, <2>2
<1>7. MarkOK(s, g) => MarkOK(t, g)
  BY DEF MarkOK
<1> QED
  BY <1>3, <1>4, <1>5, <1>6, <1>7 DEF QueueOK

(* A push and the close: the buffer o becomes c, and m is offered.              *)
LEMMA BufferChanges ==
    ASSUME OutInv, NEW o \in Objects, Used(o, buffers), NEW c \in OutBuffer, LogOK(c), buffers[o].seq <= c.seq,
           buffers' = [buffers EXCEPT ![o] = c], NEW m \in OutMessage, Offered(o, m),
           NEW on \in BOOLEAN, on <=> m # End, m # End => m.seq > buffers[o].seq,
           listening' = IF on THEN listening ELSE [listening EXCEPT ![o] = {}],
           UNCHANGED <<current, got>>,
           \A g \in Seq(OutSent), q \in Seq(OutMessage) : Contiguous(g, q, buffers[o].log) =>
               /\ Contiguous(g, q, c.log)
               /\ UpToDate(g, q, buffers[o].log) =>
                     Contiguous(g, Append(q, m), c.log) /\ UpToDate(g, Append(q, m), c.log)
    PROVE  OutInv'
<1>1. /\ buffers \in [Objects -> OutBuffer] /\ stream \in [Viewers -> OutStreamType]
      /\ got \in [Viewers -> Seq(OutSent)] /\ listening \in [Objects -> SUBSET Viewers]
      /\ current \in {0} \cup Objects /\ buffers[o].seq \in Nat /\ c.seq \in Nat
  BY DEF OutInv, OutTyped, OutBuffer
<1>2. /\ buffers' \in [Objects -> OutBuffer] /\ buffers'[o] = c
      /\ \A x \in Objects : x # o => buffers'[x] = buffers[x]
  BY <1>1
<1>3. /\ listening' \in [Objects -> SUBSET Viewers]
      /\ \A x \in Objects, v \in Viewers : v \in listening'[x] <=> v \in listening[x] /\ (x = o => on)
  <2>1. CASE on
    BY <1>1, <2>1
  <2>2. CASE ~ on
    BY <1>1, <2>2
  <2> QED
    BY <2>1, <2>2
<1>4. \A x \in Objects : Used(x, buffers) => Used(x, buffers')
  BY <1>1, <1>2 DEF Used, OutBuffer
<1>5. OutTyped'
  BY <1>1, <1>2, <1>3, OfferedIs DEF OutTyped
<1>6. (\A x \in Objects : LogOK(buffers'[x])) /\ (current' # 0 => Used(current', buffers'))
  BY <1>1, <1>2, <1>4 DEF OutInv
<1>7. ASSUME NEW v \in Viewers
      PROVE  ViewerOK(v, stream'[v], got'[v], buffers', listening')
  <2> DEFINE s == stream[v]
             t == stream'[v]
             g == got[v]
  <2>1. s \in OutStreamType /\ s.obj \in {0} \cup Objects /\ s.queue \in Seq(OutMessage) /\ g \in Seq(OutSent)
        /\ s.since \in Nat
    BY <1>1 DEF OutStreamType
  <2>2. ViewerOK(v, s, g, buffers, listening)
    BY DEF OutInv
  <2>3. got'[v] = g
    OBVIOUS
  <2>4. CASE v \in listening[o]
    <3>1. s.obj = o /\ s.pc \in {"marker", "run"} /\ FlowOK(s, g, buffers[o], TRUE)
      BY <2>2, <2>4, OutConstants DEF ViewerOK
    <3>2. /\ t \in OutStreamType /\ t.queue = Append(s.queue, m) /\ t.pc = s.pc /\ t.obj = o
          /\ t.left = s.left /\ t.since = s.since /\ t.marked = s.marked
      <4>1. /\ t.queue = Append(s.queue, m) /\ t.pc = s.pc /\ t.obj = s.obj
            /\ t.left = s.left /\ t.since = s.since /\ t.marked = s.marked
        BY <2>4, OfferedIs
      <4>2. t \in OutStreamType
        BY OfferedIs
      <4> QED
        BY <3>1, <4>1, <4>2
    <3> HIDE DEF s, t, g
    <3>3. (m = End /\ ~ on) \/ (m # End /\ m.seq > s.since)
      <4>1. s.since <= buffers[o].seq /\ m.seq \in Nat
        BY <3>1 DEF FlowOK, OutMessage
      <4>2. m # End => m.seq > s.since
        BY <1>1, <2>1, <4>1
      <4>3. CASE m = End
        <5>1. ~ on
          BY <4>3
        <5> QED
          BY <4>3, <5>1
      <4>4. CASE m # End
        BY <4>2, <4>4
      <4> QED
        BY <4>3, <4>4
    <3>4. QueueOK(t, on) /\ MarkOK(t, g)
      BY <2>1, <3>1, <3>2, <3>3, QueueOffered DEF FlowOK
    <3>5. Contiguous(g, t.queue, c.log) /\ UpToDate(g, t.queue, c.log)
      BY <2>1, <3>1, <3>2 DEF FlowOK
    <3>6. FlowOK(t, g, c, on)
      BY <1>1, <2>1, <3>1, <3>2, <3>4, <3>5 DEF FlowOK
    <3>7. v \in listening'[o] <=> on
      BY <1>3, <2>4
    <3>8. \A x \in Objects : v \in listening'[x] => t.obj = x /\ t.pc \in {"marker", "run"}
      BY <1>3, <2>2, <3>1, <3>2 DEF ViewerOK
    <3>9. Used(o, buffers') /\ FlowOK(t, g, buffers'[o], v \in listening'[o])
      <4>1. (v \in listening'[o]) = on
        BY <3>7
      <4> QED
        BY <1>2, <1>4, <3>6, <4>1
    <3>10. ViewerOK(v, t, g, buffers', listening')
      BY <3>1, <3>2, <3>8, <3>9, OutConstants DEF ViewerOK
    <3> QED
      BY <2>3, <3>10 DEF t, g
  <2>5. CASE v \notin listening[o]
    <3>1. t = s /\ \A x \in Objects : v \in listening'[x] <=> v \in listening[x]
      BY <1>3, <2>5, OfferedIs
    <3> HIDE DEF s, t, g
    <3>2. CASE s.obj # o
      <4>1. s.obj # 0 => buffers'[s.obj] = buffers[s.obj]
        BY <1>2, <2>1, <3>2
      <4>2. ViewerOK(v, s, g, buffers', listening')
        BY <2>1, <2>2, <3>1, <4>1, ViewerStays
      <4> QED
        BY <2>3, <3>1, <4>2 DEF s, t, g
    <3>3. CASE s.obj = o
      <4>1. FlowOK(s, g, buffers[o], v \in listening[o]) /\ o # 0
        BY <2>2, <3>3, OutConstants DEF ViewerOK
      <4>2. (v \in listening[o]) = FALSE /\ (v \in listening'[o]) = FALSE
        BY <2>5, <3>1
      <4>3. FlowOK(s, g, c, FALSE)
        <5>1. FlowOK(s, g, buffers[o], FALSE)
          BY <4>1, <4>2
        <5>2. Contiguous(g, s.queue, c.log)
          BY <2>1, <5>1 DEF FlowOK
        <5>3. s.since <= c.seq
          <6>1. s.since <= buffers[o].seq
            BY <5>1 DEF FlowOK
          <6> QED
            BY <1>1, <2>1, <6>1
        <5>4. QueueOK(s, FALSE) /\ MarkOK(s, g) /\ Split(g, s.since)
          BY <5>1 DEF FlowOK
        <5> QED
          BY <5>2, <5>3, <5>4 DEF FlowOK
      <4>4. Used(o, buffers') /\ FlowOK(s, g, buffers'[o], v \in listening'[o])
        BY <1>2, <1>4, <4>2, <4>3
      <4>5. s.pc \notin {"none", "start"} /\ \A x \in Objects : v \in listening'[x] => s.obj = x /\ s.pc \in {"marker", "run"}
        BY <2>2, <3>1, <3>3, <4>1 DEF ViewerOK
      <4>6. ViewerOK(v, s, g, buffers', listening')
        BY <3>3, <4>1, <4>4, <4>5 DEF ViewerOK
      <4> QED
        BY <2>3, <3>1, <4>6 DEF s, t, g
    <3> QED
      BY <3>2, <3>3
  <2> QED
    BY <2>4, <2>5
<1> QED
  BY <1>5, <1>6, <1>7 DEF OutInv

LEMMA BufferWith ==
    ASSUME NEW b \in OutBuffer, NEW n \in Nat, NEW l \in Seq(Nat)
    PROVE  LET x == [b EXCEPT !.seq = n]
               y == [x EXCEPT !.log = l]
               z == [b EXCEPT !.closed = TRUE]
           IN /\ x \in OutBuffer /\ x.log = b.log /\ x.seq = n
              /\ y \in OutBuffer /\ y.log = l /\ y.seq = n
              /\ z \in OutBuffer /\ z.log = b.log /\ z.seq = b.seq
<1> DEFINE x == [b EXCEPT !.seq = n]
           y == [x EXCEPT !.log = l]
           z == [b EXCEPT !.closed = TRUE]
<1>1. x \in OutBuffer /\ x.log = b.log /\ x.seq = n
  BY DEF OutBuffer
<1> HIDE DEF x
<1>2. y \in OutBuffer /\ y.log = l /\ y.seq = n
  BY <1>1 DEF OutBuffer
<1>3. z \in OutBuffer /\ z.log = b.log /\ z.seq = b.seq
  BY DEF OutBuffer
<1> HIDE DEF y, z
<1> QED
  BY <1>1, <1>2, <1>3 DEF x, y, z

LEMMA BuffersPush ==
    ASSUME OutInv, NEW o \in Objects, Used(o, buffers), PushText(o) \/ PushEphemeral(o) \/ Close(o)
    PROVE  OutInv'
<1> DEFINE b == buffers[o]
           n == b.seq + 1
<1>1. /\ buffers \in [Objects -> OutBuffer] /\ b \in OutBuffer /\ LogOK(b) /\ b.seq \in Nat /\ b.log \in Seq(Nat)
      /\ b.closed \in BOOLEAN /\ listening \in [Objects -> SUBSET Viewers]
  BY DEF OutInv, OutTyped, OutBuffer
<1>4. n \in Nat /\ b.seq <= n /\ b.seq < n /\ b.seq <= b.seq /\ Append(b.log, n) \in Seq(Nat)
  BY <1>1
<1>2. ASSUME PushText(o)
      PROVE  OutInv'
  <2> DEFINE x == [b EXCEPT !.seq = n]
             c == [x EXCEPT !.log = Append(b.log, n)]
             m == [seq |-> n, kept |-> TRUE]
  <2>1. buffers' = [buffers EXCEPT ![o] = c]
    BY <1>1, <1>2 DEF PushText
  <2>2. Offered(o, m) /\ UNCHANGED <<current, got, listening>>
    BY <1>2 DEF PushText
  <2>3. c \in OutBuffer /\ c.log = Append(b.log, n) /\ c.seq = n
    <3> DEFINE l == Append(b.log, n)
    <3>1. x \in OutBuffer /\ x.log = b.log /\ x.seq = n
      <4>1. n \in Nat /\ b \in OutBuffer
        BY <1>1, <1>4
      <4> HIDE DEF n, b
      <4> QED
        BY <4>1 DEF OutBuffer
    <3>2. l \in Seq(Nat)
      BY <1>4
    <3> HIDE DEF x, l, n
    <3> QED
      BY <3>1, <3>2 DEF OutBuffer, l
  <2>4. m \in OutMessage /\ m.seq = n /\ m.kept
    BY <1>4 DEF OutMessage
  <2> HIDE DEF c
  <2>5. LogOK(c) /\ b.seq <= c.seq
    BY <1>1, <1>4, <2>3, LogPushed
  <2>6. ASSUME NEW g \in Seq(OutSent), NEW q \in Seq(OutMessage), Contiguous(g, q, b.log)
        PROVE  /\ Contiguous(g, q, c.log)
               /\ UpToDate(g, q, b.log) =>
                     Contiguous(g, Append(q, m), c.log) /\ UpToDate(g, Append(q, m), c.log)
    BY <1>1, <2>3, <2>6, PushSeen, PushUnseen
  <2>7. m # End /\ m.seq > b.seq
    BY <1>1, <1>4, <2>4, OutConstants
  <2> HIDE DEF m, n
  <2> QED
    BY <1>1, <2>1, <2>2, <2>3, <2>4, <2>5, <2>6, <2>7, BufferChanges
<1>3. ASSUME PushEphemeral(o) \/ Close(o)
      PROVE  OutInv'
  <2>1. PICK c \in OutBuffer, m \in OutMessage :
           /\ buffers' = [buffers EXCEPT ![o] = c] /\ c.log = b.log /\ b.seq <= c.seq /\ Offered(o, m) /\ ~ m.kept
           /\ m # End => m.seq > b.seq
           /\ listening' = IF m # End THEN listening ELSE [listening EXCEPT ![o] = {}]
    <3>1. CASE PushEphemeral(o)
      <4> DEFINE c == [b EXCEPT !.seq = n]
                 m == [seq |-> n, kept |-> FALSE]
      <4>1. buffers' = [buffers EXCEPT ![o] = c] /\ Offered(o, m) /\ listening' = listening
        BY <1>1, <3>1 DEF PushEphemeral
      <4>2. c \in OutBuffer /\ c.log = b.log /\ b.seq <= c.seq
        <5>1. n \in Nat /\ b \in OutBuffer
          BY <1>1, <1>4
        <5> HIDE DEF n, b
        <5>2. c \in OutBuffer /\ c.log = b.log /\ c.seq = n
          BY <5>1 DEF OutBuffer
        <5> HIDE DEF c
        <5> QED
          BY <1>4, <5>2
      <4>3. m \in OutMessage /\ m # End /\ m.seq > b.seq /\ ~ m.kept
        BY <1>1 DEF OutMessage, End
      <4> HIDE DEF c, m
      <4> QED
        BY <4>1, <4>2, <4>3
    <3>2. CASE Close(o)
      <4> DEFINE c == [b EXCEPT !.closed = TRUE]
      <4>1. buffers' = [buffers EXCEPT ![o] = c] /\ Offered(o, End) /\ listening' = [listening EXCEPT ![o] = {}]
        BY <1>1, <3>2 DEF Close
      <4>2. c \in OutBuffer /\ c.log = b.log /\ b.seq <= c.seq
        BY <1>1, <1>4, BufferWith
      <4> HIDE DEF c
      <4> QED
        BY <4>1, <4>2, OutConstants
    <3> QED
      BY <1>3, <3>1, <3>2
  <2>2. UNCHANGED <<current, got>>
    BY <1>3 DEF PushEphemeral, Close
  <2>3. LogOK(c)
    <3>1. c.seq \in Nat /\ \A i \in DOMAIN b.log : b.log[i] \in 1 .. b.seq
      BY <1>1 DEF OutBuffer, LogOK
    <3>2. \A i \in DOMAIN b.log : b.log[i] \in 1 .. c.seq
      BY <1>1, <2>1, <3>1
    <3> QED
      BY <1>1, <2>1, <3>2 DEF LogOK
  <2>4. ASSUME NEW g \in Seq(OutSent), NEW q \in Seq(OutMessage), Contiguous(g, q, b.log)
        PROVE  /\ Contiguous(g, q, c.log)
               /\ UpToDate(g, q, b.log) =>
                     Contiguous(g, Append(q, m), c.log) /\ UpToDate(g, Append(q, m), c.log)
    <3>1. Ascending(g) /\ Ascending(q)
      BY <2>4 DEF Contiguous
    <3>2. Kept(Append(q, m)) = Kept(q) /\ Ascending(Append(q, m))
      <4>1. ~ m.kept /\ m \in OutMessage
        BY <2>1
      <4>2. Kept(Append(q, m)) = Kept(q) \cup (IF m.kept THEN {m.seq} ELSE {})
        BY <4>1, KeptAppended
      <4>3. Ascending(Append(q, m))
        BY <3>1, <4>1, KeptAppended
      <4> QED
        BY <4>1, <4>2, <4>3
    <3> QED
      BY <2>1, <2>4, <3>1, <3>2, NothingKept
  <2> DEFINE on == (m # End)
  <2>5. on \in BOOLEAN /\ (on <=> m # End) /\ listening' = IF on THEN listening ELSE [listening EXCEPT ![o] = {}]
    BY <2>1
  <2> HIDE DEF on
  <2> QED
    BY <1>1, <2>1, <2>2, <2>3, <2>4, <2>5, BufferChanges
<1> QED
  BY <1>2, <1>3

LEMMA SessionRestores ==
    ASSUME OutInv, Restore
    PROVE  OutInv'
<1>1. PICK o \in Objects \ {1} :
         /\ buffers[o].seq = 0 /\ buffers[o - 1].seq > 0
         /\ buffers' = [buffers EXCEPT ![o] = [buffers[o - 1] EXCEPT !.closed = FALSE]]
         /\ current' = o
  BY DEF Restore
<1> DEFINE c == [buffers[o - 1] EXCEPT !.closed = FALSE]
<1>2. o - 1 \in Objects
  BY OutputAssumption DEF Objects
<1>3. /\ buffers \in [Objects -> OutBuffer] /\ stream \in [Viewers -> OutStreamType] /\ LogOK(buffers[o - 1])
      /\ got \in [Viewers -> Seq(OutSent)] /\ listening \in [Objects -> SUBSET Viewers]
  BY <1>2 DEF OutInv, OutTyped
<1>4. c \in OutBuffer /\ c.log = buffers[o - 1].log /\ c.seq = buffers[o - 1].seq
  BY <1>2, <1>3 DEF OutBuffer
<1> HIDE DEF c
<1>5. LogOK(c)
  BY <1>3, <1>4 DEF LogOK
<1>6. buffers' = [buffers EXCEPT ![o] = c] /\ UNCHANGED <<listening, stream, got>>
  BY <1>1 DEF Restore, c
<1>7. buffers' \in [Objects -> OutBuffer] /\ buffers'[o] = c /\ \A x \in Objects : x # o => buffers'[x] = buffers[x]
  BY <1>3, <1>4, <1>6
<1>8. OutTyped'
  BY <1>1, <1>3, <1>6, <1>7 DEF OutTyped
<1>9. (\A x \in Objects : LogOK(buffers'[x])) /\ (current' # 0 => Used(current', buffers'))
  BY <1>1, <1>4, <1>5, <1>7 DEF OutInv, Used
<1>10. ASSUME NEW v \in Viewers
       PROVE  ViewerOK(v, stream'[v], got'[v], buffers', listening')
  <2>1. ViewerOK(v, stream[v], got[v], buffers, listening) /\ stream[v].obj \in {0} \cup Objects
    BY <1>3 DEF OutInv, OutStreamType
  <2>2. stream[v].obj # o
    BY <1>1, <2>1, OutConstants DEF ViewerOK, Used
  <2>3. stream[v].obj # 0 => buffers'[stream[v].obj] = buffers[stream[v].obj]
    BY <1>7, <2>1, <2>2
  <2>4. ViewerOK(v, stream[v], got[v], buffers', listening)
    BY <2>1, <2>3, ViewerStays
  <2> QED
    BY <1>6, <2>4
<1> QED
  BY <1>8, <1>9, <1>10 DEF OutInv

-----------------------------------------------------------------------------
(* A stream begins with the history there is.                                *)
LEMMA TextHistoryIs ==
    ASSUME NEW o \in Objects, buffers[o] \in OutBuffer
    PROVE  \E a \in Nat :
              LET log == buffers[o].log
                  h == TextHistory(o)
              IN /\ h \in Seq(Nat) /\ a >= 1 /\ Len(h) = Len(log) - a + 1
                 /\ \A i \in 1 .. Len(h) : h[i] = log[a + i - 1]
                 /\ log # <<>> => a <= Len(log)
<1> DEFINE log == buffers[o].log
           k == Len(log)
           a == IF k > HistoryCap THEN k - HistoryCap + 1 ELSE 1
           h == SubSeq(log, a, k)
<1>1. log \in Seq(Nat) /\ k \in Nat /\ DOMAIN log = 1 .. k
  BY DEF OutBuffer
<1>2. HistoryCap \in Nat /\ HistoryCap > 0
  BY OutConstants
<1>3. TextHistory(o) = h
  BY DEF TextHistory
<1> HIDE DEF log
<1>4. a \in Nat /\ a >= 1 /\ a <= k + 1 /\ (k > 0 => a <= k)
  BY <1>1, <1>2
<1>5. log # <<>> => k > 0
  BY <1>1
<1> HIDE DEF a
<1>6. ASSUME NEW i \in a .. k
      PROVE  log[i] \in Nat
  <2>1. i \in 1 .. k
    BY <1>1, <1>4
  <2> HIDE DEF log, k
  <2> QED
    BY <1>1, <2>1
<1> HIDE DEF k
<1>7. h \in Seq(Nat) /\ Len(h) = k - a + 1 /\ \A i \in 1 .. k - a + 1 : h[i] = log[a + i - 1]
  <2>1. a \in Int /\ k \in Int
    BY <1>1, <1>4
  <2>2. h \in Seq(Nat) /\ Len(h) = (IF a <= k THEN k - a + 1 ELSE 0)
        /\ \A i \in 1 .. k - a + 1 : h[i] = log[a + i - 1]
    BY <1>6, <2>1, SubSeqProperties
  <2>3. (IF a <= k THEN k - a + 1 ELSE 0) = k - a + 1
    BY <1>1, <1>4
  <2> QED
    BY <2>2, <2>3
<1> QED
  BY <1>3, <1>4, <1>5, <1>7 DEF log, k

LEMMA ReplayIs ==
    ASSUME NEW b \in OutBuffer, LogOK(b), NEW h \in Seq(Nat), NEW a \in Nat, a >= 1,
           Len(h) = Len(b.log) - a + 1, \A i \in 1 .. Len(h) : h[i] = b.log[a + i - 1],
           b.log # <<>> => a <= Len(b.log)
    PROVE  LET q == [i \in DOMAIN h |-> [seq |-> h[i], kept |-> TRUE]]
           IN /\ q \in Seq(OutMessage) /\ Len(q) = Len(h)
              /\ \A i \in 1 .. Len(h) : q[i].kept /\ q[i].seq <= b.seq
              /\ Contiguous(<<>>, q, b.log) /\ UpToDate(<<>>, q, b.log)
<1> DEFINE q == [i \in DOMAIN h |-> [seq |-> h[i], kept |-> TRUE]]
           n == Len(h)
           k == Len(b.log)
<1>1. n \in Nat /\ k \in Nat /\ DOMAIN h = 1 .. n /\ b.log \in Seq(Nat) /\ DOMAIN b.log = 1 .. k /\ n = k - a + 1
  BY DEF OutBuffer
<1>2. q \in Seq(OutMessage) /\ Len(q) = n /\ DOMAIN q = 1 .. n
  <2>1. \A i \in 1 .. n : [seq |-> h[i], kept |-> TRUE] \in OutMessage
    <3>1. \A i \in DOMAIN h : h[i] \in Nat
      OBVIOUS
    <3> HIDE DEF n, k
    <3> QED
      BY <1>1, <3>1 DEF OutMessage
  <2>2. q = [i \in 1 .. n |-> [seq |-> h[i], kept |-> TRUE]]
    BY <1>1
  <2>3. n \in Nat
    BY <1>1
  <2> HIDE DEF n
  <2>4. q \in [1 .. n -> OutMessage]
    BY <2>1, <2>2
  <2> HIDE DEF q
  <2> QED
    BY <2>3, <2>4
<1>3. \A i \in 1 .. n : q[i].kept /\ q[i].seq = h[i]
  BY <1>1
<1> HIDE DEF q, n
<1>4. ASSUME NEW i \in 1 .. n
      PROVE  a + i - 1 \in 1 .. k /\ q[i].seq = b.log[a + i - 1]
  <2>1. a + i - 1 \in 1 .. k
    BY <1>1
  <2> QED
    BY <1>3, <2>1 DEF n
<1>5. Kept(q) = {b.log[j] : j \in a .. k}
  <2>1. ASSUME NEW x \in Kept(q) PROVE x \in {b.log[j] : j \in a .. k}
    <3>1. PICK i \in 1 .. n : x = q[i].seq
      BY <1>2 DEF Kept
    <3>2. a + i - 1 \in a .. k
      BY <1>1, <1>4
    <3> QED
      BY <1>4, <3>1, <3>2
  <2>2. ASSUME NEW j \in a .. k PROVE b.log[j] \in Kept(q)
    <3>1. j - a + 1 \in 1 .. n /\ a + (j - a + 1) - 1 = j
      <4>1. j \in Nat /\ a <= j /\ j <= k /\ k \in Nat /\ n = k - a + 1
        BY <1>1
      <4> HIDE DEF n, k
      <4> QED
        BY <4>1
    <3>2. q[j - a + 1].seq = b.log[j] /\ q[j - a + 1].kept
      BY <1>3, <1>4, <3>1
    <3> QED
      BY <1>2, <3>1, <3>2 DEF Kept
  <2> QED
    BY <2>1, <2>2
<1>6. Kept(<<>>) = {} /\ Ascending(<<>>)
  BY DEF Kept, Ascending
<1>7. Ascending(q)
  <2> SUFFICES ASSUME NEW i \in 1 .. n, NEW j \in 1 .. n, i < j PROVE q[i].seq < q[j].seq
    BY <1>2 DEF Ascending
  <2>1. a + i - 1 < a + j - 1
    BY <1>1
  <2> QED
    BY <1>1, <1>4, <2>1 DEF LogOK
<1>8. a .. k \subseteq 1 .. k
  BY <1>1
<1>9. Kept(q) \subseteq Range(b.log)
  BY <1>1, <1>5, <1>8 DEF Range
<1>10. ASSUME NEW x \in Kept(q), NEW m \in Range(b.log), x <= m
       PROVE  m \in Kept(q)
  <2>1. PICK j \in a .. k : b.log[j] = x
    BY <1>5
  <2>2. PICK i \in 1 .. k : b.log[i] = m
    BY <1>1 DEF Range
  <2>3. j \in 1 .. k /\ b.log[i] \in Nat /\ b.log[j] \in Nat
    <3>1. j \in 1 .. k
      BY <1>8
    <3>2. \A d \in 1 .. k : b.log[d] \in 1 .. b.seq
      BY <1>1 DEF LogOK
    <3>3. b.seq \in Nat
      BY DEF OutBuffer
    <3> QED
      BY <3>1, <3>2, <3>3
  <2>4. ~ i < j
    <3> SUFFICES ASSUME i < j PROVE FALSE
      OBVIOUS
    <3>1. b.log[i] < b.log[j]
      BY <1>1, <2>3 DEF LogOK
    <3> QED
      BY <1>10, <2>1, <2>2, <2>3, <3>1
  <2>5. i \in a .. k
    BY <1>1, <2>4
  <2> QED
    BY <1>5, <2>2, <2>5
<1>11. Contiguous(<<>>, q, b.log)
  BY <1>6, <1>7, <1>9, <1>10 DEF Contiguous
<1>12. UpToDate(<<>>, q, b.log)
  <2> SUFFICES ASSUME b.log # <<>> PROVE b.log[k] \in Kept(q)
    BY DEF UpToDate
  <2>1. k \in a .. k
    BY <1>1
  <2> QED
    BY <1>5, <2>1
<1>13. \A i \in 1 .. n : q[i].kept /\ q[i].seq <= b.seq
  <2> SUFFICES ASSUME NEW i \in 1 .. n PROVE q[i].kept /\ q[i].seq <= b.seq
    OBVIOUS
  <2>1. q[i].kept /\ q[i].seq = b.log[a + i - 1] /\ a + i - 1 \in DOMAIN b.log
    BY <1>1, <1>3, <1>4
  <2>2. q[i].seq \in 1 .. b.seq
    BY <2>1 DEF LogOK
  <2>3. b.seq \in Nat
    BY DEF OutBuffer
  <2> QED
    BY <2>1, <2>2, <2>3
<1> QED
  BY <1>2, <1>11, <1>12, <1>13 DEF q, n

LEMMA ReplayEnds ==
    ASSUME NEW q \in Seq(OutMessage), NEW log, Contiguous(<<>>, q, log)
    PROVE  Contiguous(<<>>, Append(q, End), log)
<1>1. Ascending(q) /\ Ascending(<<>>)
  BY DEF Contiguous
<1>2. Kept(Append(q, End)) = Kept(q) \cup (IF End.kept THEN {End.seq} ELSE {})
  BY OutConstants, KeptAppended
<1>3. Ascending(Append(q, End)) /\ Kept(Append(q, End)) = Kept(q)
  BY <1>1, <1>2, OutConstants, KeptAppended
<1> QED
  BY <1>1, <1>3, NothingKept

LEMMA FlowStarts ==
    ASSUME NEW b \in OutBuffer, NEW q \in Seq(OutMessage), NEW on \in BOOLEAN, NEW s \in OutStreamType,
           \A i \in 1 .. Len(q) : q[i].kept /\ q[i].seq <= b.seq,
           Contiguous(<<>>, q, b.log), UpToDate(<<>>, q, b.log),
           s.queue = IF on THEN q ELSE Append(q, End), s.left = Len(q), s.since = b.seq, ~ s.marked,
           s.pc = IF Len(q) = 0 THEN "marker" ELSE "run"
    PROVE  FlowOK(s, <<>>, b, on)
<1> DEFINE n == Len(q)
           p == s.queue
<1>1. n \in Nat /\ b.seq \in Nat /\ s.left = n
  BY DEF OutBuffer
<1>2. /\ Len(p) = IF on THEN n ELSE n + 1
      /\ \A i \in 1 .. n : p[i] = q[i]
      /\ ~ on => p[n + 1] = End
  <2>1. CASE on
    BY <2>1
  <2>2. CASE ~ on
    BY <2>2, OutConstants
  <2> QED
    BY <2>1, <2>2
<1>3. ~ End.kept
  BY OutConstants
<1>4. s.left <= Len(p)
  BY <1>1, <1>2
<1>5. \A i \in 1 .. s.left : p[i].kept /\ p[i].seq <= s.since
  BY <1>1, <1>2
<1>6. \A i \in s.left + 1 .. Len(p) : p[i] = End \/ p[i].seq > s.since
  BY <1>1, <1>2
<1>7. ASSUME NEW i \in 1 .. Len(p), p[i] = End
      PROVE  i = Len(p) /\ ~ on
  <2>1. i \notin 1 .. n
    BY <1>2, <1>3, <1>7
  <2> QED
    BY <1>1, <1>2, <2>1
<1>8. QueueOK(s, on)
  BY <1>4, <1>5, <1>6, <1>7 DEF QueueOK
<1>9. MarkOK(s, <<>>)
  BY <1>1 DEF MarkOK
<1>10. Split(<<>>, s.since)
  BY DEF Split
<1>11. Contiguous(<<>>, p, b.log)
  <2>1. CASE on
    BY <2>1
  <2>2. CASE ~ on
    BY <2>2, ReplayEnds
  <2> QED
    BY <2>1, <2>2
<1>12. on => UpToDate(<<>>, p, b.log)
  OBVIOUS
<1>13. s.since <= b.seq
  BY <1>1
<1> QED
  BY <1>8, <1>9, <1>10, <1>11, <1>12, <1>13 DEF FlowOK

(* A message is taken from the queue.                                        *)
LEMMA QueueTaken ==
    ASSUME NEW s \in OutStreamType, NEW t \in OutStreamType, NEW on \in BOOLEAN, QueueOK(s, on), s.queue # <<>>,
           t.queue = Tail(s.queue), t.since = s.since, t.left = IF s.left > 0 THEN s.left - 1 ELSE 0
    PROVE  QueueOK(t, on)
<1> DEFINE n == Len(s.queue)
<1>1. /\ n \in Nat /\ n > 0 /\ s.left \in Nat /\ Len(t.queue) = n - 1
      /\ \A i \in 1 .. n - 1 : t.queue[i] = s.queue[i + 1]
  BY DEF OutStreamType
<1>2. /\ s.left <= n
      /\ \A i \in 1 .. s.left : s.queue[i].kept /\ s.queue[i].seq <= s.since
      /\ \A i \in s.left + 1 .. n : s.queue[i] = End \/ s.queue[i].seq > s.since
      /\ \A i \in 1 .. n : s.queue[i] = End => i = n /\ ~ on
  BY DEF QueueOK
<1> HIDE DEF n
<1>3. t.left <= Len(t.queue)
  BY <1>1, <1>2
<1>4. ASSUME NEW i \in 1 .. t.left
      PROVE  t.queue[i].kept /\ t.queue[i].seq <= t.since
  <2>1. i + 1 \in 1 .. s.left /\ i \in 1 .. n - 1
    BY <1>1, <1>2
  <2> QED
    BY <1>1, <1>2, <2>1
<1>5. ASSUME NEW i \in t.left + 1 .. Len(t.queue)
      PROVE  t.queue[i] = End \/ t.queue[i].seq > t.since
  <2>1. i + 1 \in s.left + 1 .. n /\ i \in 1 .. n - 1
    BY <1>1, <1>2
  <2> QED
    BY <1>1, <1>2, <2>1
<1>6. ASSUME NEW i \in 1 .. Len(t.queue), t.queue[i] = End
      PROVE  i = Len(t.queue) /\ ~ on
  <2>1. i + 1 \in 1 .. n /\ s.queue[i + 1] = End
    BY <1>1, <1>6
  <2>2. i + 1 = n /\ ~ on
    BY <1>2, <2>1
  <2> QED
    BY <1>1, <2>2
<1> QED
  BY <1>3, <1>4, <1>5, <1>6 DEF QueueOK

LEMMA FlowSends ==
    ASSUME NEW b \in OutBuffer, NEW s \in OutStreamType, NEW t \in OutStreamType, NEW g \in Seq(OutSent),
           NEW on \in BOOLEAN, NEW e \in OutSent, FlowOK(s, g, b, on),
           s.pc = "run", s.queue # <<>>, Head(s.queue) # End,
           t.queue = Tail(s.queue), t.since = s.since, t.left = IF s.left > 0 THEN s.left - 1 ELSE 0,
           t.marked = s.marked, t.pc = IF t.left = 0 /\ ~ s.marked THEN "marker" ELSE "run",
           e.what = IF s.left > 0 THEN "replay" ELSE "live",
           e.seq = Head(s.queue).seq, e.kept = Head(s.queue).kept
    PROVE  FlowOK(t, Append(g, e), b, on)
<1> DEFINE h == Append(g, e)
<1>1. /\ s.queue \in Seq(OutMessage) /\ s.left \in Nat /\ s.since \in Nat /\ Len(s.queue) \in Nat
      /\ Len(s.queue) > 0 /\ Head(s.queue) = s.queue[1]
  BY DEF OutStreamType
<1>2. QueueOK(s, on) /\ MarkOK(s, g) /\ Split(g, s.since) /\ Contiguous(g, s.queue, b.log)
      /\ s.since <= b.seq /\ (on => UpToDate(g, s.queue, b.log))
  BY DEF FlowOK
<1>3. QueueOK(t, on)
  BY <1>2, QueueTaken
<1>4. Contiguous(h, t.queue, b.log) /\ (UpToDate(g, s.queue, b.log) => UpToDate(h, t.queue, b.log))
  BY <1>1, <1>2, MessageSent
<1>5. s.marked <=> s.left = 0
  BY <1>2 DEF MarkOK
<1>6. Split(h, t.since) /\ MarkOK(t, h)
  <2>1. CASE s.left > 0
    <3>1. e.what = "replay" /\ e.seq <= s.since
      <4>1. 1 \in 1 .. s.left
        BY <1>1, <2>1
      <4> QED
        BY <1>1, <1>2, <2>1, <4>1 DEF QueueOK
    <3>2. \A i \in DOMAIN g : g[i].what = "replay"
      BY <1>2, <1>5, <2>1 DEF MarkOK
    <3>3. Split(h, s.since) /\ \A i \in DOMAIN h : h[i].what = "replay"
      BY <1>1, <1>2, <3>1, <3>2, SplitGrows
    <3> HIDE DEF h
    <3>4. ~ t.marked
      BY <1>5, <2>1
    <3> QED
      BY <1>1, <3>3, <3>4 DEF MarkOK
  <2>2. CASE s.left = 0
    <3>1. e.what = "live" /\ e.seq > s.since
      <4>1. 1 \in s.left + 1 .. Len(s.queue)
        BY <1>1, <2>2
      <4> QED
        BY <1>1, <1>2, <2>2, <4>1 DEF QueueOK
    <3>2. s.marked /\ \E i \in DOMAIN g : g[i].what = "marker"
      BY <1>2, <1>5, <2>2 DEF MarkOK
    <3>3. Split(h, s.since) /\ \E i \in DOMAIN h : h[i].what = "marker"
      BY <1>1, <1>2, <3>1, <3>2, SplitGrows
    <3> HIDE DEF h
    <3>4. t.marked /\ t.left = 0 /\ t.pc = "run"
      BY <2>2, <3>2
    <3> QED
      BY <3>3, <3>4 DEF MarkOK
  <2> QED
    BY <1>1, <2>1, <2>2
<1> HIDE DEF h
<1>7. FlowOK(t, h, b, on)
  BY <1>2, <1>3, <1>4, <1>6 DEF FlowOK
<1> QED
  BY <1>7 DEF h

LEMMA FlowEnds ==
    ASSUME NEW b \in OutBuffer, NEW s \in OutStreamType, NEW t \in OutStreamType, NEW g \in Seq(OutSent),
           NEW on \in BOOLEAN, FlowOK(s, g, b, on), s.pc = "run", s.queue # <<>>, Head(s.queue) = End,
           t.queue = <<>>, t.since = s.since, t.left = s.left, t.marked = s.marked, t.pc = "done"
    PROVE  ~ on /\ FlowOK(t, g, b, on)
<1>1. /\ s.queue \in Seq(OutMessage) /\ s.left \in Nat /\ s.since \in Nat /\ Len(s.queue) \in Nat
      /\ Len(s.queue) > 0 /\ s.queue[1] = End /\ <<>> \in Seq(OutMessage)
  BY DEF OutStreamType
<1>2. QueueOK(s, on) /\ MarkOK(s, g) /\ Split(g, s.since) /\ Contiguous(g, s.queue, b.log)
      /\ s.since <= b.seq
  BY DEF FlowOK
<1>3. 1 = Len(s.queue) /\ ~ on
  <2>1. \A i \in 1 .. Len(s.queue) : s.queue[i] = End => i = Len(s.queue) /\ ~ on
    BY <1>2 DEF QueueOK
  <2>2. 1 \in 1 .. Len(s.queue)
    BY <1>1
  <2> QED
    BY <1>1, <2>1, <2>2
<1>4. s.left = 0
  <2> SUFFICES ASSUME s.left > 0 PROVE FALSE
    BY <1>1
  <2>1. 1 \in 1 .. s.left
    BY <1>1
  <2>2. s.queue[1].kept
    BY <1>2, <2>1 DEF QueueOK
  <2> QED
    BY <1>1, <2>2, OutConstants
<1>5. s.marked /\ \E i \in DOMAIN g : g[i].what = "marker"
  BY <1>2, <1>4 DEF MarkOK
<1>6. QueueOK(t, on)
  BY <1>4 DEF QueueOK
<1>7. MarkOK(t, g)
  BY <1>4, <1>5 DEF MarkOK
<1>8. Contiguous(g, t.queue, b.log)
  <2> DEFINE q == s.queue
  <2>1. Tail(q) = <<>>
    <3>1. q \in Seq(OutMessage) /\ q # <<>> /\ Len(q) = 1
      BY <1>1, <1>3
    <3> HIDE DEF q
    <3>2. Tail(q) \in Seq(OutMessage) /\ Len(Tail(q)) = 0
      BY <3>1
    <3> QED
      BY <3>2, EmptySeq
  <2>2. Kept(q) = Kept(<<>>)
    <3>1. Kept(q) = Kept(Tail(q)) \cup (IF Head(q).kept THEN {Head(q).seq} ELSE {})
      BY <1>1, KeptTaken
    <3>2. ~ Head(q).kept
      BY OutConstants
    <3> QED
      BY <2>1, <3>1, <3>2
  <2>3. Ascending(g) /\ Ascending(<<>>)
    BY <1>2 DEF Contiguous, Ascending
  <2> QED
    BY <1>2, <2>2, <2>3, NothingKept
<1> QED
  BY <1>2, <1>3, <1>6, <1>7, <1>8 DEF FlowOK

LEMMA FlowMarks ==
    ASSUME NEW b \in OutBuffer, NEW s \in OutStreamType, NEW t \in OutStreamType, NEW g \in Seq(OutSent),
           NEW on \in BOOLEAN, NEW e \in OutSent, FlowOK(s, g, b, on), s.pc = "marker",
           t.queue = s.queue, t.since = s.since, t.left = s.left, t.marked, t.pc = "run",
           e.what = "marker", ~ e.kept
    PROVE  FlowOK(t, Append(g, e), b, on)
<1> DEFINE h == Append(g, e)
<1>1. QueueOK(s, on) /\ MarkOK(s, g) /\ Split(g, s.since) /\ Contiguous(g, s.queue, b.log)
      /\ s.since <= b.seq /\ (on => UpToDate(g, s.queue, b.log))
  BY DEF FlowOK
<1>2. s.left = 0 /\ ~ s.marked /\ s.since \in Nat
  BY <1>1 DEF MarkOK, OutStreamType
<1>3. \A i \in DOMAIN g : g[i].what = "replay"
  BY <1>1, <1>2 DEF MarkOK
<1>4. Split(h, s.since) /\ \E i \in DOMAIN h : h[i].what = "marker"
  BY <1>1, <1>2, <1>3, SplitGrows
<1>5. Kept(h) = Kept(g) /\ Ascending(h) /\ Ascending(s.queue)
  <2>1. Ascending(g) /\ Ascending(s.queue)
    BY <1>1 DEF Contiguous
  <2>2. Kept(h) = Kept(g) \cup (IF e.kept THEN {e.seq} ELSE {})
    BY KeptAppended
  <2>3. Ascending(h)
    BY <2>1, KeptAppended
  <2> QED
    BY <2>1, <2>2, <2>3
<1> HIDE DEF h
<1>6. Contiguous(h, s.queue, b.log) /\ (UpToDate(g, s.queue, b.log) => UpToDate(h, s.queue, b.log))
  BY <1>1, <1>5, NothingKept
<1>7. QueueOK(t, on)
  BY <1>1 DEF QueueOK
<1>8. MarkOK(t, h)
  BY <1>2, <1>4 DEF MarkOK
<1>9. FlowOK(t, h, b, on)
  BY <1>1, <1>4, <1>6, <1>7, <1>8 DEF FlowOK
<1> QED
  BY <1>9 DEF h

LEMMA ViewerMoves ==
    ASSUME NEW v, NEW s, NEW t, NEW g, NEW h, NEW bs, NEW ls, NEW ks, ViewerOK(v, s, g, bs, ls),
           s.obj \in Objects, t.obj = s.obj, t.pc \in {"marker", "run"} \/ (t.pc = "done" /\ v \notin ls[s.obj]),
           \A o \in Objects : v \in ks[o] <=> v \in ls[o],
           FlowOK(t, h, bs[s.obj], v \in ls[s.obj])
    PROVE  ViewerOK(v, t, h, bs, ks)
<1>1. s.obj # 0 /\ Used(s.obj, bs)
  BY OutConstants DEF ViewerOK
<1>2. ASSUME NEW o \in Objects, v \in ks[o]
      PROVE  t.obj = o /\ t.pc \in {"marker", "run"}
  <2>1. v \in ls[o] /\ s.obj = o
    BY <1>2 DEF ViewerOK
  <2> QED
    BY <2>1
<1>3. (v \in ks[s.obj]) = (v \in ls[s.obj])
  OBVIOUS
<1>4. FlowOK(t, h, bs[t.obj], v \in ks[t.obj])
  BY <1>3
<1>5. t.pc \notin {"none", "start"} /\ t.obj # 0 /\ Used(t.obj, bs)
  BY <1>1
<1> QED
  BY <1>2, <1>4, <1>5 DEF ViewerOK

LEMMA StreamStarts ==
    ASSUME OutInv, NEW v \in Viewers, StreamStart(v)
    PROVE  OutInv'
<1> DEFINE s == stream[v]
<1>1. /\ buffers \in [Objects -> OutBuffer] /\ stream \in [Viewers -> OutStreamType] /\ got \in [Viewers -> Seq(OutSent)]
      /\ listening \in [Objects -> SUBSET Viewers] /\ current \in {0} \cup Objects
      /\ s \in OutStreamType /\ ViewerOK(v, s, got[v], buffers, listening) /\ s.pc = "start"
  BY DEF OutInv, OutTyped, StreamStart
<1>2. s.obj = 0 /\ got[v] = <<>> /\ \A o \in Objects : v \notin listening[o]
  BY <1>1 DEF ViewerOK
<1>3. UNCHANGED <<buffers, current, got>> /\ got' = [got EXCEPT ![v] = <<>>]
  BY <1>1, <1>2 DEF StreamStart
<1>4. CASE current = 0
  <2> DEFINE t == [s EXCEPT !.pc = "done"]
  <2>1. stream' = [stream EXCEPT ![v] = t] /\ listening' = listening
    BY <1>1, <1>4 DEF StreamStart
  <2>2. t \in OutStreamType /\ t.pc = "done" /\ t.obj = 0
    BY <1>1, <1>2 DEF OutStreamType
  <2> HIDE DEF t, s
  <2>3. ViewerOK(v, t, <<>>, buffers, listening')
    BY <1>2, <2>1, <2>2 DEF ViewerOK
  <2>4. <<>> \in Seq(OutSent)
    OBVIOUS
  <2> QED
    BY <1>1, <1>3, <2>1, <2>2, <2>3, <2>4, OneViewer
<1>5. CASE current # 0
  <2> DEFINE b == buffers[current]
             h == TextHistory(current)
             q == [i \in DOMAIN h |-> [seq |-> h[i], kept |-> TRUE]]
             on == ~ b.closed
             p == IF on THEN q ELSE Append(q, End)
             t == [pc |-> IF Len(h) = 0 THEN "marker" ELSE "run", obj |-> current, left |-> Len(h),
                   since |-> b.seq, queue |-> p, marked |-> FALSE]
  <2>1. current \in Objects /\ b \in OutBuffer /\ LogOK(b) /\ Used(current, buffers) /\ b.seq \in Nat /\ on \in BOOLEAN
    BY <1>1, <1>5 DEF OutInv, OutBuffer
  <2>2. /\ q \in Seq(OutMessage) /\ Len(q) = Len(h) /\ Len(h) \in Nat
        /\ \A i \in 1 .. Len(h) : q[i].kept /\ q[i].seq <= b.seq
        /\ Contiguous(<<>>, q, b.log) /\ UpToDate(<<>>, q, b.log)
    <3>1. PICK a \in Nat : /\ h \in Seq(Nat) /\ a >= 1 /\ Len(h) = Len(b.log) - a + 1
                           /\ \A i \in 1 .. Len(h) : h[i] = b.log[a + i - 1]
                           /\ b.log # <<>> => a <= Len(b.log)
      BY <2>1, TextHistoryIs
    <3> HIDE DEF h, b
    <3>2. Len(h) \in Nat
      BY <3>1
    <3> QED
      BY <2>1, <3>1, <3>2, ReplayIs
  <2>3. p \in Seq(OutMessage)
    BY <2>2, OutConstants
  <2>4. /\ stream' = [stream EXCEPT ![v] = t]
        /\ listening' = IF on THEN [listening EXCEPT ![current] = @ \cup {v}] ELSE listening
    <3>1. StreamStart(v) /\ current # 0
      BY <1>5
    <3> QED
      BY <3>1 DEF StreamStart, HistoryCount
  <2> HIDE DEF p, h, b, q, on
  <2>5. /\ t \in OutStreamType /\ t.pc = (IF Len(q) = 0 THEN "marker" ELSE "run") /\ t.obj = current
        /\ t.left = Len(q) /\ t.since = b.seq /\ t.queue = p /\ ~ t.marked
    BY <2>1, <2>2, <2>3 DEF OutStreamType
  <2> HIDE DEF t
  <2>6. FlowOK(t, <<>>, b, on)
    BY <2>1, <2>2, <2>5, FlowStarts DEF p
  <2>7. /\ listening' \in [Objects -> SUBSET Viewers]
        /\ \A o \in Objects : v \in listening'[o] <=> o = current /\ on
        /\ \A o \in Objects, w \in Viewers : w # v => (w \in listening'[o] <=> w \in listening[o])
    <3>1. CASE on
      BY <1>1, <1>2, <2>1, <2>4, <3>1
    <3>2. CASE ~ on
      BY <1>1, <1>2, <2>4, <3>2
    <3> QED
      BY <3>1, <3>2
  <2>8. ViewerOK(v, t, <<>>, buffers, listening')
    <3>1. t.pc \in {"marker", "run"} /\ t.obj = current /\ current # 0
      BY <1>5, <2>5
    <3>2. \A o \in Objects : v \in listening'[o] => t.obj = o
      BY <2>7, <3>1
    <3>3. (v \in listening'[current]) = on
      BY <2>1, <2>7
    <3>4. FlowOK(t, <<>>, buffers[t.obj], v \in listening'[t.obj])
      BY <2>6, <3>1, <3>3 DEF b
    <3> QED
      BY <2>1, <3>1, <3>2, <3>4 DEF ViewerOK
  <2>9. <<>> \in Seq(OutSent)
    OBVIOUS
  <2> QED
    BY <1>3, <2>4, <2>5, <2>7, <2>8, <2>9, OneViewer
<1> QED
  BY <1>4, <1>5

LEMMA StreamSends ==
    ASSUME OutInv, NEW v \in Viewers, StreamSend(v)
    PROVE  OutInv'
<1> DEFINE s == stream[v]
           g == got[v]
           q == s.queue
           b == buffers[s.obj]
           on == (v \in listening[s.obj])
           left == IF s.left > 0 THEN s.left - 1 ELSE 0
<1>1. /\ buffers \in [Objects -> OutBuffer] /\ stream \in [Viewers -> OutStreamType] /\ got \in [Viewers -> Seq(OutSent)]
      /\ listening \in [Objects -> SUBSET Viewers] /\ s \in OutStreamType /\ g \in Seq(OutSent)
      /\ ViewerOK(v, s, g, buffers, listening) /\ s.pc = "run" /\ q # <<>>
  BY DEF OutInv, OutTyped, StreamSend
<1>2. /\ q \in Seq(OutMessage) /\ s.left \in Nat /\ left \in Nat /\ Tail(q) \in Seq(OutMessage) /\ Head(q) \in OutMessage
      /\ <<>> \in Seq(OutMessage) /\ s.obj \in {0} \cup Objects /\ s.marked \in BOOLEAN
  BY <1>1 DEF OutStreamType
<1>3. s.obj \in Objects /\ b \in OutBuffer /\ FlowOK(s, g, b, on) /\ on \in BOOLEAN
  <2>1. s.obj # 0
    BY <1>1 DEF ViewerOK
  <2> QED
    BY <1>1, <1>2, <2>1 DEF ViewerOK
<1>4. UNCHANGED <<buffers, current>>
  BY DEF StreamSend
<1>5. CASE Head(q) = End
  <2> DEFINE x == [s EXCEPT !.pc = "done"]
             t == [x EXCEPT !.queue = <<>>]
  <2>1. /\ stream' = [stream EXCEPT ![v] = t] /\ listening' = [listening EXCEPT ![s.obj] = @ \ {v}]
        /\ got' = got
    BY <1>1, <1>5 DEF StreamSend
  <2>2. got' = [got EXCEPT ![v] = g]
    BY <1>1, <2>1
  <2>3. /\ x \in OutStreamType /\ x.pc = "done" /\ x.queue = q /\ x.obj = s.obj /\ x.left = s.left
        /\ x.since = s.since /\ x.marked = s.marked
    BY <1>1 DEF OutStreamType
  <2> HIDE DEF x
  <2>4. /\ t \in OutStreamType /\ t.pc = "done" /\ t.queue = <<>> /\ t.obj = s.obj /\ t.left = s.left
        /\ t.since = s.since /\ t.marked = s.marked
    BY <1>2, <2>3 DEF OutStreamType
  <2> HIDE DEF t, on, b, g
  <2>5. ~ on /\ FlowOK(t, g, b, on)
    BY <1>1, <1>3, <1>5, <2>4, FlowEnds
  <2>6. /\ listening' \in [Objects -> SUBSET Viewers]
        /\ \A o \in Objects, w \in Viewers : w \in listening'[o] <=> w \in listening[o]
    BY <1>1, <1>3, <2>1, <2>5 DEF on
  <2>7. ViewerOK(v, t, g, buffers, listening')
    <3>1. \A o \in Objects : v \in listening'[o] <=> v \in listening[o]
      BY <2>6
    <3>2. t.pc = "done" /\ v \notin listening[s.obj] /\ t.obj = s.obj
      BY <2>4, <2>5 DEF on
    <3>3. FlowOK(t, g, buffers[s.obj], v \in listening[s.obj])
      BY <2>5 DEF on, b
    <3> HIDE DEF s
    <3> QED
      BY <1>1, <1>3, <3>1, <3>2, <3>3, ViewerMoves
  <2> QED
    BY <1>1, <1>4, <2>1, <2>2, <2>4, <2>6, <2>7, OneViewer
<1>6. CASE Head(q) # End
  <2> DEFINE pc == IF left = 0 /\ ~ s.marked THEN "marker" ELSE "run"
             e == [what |-> IF s.left > 0 THEN "replay" ELSE "live", seq |-> Head(q).seq, kept |-> Head(q).kept]
             h == Append(g, e)
             x == [s EXCEPT !.pc = pc]
             y == [x EXCEPT !.left = left]
             t == [y EXCEPT !.queue = Tail(q)]
  <2>1. /\ stream' = [stream EXCEPT ![v] = t] /\ listening' = listening /\ got' = [got EXCEPT ![v] = h]
    BY <1>1, <1>6 DEF StreamSend
  <2>2. e \in OutSent /\ e.what = (IF s.left > 0 THEN "replay" ELSE "live") /\ e.seq = Head(q).seq /\ e.kept = Head(q).kept
    BY <1>2 DEF OutSent, OutMessage
  <2> HIDE DEF e
  <2>3. h \in Seq(OutSent)
    BY <1>1, <2>2
  <2>4. pc \in {"marker", "run"}
    OBVIOUS
  <2> HIDE DEF pc, left
  <2>5. /\ x \in OutStreamType /\ x.pc = pc /\ x.queue = q /\ x.obj = s.obj /\ x.left = s.left
        /\ x.since = s.since /\ x.marked = s.marked
    BY <1>1, <2>4 DEF OutStreamType
  <2> HIDE DEF x
  <2>6. /\ y \in OutStreamType /\ y.pc = pc /\ y.queue = q /\ y.obj = s.obj /\ y.left = left
        /\ y.since = s.since /\ y.marked = s.marked
    BY <1>2, <2>5 DEF OutStreamType
  <2> HIDE DEF y
  <2>7. /\ t \in OutStreamType /\ t.pc = pc /\ t.queue = Tail(q) /\ t.obj = s.obj /\ t.left = left
        /\ t.since = s.since /\ t.marked = s.marked
    BY <1>2, <2>6 DEF OutStreamType
  <2> HIDE DEF t, on, b, g
  <2>8. FlowOK(t, h, b, on)
    BY <1>1, <1>3, <1>6, <2>2, <2>7, FlowSends DEF pc, left
  <2> HIDE DEF h
  <2>9. ViewerOK(v, t, h, buffers, listening')
    <3>1. FlowOK(t, h, buffers[s.obj], v \in listening[s.obj])
      BY <2>8 DEF on, b
    <3>2. t.pc \in {"marker", "run"} /\ t.obj = s.obj
      BY <2>4, <2>7
    <3> HIDE DEF s
    <3> QED
      BY <1>1, <1>3, <2>1, <3>1, <3>2, ViewerMoves
  <2> QED
    BY <1>1, <1>4, <2>1, <2>3, <2>7, <2>9, OneViewer
<1> QED
  BY <1>5, <1>6

LEMMA StreamMarks ==
    ASSUME OutInv, NEW v \in Viewers, SendHistoryReplayed(v)
    PROVE  OutInv'
<1> DEFINE s == stream[v]
           g == got[v]
           b == buffers[s.obj]
           on == (v \in listening[s.obj])
           e == [what |-> "marker", seq |-> 0, kept |-> FALSE]
           h == Append(g, e)
           x == [s EXCEPT !.pc = "run"]
           t == [x EXCEPT !.marked = TRUE]
<1>1. /\ buffers \in [Objects -> OutBuffer] /\ stream \in [Viewers -> OutStreamType] /\ got \in [Viewers -> Seq(OutSent)]
      /\ listening \in [Objects -> SUBSET Viewers] /\ s \in OutStreamType /\ g \in Seq(OutSent)
      /\ ViewerOK(v, s, g, buffers, listening) /\ s.pc = "marker"
  BY DEF OutInv, OutTyped, SendHistoryReplayed
<1>2. s.obj \in Objects /\ b \in OutBuffer /\ FlowOK(s, g, b, on) /\ on \in BOOLEAN
  <2>1. s.obj # 0 /\ s.obj \in {0} \cup Objects
    BY <1>1 DEF ViewerOK, OutStreamType
  <2> QED
    BY <1>1, <2>1 DEF ViewerOK
<1>3. /\ stream' = [stream EXCEPT ![v] = t] /\ got' = [got EXCEPT ![v] = h]
      /\ UNCHANGED <<buffers, current, listening>>
  BY <1>1 DEF SendHistoryReplayed
<1>4. e \in OutSent /\ e.what = "marker" /\ ~ e.kept
  BY DEF OutSent
<1> HIDE DEF e
<1>5. h \in Seq(OutSent)
  BY <1>1, <1>4
<1>6. /\ x \in OutStreamType /\ x.pc = "run" /\ x.queue = s.queue /\ x.obj = s.obj /\ x.left = s.left
      /\ x.since = s.since
  BY <1>1 DEF OutStreamType
<1> HIDE DEF x
<1>7. /\ t \in OutStreamType /\ t.pc = "run" /\ t.queue = s.queue /\ t.obj = s.obj /\ t.left = s.left
      /\ t.since = s.since /\ t.marked
  BY <1>6 DEF OutStreamType
<1> HIDE DEF t, on, b, g
<1>8. FlowOK(t, h, b, on)
  BY <1>1, <1>2, <1>4, <1>7, FlowMarks
<1> HIDE DEF h
<1>9. ViewerOK(v, t, h, buffers, listening')
  <2>1. FlowOK(t, h, buffers[s.obj], v \in listening[s.obj])
    BY <1>8 DEF on, b
  <2> HIDE DEF s
  <2> QED
    BY <1>1, <1>2, <1>3, <1>7, <2>1, ViewerMoves
<1> QED
  BY <1>1, <1>3, <1>5, <1>7, <1>9, OneViewer

-----------------------------------------------------------------------------
LEMMA NextOutInv == OutInv /\ [OutNext]_outVars => OutInv'
<1> SUFFICES ASSUME OutInv, [OutNext]_outVars PROVE OutInv'
  OBVIOUS
<1>1. ASSUME NEW o \in Objects, buffers[o].seq > 0 \/ o = current, PushText(o) \/ PushEphemeral(o) \/ Close(o)
      PROVE  OutInv'
  <2>1. Used(o, buffers)
    BY <1>1, OutConstants DEF OutInv, Used
  <2> QED
    BY <1>1, <2>1, BuffersPush
<1>2. CASE Archive
  BY <1>2, StreamsStay DEF Archive
<1>3. CASE Restore
  BY <1>3, SessionRestores
<1>4. CASE SessionChanges \/ RowCommitted \/ RowBroadcast
  BY <1>4, StreamsStay DEF SessionChanges, RowCommitted, RowBroadcast, streamVars
<1>5. ASSUME NEW v \in Viewers, Disconnect(v) \/ Subscribe(v) \/ Unsubscribe(v)
      PROVE  OutInv'
  BY <1>5, StreamBegins
<1>6. ASSUME NEW v \in Viewers, SubscribeAll(v)
      PROVE  OutInv'
  BY <1>6, StreamBeginsAll
<1>7. ASSUME NEW v \in Viewers, StreamStart(v) \/ StreamSend(v) \/ SendHistoryReplayed(v)
      PROVE  OutInv'
  BY <1>7, StreamStarts, StreamSends, StreamMarks
<1>8. ASSUME NEW v \in Viewers, Connect(v) \/ UpdateSent(v) \/ ListSessions(v) \/ ListRows(v) \/ ListSent(v)
      PROVE  OutInv'
  BY <1>8, StreamsStay DEF Connect, UpdateSent, ListSessions, ListRows, ListSent, streamVars
<1>9. CASE UNCHANGED outVars
  BY <1>9, StreamsStay DEF outVars
<1> QED
  BY <1>1, <1>2, <1>3, <1>4, <1>5, <1>6, <1>7, <1>8, <1>9 DEF OutNext

LEMMA InvGivesSplits == OutInv => MarkerSplits
<1> SUFFICES ASSUME OutInv, NEW v \in Viewers, stream[v].obj # 0
             PROVE  LET queue == stream[v].queue
                        log == buffers[stream[v].obj].log
                    IN /\ Split(got[v], stream[v].since)
                       /\ Contiguous(got[v], queue, log)
                       /\ v \in listening[stream[v].obj] /\ log # <<>>
                            => log[Len(log)] \in Kept(got[v]) \cup Kept(queue)
  BY DEF MarkerSplits
<1>1. ViewerOK(v, stream[v], got[v], buffers, listening)
  BY DEF OutInv
<1>2. FlowOK(stream[v], got[v], buffers[stream[v].obj], v \in listening[stream[v].obj])
  BY <1>1 DEF ViewerOK
<1> QED
  BY <1>2 DEF FlowOK, UpToDate

(* Of a subscription, what was there before it comes as replay, then the   *)
(* marker, then the rest, and what stays in the history is sent or queued  *)
(* once, in order and without a hole, whatever is pushed, evicted, closed, *)
(* archived or restored around it (_stream_text of output_text.py,         *)
(* subscribe_text).                                                        *)
THEOREM HistoryThenLive == OutSpec => []MarkerSplits
<1>1. OutInit => OutInv
  BY InitOutInv
<1>2. OutInv /\ [OutNext]_outVars => OutInv'
  BY NextOutInv
<1>3. OutInv => MarkerSplits
  BY InvGivesSplits
<1> QED
  BY <1>1, <1>2, <1>3, PTL DEF OutSpec
=============================================================================
