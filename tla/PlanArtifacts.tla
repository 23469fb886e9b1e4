---------------------------- MODULE PlanArtifacts ----------------------------
(***************************************************************************)
(* The plan of a task: the planning session that writes it, the row of     *)
(* artifacts for its file, the finalization that links the two, and the    *)
(* scans and requests that touch the same rows.                            *)
(*                                                                         *)
(* Source: src/src/core/background_tasks.py, core/prompt_router.py,        *)
(* services/artifact_scanner.py, api/routes/artifacts.py,                  *)
(* api/routes/tasks.py.                                                    *)
(*                                                                         *)
(* A database session reads in one step and writes in another.             *)
(***************************************************************************)
EXTENDS Naturals

CONSTANTS
    PlanCalls,       \* HTTP requests that may run at once
    Scans,           \* scans of artifacts that may run at once
    MaxArtifacts     \* bound: rows that are inserted for the file of the plan

ASSUME PlanAssumption == MaxArtifacts \in Nat \ {0}

VARIABLES
    owner,       \* the task: is its row there, and which artifact does it point to
    artifact,    \* the row of artifacts for the file; id 0 is none
    made,        \* the last id given to one
    planFile,    \* the file of the plan exists
    plan,        \* the planning session, and the finalization of its plan
    scan,        \* what each scan has read
    asked,       \* what each request does, and what it has read
    scanner,     \* the patterns in settings.json, of the routes, and of the router's scanner
    dropped      \* a request has deleted a row of the file since the plan ended

planVars == <<owner, artifact, made, planFile, plan, scan, asked, scanner, dropped>>
fileVars == <<planFile, plan>>
restVars == <<made, scanner, dropped>>

NoAsk == [op |-> "none", read |-> "none", was |-> 0]
NoScan == [pc |-> "idle", seen |-> 0]
NoArtifact == [id |-> 0, present |-> FALSE]
Patterns == {"old", "new"}

PlanTypeOK ==
    /\ owner \in [live : BOOLEAN, plan : 0 .. MaxArtifacts]
    /\ artifact \in [id : 0 .. MaxArtifacts, present : BOOLEAN]
    /\ made \in 0 .. MaxArtifacts
    /\ planFile \in BOOLEAN /\ dropped \in BOOLEAN
    /\ plan \in [pc : {"none", "running", "agentend", "select", "write", "refetch", "link", "done", "failed"},
                 seen : 0 .. MaxArtifacts]
    /\ scan \in [Scans -> [pc : {"idle", "write"}, seen : 0 .. MaxArtifacts]]
    /\ asked \in [PlanCalls -> [op : {"none", "plan", "delete", "drop", "recheck"}, read : {"none", "here", "gone"},
                                was : 0 .. MaxArtifacts]]
    /\ scanner \in [settings : Patterns, app : Patterns, router : Patterns]

PlanInit ==
    /\ owner = [live |-> TRUE, plan |-> 0]
    /\ artifact = NoArtifact /\ made = 0
    /\ planFile = FALSE
    /\ plan = [pc |-> "none", seen |-> 0]
    /\ scan = [s \in Scans |-> NoScan]
    /\ asked = [c \in PlanCalls |-> NoAsk]
    /\ scanner = [settings |-> "old", app |-> "old", router |-> "old"]
    /\ dropped = FALSE

-----------------------------------------------------------------------------
(* The planning session.                                                   *)
Finalizing == plan.pc \in {"select", "write", "refetch", "link"}
PlanIs(pc, seen) == plan' = [pc |-> pc, seen |-> seen]

\* prepare_plan_session: the task must exist.  The row of the session is
\* made here, so that an artifact may refer to it.
PreparePlan ==
    /\ ~ Finalizing /\ plan.pc # "running" /\ owner.live
    /\ PlanIs("running", 0)
    /\ UNCHANGED <<owner, artifact, planFile, scan, asked, restVars>>

\* The planning agent writes the file; somebody may remove it.
ChangeFile ==
    /\ planFile \/ plan.pc = "running"
    /\ planFile' = ~ planFile
    /\ UNCHANGED <<owner, artifact, plan, scan, asked, restVars>>

\* _fire_plan_finalization_task, when the session is ended or cancelled or its prompt
\* fails; the file must be there.
EndPlan ==
    /\ plan.pc = "running"
    /\ PlanIs(IF planFile THEN "select" ELSE "done", 0)
    /\ dropped' = FALSE
    /\ UNCHANGED <<owner, artifact, made, planFile, scan, asked, scanner>>
\* The end of the agent itself, and of a turn whose agent is gone, does not fire it.
AgentEndsPlan ==
    /\ plan.pc = "running"
    /\ PlanIs("agentend", 0)
    /\ UNCHANGED <<owner, artifact, planFile, scan, asked, restVars>>

\* _finalize_plan_session: the row of the file is looked up ...
FinalizeSelect ==
    /\ plan.pc = "select"
    /\ PlanIs("write", artifact.id)
    /\ UNCHANGED <<owner, artifact, planFile, scan, asked, restVars>>

\* A row inserted with the next id.
Insert ==
    /\ made < MaxArtifacts
    /\ made' = made + 1
    /\ artifact' = [id |-> made + 1, present |-> TRUE]
\* The task, if it is still there, points to the row.
Linked(a) == owner' = IF owner.live THEN [owner EXCEPT !.plan = a] ELSE owner

\* Mutant: the row that somebody else inserted is an error.
FinalizeConflictFails ==
    /\ plan.pc = "write" /\ plan.seen = 0 /\ artifact.id # 0
    /\ PlanIs("failed", 0)
    /\ UNCHANGED <<owner, artifact, planFile, scan, asked, restVars>>
\* ... and inserted, unless somebody has by now: then the transaction is rolled back and
\* the row read again ...
FinalizeConflict ==
    /\ plan.pc = "write" /\ plan.seen = 0 /\ artifact.id # 0
    /\ PlanIs("refetch", 0)
    /\ UNCHANGED <<owner, artifact, planFile, scan, asked, restVars>>
FinalizeInsert ==
    /\ plan.pc = "write" /\ plan.seen = 0 /\ artifact.id = 0
    /\ Insert
    /\ Linked(made + 1)
    /\ PlanIs("done", 0)
    /\ UNCHANGED <<planFile, scan, asked, scanner, dropped>>
\* ... or updated, and the task linked with it; a row that is gone is an error.
FinalizeUpdate ==
    /\ plan.pc = "write" /\ plan.seen # 0
    /\ IF artifact.id = plan.seen
       THEN artifact' = [artifact EXCEPT !.present = TRUE] /\ Linked(artifact.id) /\ PlanIs("done", 0)
       ELSE PlanIs("failed", 0) /\ UNCHANGED <<owner, artifact>>
    /\ UNCHANGED <<planFile, scan, asked, restVars>>
FinalizeRefetch ==
    /\ plan.pc = "refetch"
    /\ IF artifact.id = 0 THEN PlanIs("failed", 0) ELSE PlanIs("link", artifact.id)
    /\ UNCHANGED <<owner, artifact, planFile, scan, asked, restVars>>
\* The foreign key of the task needs the row that was read.
FinalizeLink ==
    /\ plan.pc = "link"
    /\ IF artifact.id = plan.seen \/ ~ owner.live
       THEN Linked(plan.seen) /\ PlanIs("done", 0)
       ELSE owner' = owner /\ PlanIs("failed", 0)
    /\ UNCHANGED <<artifact, planFile, scan, asked, restVars>>

-----------------------------------------------------------------------------
(* Scans.                                                                  *)

\* scan_texts, on what a tool has printed, and scan, on the messages of an archived
\* session, both end in _upsert_artifacts: the rows of the files that
\* exist are selected ...
ScanSelect(s) ==
    /\ scan[s].pc = "idle" /\ planFile
    /\ scan' = [scan EXCEPT ![s] = [pc |-> "write", seen |-> artifact.id]]
    /\ UNCHANGED <<owner, artifact, fileVars, asked, restVars>>
ScanTexts(s) == plan.pc = "running" /\ ScanSelect(s)
ScanArchived(s) == plan.pc \notin {"none", "running"} /\ ScanSelect(s)
\* ... and the missing ones inserted; a row that exists by now is an error.  A row that was
\* there gets the size and the time of the file, which are left out here.
ScanWrite(s) ==
    /\ scan[s].pc = "write"
    /\ scan' = [scan EXCEPT ![s] = NoScan]
    /\ IF scan[s].seen = 0 /\ artifact.id = 0 THEN Insert ELSE UNCHANGED <<made, artifact>>
    /\ UNCHANGED <<owner, fileVars, asked, scanner, dropped>>

-----------------------------------------------------------------------------
(* Requests.                                                               *)
Ask(c, op, read, was) == asked' = [asked EXCEPT ![c] = [op |-> op, read |-> read, was |-> was]]
Answered(c) == asked' = [asked EXCEPT ![c] = NoAsk]

\* The row is loaded first: the task's, or the artifact's.
LoadOwner(c) ==
    /\ asked[c] = NoAsk /\ owner.live
    /\ \/ \E a \in {0, artifact.id} : Ask(c, "plan", "none", a)
       \/ Ask(c, "delete", "none", 0)
    /\ UNCHANGED <<owner, artifact, fileVars, scan, restVars>>
LoadArtifact(c) ==
    /\ asked[c] = NoAsk /\ artifact.id # 0
    /\ \/ Ask(c, "drop", "none", artifact.id)
       \/ Ask(c, "recheck", IF planFile THEN "here" ELSE "gone", artifact.id)
    /\ UNCHANGED <<owner, artifact, fileVars, scan, restVars>>

\* update_task with a plan_artifact_id, which may be null; the id must be that of a row.
PatchPlan(c) ==
    /\ asked[c].op = "plan"
    /\ owner' = IF owner.live /\ asked[c].was \in {0, artifact.id} THEN [owner EXCEPT !.plan = asked[c].was] ELSE owner
    /\ Answered(c)
    /\ UNCHANGED <<artifact, fileVars, scan, restVars>>
DeleteOwner(c) ==
    /\ asked[c].op = "delete"
    /\ owner' = [live |-> FALSE, plan |-> 0]
    /\ Answered(c)
    /\ UNCHANGED <<artifact, fileVars, scan, restVars>>

\* delete_artifact: the task's column is set to null.
DeleteArtifact(c) ==
    /\ asked[c].op = "drop"
    /\ IF artifact.id = asked[c].was
       THEN artifact' = NoArtifact /\ owner' = [owner EXCEPT !.plan = 0] /\ dropped' = TRUE
       ELSE UNCHANGED <<artifact, owner, dropped>>
    /\ Answered(c)
    /\ UNCHANGED <<made, fileVars, scan, scanner>>
\* recheck_artifacts: an update of a row that is gone fails the request.
RecheckArtifact(c) ==
    /\ asked[c].op = "recheck"
    /\ artifact' = IF artifact.id = asked[c].was THEN [artifact EXCEPT !.present = asked[c].read = "here"] ELSE artifact
    /\ Answered(c)
    /\ UNCHANGED <<owner, fileVars, scan, restVars>>

\* update_artifact_settings: the file, and the scanner of the routes.
UpdateScanner ==
    /\ scanner' = [scanner EXCEPT !.settings = "new", !.app = "new"]
    /\ UNCHANGED <<owner, artifact, made, fileVars, scan, asked, dropped>>

PlanNext ==
    \/ PreparePlan \/ ChangeFile \/ EndPlan \/ AgentEndsPlan
    \/ FinalizeSelect \/ FinalizeConflict \/ FinalizeInsert \/ FinalizeUpdate \/ FinalizeRefetch \/ FinalizeLink
    \/ \E s \in Scans : ScanTexts(s) \/ ScanArchived(s) \/ ScanWrite(s)
    \/ \E c \in PlanCalls : LoadOwner(c) \/ LoadArtifact(c) \/ PatchPlan(c) \/ DeleteOwner(c) \/ DeleteArtifact(c)
                            \/ RecheckArtifact(c)
    \/ UpdateScanner

PlanSpec == PlanInit /\ [][PlanNext]_planVars

(***************************************************************************)
(* Properties                                                              *)
(***************************************************************************)
\* Whatever the scans and the requests do meanwhile, the finalization of a plan whose file
\* was there ends with the task, if it still exists, pointing to the one row of that file;
\* only a deletion of that row stops it (_finalize_plan_session).
PlanLinked ==
    [][Finalizing /\ plan'.pc \in {"done", "failed"} =>
           \/ dropped
           \/ artifact'.id # 0 /\ (owner.live => owner'.plan = artifact'.id)]_planVars

(***************************************************************************)
(* Claims of the repository that the code does not keep (README, section 6).*)
(***************************************************************************)
\* "Schedule plan artifact registration after a plan session ends (any reason)"
\* (background_tasks.py:694): the end of the agent itself does not.
PlanEndsRegistered == plan.pc = "agentend" /\ planFile => artifact.id # 0

\* "Recreate artifact scanner with new settings" (routes/artifacts.py:182): the scans of
\* the sessions use the scanner the router was made with.
ScannerUpdated == scanner.router = scanner.settings
=============================================================================
