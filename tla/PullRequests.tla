---------------------------- MODULE PullRequests ----------------------------
(***************************************************************************)
(* One GitHub pull request, its cached row, the draft of a review of it,   *)
(* and the requests that read and write them around calls of GitHub.       *)
(*                                                                         *)
(* Source: src/src/api/integrations/github.py, services/github_service.py, *)
(* services/git_ops.py, main.py (the sync at the start).                   *)
(*                                                                         *)
(* Each step of a request ends at an await.  GitHub may refuse a call,     *)
(* and may do it and have its answer lost: both are a 502.                 *)
(***************************************************************************)
EXTENDS Naturals, FiniteSets, SequencesExt

CONSTANTS
    Requests,      \* HTTP requests that may run at once
    Reviewers,     \* those a reviewer sends: the others sync
    Comments,      \* inline comments a reviewer may queue, each once
    MaxRows,       \* bound: rows that are inserted for the pull request
    MaxDrafts,     \* bound: drafts that are created
    MaxPosts,      \* bound: reviews that carry one comment
    PrEnv          \* a subset of {"lost", "archive", "crash"}: answers are lost, the
                   \* repository is archived, the worker is restarted

ASSUME PrAssumption ==
    /\ Reviewers \subseteq Requests
    /\ MaxRows \in Nat \ {0} /\ MaxDrafts \in Nat \ {0} /\ MaxPosts \in Nat \ {0}
    /\ PrEnv \subseteq {"lost", "archive", "crash"}

VARIABLES
    hub,       \* the pull request on GitHub
    posted,    \* how often a review carried each comment there
    pr,        \* the row of github_prs; id 0 is none
    draft,     \* the row of github_review_drafts; id 0 is none
    ids,       \* the last id given to a row and to a draft
    branch,    \* the branch of the worktree that may be opened as a pull request
    badge,     \* the state that the badge of a session on that branch shows
    req,       \* what each request does, and what it has read
    told       \* the comments that were answered as queued, and as removed

prVars == <<hub, posted, pr, draft, ids, branch, badge, req, told>>

NoRow == [id |-> 0, role |-> "all", state |-> "open", project |-> FALSE]
NoDraft == [id |-> 0, queue |-> <<>>]
PrIdle == [op |-> "none", pc |-> "idle", pr |-> [id |-> 0, role |-> "all"], draft |-> NoDraft, got |-> {}, arg |-> "none"]
Listings == {"default", "all", "attach", "startup"}     \* kinds of a sync
PrFound == [role : {"for_me", "created", "all"}, state : {"open", "merged"}, archived : BOOLEAN]

PrTypeOK ==
    /\ hub \in [exists : BOOLEAN, mine : BOOLEAN, asked : BOOLEAN, state : {"open", "merged"}, archived : BOOLEAN]
    /\ posted \in [Comments -> 0 .. MaxPosts]
    /\ pr \in [id : 0 .. MaxRows, role : {"for_me", "created", "all"}, state : {"open", "merged"}, project : BOOLEAN]
    /\ draft.id \in 0 .. MaxDrafts /\ Range(draft.queue) \subseteq Comments
    /\ ids \in [pr : 0 .. MaxRows, draft : 0 .. MaxDrafts]
    /\ branch \in {"dirty", "committed", "pushed"}
    /\ badge \in {"none", "open"}
    /\ \A r \in Requests : req[r].got \subseteq PrFound
    /\ told.queued \subseteq Comments /\ told.removed \subseteq Comments

\* The pull request is somebody's, or the reviewer has yet to open it.
PrInit ==
    /\ hub \in {[exists |-> ~ m, mine |-> m, asked |-> FALSE, state |-> "open", archived |-> FALSE] : m \in BOOLEAN}
    /\ posted = [c \in Comments |-> 0]
    /\ pr = NoRow /\ draft = NoDraft
    /\ ids = [pr |-> 0, draft |-> 0]
    /\ branch = "dirty" /\ badge = "none"
    /\ req = [r \in Requests |-> PrIdle]
    /\ told = [queued |-> {}, removed |-> {}]

At(r, op, pc) == req[r].op = op /\ req[r].pc = pc
Step(r, pc) == req' = [req EXCEPT ![r].pc = pc]
Answer(r) == req' = [req EXCEPT ![r] = PrIdle]

\* What becomes of a call of GitHub whose effect there is Effect.
Called(r, Effect, same, next) ==
    \/ Effect /\ Step(r, next)
    \/ same /\ Answer(r)                          \* refused, or GitHub cannot be reached
    \/ "lost" \in PrEnv /\ Effect /\ Answer(r)    \* _rest: a timeout

-----------------------------------------------------------------------------
(* The cache.                                                              *)

\* upsert_prs of one pull request: only a column whose value changes is written, and
\* the bucket "all" takes no pull request out of the others.
Upserted(f, project) ==
    IF pr.id = 0
    THEN [id |-> ids.pr + 1, role |-> f.role, state |-> f.state, project |-> project]
    ELSE [pr EXCEPT !.role = IF f.role = "all" THEN pr.role ELSE f.role,
                    !.state = f.state, !.project = project]
Upsert(f, project) ==
    /\ pr.id = 0 => ids.pr < MaxRows
    /\ pr' = Upserted(f, project)
    /\ ids' = IF pr.id = 0 THEN [ids EXCEPT !.pr = @ + 1] ELSE ids

\* attach_pr_to_sessions: only an open pull request.
Badged(state) == badge' = IF state = "open" THEN "open" ELSE badge

\* list_pull_requests: the buckets in their order; the last one stamps the role.  A
\* listing that is not of open ones does not say that the repository is archived.
Listed(kind, state) ==
    LET in == {b \in {"for_me", "created", "all"} :
                 CASE b = "for_me" -> kind # "all" /\ hub.asked
                   [] b = "created" -> kind # "all" /\ hub.mine
                   [] OTHER -> kind = "all" /\ pr.id # 0}
    IN IF ~ hub.exists \/ hub.state # state \/ in = {} THEN {}
       ELSE {[role |-> IF "created" \in in THEN "created" ELSE CHOOSE b \in in : TRUE, state |-> state,
              archived |-> hub.archived /\ state = "open"]}

\* sync_github_prs: the throttle may answer at once, and so may a missing token.
SyncStart(r) ==
    /\ req[r].pc = "idle" /\ r \notin Reviewers
    /\ \E kind \in Listings :
         req' = [req EXCEPT ![r] = [PrIdle EXCEPT !.op = "sync", !.pc = "fetch", !.arg = kind]]
    /\ UNCHANGED <<hub, posted, pr, draft, ids, branch, badge, told>>

\* One listing after the other; an error leaves nothing to persist.
SyncFetch(r) ==
    /\ At(r, "sync", "fetch")
    /\ \/ \E s \in {"open", "merged"} :
            /\ s = "merged" => req[r].arg \in {"default", "all"}
            /\ req' = [req EXCEPT ![r].pc = "upsert", ![r].got = Listed(req[r].arg, s)]
       \/ Answer(r)
    /\ UNCHANGED <<hub, posted, pr, draft, ids, branch, badge, told>>

\* persist_synced_prs: the local checkout of the repository is looked up for each row.
SyncUpsert(r) ==
    /\ At(r, "sync", "upsert")
    /\ \/ \E f \in req[r].got : ~ f.archived /\ Upsert(f, TRUE)
       \/ (\A f \in req[r].got : f.archived) /\ UNCHANGED <<pr, ids>>
    /\ Step(r, IF \E f \in req[r].got : f.archived THEN "prune" ELSE "attach")
    /\ UNCHANGED <<hub, posted, draft, branch, badge, told>>

\* The rows of an archived repository are deleted, and their drafts with them.
SyncPrune(r) ==
    /\ At(r, "sync", "prune")
    /\ pr' = NoRow /\ draft' = NoDraft
    /\ Answer(r)
    /\ UNCHANGED <<hub, posted, ids, branch, badge, told>>

\* attach_pr_badges; the sync at the start of the worker does not.
SyncAttach(r) ==
    /\ At(r, "sync", "attach")
    /\ IF req[r].arg = "startup" THEN badge' = badge
       ELSE \/ \E f \in req[r].got : Badged(f.state)
            \/ req[r].got = {} /\ badge' = badge
    /\ Answer(r)
    /\ UNCHANGED <<hub, posted, pr, draft, ids, branch, told>>

\* sync_and_attach_prs when the last sync is recent: the open rows of the database.
AttachCached(r) ==
    /\ At(r, "sync", "fetch") /\ req[r].arg = "attach"
    /\ pr.id # 0 /\ Badged(pr.state)
    /\ Answer(r)
    /\ UNCHANGED <<hub, posted, pr, draft, ids, branch, told>>

\* _resync_pr: a failure is no error of the request.
ResyncFetch(r) ==
    /\ req[r].pc = "resync"
    /\ \/ req' = [req EXCEPT ![r].pc = "recache",
                             ![r].got = {[role |-> req[r].pr.role, state |-> hub.state, archived |-> hub.archived]}]
       \/ Answer(r)
    /\ UNCHANGED <<hub, posted, pr, draft, ids, branch, badge, told>>
ResyncUpsert(r) ==
    /\ req[r].pc = "recache"
    /\ \E f \in req[r].got : Upsert(f, FALSE)
    /\ Answer(r)
    /\ UNCHANGED <<hub, posted, draft, branch, badge, told>>

-----------------------------------------------------------------------------
(* The draft of a review.                                                  *)

\* _load_pr: a row that is gone is a 404.
LoadPr(r, op, arg, pc) ==
    /\ req[r].pc = "idle" /\ r \in Reviewers /\ pr.id # 0
    /\ req' = [req EXCEPT ![r] = [PrIdle EXCEPT !.op = op, !.pc = pc, !.pr = [id |-> pr.id, role |-> pr.role],
                                     !.arg = arg]]
    /\ UNCHANGED <<hub, posted, pr, draft, ids, branch, badge, told>>

AddComment(r) ==
    \E c \in Comments \ told.queued :
      /\ \A q \in Requests : req[q].arg # c
      /\ LoadPr(r, "add", c, "select")
RemoveComment(r) == LoadPr(r, "remove", "none", "read")
SubmitReview(r) == LoadPr(r, "review", "none", "load")
MergePr(r) == LoadPr(r, "merge", "none", "call")

\* The draft of the row that the request has loaded.
DraftOf(r) == IF req[r].pr.id = pr.id THEN draft ELSE NoDraft

\* _load_draft with create: read, then insert.  A draft inserted meanwhile, or a row
\* that has been deleted, makes it a 500.
SelectDraft(r) ==
    /\ At(r, "add", "select")
    /\ Step(r, IF DraftOf(r).id = 0 THEN "insert" ELSE "read")
    /\ UNCHANGED <<hub, posted, pr, draft, ids, branch, badge, told>>
InsertDraft(r) ==
    /\ At(r, "add", "insert")
    /\ \/ /\ draft.id = 0 /\ pr.id = req[r].pr.id /\ ids.draft < MaxDrafts
          /\ draft' = [id |-> ids.draft + 1, queue |-> <<>>]
          /\ ids' = [ids EXCEPT !.draft = @ + 1]
          /\ Step(r, "read")
       \/ /\ draft.id # 0 \/ pr.id # req[r].pr.id
          /\ Answer(r) /\ UNCHANGED <<draft, ids>>
    /\ UNCHANGED <<hub, posted, pr, branch, badge, told>>

\* The second session of add_github_pr_draft_comment and the only one of
\* delete_github_pr_draft_comment: the JSON of the comments is read ...
ReadDraft(r) ==
    /\ req[r].pc = "read"
    /\ IF DraftOf(r).id = 0 THEN Answer(r)
       ELSE req' = [req EXCEPT ![r].pc = "write", ![r].draft = draft]
    /\ UNCHANGED <<hub, posted, pr, draft, ids, branch, badge, told>>

\* ... and written back as a whole; an update of a row that is gone fails.
WriteDraft(r) ==
    /\ req[r].pc = "write"
    /\ LET old == req[r].draft.queue IN
       IF draft.id # req[r].draft.id THEN UNCHANGED <<draft, told>>
       ELSE \/ /\ req[r].op = "add"
               /\ draft' = [draft EXCEPT !.queue = Append(old, req[r].arg)]
               /\ told' = [told EXCEPT !.queued = @ \cup {req[r].arg}]
            \/ /\ req[r].op = "remove"
               /\ \E i \in 1 .. Len(old) :
                    /\ draft' = [draft EXCEPT !.queue = RemoveAt(old, i)]
                    /\ told' = [told EXCEPT !.removed = @ \cup {old[i]}]
            \/ req[r].op = "remove" /\ old = <<>> /\ UNCHANGED <<draft, told>>     \* 404
    /\ Answer(r)
    /\ UNCHANGED <<hub, posted, pr, ids, branch, badge>>

\* submit_github_pr_review: the draft is loaded ...
LoadDraft(r) ==
    /\ At(r, "review", "load")
    /\ req' = [req EXCEPT ![r].pc = "call", ![r].draft = DraftOf(r)]
    /\ UNCHANGED <<hub, posted, pr, draft, ids, branch, badge, told>>

\* Mutant: the draft is cleared whatever GitHub answers.
PostReviewClears(r) ==
    /\ At(r, "review", "call") /\ \A c \in Range(req[r].draft.queue) : posted[c] < MaxPosts
    /\ \/ posted' = [c \in Comments |-> IF c \in Range(req[r].draft.queue) THEN posted[c] + 1 ELSE posted[c]]
       \/ posted' = posted
    /\ Step(r, IF req[r].draft.id = 0 THEN "resync" ELSE "clear")
    /\ UNCHANGED <<hub, pr, draft, ids, branch, badge, told>>
\* ... its comments are posted with the verdict of the request ...
PostReview(r) ==
    /\ At(r, "review", "call") /\ \A c \in Range(req[r].draft.queue) : posted[c] < MaxPosts
    /\ Called(r, posted' = [c \in Comments |-> IF c \in Range(req[r].draft.queue) THEN posted[c] + 1 ELSE posted[c]],
              posted' = posted, IF req[r].draft.id = 0 THEN "resync" ELSE "clear")
    /\ UNCHANGED <<hub, pr, draft, ids, branch, badge, told>>

\* ... and that draft is deleted; it is an error if somebody else has.
ClearDraft(r) ==
    /\ At(r, "review", "clear")
    /\ IF draft.id = req[r].draft.id THEN draft' = NoDraft /\ Step(r, "resync")
                                     ELSE draft' = draft /\ Answer(r)
    /\ UNCHANGED <<hub, posted, pr, ids, branch, badge, told>>

-----------------------------------------------------------------------------
(* Merging and opening.                                                    *)

\* merge_github_pr: a merged pull request is not merged again (405).
CallMerge(r) ==
    /\ At(r, "merge", "call")
    /\ IF hub.state = "open" /\ ~ hub.archived
       THEN Called(r, hub' = [hub EXCEPT !.state = "merged"], hub' = hub, "resync")
       ELSE Answer(r) /\ hub' = hub
    /\ UNCHANGED <<posted, pr, draft, ids, branch, badge, told>>

\* open_github_pr: commit_all, with a message, and push_branch; each may fail and
\* leaves what the one before it did.
OpenPr(r) ==
    /\ req[r].pc = "idle" /\ r \in Reviewers /\ hub.mine
    /\ req' = [req EXCEPT ![r] = [PrIdle EXCEPT !.op = "open", !.pc = "push"]]
    /\ branch' \in IF branch = "dirty" THEN {"dirty", "committed"} ELSE {branch}
    /\ UNCHANGED <<hub, posted, pr, draft, ids, badge, told>>
PushBranch(r) ==
    /\ At(r, "open", "push")
    /\ \/ branch' = "pushed" /\ Step(r, "call")
       \/ branch' = branch /\ Answer(r)
    /\ UNCHANGED <<hub, posted, pr, draft, ids, badge, told>>

\* create_pull_request: GitHub takes one pull request of a branch.
CreatePr(r) ==
    /\ At(r, "open", "call")
    /\ IF hub.exists THEN Answer(r) /\ hub' = hub
       ELSE Called(r, hub' = [hub EXCEPT !.exists = TRUE], hub' = hub, "cache")
    /\ UNCHANGED <<posted, pr, draft, ids, branch, badge, told>>
CacheOpened(r) ==
    /\ At(r, "open", "cache")
    /\ Upsert([role |-> "created", state |-> "open", archived |-> FALSE], FALSE)
    /\ Badged("open")
    /\ Answer(r)
    /\ UNCHANGED <<hub, posted, draft, branch, told>>

-----------------------------------------------------------------------------
(* GitHub, and a restart of the worker.                                    *)
HubChanges ==
    /\ hub.exists
    /\ \/ hub' = [hub EXCEPT !.asked = ~ @]
       \/ hub' = [hub EXCEPT !.state = "merged"]
       \/ "archive" \in PrEnv /\ hub' = [hub EXCEPT !.archived = TRUE]
    /\ UNCHANGED <<posted, pr, draft, ids, branch, badge, req, told>>
RestartWorker ==
    /\ "crash" \in PrEnv
    /\ req' = [r \in Requests |-> PrIdle]
    /\ UNCHANGED <<hub, posted, pr, draft, ids, branch, badge, told>>

PrNext ==
    \/ \E r \in Requests :
         \/ SyncStart(r) \/ SyncFetch(r) \/ SyncUpsert(r) \/ SyncPrune(r) \/ SyncAttach(r) \/ AttachCached(r)
         \/ AddComment(r) \/ RemoveComment(r) \/ SubmitReview(r) \/ MergePr(r)
         \/ SelectDraft(r) \/ InsertDraft(r) \/ ReadDraft(r) \/ WriteDraft(r)
         \/ LoadDraft(r) \/ PostReview(r) \/ ClearDraft(r) \/ ResyncFetch(r) \/ ResyncUpsert(r)
         \/ CallMerge(r) \/ OpenPr(r) \/ PushBranch(r) \/ CreatePr(r) \/ CacheOpened(r)
    \/ HubChanges \/ RestartWorker

PrSpec == PrInit /\ [][PrNext]_prVars

(***************************************************************************)
(* Properties                                                              *)
(***************************************************************************)
\* One reviewer, any syncs, refusals, lost answers and restarts: a comment whose
\* queueing was answered is in the draft, on GitHub, or was removed; only the end of its
\* repository takes it away.
CommentKept ==
    \A c \in told.queued \ told.removed : c \in Range(draft.queue) \/ posted[c] > 0 \/ hub.archived

(***************************************************************************)
(* Claims of the repository that the code does not keep (README, section 6).*)
(***************************************************************************)
\* "posting any queued inline comments, then clears the local draft" (github.py:831): a
\* lost answer leaves the draft, and the next review posts it again.
PostedOnce == \A c \in Comments : posted[c] <= 1

\* project_path is "null when this worker has no clone" (github_pr.py:49): the row that a
\* review or a merge refreshes, or that has just been opened from the clone, has none.
ProjectKnown == pr.id # 0 => pr.project

\* PRs of archived repositories "are never cached" (github_service.py:848): neither the
\* resync of a row nor the opening filters them.
ArchivedStaysOut ==
    [][\A r \in Requests : \A f \in req[r].got : f.archived /\ req'[r] = PrIdle => pr'.id = 0 \/ pr' = pr]_prVars
=============================================================================
