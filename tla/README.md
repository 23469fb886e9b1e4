# RCFlow: TLA+ models, model checking and proofs

RCFlow is an asyncio worker that runs coding agents (Claude Code, Codex, OpenCode, ACP
agents) and an outer LLM for clients that connect over websockets and HTTP. This directory
holds TLA+ modules of it, TLC configurations that check them on small instances, and
proofs checked by TLAPS. Paths below are relative to the repository root.

To run: `tlasany M.tla` parses a module, `tlc -config X.cfg MCModule` runs a configuration,
`tlapm XProofs.tla` checks the proofs in XProofs
(section 4 says which module holds which). `PROJECT.json` lists the runs, which lines
of the source each definition models (`map`), what in the code is hard to test (`hazards`),
where a run shows code and documentation to disagree (`findings`) and the theorems.

## 1. The system

The worker is one process with one event loop. Everything runs as coroutines on it (a few
blocking calls run in threads), so two pieces of code interleave only where one of them awaits: a
database call, a subprocess, a lock, an event, a timer. The desktop app and the command line are
processes of their own, which share the settings file, the pidfile and the installer with it. State that is read before an await and used after it is the source of most of the
hazards below. State is kept in memory per session (`ActiveSession`, src/core/session.py) and
in SQLite (one `AsyncSession` per operation, WAL). A crash loses the first and keeps the second.

### Components

Every component, the sources it stands for, and how much of it is modelled, is in `components` of
PROJECT.json. The table has those with state of their own.

| Component | State | Operations | Interacts with | What makes it correct |
|---|---|---|---|---|
| Pending message queue (`pending_store.py`, `session_state.py`, `prompt_router.py`) | rows `session_pending_messages`, attachment directories, the mirror `session.pending_user_messages`, `_draining_sessions` | enqueue, cancel, edit, pop head, clear, restore, drain | websocket senders, the wake scheduler, turn ends, lifecycle | a prompt reaches an agent at most once, is never lost in silence, a confirmed cancel or edit holds, the mirror agrees with the rows, a queue is drained when a turn ends |
| Tool permissions (`permissions.py`, `agent_claude_code.py`) | cached rules by scope, pending requests with events and timers, answers kept in the buffer | check the cache, request, resolve, time out, cancel all, snapshot, restore | `can_use_tool` callbacks, clients, lifecycle, persistence | a tool runs only on a user's word, one who waits can be answered, every call returns |
| Scheduled wakeups (`wakeup_store.py`, `wakeup_scheduler.py`) | rows `session_scheduled_wakes`, a mirror shown as a badge, one timer task per wake | add, fire, cancel one, cancel all, hydrate | queue and router (the prompt of a wake), lifecycle, archive, start-up | fired at most once, shown wakes have timers, every wake leaves the badge |
| Session persistence (`session.py`, `buffer.py`, `background_tasks.py`) | message deque with sequence numbers, `_last_flushed_sequence`, dirty flag, rows of session and messages | push, periodic flush, archive, restore, reload, shutdown | every component that pushes messages; lifecycle ends | no stored message is lost, the archive is whole, an ended session leaves memory |
| Session lifecycle (`session_lifecycle.py`, `session.py`, `agent_claude_code.py`, `claude_code_sdk.py`) | status, activity, executor, stream task, question gate, saved status | cancel, end, pause, interrupt, resume; set active, complete, fail | clients, stream tasks, LLM turns, queue | terminal states are final, calls return, no agent has two readers, nothing is left busy |
| Claude Code stream (`claude_code_sdk.py`, `agent_claude_code.py`) | the message queue of the process, `_active_monitors`, `_pending_bg_tasks` | turn, drain between turns, cancel a watch, stop | lifecycle, buffer | the end of a watch is shown once |
| Codex, OpenCode, ACP agents (`agent_codex.py`, `agent_opencode.py`, `agent_acp.py`, `executors/*`) | a process per turn (ACP: one), resume id, stream task | start, forward, restart, kill, pause, interrupt, resume | lifecycle, queue drain | a session nothing works for is free and has no process |
| LLM loop (`llm.py`, `context.py`, `prompt_router.py`) | conversation history in memory and row, prompt lock, telemetry row of the turn | one turn of text and tool calls, a tool named in the prompt | router, tools, agents | every tool call has its result in what a provider is sent |
| Worktrees, MCP bridge, directory tracking (`cwd_tracking.py`, `mcp_bridge.py`, `executors/worktree.py`, `api/routes/worktrees.py`) | worktrees on disk, the cached list, the session's `agent_cwd`, selection and badge, the token of an agent | new, merge, rm, attach, detach by the LLM, an agent or a client; select; what an agent runs, names and prints | permissions, lifecycle, agents, clients | the badge follows the agent to the worktree it is in and to no other |
| Output streaming (`api/ws/output_text.py`, `buffer.py`, `session.py`) | subscriber queues, the stream task of a connection, list updates | subscribe, replay, push, list | buffer, clients | replay, marker, live: each message once and in order |
| Task board (`api/routes/tasks.py`, `linear.py`, `background_tasks.py`) | rows of tasks, their sessions, the Linear issue | create, patch, delete, attach, link, sync; the agents that create and judge tasks | HTTP, Linear, ended sessions | no link to a task that is gone |
| Plans and artifacts (`artifact_scanner.py`, `api/routes/artifacts.py`, `background_tasks.py`) | rows of artifacts, the plan of a task | scan, recheck, delete, finalize a plan | ended sessions, file system | a plan that was written is linked to its task |
| GitHub pull requests (`api/integrations/github.py`, `github_service.py`, `git_ops.py`) | cached row, review draft | sync, detail, queue, remove, post, merge, open | GitHub | a queued comment is neither lost nor left behind |
| Tool management (`services/tools/*`) | binary, version file, parked binary, the manager's entry and lock | detect, install, update, uninstall | routes, agents that run the binary | an entry shown as installed is on disk |
| Tool settings (`tool_settings.py`, `agent_auth.py`) | the settings file of a CLI, its env section, CLAUDE.md, config.toml | read, update, seed, mask | routes, agents | an agent that starts has its own key |
| Agent logins (`api/routes/auth.py`, `usage_service.py`) | OAuth flow, credentials, Codex login process, usage poll | login, code, logout, poll | provider | no login process outlives its request |
| Port mapping (`upnp_service.py`, `natpmp_service.py`) | the service's state, renewal loop, address watch, threads | discover, map, renew, stop | router | what is shown as mapped is mapped |
| Telemetry (`telemetry_service.py`) | rows of turns and tool calls, buckets, watermark | record, aggregate, clean up | agents, loop | a row is counted at most once |
| Model catalog (`model_catalog.py`) | lists in memory and in a file, locks | get, refresh, invalidate, persist | providers, settings | concurrent requests ask once |
| Terminals (`terminal/*`, `api/ws/terminal.py`) | the map of the manager, shells, readers, the ids of a connection | create, close, leave, exit | clients | no shell is orphaned |
| Desktop app (`gui/*`, `worker_service/*`) | worker process, pidfile, service unit, threads | start, adopt, stop, quit, watch | worker, service manager | a spawned worker is never lost |
| Updates (`gui/updater.py`, `cli_update.py`) | the latest release, banner, installer file | check, dismiss, download, install | GitHub, settings | what is offered for installation is what was verified |
| Configuration (`config.py`) | `settings.json`, its lock, the environment of a process | load, update, populate defaults, generate the key | three processes | writers do not undo each other |

Not modelled, with the reasons in PROJECT.json: the attachment store, native tools and the tool registry, the database (external), logging and paths,
the bundling scripts and the Flutter client.

### What is hard here

* *Interleaving at awaits.* Lifecycle calls test a status, await a teardown and act on the
  status they read. `pop_head`, `cancel` and `edit` each write a row and then the mirror. Routes
  read a row, await GitHub or Linear, and write what they read.
* *Threads and processes.* Cancelling a task that waits for a thread does not stop the thread
  (port mapping, the model catalog's file, terminals); three processes write one settings file.
* *Several writers of one row.* Flush, archive and restore of one session overlap; an agent, a
  request and a sync write one task.
* *Crash and restart.* Rows survive; mirrors, timers, gates, executors and watermarks in memory do
  not. A worker that is killed between two files leaves the first.
* *Timers against late answers.* Permission requests, questions and wakes all race a timer
  with an answer and with a cancel of the task that waits.
* *Tasks that wait for tasks.* A call cancels a stream task and awaits it while the task may be
  awaiting a disconnect that swallows the cancellation.
* *Lost answers.* GitHub may have done what a 502 says it has not.
* *Liveness.* A turn's end has to drain the queue, a permission has to return, an ended
  session has to leave memory.

`hazards` in PROJECT.json lists them at their lines, with the properties aimed at each.

## 2. Modules

| Module | Models | Proofs |
|---|---|---|
| `QueueContract` | abstract: the fate of a prompt that was sent | `PendingQueueProofs` |
| `PendingQueue` | the pending message queue and its drain; implements `QueueContract` | `PendingQueueProofs` |
| `Permissions` | permission rules, requests and answers | `ClaudeCodeProofs` |
| `Wakeups` | scheduled wakes of a session | `SessionsProofs` |
| `SessionPersistence` | buffer, flush, archive, restore of a session | `RecordsProofs` |
| `SessionContract` | abstract: a session seen by its clients and the archive | `SessionLifecycleProofs` |
| `SessionLifecycle` | status, executor, turns, gate, calls and prompts of a session; implements `SessionContract` | `SessionLifecycleProofs` |
| `AgentStream` | the messages of a Claude Code process, its watches and commands | `ClaudeCodeProofs` |
| `TurnAgents` | Codex, OpenCode and ACP | `SessionsProofs` |
| `AgenticLoop` | the outer LLM, its tool calls and its history | `SessionsProofs` |
| `OutputStream` | what clients of the output websocket see | `ServicesProofs` |
| `Worktrees` | the worktrees of a project, the tool that changes them, the badge that follows an agent | `ClaudeCodeProofs` |
| `TaskBoard`, `PlanArtifacts`, `PullRequests` | the rows that routes, syncs and background agents share | `ServicesProofs` |
| `ToolManagement`, `ToolSettings`, `AgentLogin`, `ModelCatalog` | the managed command-line agents | `ServicesProofs` |
| `PortMapping`, `Telemetry`, `Terminals` | services of the worker | `DesktopProofs`; of `Terminals` `ServicesProofs` |
| `Supervision`, `Updates`, `SettingsFile` | what several processes share: the worker, the installer, the settings | `DesktopProofs` |
| `MCPendingQueue` ... `MCSessionLifecycle` | constants and symmetry of the module they are named for | |
| `MCServices`, `MCSessions` | several parts in one run (section 3) | of `MCServices` `DesktopProofs` |
| `ListLemmas` | facts about minima, and inserting into and removing from a sequence, for all proofs | itself |

A module about a session is about one session: the queue's mirror, permission manager, wakes,
buffer and executor are all per session, and no operation touches two. An action is the code
from one await to the next (in a thread or another process: up to the next call another one can
observe); a coroutine in progress is a record with a `pc`. Most modules have a constant for their
environment, a subset of the things clients, agents, disks and operators may do. A configuration
chooses it, so that the state space stays small and so that a run can say under which
disturbances a property holds. Operators with `Mutant:` in their comment are plausible bugs;
replacing the definition that follows by them must break the property that is listed with them
in `mutants`.

### PendingQueue and QueueContract

`db` is the table, `files` the attachment directories, `mirror` the list in memory, `status` the
session's status ("down" while no worker runs), `turn` whether a stream task is live, `soon`
the done-callbacks that are due. `pc` and `job` say where each coroutine stands and on which
row: the senders (`handle_prompt`, `enqueue`, `cancel`, `edit` of clients and wakes) and the one
`_drain_one` loop that `_draining_sessions` allows. `pauser` and `ender` are the lifecycle calls
as the queue sees them. `fate` and `runs` are history. An operation is split at its awaits: the
commit of a row, the write of the directory, the return to the mirror. `Env` has cancels, edits,
wakes, pause, end, an agent that exits, a refused delivery, and a crash that empties everything
but `db` and `files`.

`QueueContract` says what a client may rely on: a prompt is "out" until it is accepted into the
queue ("waiting") or given to an agent at once; from there it is "given", "withdrawn" by its user
or "gone" with the session or the worker, and those places are final. `ImplementsContract`
instantiates it with the place that `fate` shows.

### Permissions

`rules` and `blanket` are what `PermissionManager` caches, `pending`, `decision` and `event` its
requests, `asker` the asking tasks, `expired` a timer that has cancelled a wait whose task has
not run yet, `shown` the buffer's `accepted` field, `acked` the history of acknowledged answers,
`agent` a lifecycle call between the kill and the denial of what is pending. The order in which
the caches are consulted, the fact that a resolve writes the decision and the rule before the
waiting task runs, and the clean-up in `finally` are as in the code. One manager per session is
modelled: a session without one asks nobody, and its replacement by `reattach_executor` is left out.

### Wakeups

`row` is the table, `mirror` the badge's list, `timer` the scheduler's tasks, `shown` the
WAKEUP_* events, `sent` how often and where a prompt went, `placing` the tool call that schedules
a wake, `session`, `saved` and `archiving` the session and its archive, `call` the single and bulk
cancels and ends in progress. What a timer does (`mark_fired`, route the prompt) is split at its
awaits, so that each cancel can come between. A restart re-arms what the rows call pending.

### SessionPersistence

A message is its sequence number. `obj` are the objects a session has had in memory (restore and
reload make a new one), each with its deque, watermark and dirty flag; `mem` the registered one;
`flush`, `arch` and `rest` the coroutines in progress, `fired` archive tasks not yet running;
`db` the session row and the message rows, `lock` the task that writes. The commit of each
coroutine is a step and may fail when `Env` has "fail". The deque holds `Cap` messages and
evicts when it is full. The unique key on (session, sequence) makes a second insert fail.

### SessionLifecycle and SessionContract

`ses` holds the fields of the session, `live` the executors whose client is connected, `turn`
the stream tasks, `asker` the callback that waits at the question gate, `call` the lifecycle
calls, `prompt` the runs of `handle_prompt`. `CallStart`, `CallKilled`, `CallJoined` and
`CallDropped` are `_teardown_executors` and what follows it, cut at its two awaits. `Cuts` says
what cancelling a stream task does: it unwinds, or, when it is inside `_disconnect`, whose
`contextlib.suppress` swallows the `CancelledError`, goes on. ACTIVE and EXECUTING are one status, since no guard tells them
apart. When a turn starts while its client is being closed, both outcomes (a new client, or
the dying one) are allowed, which is more than asyncio's order of callbacks permits.

`SessionContract` is what is left for those outside: the session is open or paused until it is over
for good, and only then is its end announced (SESSION_END) and is it handed to the archive, perhaps
more than once, since calls overlap. `KeepsContract` instantiates it with the status, the count of
SESSION_END and the archive task (`Stands`).

### AgentStream

`messages` is the queue that the reader fills, `proc` the process, `relay` the stream task and its
loop (a turn reads up to a result; between turns it reads on while a watch or a command is alive),
`watches` and `background` the two counts that decide how long, `closed` how often the end of each
watch was shown. A message is its kind and what it is about. `matched` is history: whose result
ended the turn of a prompt.

### TurnAgents

`turn` are the stream tasks, `owned` the process each executor holds, `alive` those that run,
`kill` the call that is tearing down, `claimed` a drain between its claim and the delivery. Codex
and OpenCode spawn a process per turn and resume by `resumeId`; an ACP process lives across turns
and loses its turn by a cancel. One call at a time; `"overlap"` lets a resume or an ACP turn come
in while it still tears down, `"overtake"` a prompt between a drain's claim and its delivery.
`tool` says that the indicator names a tool. Any event may set or clear it, as the status it reports
says, and no turn asks for it when it ends.

### AgenticLoop

`prompt` are the runs of `handle_prompt`, `lock` the one that holds `_prompt_lock`, `history` and
`stored` the conversation in memory and in the row. A reply has up to `MaxCalls` tool calls, each of
which returns a result, raises or starts an agent; the session may be ended at any step. `loaded` is how much of
the history a reload brought: what was cut in half by a crash is not repaired (section 6).

### OutputStream

`buffers` are the objects a session has had (restore makes a new one) with their log and eviction,
`stream` the stream task of each connection, `got` what it has sent. `version`, `updates`,
`listing` and `shown` are the second half, lists of sessions and rows and the updates that come
while one is being read. The queues are unbounded in the code; `MaxPushes` and `MaxNews` bound what
is put into them.

### Worktrees

`trees` are the worktrees on disk, `listCache` the answer of git that is kept for a second, `place`
the three entries of the session's metadata (`agent_cwd`, the selection, the badge), `seat` what the
calls need of the session (status, whether it is busy, its agent and the bridge token), `treeCall`
the one call of the tool in progress, from the gate over the thread that runs git to the note in
the metadata, `command` a `git worktree` command an agent has announced and not yet finished. A path
is a sequence of names and `Text` is how the code compares it: the two branches of the
configuration are one a prefix of the other, as `feature` and `feature-2` are. Lifecycle calls are one
step here.

### TaskBoard, PlanArtifacts, PullRequests

A database session reads in one step and writes in another, as SQLite allows, and writes only the
columns whose value changed; a request is a record of what it has read. `TaskBoard` has the routes
of tasks and of the Linear issue, the agent that creates or attaches tasks for an active session and the
one that judges them when it ends. `PlanArtifacts` has one planning session, the finalization of
its plan, scans and requests for the same row. `PullRequests` has one pull request on GitHub
(`hub`), its cached row, the review draft, and every route that writes either around calls of
GitHub, which may refuse or lose an answer.

### ToolManagement, ToolSettings, AgentLogin, ModelCatalog

`ToolManagement`: `disk` is the managed directory (binary, version file, the binary that Windows
parks while it runs), `entry` what the manager shows, `toolOp` the operations and their steps.
`ToolSettings` is sequential: `file` is the settings file of one CLI, `stale` a copy the CLI has
read and will write back. `AgentLogin` numbers logins; `flow` is the verifier the server keeps,
`creds` whose tokens are stored, `child` the processes of a Codex login. `ModelCatalog`: a list is
the account it was fetched with, `memory` and `cacheFile` hold it per fingerprint, `writer` is the
thread that stores it.

### PortMapping, Telemetry, Terminals

`PortMapping`: time passes in units, `router` counts down the lease of each port, `threads` are
the blocking calls, which go on when their task is cancelled. `Telemetry`: `row` are the turns and
tool calls with the time each was stamped, `fold` the aggregation between its read, its commit and
the watermark; `counted` is history. `Terminals`: `registry` is the manager's map by id, `owned` the
ids of each connection, `session` each shell with its reader and the thread that reaps it; `windows`
chooses between ConPTY and fork. A reader ends with its shell or at a failed read; the one on Unix
then waits for the shell and closes the file, the one on Windows does neither.

### Supervision, Updates, SettingsFile

`Supervision`: `worker` says what became of each process, `origin` who started it, `ui` what the
dashboard holds, `stoppers` its threads, `pidfile` and `unit` what outlives it; processes may die
and their numbers be reused. `Updates`: `partial` and `dest` are the two paths of the installer,
`body` what each download has written, `fetch` the updaters, `offers` those whose user is asked to
install. `sized` says that the release was fetched, not restored from the settings: only then are its
length and the address of its checksums known (GitHub gives every asset its size). A download of a
restored release has a length if the server tells one, and is put in place short if not. `SettingsFile`: `json` is the file,
`environ` what each process has read of it, `writing` the read, merge and rename of
`update_settings_file` under the lock `flocked`.

## 3. Runs

`CHECK_DEADLOCK FALSE` because a session, or a service, may have ended with nothing left to do.
Symmetry is used over prompts, requests, wakes, callers and senders, never together with liveness.

| Run | Properties | Bounds |
|---|---|---|
| queue | `CancelHonoured`, `RowHasFiles`, `AtMostOnce`, `NoSilentLoss`, `MirrorFaithful`, `ImplementsContract` | 2 prompts, 2 senders, `MaxGen` 2; cancels, pause, end, agent exit, refusal, crash |
| queue_drain | `EditHonoured`, `TurnEndDrains` (liveness) | 2 prompts, 2 senders; edits and a wake |
| Permissions | `AllowedOnWord`, `WaitingReachable`, `EveryCallReturns` (liveness) | 3 calls, 2 answers, timers |
| Wakeups | `SentOnce`, `ShownWillFire` | 2 wakes, 2 calls in progress, a restore and a restart |
| WakeupBadgeClears | `BadgeClears` (liveness) | 2 wakes, 1 call |
| PersistDurable | `StoredStays`, `ArchivedWhole` | 4 messages (the deque never full), 2 archives, late messages, failing commits, a crash |
| PersistRestores | `EndedLeaves` (liveness) | 3 messages, 3 objects, a crash or shutdown |
| LifeCalls | `KeepsContract` (refinement), `CallsReturn` (liveness) | 2 calls and 1 prompt in progress, 2 executors, 2 turns, questions, outer LLM, missing key; `CallsOneAgent` |
| LifeIdle | `OneReader`, `IdleIsFree` | 1 call, 2 prompts, 3 executors, 5 turns; no questions, no outer LLM; steps that keep `Orderly` |
| Services | `TypesOK` and one property of each of thirteen parts, below | `MCServices.cfg`, part by part |
| Sessions | one property of each of five parts, below | `MCSessions.cfg`, part by part; `MaxHistory` 4, `MaxTreeOps` 3 |
| LifeKill | violation of `EndKills` | 1 cancel, 1 prompt |

*Services and Sessions* put parts that share no state into one run. `Init` chooses the part
(`service`, `part`), the others stay where they begin, and the state space is the sum of those of
the parts. A part that does not run has one initial state.

| Part | Property | Shows |
|---|---|---|
| ports | `MappedIsLive` | a service that shows a mapping, and whose last renewal worked, has it on the router, through conflicts, failed renewals and new addresses |
| tools | `EntryOnDisk` | the entry sends sessions to a binary that is there, and that has passed its checksum, through concurrent operations, uninstalls and crashes |
| telemetry | `CountedOnce` | no row is folded twice wherever the worker is killed, and the watermark in memory never passes the stored one |
| desktop | `NoLostWorker` | a live worker that this dashboard spawned is held by it, or by a thread that stops it |
| reviews | `CommentKept` | a queued comment is in the draft, on GitHub, or was removed (one reviewer, any syncs) |
| tasks, issues | `NoDangling` | neither the issue nor the session keeps a link to a deleted task |
| plans | `PlanLinked` | the finalization ends with the task pointing to the one row of its file, unless that was deleted |
| login | `LoginProcessEnds` | a Codex login that is over has no process |
| terminals | `NoOrphan` | a session that is read can be closed; on Unix one that is no longer read has left no file, and no shell neither waited for nor hung up |
| cli | `AgentHasKey` | an agent that may start gets the key of its provider and no other |
| catalog | `Deduplicated` | one request at a time asks the provider for a key, and one that waited takes the answer |
| updates | `OfferedIsVerified` | while a user is asked to install, the file of that name is the one whose checksum was right |
| settings | `OthersKept` | a write takes away nothing another process wrote |
| turns | `SettlesFree` | without turn and call, the session is not busy, names a tool only for an agent it has, and has no process but ACP's |
| output | `MarkerSplits` | replay, marker, live messages: none left out, none twice |
| loop | `HistoryPaired` | what a provider is sent has the result of every tool call |
| stream | `WatchEndsOnce` | the end of a watch is shown once, and not while it is tracked |
| worktrees | `TrackedDeepest` | when an agent moves, badge and selection go to the innermost listed worktree that holds its directory, by names and not by letters, and nowhere else |

*Why the bounds suffice.* Every hazard listed is a race of two or three coroutines on one
object: two operations in progress plus a timer, a drain or a stream task produce every pair.
Two prompts are enough for a queue to have a head and a rest (`QueueIsFifo` of section 6 needs
three); `MaxGen`, how often one prompt may enter the queue, is two so that a message claimed
before a pause comes back once; crashes of the queue are unbounded; two executors let a late
step meet a new one. The mutants confirm that the interesting cases occur: each property is
broken by its mutant inside its own bounds. Three bounds are not constants of a module:
`CallsOneAgent` of `MCSessionLifecycle` starts lifecycle calls only while at most one agent was
made (and `Orderly`, an action constraint of LifeIdle, is an assumption and not a bound: section
6), `Mixes` of `MCServices` runs the board once with the requests that change the status of a task
and once with those of an issue, and `MaxHistory` of `MCSessions` limits the history of the LLM.
`MaxTreeOps` lets three operations happen (an agent starts, and moves twice; or a worktree is made,
selected, and removed); a tool call that has begun is always completed.

*Where a property holds only under a smaller environment, the rest is a divergence of section 6.*
`StoredStays` holds while the deque is not full and no client restores the session, `TurnEndDrains` when
the agent does not exit without a result and no delivery is refused, `OneReader` when the calls and
prompts that wait for a stream task do not overlap (`Orderly`) and no turn of the outer LLM starts an
agent, `IdleIsFree` when the agent asks no questions, the outer LLM starts no agent, and no resume
overtakes a pause (`PauseFirst`, which one caller keeps), `SettlesFree` when nothing overlaps a
teardown and no prompt overtakes a drain, `EndedLeaves` when no archive fails (a failed one is not
tried again), `EntryOnDisk` when no uninstall overlaps an install, `CountedOnce` when the watermark can
be read, `OthersKept` where the file can be locked and read, `OfferedIsVerified` with one updater,
`CommentKept` with one reviewer.

*Stated, but on no run's list.* `TypeOK` of the five modules of the first nine runs (proved for
`PendingQueue` and `SessionLifecycle`, part of the invariants of the proofs of the others);
`OutcomeShown`, `SnapshotFaithful` and `LatestRuleWins` of `Permissions`; `OneVerdict`,
`VerdictDurable` and `CancelledTimersStop` of `Wakeups`; `FlushFits` of `SessionPersistence`;
`TerminalStays` (it follows from `KeepsContract`) and `EndArchived` (without "noKey") of
`SessionLifecycle`, both proved; `TypesOK` of `MCSessions`. They hold when added to the
configurations of section 3 and say less than those that are listed.

*Fairness.* Weak fairness of the steps the event loop owes a coroutine: a commit returns, a
timer that was started runs out, a ready task runs, a disconnect returns (the SDK bounds it),
a cancelled task unwinds. Nothing is assumed of users, of agents finishing their turns (but
in `queue_drain`, which speaks of turns that end) or of restarts. The parts of Services and
Sessions are checked without fairness, for safety.

LifeKill shows, with a trace, that a statement of the repository is not what the code does: a
prompt that arrives during the disconnect of a cancel connects the agent again, for good. The
other divergences met while modelling are in section 6.

## 4. Proofs

All are for every value of the constants that satisfies the assumption of the module, which TLC
evaluates on every run (names of disturbances are known, bounds are natural numbers, the drainer
is not a sender and `NoJob` not a row, no archiver is called as the two other values of a lock);
bounds of the runs play no part in them. A theorem with a hypothesis holds under the
environment its run has (section 3); without it there is a counterexample, in section 6 where the
repository says otherwise.

| Module | Theorem | Says |
|---|---|---|
| `PendingQueueProofs` | `TypeCorrect` | `Spec => []TypeOK` |
| | `RunsAtMostOnce` | `Spec => []AtMostOnce` |
| | `NothingLost` | `Spec => []NoSilentLoss` |
| | `CancelIsFinal` | `Spec => []CancelHonoured` |
| | `RowsKeepFiles` | `Spec => []RowHasFiles` |
| | `MirrorIsFaithful` | `Spec => []MirrorFaithful` |
| | `EditIsHonoured` | `Spec => EditHonoured`, a property of the steps |
| | `Implements` | `Spec => ImplementsContract`: initial states map to initial states, steps to steps or stutters |
| `SessionLifecycleProofs` | `SessionTyped` | `Spec => []TypeOK` |
| | `EndedStaysEnded` | `Spec => TerminalStays` |
| | `KeepsItsContract` | `Spec => KeepsContract`: initial states map to initial states, steps to steps or stutters |
| | `NothingTooEarly` | `Spec => []Contract!OnlyWhenOver`: nothing is announced or archived before the session is over |
| | `EndIsArchived` | `Spec => []EndArchived`, without "noKey" |
| | `OneReaderAtATime` | `OrderlySpec => []OneReader`, where the outer LLM starts no agent |
| | `IdleSessionIsFree` | `[]IdleIsFree` for steps that keep `PauseFirst`, where no questions are asked and the outer LLM starts no agent |
| `ClaudeCodeProofs` | `OnlyOnAWord`, `NoneStranded` | permissions: `Spec => []AllowedOnWord`, `Spec => []WaitingReachable` |
| | `WatchEndShownOnce` | watches: `AgentStreamSpec => []WatchEndsOnce` |
| | `BadgeFollows` | worktrees: `TreeSpec => TrackedDeepest` |
| `SessionsProofs` | `PromptSentOnce`, `BadgeHasTimer` | wakes: `Spec => []SentOnce`, `Spec => []ShownWillFire` |
| | `RepliesHaveResults` | the LLM loop: `LoopSpec => []HistoryPaired` |
| | `SettledIsFree` | Codex, OpenCode, ACP: `AgentSpec => []SettlesFree`, assuming `InOrder`: no "overtake", no "overlap" |
| `RecordsProofs` | `NothingUnstored`, `ArchivedIsStored` | `Spec => StoredStays`, `Spec => ArchivedWhole`, assuming `Whole`: the deque has room for all messages, and one object |
| `ServicesProofs` | `LinksHaveTasks` | tasks: `BoardSpec => []NoDangling` |
| | `TaskGetsItsPlan` | plans: `PlanSpec => PlanLinked` |
| | `CommentIsKept` | reviews: `PrSpec => []CommentKept`, assuming `OneReviewer` |
| | `EntryIsOnDisk` | tools: `ToolSpec => []EntryOnDisk`, without "overlap" |
| | `AgentGetsItsKey` | settings of a CLI: `SettingsSpec => []AgentHasKey` |
| | `NoLoginIsLeft` | logins: `LoginSpec => []LoginProcessEnds` |
| | `FetchedOnce` | model lists: `CatalogSpec => Deduplicated` |
| | `NothingOrphaned` | terminals: `TermSpec => []NoOrphan` |
| | `HistoryThenLive` | output: `OutSpec => []MarkerSplits` |
| `DesktopProofs` | `NoWorkerIsLost` | the dashboard: `SupervisionSpec => []NoLostWorker` |
| | `MappedMeansMapped` | the router: `PortSpec => []MappedIsLive` |
| | `OfferIsVerified` | updates: `UpdatesSpec => []OfferedIsVerified`, assuming `OneUpdater` |
| | `WritersKeepOthers` | `SettingsFileSpec => OthersKept`, assuming `Lockable`: no Windows without the lock, no file of another user |
| | `CountedAtMostOnce` | telemetry: `TelemetrySpec => []CountedOnce`, without "badload" |
| | `PartsRunAsAlone` | `MCServices`: `Spec` implies `PortSpec`, `ToolSpec` and the specifications of the other eleven parts |
| | `PartsKeepTypes` | `Spec => []TypesOK`, assuming `PartsAssumed`: all that the theorems of the parts assume |
| | `PartsKeepPromises` | every other property of `MCServices.cfg`, of the same `Spec` and under the same assumptions |

*The arguments.* None of the properties is inductive as it stands.

* Queue. Between the claim of a row and the delivery the prompt is in no table: whether it may be
  delivered depends on the coroutine that holds it, and whether that coroutine may act depends on
  what cancels, ends and crashes did meanwhile. `IInv == TypeOK /\ IsFiniteSet(db) /\ DownIdle /\
  Owner` adds that a worker that is down holds nothing, and `Owner`, that every prompt has exactly
  one holder, told by its fate: the sender that offers it, its row, the drainer or the sender that
  claimed it, the turn that runs it, or nobody when its fate is final. `MirrorInv` follows the second
  copy: every difference between the table and the mirror (a row not yet shown, an entry whose row
  is gone, an old text) has one coroutine that is about to settle it, no two speak of one row, and an
  id that enters was never in either. With no coroutine between its two writes nothing is left to
  differ.
* Lifecycle. A status leaves the terminal ones only if a step starts from a stale test. `IInv`
  adds to the types that a call that waits is one of the four that end in a known way,
  and that a task that has not begun, or is about to be made, has an executor. `ReaderInv`: the
  attribute of the session names the one task that holds its agent, unless the agent is being killed;
  a call waits for a task only with the executor gone; a prompt that waits keeps the session busy, so
  that the others are queued. `IdleInv`: a session that shows itself occupied has a prompt or call that
  waits, or a task with a result, an exit or an end still before it; a pause in progress keeps the
  session from being active. `OverInv` and `OwedInv`: a call ends the session after the await and hands
  it over after another, so nothing is announced or archived before the session is over, a call about
  to hand it over has ended it, and an ended session that was not handed over has such a call. Every
  step then does one of four things to the end of the session (`EndStep`), and each is a step of
  `SessionContract`.
* Permissions. A call is allowed by a rule, by the blanket, or by its request's own decision, so the
  invariant says of each of the three that an acknowledged answer made it (`RulesGiven`,
  `BlanketGiven`, `DecisionGiven`).
* Watches. A watch is announced once (`OnceIn`); while its announcement is in the queue it is
  neither tracked nor ended (`NotHeardOf`), and one not yet started is in none of the three places
  (`NotStarted`).
* Wakeups. A prompt is sent by the timer of its wake. `FiredInRow` says that a timer on its way to
  the prompt, and a prompt that was sent, have left their mark in the row, so that a restart arms
  neither; `OneToSend` that a wake has one of the two; `NotArmedYet` and `NoRowYet` that a wake whose
  tool call has not returned is nowhere else; `BulkList` that a bulk cancel still has on its list
  what it will cut the timers of.
* LLM loop. `LoopInv`: exactly the holder of the lock is at a step from reading the context to its
  failure; while that one owes results the last message is its reply, and all before it is paired,
  and at every other step the whole appended history is.
* Codex, OpenCode, ACP. `TurnsInv`: at most one turn lives, the task the session names, on the one
  executor, and only that owns a process (`OneTurn`, `OwnedByExec`); a turn that ended well has shown
  the session free before it exits (`OkEnded`), and so has the last one unless a call has yet to
  (`ShownFree`); a session that stopped has neither token nor executor once its call is over
  (`Stopped`); a call tears down the session's executor, or that is gone (`TearsDown`). `PauseHolds`:
  a session being paused stays so until the call has finished.
* Persistence. A flush reads the buffer before it takes the lock and an archive replaces every row.
  `PersistInv` (with `Whole`): the object holds what is stored and what it had at its end
  (`ObjectHolds`); a flush writes part of that under the lock (`FlushHolds`), an archive, under the
  lock, no less than what is stored or was there at the end (`ArchiveHolds`).
* Telemetry. `CountInv`: what was counted ended no later than the stored watermark, what an aggregation
  has read ended after it, and the watermarks in memory and in the row agree whenever one begins.
* Tasks, plans. `BoardInv` adds to the types and `NoDangling` only what was read: a request and the
  judge act on a status of a task (`StatusRead`). The rest is in the steps: each loads in one
  transaction what it links. `RowIsKept`: what the finalization has read of the row of its file is
  still so, unless that row was dropped.
* Reviews. A request reads the draft, awaits, and writes what it read. `RequestsOK`: with one reviewer
  what was read under an id is the draft of that id, if there still is one, a new draft has a new
  id, and the comments of a review that GitHub took are posted.
* Tools. `LockHeld`: one operation is past the lock. `OpsOK`: one about to place a download has checked
  it where the release has a checksum, one that has placed or found a binary finds it there.
* Settings of a CLI. `CopiesFollow`: the env section agrees with the provider in the file and in
  every stale copy that may be written back.
* Logins. From the check of the status on, the process of a login has exited (`ChildExited`).
* Model lists. `OneHolder`: of the requests of one key one is past the lock, until its answer is stored.
* Terminals. `EntryRuns` says that an entry of the map names a session of that id that was born,
  `ListComplete` that a connection that leaves still has on its list what it owns, `Unborn` that
  sessions not created are not referred to.
* Output. A stream copies the history and subscribes in one step. `OutInv`: its queue has first what is
  left of the replay, then later messages, the end last; what was sent and what is queued are
  together a stretch of the log without a hole, up to its end while the stream is subscribed.
* Dashboard. `RoomToSpawn`: a spawn begins only when what is held has ended or is being stopped,
  so that no handle is overwritten, and a dashboard that comes up has a number no process has.
* Router. Until the stop, the bootstrap and the loop take turns, each with one thread
  (`TasksTakeTurns`), and a loop that has not failed asks again with half of the lease left
  (`LeaseLeft`); after a stop nothing is claimed.
* Updates. `OfferStands`: while a file is offered none is downloaded, and the app knows the length and
  the checksums of its release, so that another click verifies that file again and does not replace
  it; `SizeKnown`: what a download of the app knows, the app still knows. A second updater breaks the
  first.
* Settings. Who is between read and rename holds the lock, and what it has read is still what the
  file says (`HolderWrites`, `ReadIsCurrent`).
* Worktrees. `TreeInv` adds to the types that what a call, a command or an output names is a path.
  That two paths compare by their names and not by their letters is a lemma about strict prefixes of
  sequences (`InsideIs`), and that the loop over the listing ends with the innermost entry one about
  the greatest of finitely many lengths (`DeepestIs`, `MostNamedType`, `LastNamedType`).
* All parts together. A step of `MCServices` is a step of the part that runs and leaves the variables
  of the others (`StepOfParts`), so its runs are runs of each part (`PartsRunAsAlone`), and each
  theorem about a part holds of them. The types of a pull request need one more invariant
  (`PrBounds`), those of the others are in the invariants above.

*Only model-checked.* All liveness (`TurnEndDrains`, `EveryCallReturns`, `BadgeClears`, `EndedLeaves`,
`CallsReturn`): fairness and ENABLED are beyond the prover used here.

## 5. Not modelled

* Text, formatting, prompts and their attachments' bytes, wording of messages; path prefixes
  and command parsing of permissions; titles and summaries; wire formats of the port mapping
  protocols; the content of model lists, pull requests and artifacts.
* The paused status in `Wakeups`; child tables and list broadcasts in `SessionPersistence`,
  where a failed archive is not retried, as in the code; several sessions at once.
* In `SessionLifecycle`: two questions asked in parallel, the inactivity reaper (it calls `end`),
  restore. The watches that keep a stream task alive are in `AgentStream`, where no call of the
  lifecycle interferes but the stop of the agent.
* In `Worktrees`: several sessions of one project (they share the list), calls of the tool in parallel,
  a call that names another repository; whether a line runs in a subshell.
* In `TurnAgents`: the messages an event becomes, ACP permission requests. In `Supervision`: the
  Windows tray and the layout of the windows. In `PullRequests`: several pull requests or reviewers
  of one draft at once.
* External: the agent SDK kills its callbacks on disconnect; SQLite commits are atomic; asyncio
  runs ready callbacks in order; GitHub, Linear, routers, OAuth servers and service managers answer,
  refuse or stay silent.
* The components that PROJECT.json marks `not_modelled`, each with its reason.
* Compositions beyond the shared modules: a wake delivered into the queue is an input of
  `PendingQueue`, an ended session is an input of `SessionPersistence`.

## 6. Divergences beyond the runs

Each property below is stated in its module, most under "Claims of the repository that the
code does not keep". No run of PROJECT.json checks it where it fails; added to the named
configuration, TLC gives a counterexample. `StoredStays`, `OneReader`, `IdleIsFree`, `SettlesFree`
and `EntryOnDisk` are checked by a run whose environment leaves the case out (section 3). The code's position is in parentheses.

* `NeverStranded` (add it to `MCPendingQueue.cfg`). The input handler's comment says 'If the prompt was enqueued, delivery happens on the next turn boundary via PromptRouter.schedule_pending_drain' (src/src/api/ws/input_text.py:632). schedule_pending_drain returns when the mirror is empty, and enqueue fills the mirror only after the await of its commit (src/src/core/pending_store.py:121-135): a turn that ends between the two schedules nothing, and the message waits on an idle session until some later turn. (src/core/prompt_router.py:1199)
* `NoTurnCut` (add it to `MCPendingQueue.cfg`). docs/design/sessions.md:204 says 'Mid-turn delivery is not attempted for any agent'. _drain_one checks is_busy_for_queue only before the awaits of pop_head, rehydrate_attachments and _ensure_session_row_in_db, and handle_prompt exempts a drain delivery (queued_id set) from its own busy check; a prompt that started a turn in between has it cancelled by _forward_to_claude_code (src/src/core/agent_claude_code.py:1624-1627). (src/core/prompt_router.py:1424)
* `AttachmentsDelivered` (add it to `MCPendingQueue.cfg`). rehydrate_attachments says 'Must be called **before** pop_head' because the pop removes the attachment bytes (src/src/core/pending_store.py:383); _drain_one calls it after pop_head, so the bytes are gone and the delivery goes out without attachments. (src/core/prompt_router.py:1242)
* `EndLeavesNoRows` (add it to `MCPendingQueue.cfg`). docs/design/sessions.md:205 says that on session end 'clear_session deletes all rows'. _drop_pending_on_session_end returns when the mirror is empty, and the row of an enqueue between its commit and its mirror update is not in the mirror; _end_claude_code_session (src/src/core/agent_claude_code.py:1526-1553) completes the session without calling it at all. (src/core/session_lifecycle.py:117)
* `QueueIsFifo` (add it to `MCPendingQueue.cfg` with three prompts, one sender, `MaxGen = 2` and `Env = {"pause"}`). docs/design/sessions.md:191 says of position 'dense integer, FIFO order within the session'. The drain takes the head's row away before it calls handle_prompt; when a pause came in between, handle_prompt enqueues the message again at the tail, behind messages sent after it. (src/core/prompt_router.py:1398)
* `MissMeansEmpty` (add it to `MCPendingQueue.cfg`). The comment on pop_head in _drain_one says it 'returns exactly the message removed (None if the queue emptied)' (src/src/core/prompt_router.py:1241). _delete_one also returns None when a concurrent cancel has deleted the head's row (src/src/core/pending_store.py:301-302); the drain then stops with messages still queued. (src/core/prompt_router.py:1243)
* `FirstAnswerCounts` (add it to `MCPermissions.cfg`). resolve_request accepts an answer as long as the request is in _pending, and only the asking task removes it, one turn of the event loop later: a second answer handled in between overwrites pending.decision and may add a rule, and it is acknowledged. docs/design/permissions.md:64 says "Only the first response for a given `request_id` takes effect; subsequent responses are silently ignored." (src/core/permissions.py:280)
* `BlanketDenyHolds` (add it to `MCPermissions.cfg`). check_cached looks at _blanket_allow before _blanket_deny and nothing clears a flag, so a deny for all_session given to a request that was already pending when another one was allowed for all_session has no effect on later calls. docs/design/permissions.md:45 says of all_session: "Blanket allow/deny for ALL tools for the rest of the session". (src/core/permissions.py:242)
* `ReplayShowsOutcome` (add it to `MCPermissions.cfg`). wait_for_response sets the decision to DENY on TimeoutError even when resolve_request has stored an answer in the meantime; resolve_permission has by then set msg.data["accepted"] from the answer. src/core/session_lifecycle.py:384-386 says the buffer is updated "so that replaying the history ... shows the resolved state". (src/core/permissions.py:319)
* `DeadNotPending` (add it to `MCPermissions.cfg`). interrupt_subprocess and end_session kill the agent through _teardown_executors and never call cancel_all_pending; the killed callback leaves wait_for_response by CancelledError, which skips the pop, so its request stays in _pending and a late answer to it is acknowledged and may add a rule. The docstring at src/core/permissions.py:330 says: "Called when the session is paused, cancelled, or the subprocess dies." (src/core/permissions.py:327)
* `FiredMeansForwarded` (add it to `MCWakeups.cfg`). The bulk cancels (_drop_wakes_on_session_end, DELETE /sessions/{id}/wakes) collect the wake ids first, await one commit per wake, and cancel the timer tasks of all collected ids at the end. A timer that fires in between has taken its wake out of the mirror and pushed WAKEUP_FIRED; its task is then cancelled inside handle_prompt, and the prompt is lost. src/core/buffer.py:54 says "FIRED when the timer expires and the prompt is forwarded back into CC". (src/core/session_lifecycle.py:130)
* `CancelledIsNotSent` (add it to `MCWakeups.cfg`). _fire_pending_wakeup ignores that mark_fired returned None. A wake that cancel_all_for_session has taken out of the mirror (WAKEUP_CANCELLED pushed) still has its timer until the whole list is done; a timer that fires in that window sends the prompt. src/core/wakeup_scheduler.py:9 says "Cancelling a wake or ending the session removes the timer." (src/core/prompt_router.py:1300)
* `EndRemovesTimers` (add it to `MCWakeups.cfg`). Only cancel_session and end_session drop wakes; _end_claude_code_session (and session.fail in the router) complete and archive the session and leave its rows pending and its timers armed. docs/design/sessions.md:205 says "When a session ends / is cancelled, `pending_store.clear_session(reason="session_ended")` deletes all rows and emits `message_dequeued` for each, and scheduled wakes are cancelled." (src/core/agent_claude_code.py:1526)
* `RestoredHasWakes` (add it to `MCWakeups.cfg`). Nothing but the startup hook calls restore_all_pending or load_for_session of the wake store: SessionLifecycle.restore_session brings a session back without its pending wakes. The docstring at src/core/wakeup_store.py:208-209 says of sessions that are not in memory: "their wakes still survive in the DB and will be re-hydrated when the session is restored." (src/core/wakeup_store.py:208)
* `FlushedIsSaved` (add it to `MCSessionPersistence.cfg`). After its commit the flush sets _last_flush_sequence to the sequence number reached by then and clears _dirty, so messages pushed (and fields changed) while it awaited the database are never visited by a later flush; a crash loses them. docs/design/sessions.md:147 says "This guarantees that title, `conversation_history`, metadata, token counters and chat messages survive an ungraceful crash or SIGKILL". (src/core/session.py:1553)
* `StoredStays` (add it to `MCSessionPersistence.cfg` with `Archivers = {a1}`, `Cap = 2`, `Env = {}`, `MaxStarts = 0` and no symmetry). archive_session deletes every row of the session and writes only what the deque still holds, so messages that were flushed and then evicted from the deque are lost at the archive. tests/test_core/test_session_flush.py:422 says "Messages flushed before deque eviction remain in DB even after archive." (the test never fills the deque). (src/core/session.py:1083)
* `ClosedStaysClosed` (add it to `MCSessionPersistence.cfg`). A flush applies the status to its row object, then waits for the write lock. If the session ends and is archived meanwhile, the flush commits the earlier status over the final one, and the next start reloads a session that has ended. src/core/background_tasks.py:119 says "The archive_session path updates all fields on completion, so the stub row is always superseded by the final values." (src/core/session.py:1529)
* `RestoreOnce` (add it to `MCSessionPersistenceRestores.cfg` with `Restorers = {r1, r2}`). restore_session looks at _sessions once, awaits two reads and registers its object without another look: two clients that restore at the same time both succeed, and the second object replaces the first, which its client keeps using. src/core/session.py:1122 says "RuntimeError: If the session is already in memory or not in a terminal state." (src/core/session.py:1124)
* `ShutdownKeeps` (add it to `MCSessionPersistenceRestores.cfg`). An archive task cancelled while it awaits commit() takes the session out of memory whether or not the commit lands; when the transaction is rolled back, save_all_sessions no longer sees the session and what was not flushed is lost. docs/design/sessions.md:150 says of the graceful shutdown "state is preserved cleanly". (src/core/session.py:1105)
* `FlushFits` (add it to `MCSessionPersistenceRestores.cfg` with `"late"` in `Env`). The flush iterates over a copy of the sessions and never looks whether the session is still the registered one. When a late message (a summary) arrives during the archive, a flush of the archived object can store it after restore_session has read the messages; the restored object hands out the same sequence number and every later flush of it fails on the unique constraint, status and title included. src/core/session.py:1192 says "keep session and message rows in DB for incremental flush continuity". (src/core/session.py:1514)
* `StoppedStartsNothing` (add it to `MCSessionLifecycle.cfg`). No lifecycle call stops the turn of the outer LLM and _start_claude_code does not look at the status: a turn that is running when its session is cancelled (or paused) goes on to start an agent for it. The docstring at src/core/session_lifecycle.py:219 says "Cancel a running session, killing any active subprocess."; src/core/session_lifecycle.py:483-484 says of a paused one "New prompts are rejected until the session is resumed.". (src/core/agent_claude_code.py:323)
* `OneEnd` (add it to `MCSessionLifecycle.cfg`). cancel_session and end_session test the status before the awaited teardown and do not test it again: a second call made during the teardown passes the test, pushes a second SESSION_END and archives again, and a cancel can become a completion. The docstring at src/core/session_lifecycle.py:225 says "RuntimeError: If the session is already in a terminal state." (src/core/session_lifecycle.py:231)
* `GroupsNest` (add it to `MCSessionLifecycle.cfg`). The executor of a Claude Code session outlives its turns, so _teardown_executors reports an active executor for an idle session and AGENT_GROUP_END is pushed with no group open. The comment at src/core/session_lifecycle.py:539 says "Close any open agent group", and the one at :500-502 says that an extra AGENT_GROUP_END leaves the client "in an unrecoverable loading state after resume". (src/core/session_lifecycle.py:540)
* `PauseHolds` (add it to `MCSessionLifecycle.cfg`). resume_session releases the question gate and makes the session ACTIVE but leaves _status_before_input_wait set; a pause that comes before the callback has run is taken for the input wait by end_input_wait, which makes the session ACTIVE although pause_session is still killing its agent. The docstring at src/core/session_lifecycle.py:483-484 says "New prompts are rejected until the session is resumed." (src/core/agent_claude_code.py:558)
* `AnswerReaches` (add it to `MCSessionLifecycle.cfg`). The question event is cleared only by the callback that waits for it. When the agent exits, its callback is cancelled and the event stays unset, so send_interactive_response stores the answer in it and returns. The docstring at src/core/session_lifecycle.py:409-410 says "Falls back to :meth:`handle_prompt` when there is no active Claude Code process (e.g. the process exited while the user was answering)." (src/core/session_lifecycle.py:455)
* `StopIsClean` (add it to `MCSessionLifecycle.cfg`). Only pause_session marks the session before it kills the process. The stream task of an interrupted (cancelled, ended) session sees the end of the stream with status ACTIVE, closes the agent group a second time and reports "Claude Code process exited unexpectedly". The comment at src/core/session_lifecycle.py:495-502 says what follows from that: "the task would fall through to the "unexpected exit" path, push a spurious "exit code -9" ERROR, and emit an extra AGENT_GROUP_END". (src/core/agent_claude_code.py:1349)
* `ResumeKeepsAgent` (add it to `MCSessionLifecycle.cfg`). A resume (a queued send fires one) that runs while pause_session awaits the disconnect finds the executor attribute still set and rebuilds nothing; teardown then clears it. The comment at src/core/session_lifecycle.py:694-696 says "Without reconstruction the next handle_prompt() call would see executor=None and route the message to the outer LLM instead of Claude Code." (src/core/session_lifecycle.py:102)
* `OneReader` (in `MCSessionLifecycleIdle.cfg`, drop `ACTION_CONSTRAINT Orderly`; for the other two, also `Callers = {c1, c2}`, or `"llm"` in `Env`). _teardown_executors clears the executor attribute, awaits the cancelled stream task and then clears the task attribute without looking whose task it holds by then. Its docstring, src/core/session_lifecycle.py:79, says 'Cancel every active agent executor and its background stream task.' (a) A prompt that a drain forwarded waits for the task it cancelled; meanwhile the session is paused and resumed and another prompt starts a turn; the first then starts a second one on the same agent. (b) A session is resumed while a pause still waits: when the pause goes on it clears the attribute of the new task, and the next prompt finds no task to cancel (src/core/agent_claude_code.py:1624). (c) The same with a turn of the outer LLM that starts an agent (_start_claude_code) during the wait. (src/core/session_lifecycle.py:109)
* `EndArchived` (add it to `MCSessionLifecycle.cfg`). The preflight of the LLM credentials calls session.fail() and returns without SESSION_END and without _fire_archive_task. docs/design/sessions.md:146 says "The prompt router fires a background task after each `session.complete()`, `session.fail()`, or `session.cancel()` call." (src/core/prompt_router.py:1533)
* `IdleIsFree` (add it to `MCSessionLifecycle.cfg`). After an answered question read_more_events returns as soon as nothing arrives for _DRAIN_IDLE_TIMEOUT; the question is cleared by then, so the stream task ends before the result of the agent's turn, the activity stays RUNNING_SUBPROCESS, and is_busy_for_queue() queues every later prompt although no task will ever drain the queue. The docstring at src/core/agent_claude_code.py:1495-1496 says the helper is there to "stream that continuation so the agent resumes on its own". (src/core/agent_claude_code.py:1522) Two more ways, without questions: a resume that overlaps a pause (`Callers = {c1, c2}`), and a turn of the outer LLM, waiting for its tool, that is given an agent by a resume (`"llm"` in `Env`); both in `MCSessionLifecycleIdle.cfg` without `ACTION_CONSTRAINT Orderly`.
* `SettlesFree` (in `MCSessions.cfg`, with `"overlap"` or `"overtake"` in `AgentEnv`). The docstring at src/core/session_lifecycle.py:483-484 says 'New prompts are rejected until the session is resumed', and a resume does not wait for the pause to finish. (a) A session is resumed while the pause still awaits the end of its agent, and a prompt starts a turn on the executor that is on its way out; the pause then cancels that turn and clears the executor, and the session, active, stays busy with nothing that runs. (b) A prompt overtakes a message that the drain has claimed, and both start a turn on one ACP executor; an interrupt cancels the later one, the only one the session names, and the other goes on to spawn a process that no session owns. (src/core/session_lifecycle.py:99-109)
* `EntryOnDisk` (in `MCServices.cfg`, with `"overlap"` in `ToolEnv`). uninstall_tool 'Returns the re-detected tool' (src/services/tools/manager.py:155) and, unlike installs and updates, takes no lock: one that runs while the request of an install, whose lock is free again, awaits the version of the binary (`detect_tool`) is followed by the entry that request writes, and sessions are sent to a binary that is gone. (src/services/tools/manager.py:151)
* `InterruptKeeps` (add it to `MCSessions.cfg`). `interrupt_subprocess` says that 'the session remains ``ACTIVE`` after this call' (src/core/session_lifecycle.py:560). It leaves the status alone while it awaits the kill, the stream task of a Codex, OpenCode or ACP agent may see the end of the pipe in that time, and an incomplete turn ends the session: it is COMPLETED and archived when the interrupt goes on. (src/core/session_lifecycle.py:576)
* `ResumeKeeps` (add it to `MCSessions.cfg`). A pause marks the session first so that a stream task that sees the kill 'takes the clean PAUSED branch' (src/core/session_lifecycle.py:496-502). For a Codex, OpenCode or ACP agent that branch is complete(), which notes completed_while_paused, and the resume then ends the session instead of rebuilding the executor as its docstring says (src/core/session_lifecycle.py:629-635). (src/core/session_lifecycle.py:505)
* `IndicatorCleared` (add it to `MCSessions.cfg`). clear_subprocess_tracking is 'Called whenever the managed subprocess is no longer running (normal end, unexpected exit, cancel, pause, etc.) so the client hides the subprocess indicator bar' (src/core/session.py:419). The normal end of a turn of Codex, OpenCode or ACP does not call it: the turn completes whatever the indicator shows, and a tool reported 'running' and never 'completed' stays named in a session that is idle and runs nothing. (src/core/agent_opencode.py:361)
* `ToolStays` (add it to `MCServices.cfg`). 'Roll back the rename so the user is left with a working binary' (src/src/services/tools/binary_install.py:78) covers a second rename that raises, not a worker that dies between the two: the next start sweeps the parked binary and finds none. (src/services/tools/binary_install.py:65)
* `UpdateHarmless` (add it to `MCServices.cfg`). _verify_binary exists 'so the installer can fall back to musl' (src/src/services/tools/binary_install.py:94). An update replaces the working binary by the gnu build before it verifies it; when the download of the musl build then fails, the host is left with a binary that does not run. (src/services/tools/manager.py:366)
* `UpdateInstallsNothing` (add it to `MCServices.cfg`). trigger_tool_update says it 'Only updates tools that RCFlow manages' (src/src/api/routes/tools.py:137). update_tool installs a tool whose entry is missing or not installed: a request to update all tools installs the missing ones. (src/services/tools/manager.py:1085)
* `LeaseKept` (add it to `MCServices.cfg`). The docstring says 'Periodically refresh the port mapping before the router's lease expires.' (src/src/services/upnp_service.py:980), and three failures in a row are tolerated; after a failed renewal the loop sleeps for a minute (NAT-PMP: for at most the interval) and, having continued, for the interval again, half of the lease: one failure is enough for the lease to run out before the next attempt, while the state says mapped. (src/services/upnp_service.py:1035)
* `StopUnmaps` (add it to `MCServices.cfg`). The comment says 'If stop() ran during discovery, honour the teardown request' (src/src/services/upnp_service.py:595). stop() cancels the bootstrap task, so this branch is never reached after it, and the thread maps the port after the stop; a router that takes only permanent leases keeps it for good. (src/services/upnp_service.py:595)
* `StaysDisabled` (add it to `MCServices.cfg`). _discover_and_map of NAT-PMP writes MAPPED or FAILED from its thread without looking at the status; a thread that is still running when stop() has finished leaves a stopped service mapped. (src/services/natpmp_service.py:260)
* `ViewConverges` (add it to `MCSessions.cfg`). docs/design/websocket-api.md:673 promises 'real-time updates of the session list' by session_update. list_all_with_archived reads the sessions in memory and then awaits the archived rows; an update broadcast in between is sent before the list, which then shows the old state, and nothing corrects it until the next change. The lists of tasks, artifacts, issues and pull requests have the same window between their query and their send. (src/core/session.py:1214)
* `ReloadPaired` (add it to `MCSessions.cfg`). run_agentic_loop removes an orphaned reply 'to keep conversation history valid' (src/core/llm.py:645). A flush during a tool call stores the history with the reply and without the results; a crash, or an end of the session followed by a restore, loads it as it is, and providers refuse it in every later turn. (src/core/session.py:1166)
* `TurnsClosed` (add it to `MCSessions.cfg` with `LoopEnv = {}`). The comment says 'close turn, open next if loop continues' (src/core/prompt_router.py:1697). The next row is opened after every StreamDone, because no agent can have started by then: each prompt that is answered leaves a session_turns row without an end. (src/core/prompt_router.py:1703)
* `QueueServed` (add it to `MCSessions.cfg`). 'If the prompt was enqueued, delivery happens on the next turn boundary via PromptRouter.schedule_pending_drain' (src/api/ws/input_text.py:632). A direct tool makes the session busy, so a second prompt is queued; the direct path returns without scheduling a drain, and the prompt stays in the queue of an idle session. (src/core/prompt_router.py:1506)
* `BlocksOwn` (add it to `MCSessions.cfg`). The pending code blocks are dropped at the end of a turn 'so they cannot leak into the next turn' (src/core/prompt_router.py:1779). They are an attribute of the session and a bare mention takes no lock: a drained '#ClaudeCode' that meets a turn in progress starts the agent with the blocks of that turn's prompt. (src/core/prompt_router.py:1806)
* `NeverMissed` (add it to `MCServices.cfg`). A turn that ends after the watermark 'must still be counted exactly once' (src/services/telemetry_service.py:331). The end is taken before the row is read and committed; a row with a later end may be committed and aggregated in between, and the watermark then excludes the earlier row for good. (src/services/telemetry_service.py:182)
* `NeverRefolded` (add it to `MCServices.cfg` with `"badload"` in `TelemetryEnv`). The watermark is persisted 'so a restart never re-folds already-counted rows' (src/services/telemetry_service.py:65). A failure to read it counts as loaded with no watermark: the first aggregation adds every row again. (src/services/telemetry_service.py:316)
* `PidfileFollows` (add it to `MCServices.cfg`). The pidfile is written 'so a relaunched GUI can adopt an orphan' (src/gui/core.py:361). A worker that ended is seen at once by the toggle: a new one may be started before the thread that stopped the old one deletes the pidfile, now the new one's, and its start time with it. (src/gui/core.py:604)
* `AdoptsWorkers` (add it to `MCServices.cfg`). 'any error is treated as "not alive" so adoption fails safely' (src/gui/core.py:189). The pid alone is tested: after a crash of the dashboard the watchdog ends the worker, the file stays, and a process that was given the pid since is adopted as the worker; Stop ends it. (src/gui/core.py:405)
* `StartMeansStopped` (add it to `MCServices.cfg`). 'so the dashboard reflects reality without forcing the user to click Start' (src/gui/linux_app.py:672) holds on Linux only. On macOS the first refresh after a service was started finds the port still closed, drops the adoption and shows Start; nothing adopts the service when it listens. On Linux the same remains after a Stop of a worker that is not the unit's: systemd accepts the stop of an idle unit. (src/gui/macos.py:1280)
* `StartStarts` (add it to `MCServices.cfg`). 'Re-run adoption every time we'd otherwise spawn' (src/gui/linux_app.py:414) is skipped once a worker was adopted: only a Stop resets the flag. After that worker ended by itself or from the command line, Start shows Stop and starts nothing. (src/gui/linux_app.py:421)
* `StopFinal` (add it to `MCServices.cfg`). 'stop MUST be final' (src/services/worker_service/base.py:49). The loop that reaps an instance respawned during the bootout ends when nobody listens; an instance that is still migrating listens later. (src/services/worker_service/macos.py:173)
* `PostedOnce` (add it to `MCServices.cfg` with `MaxPosts = 2`). 'posting any queued inline comments, then clears the local draft' (src/api/integrations/github.py:831). When GitHub took the review and its answer timed out the draft is kept, and the retry posts every comment again. (src/api/integrations/github.py:858)
* `ProjectKnown` (add it to `MCServices.cfg`). 'or null when this worker has no clone' (src/database/models/github_pr.py:49). The detail of GitHub has no project, and upsert_prs writes all its columns: after a review, a merge or the opening of a pull request from that very clone the row has no project until the next sync. (src/api/integrations/github.py:557)
* `ArchivedStaysOut` (add it to `MCServices.cfg`). Pull requests of archived repositories 'are never cached, and any previously-cached rows for those repos are deleted' (src/services/github_service.py:847). The resync of one row upserts it whatever its repository says, and inserts it again if a sync has just deleted it. (src/api/integrations/github.py:558)
* `MovesValid` (add it to `MCServices.cfg`). 'Status transitions are validated' (src/api/routes/tasks.py:299). The agent validates its move against the status it read before it asked the model: a task the user has set to done meanwhile goes to review. (src/core/background_tasks.py:536)
* `OneTaskPerIssue` (add it to `MCServices.cfg` with `Calls = {"c1", "c2"}`, `MaxTasks = 3`). 'Returns 409 if the issue is already linked to a task' (src/api/integrations/linear.py:560). Two requests that both read the issue unlinked create a task each; the link of the first is lost. (src/api/integrations/linear.py:593)
* `EndJudged` (add it to `MCServices.cfg`). 'Fire task update when a session ends, if not already fired by a tool result' (src/core/background_tasks.py:468). While the model still names the tasks of the session none is attached, and none is judged later. (src/core/background_tasks.py:472)
* `PlanEndsRegistered` (add it to `MCServices.cfg`). 'Schedule plan artifact registration after a plan session ends (any reason)' (src/core/background_tasks.py:694). Only the lifecycle and a failed prompt call it: when the agent of the session finishes on its own, the plan is never linked. (src/core/background_tasks.py:693)
* `ScannerUpdated` (add it to `MCServices.cfg`). 'Recreate artifact scanner with new settings' (src/api/routes/artifacts.py:181). The scanner of the application is replaced, but the sessions scan with the one the prompt router was given at the start. (src/api/routes/artifacts.py:186)
* `VerifierKept` (add it to `MCServices.cfg`). 'it stays valid across multiple /code attempts as long as the user has not started a new /login' (src/api/routes/auth.py:506). An exchange clears whatever verifier is stored when it returns: that of a login begun meanwhile goes with it. (src/api/routes/auth.py:528)
* `LogoutStays` (add it to `MCServices.cfg`). 'Log out from Claude Code Anthropic subscription' (src/api/routes/auth.py:674). A login that is still verified when the logout runs writes its credentials again. (src/api/routes/auth.py:597)
* `OthersStay` (add it to `MCServices.cfg`). 'Only act on terminals this connection owns' (src/api/ws/terminal.py:167). A connection that ends closes a list of ids; while it waits for one, the shell of another exits, a second connection takes that id, and has its terminal closed. (src/api/ws/terminal.py:215)
* `LeavingEnds` (add it to a run of `Terminals` alone under `FairTermSpec`, with the constants of `MCServices.cfg`). 'Close the PTY session and kill the shell' (src/terminal/session.py:355). A shell that ignores the hang-up is waited for without end, and the connection's other terminals stay open. (src/terminal/session.py:380)
* `HandlesFreed` (add it to `MCServices.cfg`). 'The session is dropped from the manager map on this path (not via close()), so without this the PTY fd leaks' (src/terminal/session.py:223). The reader on Windows does not do it: it ends by dropping the session from the map, with its pseudo-terminal as it is; after a failed read the shell lives on in no map, out of reach of close. (src/terminal/session.py:272)
* `ValuesKept` (add it to `MCServices.cfg`). 'existing values are never overwritten' (src/services/tool_settings.py:801). A settings file that is no valid JSON when the worker starts is read as empty and replaced by the defaults: the keys in it are lost. (src/services/tool_settings.py:817)
* `UserMemoKept` (add it to `MCServices.cfg`). A user may have 'a manually-created CLAUDE.md with unrelated content' (src/services/tool_settings.py:731). The reader of the caveman mode allows for it; switching the mode on writes over it, and off deletes it. (src/services/tool_settings.py:586)
* `UserEntriesKept` (add it to `MCServices.cfg`). 'user-added entries ... are never touched' (src/services/tool_settings.py:631). When the end marker of the block is gone, everything behind its begin is dropped. (src/services/tool_settings.py:614)
* `MaskKeeps` (add it to `MCServices.cfg` with a key in `ShortKeys`). 'masked secret values ... represent unchanged secrets' (src/services/tool_settings.py:881). The mask of a value of at most four characters is not taken for a mask, and is saved. (src/services/tool_settings.py:92)
* `OwnCatalog` (add it to `MCServices.cfg`). 'swapping API keys produces fresh fetches without leaking the previous user's catalog' (src/services/model_catalog.py:492). AWS credentials have no fingerprint: a fetch under way when they change stores the list of the old ones under the same key, after the drop. (src/services/model_catalog.py:579)
* `OfferedForAll` (add it to `MCServices.cfg` with `Updaters = {"gui", "cli"}`). 'Stream info's asset to dest atomically' (src/gui/updater.py:610). The app and `rcflow update` share the two paths and no lock: while the user of one is asked whether to install the file that was verified, the other puts its own download in its place, or removes it. (src/gui/updater.py:615)
* `InstallerWhole` (add it to `MCServices.cfg`). 'Raises RuntimeError on a truncated download (partial removed)' (src/gui/updater.py:613). A release restored from the settings has no length (src/gui/updater.py:455); when the server tells none either, a short body is renamed to the path of the installer. Its checksum cannot be had, so it is not offered, but it stays there. (src/gui/updater.py:639)
* `DismissedWasSeen` (add it to `MCServices.cfg`). 'so the banner reappears even if the user dismissed the previous version' (src/gui/updater.py:500). dismiss_current dismisses what is the latest at the click: a check that ends between the drawing of the banner and the click makes that a release that was never shown. (src/gui/updater.py:513)
* `DefaultsFill` (add it to `MCServices.cfg`). 'existing values are never overwritten' (src/config.py:357). _populate_missing_defaults reads what is missing outside the lock: a value another process writes before it takes the lock is overwritten with the default. (src/config.py:383)
* `OneKey` (add it to `MCServices.cfg` with `Writers = {"worker", "gui"}`). 'the API token exists before launching' (src/gui/core.py:433-439), and the lock is there so that no writer loses 'a freshly generated API key' (src/config.py:919). The check for a key is outside the lock: two processes that find none each generate one, the second replaces the first in the file, and the first goes on with its own. (src/config.py:391)
* `UnreadableStays` (add it to `MCServices.cfg` with `SettingsEnv = {"foreign"}`). 'If the settings file cannot be read or written due to permission errors, [...] the file is left unchanged' (src/config.py:952). A file that cannot be read counts as empty, and in a directory the process may write the rename replaces it: all other settings are gone. (src/config.py:964)
* `OwnResult` (add it to `MCSessions.cfg`). 'so the between-turns drain stays alive to stream the completion + continuation [...] instead of leaving them buffered until the next user message' (src/core/agent_claude_code.py:792). The drain ends at a gap of five seconds once the count is zero, and nothing reads the answer to the instruction that cancel_monitor sends; the next prompt's turn ends at that left-over result, its own answer stays in the queue, and so on for every later prompt. (src/executors/claude_code_sdk.py:414)
* `CommandsCounted` (add it to `MCSessions.cfg`). 'A Claude Code native background command finished (not an RCFlow Monitor - its id isn't tracked)' (src/core/agent_claude_code.py:859). The terminal of a watch that the user cancelled is not tracked either: it counts as the end of a background command that still runs, and the drain stops. (src/core/agent_claude_code.py:863)
* `NoDeadWatch` (add it to `MCSessions.cfg`). 'so the UI never sees a perpetually live block' (src/core/agent_claude_code.py:1477). Only the drain flushes the watches of a process that has gone: one that dies within a turn leaves them, and the drain of every later turn waits for them. (src/core/agent_claude_code.py:1676)
* `NotedIfDone` (add it to `MCSessions.cfg`). 'Updated on every successful mutating worktree call' (src/core/prompt_router.py:2020). _update_session_worktree_meta is called whatever the result was: a failed `rm` or `merge` sets the badge and takes away the selection, a failed `new` shows a branch that does not exist. (src/core/prompt_router.py:2022)
* `StaleCleared` (add it to `MCSessions.cfg`). 'Clear stale selected path when the worktree has been merged or removed' (src/core/prompt_router.py:849). Only the tool does it: DELETE /api/worktrees/{name} and the merge route leave the selection on a directory that is gone, so the next agent is refused it. (src/core/prompt_router.py:850)
* `DetachDeselects` (add it to `MCSessions.cfg`). '`attach`, `detach` (deselect the worktree)' (docs/design/executors.md:197). _update_session_worktree_meta has no case for detach: the executor reports the main repository and the session keeps its selection. (src/core/prompt_router.py:813)
* `MutationSeen` (add it to `MCSessions.cfg`). 'so a subsequent ``resolve_worktree_for_cwd`` picks up the fresh state without waiting for the TTL' (src/core/cwd_tracking.py:389). The cache is dropped when the command is announced, not when it has run: the cd of the same line fills it again with the old list, and the new worktree is unknown until the second is over. (src/core/agent_codex.py:322)
* `OutputExact` (add it to `MCSessions.cfg`). 'we only count *exact* matches against a registered Git worktree' (src/core/cwd_tracking.py:351). rfind looks for the text: a path in a sibling whose name begins alike counts for the shorter one. (src/core/cwd_tracking.py:373)
* `RunnableOnly` (add it to `MCSessions.cfg`). 'Reject only sessions that are no longer runnable - terminal or paused' (src/core/mcp_bridge.py:160). The status is read before the wait for the user: a call that is allowed after the session has ended runs. (src/core/mcp_bridge.py:181)
* `InterruptFrees` (add it to `MCSessions.cfg`). 'remains ``ACTIVE`` after this call and is immediately ready to accept new prompts' (src/core/session_lifecycle.py:561). An interrupt leaves the request of a bridge call pending; when it is answered or times out, _handle_permission_check sets the session to running a subprocess that it no longer has, and prompts are queued for it. (src/core/agent_claude_code.py:627)
* `AlwaysAsked` (add it to `MCSessions.cfg`). 'Worktree tool always requires explicit user approval before execution, regardless of the session's existing permission mode' (src/core/prompt_router.py:1871). The gate is _handle_permission_check: a rule for the session, once given, allows every later call without asking. (src/core/agent_claude_code.py:594)

## 7. Plan

What would add most from here:

1. Compositions: `Wakeups` delivering into `PendingQueue`; `SessionLifecycle` against
   `SessionPersistence` (who archives what), each against `SessionContract`.
2. The attachment store's expiry; restore and the reaper in `SessionLifecycle`.
3. Liveness of the parts of Services (a shell whose connection left is reaped unless it is the
   case of `LeavingEnds`; a mapping is retried).
4. Proofs: that the runs of `MCSessions` are runs of its parts, as is proved for `MCServices`.
