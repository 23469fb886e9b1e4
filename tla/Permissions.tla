----------------------------- MODULE Permissions -----------------------------
(***************************************************************************)
(* The interactive approval of tool calls in ONE session: the rules and the *)
(* pending requests of its PermissionManager, the tasks that ask (callbacks *)
(* of the agent's SDK and calls over the MCP bridge), the answers of any    *)
(* number of clients, the 120 s timer of each request, and the lifecycle    *)
(* calls that kill the agent or deny whatever is pending.                   *)
(*                                                                         *)
(* An action is the code between two awaits.  What an answer does to a      *)
(* request and what the asking task makes of it are two actions: other      *)
(* tasks, a second answer or the timer among them, run in between.          *)
(***************************************************************************)
EXTENDS Naturals, SequencesExt

CONSTANTS Requests,    \* tool calls that reach _handle_permission_check
          Bridged,     \* those of them that come over the MCP bridge
          ToolOf,      \* the tool of each request
          PathOf,      \* the path its input names
          PathPrefixes,    \* the path prefixes a client may choose
          Above,       \* for each path, the prefixes it lies within
          MaxAnswers,  \* bound: accepted answers
          Timers       \* whether the timers of requests may fire

ASSUME BridgedAssumption == Bridged \subseteq Requests
ASSUME TimersAssumption == Timers \in BOOLEAN

Tools == {ToolOf[r] : r \in Requests}
Paths == {PathOf[r] : r \in Requests}
ASSUME PathsAssumption == Above \in [Paths -> SUBSET PathPrefixes]

Decisions == {"allow", "deny"}
None == "none"

(* What a client may answer besides the decision; only tool_path has a prefix. *)
Scopes == [kind : {"once", "tool_session", "all_session"}, prefix : {None}]
             \cup [kind : {"tool_path"}, prefix : PathPrefixes]
Rules == [tool : Tools, decision : Decisions,
          scope : {s \in Scopes : s.kind \in {"tool_session", "tool_path"}}]

VARIABLES
    rules,      \* PermissionManager._rules, in the order they were added
    blanket,    \* _blanket_allow and _blanket_deny, as the set of those that are set
    pending,    \* _pending
    decision,   \* PendingPermission.decision
    event,      \* PendingPermission.event is set
    expired,    \* the timer has cancelled the wait; the task has not run yet
    asker,      \* where the asking task stands
    outcome,    \* what _handle_permission_check returned
    agent,      \* a lifecycle call between the kill and the denial of what is pending
    shown,      \* the "accepted" field of the request in the message buffer
    acked       \* history: the answers acknowledged to clients

manager == <<rules, blanket, pending, decision, event>>
vars == <<manager, expired, asker, outcome, agent, shown, acked>>

Init ==
    /\ rules = << >> /\ blanket = {} /\ pending = {}
    /\ decision = [r \in Requests |-> None]
    /\ event = {} /\ expired = {}
    /\ asker = [r \in Requests |-> "new"]
    /\ outcome = [r \in Requests |-> None]
    /\ agent = "alive"
    /\ shown = [r \in Requests |-> None]
    /\ acked = << >>

-----------------------------------------------------------------------------
(* The rules *)

(* Variant: the prefix of a path rule is not compared. *)
CoversAnyPath(rule, tool, path) ==
    rule.tool = tool /\ rule.scope.kind \in {"tool_session", "tool_path"}

Covers(rule, tool, path) ==
    /\ rule.tool = tool
    /\ \/ rule.scope.kind = "tool_session"
       \/ rule.scope.kind = "tool_path" /\ rule.scope.prefix \in Above[path]

(* The decision of the latest rule that covers the call. *)
Latest(list, tool, path) ==
    LET covering == {i \in 1 .. Len(list) : Covers(list[i], tool, path)}
    IN  IF covering = {} THEN None ELSE list[Max(covering)].decision

(* Variant: the oldest rule wins. *)
CachedOldest(list, flags, tool, path) ==
    LET covering == {i \in 1 .. Len(list) : Covers(list[i], tool, path)}
    IN  CASE "allow" \in flags -> "allow"
          [] flags = {"deny"} -> "deny"
          [] covering = {} -> None
          [] OTHER -> list[Min(covering)].decision

(* Variant: the blanket denial is looked at first. *)
CachedDenyFirst(list, flags, tool, path) ==
    CASE "deny" \in flags -> "deny"
      [] flags = {"allow"} -> "allow"
      [] OTHER -> Latest(list, tool, path)

(* PermissionManager.check_cached *)
Cached(list, flags, tool, path) ==
    CASE "allow" \in flags -> "allow"
      [] flags = {"deny"} -> "deny"
      [] OTHER -> Latest(list, tool, path)

(* get_rules_snapshot keeps one blanket decision, restore_rules reads it back. *)
Restored(flags) == IF "allow" \in flags THEN {"allow"} ELSE flags

-----------------------------------------------------------------------------
(* The asking tasks *)

Finish(r, d) ==
    /\ outcome' = [outcome EXCEPT ![r] = d]
    /\ asker' = [asker EXCEPT ![r] = "done"]

(* _handle_permission_check up to its await.  An agent between kill and denial *)
(* calls nothing, an MCP call can still arrive.                               *)
Ask(r) ==
    /\ asker[r] = "new" /\ (agent = "alive" \/ r \in Bridged)
    /\ LET cached == Cached(rules, blanket, ToolOf[r], PathOf[r])
       IN  IF cached # None
           THEN Finish(r, cached) /\ UNCHANGED pending
           ELSE /\ pending' = pending \cup {r}
                /\ asker' = [asker EXCEPT ![r] = "waiting"]
                /\ UNCHANGED outcome
    /\ UNCHANGED <<rules, blanket, decision, event, expired, agent, shown, acked>>

(* The timer of wait_for cancels the wait.  It may still do so when the event  *)
(* is set and the task has not run since.                                      *)
Expire(r) ==
    /\ Timers /\ asker[r] = "waiting" /\ r \notin expired
    /\ expired' = expired \cup {r}
    /\ UNCHANGED <<manager, asker, outcome, agent, shown, acked>>

(* Variant: a request that times out keeps waiting. *)
ResumeAnswered(r) ==
    /\ asker[r] = "waiting" /\ r \in event
    /\ Finish(r, decision[r])
    /\ pending' = pending \ {r}
    /\ UNCHANGED <<rules, blanket, decision, event, expired, agent, shown, acked>>

(* wait_for_response after its await.  A timeout overrides what was answered. *)
Resume(r) ==
    /\ asker[r] = "waiting" /\ (r \in event \/ r \in expired)
    /\ LET d == IF r \in expired THEN "deny" ELSE decision[r]
       IN  Finish(r, d) /\ decision' = [decision EXCEPT ![r] = d]
    /\ pending' = pending \ {r}
    /\ UNCHANGED <<rules, blanket, event, expired, agent, shown, acked>>

-----------------------------------------------------------------------------
(* The clients *)

(* Variant: an answer for just this once becomes a rule as well. *)
RememberOnce(r, d, s) ==
    IF s.kind = "all_session"
    THEN blanket' = blanket \cup {d} /\ UNCHANGED rules
    ELSE rules' = Append(rules, [tool |-> ToolOf[r], decision |-> d, scope |-> s])
         /\ UNCHANGED blanket

(* What resolve_request remembers for later calls. *)
Remember(r, d, s) ==
    CASE s.kind = "all_session" -> blanket' = blanket \cup {d} /\ UNCHANGED rules
      [] s.kind = "once" -> UNCHANGED <<rules, blanket>>
      [] OTHER -> rules' = Append(rules, [tool |-> ToolOf[r], decision |-> d, scope |-> s])
                  /\ UNCHANGED blanket

(* SessionLifecycle.resolve_permission and the acknowledgement.  An answer to  *)
(* a request that is not pending is refused and changes nothing.               *)
Answer(r, d, s) ==
    /\ r \in pending /\ Len(acked) < MaxAnswers
    /\ decision' = [decision EXCEPT ![r] = d]
    /\ Remember(r, d, s)
    /\ event' = event \cup {r}
    /\ shown' = [shown EXCEPT ![r] = d]
    /\ acked' = Append(acked, [req |-> r, decision |-> d, scope |-> s])
    /\ UNCHANGED <<pending, expired, asker, outcome, agent>>

-----------------------------------------------------------------------------
(* The lifecycle of the agent *)

(* _teardown_executors: the callbacks of the agent's SDK die with it, before   *)
(* they clean up.  interrupt_subprocess and end_session leave it at that;      *)
(* cancel_session and pause_session go on to cancel_all_pending.               *)
Kill(next) ==
    /\ agent = "alive" /\ agent' = next
    /\ asker' = [r \in Requests |->
                   IF asker[r] = "waiting" /\ r \notin Bridged THEN "killed" ELSE asker[r]]
    /\ UNCHANGED <<manager, expired, outcome, shown, acked>>

Interrupt == Kill("alive")
CancelOrPause == Kill("denying")

(* Variant: answered requests are denied as well. *)
CancelAllDenied ==
    /\ agent = "denying" /\ agent' = "alive"
    /\ decision' = [r \in Requests |-> IF r \in pending THEN "deny" ELSE decision[r]]
    /\ event' = event \cup pending
    /\ pending' = {}
    /\ UNCHANGED <<rules, blanket, expired, asker, outcome, shown, acked>>

(* Variant: the events are not set. *)
CancelAllSilent ==
    /\ agent = "denying" /\ agent' = "alive"
    /\ decision' = [r \in Requests |->
                      IF r \in pending /\ decision[r] = None THEN "deny" ELSE decision[r]]
    /\ pending' = {}
    /\ UNCHANGED <<rules, blanket, event, expired, asker, outcome, shown, acked>>

(* PermissionManager.cancel_all_pending *)
CancelAllPending ==
    /\ agent = "denying" /\ agent' = "alive"
    /\ decision' = [r \in Requests |->
                      IF r \in pending /\ decision[r] = None THEN "deny" ELSE decision[r]]
    /\ event' = event \cup pending
    /\ pending' = {}
    /\ UNCHANGED <<rules, blanket, expired, asker, outcome, shown, acked>>

-----------------------------------------------------------------------------
Next ==
    \/ \E r \in Requests : Ask(r) \/ Expire(r) \/ Resume(r)
    \/ \E r \in Requests, d \in Decisions, s \in Scopes : Answer(r, d, s)
    \/ Interrupt \/ CancelOrPause \/ CancelAllPending

Spec == Init /\ [][Next]_vars

(* Timers fire, the event loop runs whoever is ready and a lifecycle call goes *)
(* on; neither clients nor the agent have to do anything.                      *)
FairSpec ==
    /\ Spec
    /\ \A r \in Requests : WF_vars(Expire(r)) /\ WF_vars(Resume(r))
    /\ WF_vars(CancelAllPending)

-----------------------------------------------------------------------------
(* Properties *)

(* Every variable has its type. *)
TypeOK ==
    /\ rules \in Seq(Rules) /\ blanket \subseteq Decisions
    /\ pending \subseteq Requests /\ event \subseteq Requests /\ expired \subseteq Requests
    /\ decision \in [Requests -> Decisions \cup {None}]
    /\ asker \in [Requests -> {"new", "waiting", "done", "killed"}]
    /\ outcome \in [Requests -> Decisions \cup {None}]
    /\ agent \in {"alive", "denying"}
    /\ shown \in [Requests -> Decisions \cup {None}]
    /\ acked \in Seq([req : Requests, decision : Decisions, scope : Scopes])

(* A tool call is allowed only on a user's word: an acknowledged answer to     *)
(* this very request, or one with a scope that covers the call.                *)
Authorises(a, r) ==
    /\ a.decision = "allow"
    /\ \/ a.req = r
       \/ a.scope.kind = "all_session"
       \/ /\ ToolOf[a.req] = ToolOf[r]
          /\ \/ a.scope.kind = "tool_session"
             \/ a.scope.kind = "tool_path" /\ a.scope.prefix \in Above[PathOf[r]]
AllowedOnWord ==
    \A r \in Requests : outcome[r] = "allow" =>
        \E i \in 1 .. Len(acked) : Authorises(acked[i], r)

(* The call returns what the message buffer shows for it, also when the        *)
(* session was cancelled or paused between the answer and the return, unless   *)
(* the timer ran out.                                                          *)
OutcomeShown ==
    \A r \in Requests : outcome[r] # None /\ shown[r] # None /\ r \notin expired
                           => outcome[r] = shown[r]

(* A task that waits can still be answered, or is already released: nothing    *)
(* removes its request without setting its event.                              *)
WaitingReachable ==
    \A r \in Requests : asker[r] = "waiting" => r \in pending \/ r \in event

(* The rules that a restore reads back from the snapshot decide every call as  *)
(* the rules in memory do.                                                     *)
SnapshotFaithful ==
    \A r \in Requests :
        Cached(rules, Restored(blanket), ToolOf[r], PathOf[r])
            = Cached(rules, blanket, ToolOf[r], PathOf[r])

(* A rule overrides the rules before it for the calls it covers: the latest    *)
(* answer of the user counts.                                                  *)
LatestRuleWins ==
    [][\A r \in Requests :
          (Ask(r) /\ blanket = {} /\ rules # << >> /\ Covers(Last(rules), ToolOf[r], PathOf[r]))
             => outcome'[r] = Last(rules).decision]_vars

(* No tool call waits forever, answered or not. *)
EveryCallReturns == \A r \in Requests : asker[r] = "waiting" ~> asker[r] # "waiting"

(* Claims of the repository that the code does not keep (README, section 6). *)

(* "Only the first response for a given request_id takes effect"               *)
(* (permissions.md).                                                           *)
AnswersTo(r) == {i \in 1 .. Len(acked) : acked[i].req = r}
FirstAnswerCounts ==
    \A r \in Requests : outcome[r] # None /\ AnswersTo(r) # {}
                           => outcome[r] = acked[Min(AnswersTo(r))].decision

(* "Blanket allow/deny for ALL tools for the rest of the session"              *)
(* (permissions.md): no call is allowed once a blanket denial is acknowledged. *)
BlanketDenyHolds == [][\A r \in Requests : Ask(r) /\ "deny" \in blanket => outcome'[r] # "allow"]_vars

(* Replaying the history "shows the resolved state" (session_lifecycle.py).    *)
ReplayShowsOutcome ==
    \A r \in Requests : outcome[r] # None /\ shown[r] # None => outcome[r] = shown[r]

(* cancel_all_pending is "called when the session is paused, cancelled, or the *)
(* subprocess dies" (permissions.py): no request outlives its task.            *)
DeadNotPending == \A r \in Requests : asker[r] = "killed" /\ agent = "alive" => r \notin pending
=============================================================================
