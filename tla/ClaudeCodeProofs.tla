--------------------------- MODULE ClaudeCodeProofs ---------------------------
(***************************************************************************)
(* Proofs about the parts of a Claude Code session: the permissions of its *)
(* tool calls (Permissions), the messages of its process (AgentStream) and *)
(* the worktree it is in (Worktrees), for every value of their constants.  *)
(***************************************************************************)
EXTENDS Permissions, AgentStream, Worktrees, ListLemmas

-----------------------------------------------------------------------------
(***************************************************************************)
(* Permissions, for any requests, tools, paths, prefixes and any number of *)
(* answers.                                                                *)
(*                                                                         *)
(* That a call is allowed only on a user's word is not inductive: what a   *)
(* later call is allowed by is a rule, a flag or a stored decision, so the *)
(* invariant follows the word through each of the three.                   *)
(***************************************************************************)

(* One of the answers has these terms.                                      *)
Given(answers, tool, d, s) ==
    \E i \in 1 .. Len(answers) :
        answers[i].decision = d /\ answers[i].scope = s /\ ToolOf[answers[i].req] = tool
Word(r) == \E i \in 1 .. Len(acked) : Authorises(acked[i], r)

(* Each rule is the remains of an answer.                                   *)
RulesGiven ==
    \A j \in 1 .. Len(rules) : Given(acked, rules[j].tool, rules[j].decision, rules[j].scope)
(* So is the blanket allowance.                                             *)
BlanketGiven ==
    "allow" \in blanket =>
        \E i \in 1 .. Len(acked) : acked[i].decision = "allow" /\ acked[i].scope.kind = "all_session"
(* And the decision stored with a request.                                  *)
DecisionGiven ==
    \A r \in Requests : decision[r] = "allow" =>
        \E i \in 1 .. Len(acked) : acked[i].decision = "allow" /\ acked[i].req = r

PermissionInv == TypeOK /\ RulesGiven /\ BlanketGiven /\ DecisionGiven /\ AllowedOnWord /\ WaitingReachable
-----------------------------------------------------------------------------
(* The operators *)

(* The latest rule that covers a call is one that covers it.                *)
LEMMA LatestIsRule ==
    ASSUME NEW list \in Seq(Rules), NEW tool, NEW path, Latest(list, tool, path) # None
    PROVE  \E i \in 1 .. Len(list) : Covers(list[i], tool, path)
                                     /\ Latest(list, tool, path) = list[i].decision
<1> DEFINE covering == {i \in 1 .. Len(list) : Covers(list[i], tool, path)}
<1>1. Latest(list, tool, path) = IF covering = {} THEN None ELSE list[Max(covering)].decision
  BY DEF Latest
<1>2. covering # {}
  BY <1>1
<1>3. Len(list) \in Nat /\ covering \in SUBSET Nat
  BY LenProperties
<1>4. IsFiniteSet(covering)
  <2>1. IsFiniteSet(1 .. Len(list))
    BY <1>3, FS_Interval
  <2> QED
    BY <2>1, FS_Subset
<1>5. Max(covering) \in covering
  <2> HIDE DEF covering
  <2> QED
    BY <1>2, <1>3, <1>4, MaxProperties
<1> QED
  BY <1>1, <1>2, <1>5

(* What the cache allows was allowed by a user.                             *)
LEMMA CachedOnWord ==
    ASSUME PermissionInv, NEW r \in Requests, Cached(rules, blanket, ToolOf[r], PathOf[r]) = "allow"
    PROVE  Word(r)
<1>1. CASE "allow" \in blanket
  BY <1>1 DEF PermissionInv, BlanketGiven, Word, Authorises
<1>2. CASE "allow" \notin blanket
  <2>1. Latest(rules, ToolOf[r], PathOf[r]) = "allow"
    BY <1>2 DEF Cached
  <2>2. PICK j \in 1 .. Len(rules) : Covers(rules[j], ToolOf[r], PathOf[r]) /\ rules[j].decision = "allow"
    BY <2>1, LatestIsRule DEF PermissionInv, TypeOK, None
  <2>3. PICK i \in 1 .. Len(acked) :
           acked[i].decision = "allow" /\ acked[i].scope = rules[j].scope
           /\ ToolOf[acked[i].req] = rules[j].tool
    BY <2>2 DEF PermissionInv, RulesGiven, Given
  <2> QED
    BY <2>2, <2>3 DEF Word, Authorises, Covers
<1> QED
  BY <1>1, <1>2

LEMMA CachedType ==
    ASSUME TypeOK, NEW r \in Requests
    PROVE  Cached(rules, blanket, ToolOf[r], PathOf[r]) \in Decisions \cup {None}
<1> DEFINE d == Latest(rules, ToolOf[r], PathOf[r])
<1>1. d \in Decisions \cup {None}
  <2>1. CASE d = None
    BY <2>1
  <2>2. CASE d # None
    <3>1. PICK j \in 1 .. Len(rules) : d = rules[j].decision
      BY <2>2, LatestIsRule DEF TypeOK
    <3>2. rules[j] \in Rules
      BY <3>1, ElementOfSeq DEF TypeOK
    <3> QED
      BY <3>1, <3>2 DEF Rules
  <2> QED
    BY <2>1, <2>2
<1> QED
  BY <1>1 DEF Cached, Decisions

-----------------------------------------------------------------------------
(* The steps *)

LEMMA InitPermissionInv == Init => PermissionInv
BY DEF Init, PermissionInv, TypeOK, RulesGiven, BlanketGiven, DecisionGiven, AllowedOnWord, WaitingReachable,
       None, Decisions

(* A step that acknowledges nothing and remembers nothing keeps every word. *)
LEMMA QuietWords ==
    ASSUME PermissionInv, UNCHANGED <<rules, blanket, acked>>
    PROVE  RulesGiven' /\ BlanketGiven' /\ \A r \in Requests : Word(r)' <=> Word(r)
BY DEF PermissionInv, RulesGiven, BlanketGiven, Given, Word, Authorises

LEMMA AskStep ==
    ASSUME PermissionInv, NEW r \in Requests, Ask(r)
    PROVE  PermissionInv'
<1> DEFINE d == Cached(rules, blanket, ToolOf[r], PathOf[r])
<1>1. RulesGiven' /\ BlanketGiven' /\ \A q \in Requests : Word(q)' <=> Word(q)
  BY QuietWords DEF Ask
<1>2. d \in Decisions \cup {None}
  BY CachedType DEF PermissionInv
<1>3. d = "allow" => Word(r)
  BY CachedOnWord
<1>4. \/ d # None /\ Finish(r, d) /\ pending' = pending
      \/ /\ pending' = pending \cup {r} /\ outcome' = outcome
         /\ asker' = [asker EXCEPT ![r] = "waiting"]
  BY DEF Ask
<1> HIDE DEF d
<1>5. TypeOK'
  BY <1>2, <1>4 DEF PermissionInv, TypeOK, Ask, Finish
<1>6. DecisionGiven'
  BY DEF PermissionInv, DecisionGiven, Ask
<1>7. AllowedOnWord'
  <2>1. \A q \in Requests : outcome'[q] = "allow" => Word(q)
    BY <1>3, <1>4 DEF PermissionInv, TypeOK, AllowedOnWord, Finish, Word
  <2> QED
    BY <1>1, <2>1 DEF AllowedOnWord, Word
<1>8. WaitingReachable'
  BY <1>4 DEF PermissionInv, TypeOK, WaitingReachable, Ask, Finish
<1> QED
  BY <1>1, <1>5, <1>6, <1>7, <1>8 DEF PermissionInv

LEMMA ResumeStep ==
    ASSUME PermissionInv, NEW r \in Requests, Resume(r)
    PROVE  PermissionInv'
<1> DEFINE d == IF r \in expired THEN "deny" ELSE decision[r]
<1>1. RulesGiven' /\ BlanketGiven' /\ \A q \in Requests : Word(q)' <=> Word(q)
  BY QuietWords DEF Resume
<1>2. d \in Decisions \cup {None}
  BY DEF PermissionInv, TypeOK, Decisions
<1>3. d = "allow" => Word(r) /\ decision[r] = "allow"
  BY DEF PermissionInv, DecisionGiven, Word, Authorises
<1>4. /\ outcome' = [outcome EXCEPT ![r] = d] /\ asker' = [asker EXCEPT ![r] = "done"]
      /\ decision' = [decision EXCEPT ![r] = d] /\ pending' = pending \ {r}
      /\ UNCHANGED <<rules, blanket, event, expired, agent, shown, acked>>
  BY DEF Resume, Finish
<1> HIDE DEF d
<1>5. TypeOK'
  BY <1>2, <1>4 DEF PermissionInv, TypeOK
<1>6. DecisionGiven'
  <2>1. \A q \in Requests : decision'[q] = "allow" => decision[q] = "allow"
    BY <1>3, <1>4 DEF PermissionInv, TypeOK
  <2> QED
    BY <1>4, <2>1 DEF PermissionInv, DecisionGiven
<1>7. AllowedOnWord'
  <2>1. \A q \in Requests : outcome'[q] = "allow" => Word(q)
    BY <1>3, <1>4 DEF PermissionInv, TypeOK, AllowedOnWord, Word
  <2> QED
    BY <1>1, <2>1 DEF AllowedOnWord, Word
<1>8. WaitingReachable'
  BY <1>4 DEF PermissionInv, TypeOK, WaitingReachable
<1> QED
  BY <1>1, <1>5, <1>6, <1>7, <1>8 DEF PermissionInv

(* Answering appends the answer to what is acknowledged: words stay, and    *)
(* the new one is there.                                                    *)
LEMMA AnswerStep ==
    ASSUME PermissionInv, NEW r \in Requests, NEW d \in Decisions, NEW s \in Scopes, Answer(r, d, s)
    PROVE  PermissionInv'
<1> DEFINE a == [req |-> r, decision |-> d, scope |-> s]
           n == Len(acked)
<1>1. acked \in Seq([req : Requests, decision : Decisions, scope : Scopes]) /\ acked' = Append(acked, a)
  BY DEF PermissionInv, TypeOK, Answer
<1>2. /\ acked' \in Seq([req : Requests, decision : Decisions, scope : Scopes])
      /\ n \in Nat /\ Len(acked') = n + 1 /\ acked'[n + 1] = a
      /\ \A i \in 1 .. n : acked'[i] = acked[i]
  BY <1>1, AppendProperties, LenProperties
<1>3. a.req = r /\ a.decision = d /\ a.scope = s
  OBVIOUS
<1> HIDE DEF a, n
<1>4. \A q \in Requests : Word(q) => Word(q)'
  BY <1>2 DEF Word, Authorises, n
<1>5. \A tool, e, k : Given(acked, tool, e, k) => Given(acked', tool, e, k)
  BY <1>2 DEF Given, n
<1>6. Given(acked', ToolOf[r], d, s)
  BY <1>2, <1>3 DEF Given
<1>7. \/ s.kind = "all_session" /\ blanket' = blanket \cup {d} /\ rules' = rules
      \/ s.kind = "once" /\ UNCHANGED <<rules, blanket>>
      \/ /\ s.kind \in {"tool_session", "tool_path"} /\ blanket' = blanket
         /\ rules' = Append(rules, [tool |-> ToolOf[r], decision |-> d, scope |-> s])
  BY DEF Answer, Remember, Scopes
<1>8. RulesGiven' /\ rules' \in Seq(Rules)
  <2>1. CASE rules' = rules
    BY <2>1, <1>5 DEF PermissionInv, TypeOK, RulesGiven
  <2>2. CASE /\ s.kind \in {"tool_session", "tool_path"}
             /\ rules' = Append(rules, [tool |-> ToolOf[r], decision |-> d, scope |-> s])
    <3> DEFINE e == [tool |-> ToolOf[r], decision |-> d, scope |-> s]
    <3>1. e \in Rules
      BY <2>2 DEF Rules, Tools
    <3>2. /\ rules' \in Seq(Rules) /\ Len(rules) \in Nat /\ Len(rules') = Len(rules) + 1
          /\ rules'[Len(rules) + 1] = e /\ \A i \in 1 .. Len(rules) : rules'[i] = rules[i]
      BY <2>2, <3>1, AppendProperties, LenProperties DEF PermissionInv, TypeOK
    <3>3. e.tool = ToolOf[r] /\ e.decision = d /\ e.scope = s
      OBVIOUS
    <3> HIDE DEF e
    <3>4. ASSUME NEW j \in 1 .. Len(rules')
          PROVE  Given(acked', rules'[j].tool, rules'[j].decision, rules'[j].scope)
      <4>1. CASE j = Len(rules) + 1
        BY <4>1, <3>2, <3>3, <1>6
      <4>2. CASE j # Len(rules) + 1
        <5>1. j \in 1 .. Len(rules) /\ rules'[j] = rules[j]
          BY <3>2, <4>2
        <5> QED
          BY <5>1, <1>5 DEF PermissionInv, RulesGiven
      <4> QED
        BY <4>1, <4>2
    <3> QED
      BY <3>2, <3>4 DEF RulesGiven
  <2> QED
    BY <1>7, <2>1, <2>2
<1>9. BlanketGiven'
  <2>1. CASE "allow" \in blanket
    BY <2>1, <1>2 DEF PermissionInv, BlanketGiven, n
  <2>2. CASE "allow" \notin blanket
    BY <2>2, <1>2, <1>3, <1>7 DEF BlanketGiven, n
  <2> QED
    BY <2>1, <2>2
<1>10. DecisionGiven'
  <2> SUFFICES ASSUME NEW q \in Requests, decision'[q] = "allow"
               PROVE  \E i \in 1 .. Len(acked') : acked'[i].decision = "allow" /\ acked'[i].req = q
    BY DEF DecisionGiven
  <2>1. CASE q = r
    BY <2>1, <1>2, <1>3 DEF PermissionInv, TypeOK, Answer, n
  <2>2. CASE q # r
    BY <2>2, <1>2 DEF PermissionInv, TypeOK, Answer, DecisionGiven, n
  <2> QED
    BY <2>1, <2>2
<1>11. AllowedOnWord'
  BY <1>4 DEF PermissionInv, AllowedOnWord, Answer, Word
<1>12. TypeOK'
  BY <1>2, <1>7, <1>8 DEF PermissionInv, TypeOK, Answer
<1>13. WaitingReachable'
  BY DEF PermissionInv, WaitingReachable, Answer
<1> QED
  BY <1>8, <1>9, <1>10, <1>11, <1>12, <1>13 DEF PermissionInv

LEMMA LifecycleStep ==
    ASSUME PermissionInv, Interrupt \/ CancelOrPause \/ CancelAllPending \/ (\E r \in Requests : Expire(r))
    PROVE  PermissionInv'
<1>1. RulesGiven' /\ BlanketGiven' /\ \A q \in Requests : Word(q)' <=> Word(q)
  BY QuietWords DEF Interrupt, CancelOrPause, Kill, CancelAllPending, Expire, manager
<1>2. AllowedOnWord'
  BY <1>1 DEF PermissionInv, AllowedOnWord, Word, Interrupt, CancelOrPause, Kill, CancelAllPending, Expire
<1>3. CASE Interrupt \/ CancelOrPause
  BY <1>1, <1>2, <1>3 DEF PermissionInv, TypeOK, DecisionGiven, WaitingReachable, Interrupt, CancelOrPause, Kill, manager
<1>4. CASE CancelAllPending
  <2>1. TypeOK'
    BY <1>4 DEF PermissionInv, TypeOK, CancelAllPending, Decisions
  <2>2. \A r \in Requests : decision'[r] = "allow" => decision[r] = "allow"
    BY <1>4 DEF CancelAllPending
  <2>3. DecisionGiven'
    BY <1>4, <2>2 DEF PermissionInv, DecisionGiven, CancelAllPending
  <2>4. WaitingReachable'
    BY <1>4 DEF PermissionInv, WaitingReachable, CancelAllPending
  <2> QED
    BY <1>1, <1>2, <2>1, <2>3, <2>4 DEF PermissionInv
<1>5. CASE \E r \in Requests : Expire(r)
  BY <1>1, <1>2, <1>5 DEF PermissionInv, TypeOK, DecisionGiven, WaitingReachable, Expire, manager
<1> QED
  BY <1>3, <1>4, <1>5

LEMMA NextPermissionInv == PermissionInv /\ [Next]_vars => PermissionInv'
<1> SUFFICES ASSUME PermissionInv, [Next]_vars PROVE PermissionInv'
  OBVIOUS
<1>1. CASE UNCHANGED vars
  <2>1. TypeOK' /\ RulesGiven' /\ BlanketGiven' /\ DecisionGiven'
    BY <1>1 DEF vars, manager, PermissionInv, TypeOK, RulesGiven, Given, BlanketGiven, DecisionGiven
  <2>2. AllowedOnWord' /\ WaitingReachable'
    BY <1>1 DEF vars, manager, PermissionInv, AllowedOnWord, Authorises, WaitingReachable
  <2> QED
    BY <2>1, <2>2 DEF PermissionInv
<1>2. ASSUME NEW r \in Requests, Ask(r) PROVE PermissionInv'
  BY <1>2, AskStep
<1>3. ASSUME NEW r \in Requests, Resume(r) PROVE PermissionInv'
  BY <1>3, ResumeStep
<1>4. ASSUME NEW r \in Requests, NEW d \in Decisions, NEW s \in Scopes, Answer(r, d, s) PROVE PermissionInv'
  BY <1>4, AnswerStep
<1>5. CASE Interrupt \/ CancelOrPause \/ CancelAllPending \/ (\E r \in Requests : Expire(r))
  BY <1>5, LifecycleStep
<1> QED
  BY <1>1, <1>2, <1>3, <1>4, <1>5 DEF Next

LEMMA PermissionsInvariant == Spec => []PermissionInv
<1>1. Init => PermissionInv
  BY InitPermissionInv
<1>2. PermissionInv /\ [Next]_vars => PermissionInv'
  BY NextPermissionInv
<1> QED
  BY <1>1, <1>2, PTL DEF Spec

(* No tool call returns "allow" without an acknowledged answer of a user to *)
(* it or with a scope that covers it, however many clients answer, and      *)
(* whichever timers, kills and cancels come in between (check_cached,       *)
(* resolve_request, wait_for_response).                                     *)
THEOREM OnlyOnAWord == Spec => []AllowedOnWord
BY PermissionsInvariant, PTL DEF PermissionInv

(* A callback that waits is pending, and can be answered, or its event is   *)
(* set: cancel_all_pending and resolve_request never strand one.            *)
THEOREM NoneStranded == Spec => []WaitingReachable
BY PermissionsInvariant, PTL DEF PermissionInv

-----------------------------------------------------------------------------
(***************************************************************************)
(* AgentStream, for any numbers of prompts, tasks and stops.               *)
(*                                                                         *)
(* A watch is announced once: while its announcement is still in the queue *)
(* it is neither tracked nor ended, and one that has not been started is   *)
(* in none of the three.                                                   *)
(***************************************************************************)

Process == [alive : BOOLEAN, busy : BOOLEAN, of : Asked, asked : Seq(Asked), tasks : SUBSET TaskIds]
Events == [asked : Asked, tasks : 0 .. MaxTasks, stops : 0 .. MaxStops]
Typed ==
    /\ proc \in Process /\ messages \in Seq(Messages) /\ spent \in Events
    /\ watches \subseteq TaskIds /\ closed \in [TaskIds -> Nat]

(* The watches announced by a queue, each once and none of them heard of.    *)
Announced(q, n) == \E i \in 1 .. Len(q) : q[i] = <<"watch", n>>
OnceIn(q) ==
    \A i, j \in 1 .. Len(q), n \in TaskIds : q[i] = <<"watch", n>> /\ q[j] = <<"watch", n>> => i = j
NotHeardOf == \A n \in TaskIds : Announced(messages, n) => closed[n] = 0 /\ n \notin watches
NotStarted ==
    \A n \in TaskIds : n > spent.tasks => closed[n] = 0 /\ n \notin watches /\ ~ Announced(messages, n)

StreamInv == Typed /\ OnceIn(messages) /\ NotHeardOf /\ NotStarted /\ WatchEndsOnce

-----------------------------------------------------------------------------
(* The queue.                                                               *)
LEMMA Queued ==
    ASSUME NEW q \in Seq(Messages), NEW m \in Messages
    PROVE  /\ Append(q, m) \in Seq(Messages)
           /\ \A n \in TaskIds : Announced(Append(q, m), n) => Announced(q, n) \/ m = <<"watch", n>>
           /\ OnceIn(q) /\ (\A n \in TaskIds : m = <<"watch", n>> => ~ Announced(q, n))
                => OnceIn(Append(q, m))
<1> DEFINE r == Append(q, m)
<1>1. r \in Seq(Messages) /\ Len(r) = Len(q) + 1 /\ Len(q) \in Nat
      /\ \A i \in 1 .. Len(q) + 1 : r[i] = IF i <= Len(q) THEN q[i] ELSE m
  OBVIOUS
<1> HIDE DEF r
<1>2. ASSUME NEW n \in TaskIds, Announced(r, n)
      PROVE  Announced(q, n) \/ m = <<"watch", n>>
  <2>1. PICK i \in 1 .. Len(r) : r[i] = <<"watch", n>>
    BY <1>2 DEF Announced
  <2>2. CASE i <= Len(q)
    <3>1. i \in 1 .. Len(q) /\ q[i] = r[i]
      BY <1>1, <2>2
    <3> QED
      BY <2>1, <3>1 DEF Announced
  <2>3. CASE ~ i <= Len(q)
    <3>1. r[i] = m
      BY <1>1, <2>3
    <3> QED
      BY <2>1, <3>1
  <2> QED
    BY <2>2, <2>3
<1>3. ASSUME OnceIn(q), \A n \in TaskIds : m = <<"watch", n>> => ~ Announced(q, n)
      PROVE  OnceIn(r)
  <2> SUFFICES ASSUME NEW i \in 1 .. Len(r), NEW j \in 1 .. Len(r), NEW n \in TaskIds,
                      r[i] = <<"watch", n>>, r[j] = <<"watch", n>>
               PROVE  i = j
    BY DEF OnceIn
  <2>1. CASE i <= Len(q) /\ j <= Len(q)
    BY <1>1, <1>3, <2>1 DEF OnceIn
  <2>2. CASE i <= Len(q) /\ ~ j <= Len(q)
    <3>1. i \in 1 .. Len(q) /\ q[i] = r[i]
      BY <1>1, <2>2
    <3>2. j \in 1 .. Len(q) + 1 /\ r[j] = m
      BY <1>1, <2>2
    <3>3. m = <<"watch", n>> /\ q[i] = <<"watch", n>>
      BY <3>1, <3>2
    <3> QED
      BY <1>3, <3>1, <3>3 DEF Announced
  <2>3. CASE ~ i <= Len(q) /\ j <= Len(q)
    <3>1. j \in 1 .. Len(q) /\ q[j] = r[j]
      BY <1>1, <2>3
    <3>2. i \in 1 .. Len(q) + 1 /\ r[i] = m
      BY <1>1, <2>3
    <3>3. m = <<"watch", n>> /\ q[j] = <<"watch", n>>
      BY <3>1, <3>2
    <3> QED
      BY <1>3, <3>1, <3>3 DEF Announced
  <2>4. CASE ~ i <= Len(q) /\ ~ j <= Len(q)
    BY <1>1, <2>4
  <2> QED
    BY <2>1, <2>2, <2>3, <2>4
<1> QED
  BY <1>1, <1>2, <1>3 DEF r

LEMMA Taken ==
    ASSUME NEW q \in Seq(Messages), q # << >>, OnceIn(q)
    PROVE  /\ Head(q) \in Messages /\ Tail(q) \in Seq(Messages) /\ OnceIn(Tail(q))
           /\ \A n \in TaskIds : Announced(Tail(q), n) => Announced(q, n) /\ Head(q) # <<"watch", n>>
           /\ \A n \in TaskIds : Head(q) = <<"watch", n>> => Announced(q, n)
<1> DEFINE r == Tail(q)
<1>1. r \in Seq(Messages) /\ Len(q) \in Nat /\ Len(q) >= 1 /\ Len(r) = Len(q) - 1
      /\ Head(q) = q[1] /\ q[1] \in Messages /\ \A i \in 1 .. Len(q) - 1 : r[i] = q[i + 1]
  OBVIOUS
<1> HIDE DEF r
<1>2. OnceIn(r)
  <2> SUFFICES ASSUME NEW i \in 1 .. Len(r), NEW j \in 1 .. Len(r), NEW n \in TaskIds,
                      r[i] = <<"watch", n>>, r[j] = <<"watch", n>>
               PROVE  i = j
    BY DEF OnceIn
  <2>1. i + 1 \in 1 .. Len(q) /\ j + 1 \in 1 .. Len(q) /\ q[i + 1] = <<"watch", n>> /\ q[j + 1] = <<"watch", n>>
    BY <1>1
  <2>2. i + 1 = j + 1
    BY <2>1 DEF OnceIn
  <2> QED
    BY <2>2
<1>3. ASSUME NEW n \in TaskIds, Announced(r, n)
      PROVE  Announced(q, n) /\ Head(q) # <<"watch", n>>
  <2>1. PICK i \in 1 .. Len(r) : r[i] = <<"watch", n>>
    BY <1>3 DEF Announced
  <2>2. i + 1 \in 1 .. Len(q) /\ q[i + 1] = <<"watch", n>> /\ i + 1 # 1 /\ 1 \in 1 .. Len(q)
    BY <1>1, <2>1
  <2> QED
    BY <1>1, <2>2 DEF Announced, OnceIn
<1>4. ASSUME NEW n \in TaskIds, Head(q) = <<"watch", n>>
      PROVE  Announced(q, n)
  BY <1>1, <1>4 DEF Announced
<1> QED
  BY <1>1, <1>2, <1>3, <1>4 DEF r

LEMMA Empty == << >> \in Seq(Messages) /\ OnceIn(<< >>) /\ \A n \in TaskIds : ~ Announced(<< >>, n)
BY DEF OnceIn, Announced

LEMMA FreshProcess ==
    Fresh \in Process /\ [Fresh EXCEPT !.alive = FALSE] \in Process
    /\ \A p \in Asked : [Fresh EXCEPT !.asked = <<p>>] \in Process
<1>1. << >> \in Seq(Asked) /\ 0 \in Asked /\ \A p \in Asked : <<p>> \in Seq(Asked)
  BY StreamAssumption DEF Asked
<1> QED
  BY <1>1 DEF Fresh, Process

LEMMA InitStreamInv == AgentStreamInit => StreamInv
<1> SUFFICES ASSUME AgentStreamInit PROVE StreamInv
  OBVIOUS
<1>1. Typed
  BY Empty, FreshProcess, StreamAssumption DEF AgentStreamInit, Typed, Events, Asked
<1>2. OnceIn(messages) /\ NotHeardOf /\ NotStarted /\ WatchEndsOnce
  BY Empty DEF AgentStreamInit, NotHeardOf, NotStarted, WatchEndsOnce
<1> QED
  BY <1>1, <1>2 DEF StreamInv

(* Every watch that is tracked or ended stays so, and the queue is as good. *)
LEMMA SameWatches ==
    ASSUME StreamInv, proc' \in Process, messages' \in Seq(Messages), OnceIn(messages'), spent' \in Events,
           spent'.tasks >= spent.tasks,
           \A n \in TaskIds : Announced(messages', n) =>
               Announced(messages, n) \/ (n > spent.tasks /\ n <= spent'.tasks),
           UNCHANGED <<watches, closed>>
    PROVE  StreamInv'
<1>1. Typed' /\ WatchEndsOnce'
  BY DEF StreamInv, Typed, WatchEndsOnce
<1>2. NotHeardOf'
  BY DEF StreamInv, NotHeardOf, NotStarted
<1>3. \A n \in TaskIds : n > spent'.tasks => n > spent.tasks
  BY DEF StreamInv, Typed, Events, TaskIds
<1>4. NotStarted'
  BY <1>3 DEF StreamInv, NotStarted, TaskIds, Typed, Events
<1> QED
  BY <1>1, <1>2, <1>4 DEF StreamInv

(* The watches that are tracked are ended, and the queue is as good.        *)
LEMMA EndedWatches ==
    ASSUME StreamInv, proc' \in Process, messages' \in Seq(Messages), OnceIn(messages'), spent' \in Events,
           spent'.tasks = spent.tasks,
           \A n \in TaskIds : Announced(messages', n) => Announced(messages, n),
           NEW E \in SUBSET watches, watches' = watches \ E,
           closed' = [n \in TaskIds |-> IF n \in E THEN closed[n] + 1 ELSE closed[n]]
    PROVE  StreamInv'
<1>1. Typed'
  BY DEF StreamInv, Typed
<1>2. WatchEndsOnce'
  BY DEF StreamInv, Typed, WatchEndsOnce
<1>3. NotHeardOf' /\ NotStarted'
  BY DEF StreamInv, Typed, NotHeardOf, NotStarted
<1> QED
  BY <1>1, <1>2, <1>3 DEF StreamInv

LEMMA Spending ==
    ASSUME Typed, NEW what \in {"tasks", "stops"}, Spend(what)
    PROVE  /\ spent' \in Events /\ spent'.tasks >= spent.tasks
           /\ what = "stops" => spent'.tasks = spent.tasks
           /\ what = "tasks" => spent'.tasks = spent.tasks + 1 /\ spent.tasks + 1 \in TaskIds
<1>1. spent \in Events /\ spent.tasks \in 0 .. MaxTasks
  BY DEF Typed, Events
<1>2. CASE what = "tasks"
  <2>1. spent.tasks < MaxTasks /\ spent' = [spent EXCEPT !.tasks = @ + 1]
    BY <1>2 DEF Spend
  <2> QED
    BY <1>1, <1>2, <2>1, StreamAssumption DEF Events, TaskIds
<1>3. CASE what = "stops"
  <2>1. spent.stops < MaxStops /\ spent' = [spent EXCEPT !.stops = @ + 1]
    BY <1>3 DEF Spend
  <2> QED
    BY <1>1, <1>3, <2>1, StreamAssumption DEF Events
<1> QED
  BY <1>2, <1>3

(* The process.                                                             *)
LEMMA SaysStep ==
    ASSUME StreamInv, NEW m \in Messages, Says(m), proc' \in Process, spent' \in Events,
           spent'.tasks >= spent.tasks,
           \A n \in TaskIds : m = <<"watch", n>> => n > spent.tasks /\ n <= spent'.tasks,
           UNCHANGED <<watches, closed>>
    PROVE  StreamInv'
<1>1. messages' = Append(messages, m) /\ messages \in Seq(Messages) /\ OnceIn(messages)
  BY DEF Says, StreamInv, Typed
<1>2. \A n \in TaskIds : m = <<"watch", n>> => ~ Announced(messages, n)
  BY DEF StreamInv, NotStarted
<1>3. messages' \in Seq(Messages) /\ OnceIn(messages')
  BY <1>1, <1>2, Queued
<1>4. \A n \in TaskIds : Announced(messages', n) =>
               Announced(messages, n) \/ (n > spent.tasks /\ n <= spent'.tasks)
  BY <1>1, Queued
<1> QED
  BY <1>3, <1>4, SameWatches

LEMMA ProcessSteps ==
    ASSUME StreamInv, NEW n,
           ProcBegins \/ ProcStarts \/ ProcResult \/ ProcDies
           \/ (n \in TaskIds /\ (ProcTicks(n) \/ ProcNotes(n)))
    PROVE  StreamInv'
<1>1. Typed /\ proc \in Process /\ messages \in Seq(Messages) /\ spent \in Events
      /\ spent.tasks \in 0 .. MaxTasks /\ spent.tasks >= spent.tasks
  BY StreamAssumption DEF StreamInv, Typed, Events
<1>2. CASE ProcBegins
  <2>1. Head(proc.asked) \in Asked /\ Tail(proc.asked) \in Seq(Asked)
    BY <1>1, <1>2 DEF ProcBegins, Process
  <2>2. proc' \in Process
    BY <1>1, <1>2, <2>1 DEF ProcBegins, Process
  <2> QED
    BY <1>1, <1>2, <2>2, SameWatches DEF ProcBegins, SessionVars, StreamInv
<1>3. CASE ProcStarts
  <2>1. PICK kind \in {"watch", "command"} : Says(<<kind, spent.tasks + 1>>)
    BY <1>3 DEF ProcStarts
  <2>2. spent' \in Events /\ spent'.tasks = spent.tasks + 1 /\ spent.tasks + 1 \in TaskIds
    BY <1>1, <1>3, Spending DEF ProcStarts
  <2>3. proc' \in Process
    BY <1>1, <1>3, <2>2 DEF ProcStarts, Process
  <2> DEFINE m == <<kind, spent.tasks + 1>>
  <2>4. m \in Messages /\ \A k \in TaskIds : m = <<"watch", k>> => k > spent.tasks /\ k <= spent'.tasks
    BY <1>1, <2>2 DEF Messages
  <2>5. UNCHANGED <<watches, closed>> /\ Says(m) /\ spent'.tasks >= spent.tasks
    BY <1>1, <1>3, <2>1, <2>2 DEF ProcStarts, SessionVars
  <2> HIDE DEF m
  <2> QED
    BY <2>2, <2>3, <2>4, <2>5, SaysStep
<1>4. CASE ProcResult
  <2>1. <<"result", proc.of>> \in Messages
    BY <1>1 DEF Process, Messages
  <2>2. proc' \in Process
    <3>1. 0 \in Asked /\ proc' = [proc EXCEPT !.busy = FALSE, !.of = 0]
      BY <1>4, StreamAssumption DEF ProcResult, Asked
    <3> QED
      BY <1>1, <3>1 DEF Process
  <2> QED
    BY <1>1, <1>4, <2>1, <2>2, SaysStep DEF ProcResult, SessionVars
<1>5. CASE n \in TaskIds /\ ProcTicks(n)
  <2>1. <<"tick", n>> \in Messages
    BY <1>5 DEF Messages
  <2>2. spent' \in Events /\ spent'.tasks >= spent.tasks
    BY <1>1, <1>5, Spending DEF ProcTicks
  <2> QED
    BY <1>1, <1>5, <2>1, <2>2, SaysStep DEF ProcTicks, SessionVars
<1>6. CASE n \in TaskIds /\ ProcNotes(n)
  <2>1. <<"note", n>> \in Messages
    BY <1>6 DEF Messages
  <2>2. Append(proc.asked, 0) \in Seq(Asked)
    BY <1>1, StreamAssumption DEF Process, Asked
  <2>3. proc' \in Process
    BY <1>1, <1>6, <2>2 DEF ProcNotes, Process
  <2> QED
    BY <1>1, <1>6, <2>1, <2>3, SaysStep DEF ProcNotes, SessionVars
<1>7. CASE ProcDies
  <2>1. <<"end", 0>> \in Messages
    BY DEF Messages
  <2>2. spent' \in Events /\ spent'.tasks >= spent.tasks /\ proc' \in Process
    BY <1>1, <1>7, Spending, FreshProcess DEF ProcDies
  <2> QED
    BY <1>1, <1>7, <2>1, <2>2, SaysStep DEF ProcDies, SessionVars
<1> QED
  BY <1>2, <1>3, <1>4, <1>5, <1>6, <1>7

(* The session.                                                             *)
LEMMA ForwardStep ==
    ASSUME StreamInv, ForwardPrompt
    PROVE  StreamInv'
<1>1. spent.asked + 1 \in Asked /\ spent' \in Events /\ spent'.tasks = spent.tasks
      /\ spent.tasks \in 0 .. MaxTasks
  BY StreamAssumption DEF ForwardPrompt, StreamInv, Typed, Events, Asked
<1>2. UNCHANGED <<watches, closed>> /\ proc \in Process /\ messages \in Seq(Messages)
  BY DEF ForwardPrompt, StreamInv, Typed
<1>3. proc' \in Process
  <2>1. Append(proc.asked, spent.asked + 1) \in Seq(Asked)
    BY <1>1, <1>2 DEF Process
  <2>2. [proc EXCEPT !.asked = Append(@, spent.asked + 1)] \in Process
    BY <1>2, <2>1 DEF Process
  <2> QED
    BY <1>1, <1>2, <2>2, FreshProcess DEF ForwardPrompt
<1>4. messages' = messages \/ messages' = << >>
  BY DEF ForwardPrompt
<1>5. messages' \in Seq(Messages) /\ OnceIn(messages')
      /\ \A n \in TaskIds : Announced(messages', n) => Announced(messages, n)
  BY <1>2, <1>4, Empty DEF StreamInv
<1> QED
  BY <1>1, <1>2, <1>3, <1>5, SameWatches

LEMMA RelayedStep ==
    ASSUME StreamInv, messages # << >>, messages' = Tail(messages), Relayed(Head(messages)),
           UNCHANGED <<proc, spent>>
    PROVE  StreamInv'
<1> DEFINE m == Head(messages)
<1>0. messages \in Seq(Messages) /\ OnceIn(messages)
  BY DEF StreamInv, Typed
<1>1. m \in Messages /\ messages' \in Seq(Messages) /\ OnceIn(messages')
  BY <1>0, Taken
<1>2. \A n \in TaskIds : Announced(messages', n) => Announced(messages, n) /\ m # <<"watch", n>>
  BY <1>0, Taken
<1>3. \A n \in TaskIds : m = <<"watch", n>> => Announced(messages, n)
  BY <1>0, Taken
<1>4. /\ watches' = CASE m[1] = "watch" -> watches \cup {m[2]}
                      [] m[1] = "note" -> watches \ {m[2]}
                      [] OTHER -> watches
      /\ closed' = IF m[1] = "note" /\ m[2] \in watches THEN [closed EXCEPT ![m[2]] = @ + 1] ELSE closed
  BY DEF Relayed
<1>5. /\ m[1] \in {"watch", "note"} => m[2] \in TaskIds
      /\ m[1] = "watch" => m = <<"watch", m[2]>>
  BY <1>1 DEF Messages
<1> HIDE DEF m
<1>6. CASE m[1] = "watch"
  <2> DEFINE k == m[2]
  <2>1. k \in TaskIds /\ m = <<"watch", k>> /\ Announced(messages, k)
    BY <1>3, <1>5, <1>6
  <2>2. watches' = watches \cup {k} /\ closed' = closed /\ closed[k] = 0 /\ ~ Announced(messages', k)
    BY <1>2, <1>4, <1>6, <2>1 DEF StreamInv, NotHeardOf
  <2> HIDE DEF k
  <2>3. Typed' /\ WatchEndsOnce'
    BY <1>1, <2>1, <2>2 DEF StreamInv, Typed, WatchEndsOnce
  <2>4. NotHeardOf' /\ NotStarted'
    <3>1. ~ (k > spent.tasks)
      BY <2>1 DEF StreamInv, NotStarted
    <3> QED
      BY <1>2, <2>1, <2>2, <3>1 DEF StreamInv, NotHeardOf, NotStarted
  <2> QED
    BY <1>1, <2>3, <2>4 DEF StreamInv
<1>7. CASE m[1] = "note" /\ m[2] \in watches
  <2> DEFINE E == {m[2]}
  <2>1. E \in SUBSET watches /\ watches' = watches \ E
    BY <1>4, <1>7
  <2>2. closed' = [n \in TaskIds |-> IF n \in E THEN closed[n] + 1 ELSE closed[n]]
    BY <1>4, <1>5, <1>7 DEF StreamInv, Typed
  <2> HIDE DEF E
  <2> QED
    BY <1>1, <1>2, <2>1, <2>2, EndedWatches DEF StreamInv, Typed
<1>8. CASE ~ (m[1] = "watch") /\ ~ (m[1] = "note" /\ m[2] \in watches)
  <2>1. UNCHANGED <<watches, closed>>
    BY <1>4, <1>8
  <2>2. spent.tasks >= spent.tasks
    BY DEF StreamInv, Typed, Events
  <2> QED
    BY <1>1, <1>2, <2>1, <2>2, SameWatches DEF StreamInv, Typed
<1> QED
  BY <1>6, <1>7, <1>8

LEMMA ReadSteps ==
    ASSUME StreamInv, ReadTurn \/ ReadMore
    PROVE  StreamInv'
<1>1. messages # << >> /\ messages' = Tail(messages) /\ UNCHANGED <<proc, spent>>
  BY DEF ReadTurn, ReadMore
<1>2. CASE Relayed(Head(messages))
  BY <1>1, <1>2, RelayedStep
<1>3. CASE UNCHANGED <<watches, closed>>
  <2>1. messages' \in Seq(Messages) /\ OnceIn(messages')
        /\ \A n \in TaskIds : Announced(messages', n) => Announced(messages, n)
    BY <1>1, Taken DEF StreamInv, Typed
  <2>2. spent.tasks >= spent.tasks
    BY DEF StreamInv, Typed, Events
  <2> QED
    BY <1>1, <1>3, <2>1, <2>2, SameWatches DEF StreamInv, Typed
<1> QED
  BY <1>2, <1>3 DEF ReadTurn, ReadMore

(* A queue that is read, left or thrown away.                               *)
LEMMA QueueSteps ==
    ASSUME StreamInv, UNCHANGED <<watches, closed, spent, proc>>,
           \/ messages' = messages \/ messages' = << >>
           \/ messages # << >> /\ messages' = Tail(messages)
    PROVE  StreamInv'
<1>1. messages' \in Seq(Messages) /\ OnceIn(messages')
      /\ \A n \in TaskIds : Announced(messages', n) => Announced(messages, n)
  BY Empty, Taken DEF StreamInv, Typed
<1>2. spent.tasks >= spent.tasks
  BY DEF StreamInv, Typed, Events
<1> QED
  BY <1>1, <1>2, SameWatches DEF StreamInv, Typed

LEMMA EndSteps ==
    ASSUME StreamInv, NEW n, DrainDone \/ StopAgent \/ (n \in TaskIds /\ CancelMonitor(n))
    PROVE  StreamInv'
<1>1. Typed /\ proc \in Process /\ messages \in Seq(Messages) /\ OnceIn(messages) /\ spent \in Events
  BY DEF StreamInv, Typed
<1>2. CASE DrainDone
  <2>1. CASE connected
    BY <1>2, <2>1, QueueSteps DEF DrainDone
  <2>2. CASE ~ connected
    <3>1. /\ closed' = [k \in TaskIds |-> IF k \in watches THEN closed[k] + 1 ELSE closed[k]]
          /\ watches' = watches \ watches /\ UNCHANGED <<proc, messages, spent>>
      BY <1>2, <2>2 DEF DrainDone
    <3> QED
      BY <1>1, <3>1, EndedWatches
  <2> QED
    BY <2>1, <2>2
<1>3. CASE n \in TaskIds /\ CancelMonitor(n)
  <2> DEFINE E == {n}
  <2>1. E \in SUBSET watches /\ watches' = watches \ E
        /\ closed' = [k \in TaskIds |-> IF k \in E THEN closed[k] + 1 ELSE closed[k]]
    BY <1>1, <1>3 DEF CancelMonitor, Untracked, Typed
  <2> HIDE DEF E
  <2>2. spent' \in Events /\ spent'.tasks = spent.tasks /\ messages' = messages
    BY <1>1, <1>3, Spending DEF CancelMonitor
  <2>3. proc' \in Process
    <3>1. Append(proc.asked, 0) \in Seq(Asked)
      BY <1>1, StreamAssumption DEF Process, Asked
    <3>2. [proc EXCEPT !.asked = Append(@, 0)] \in Process
      BY <1>1, <3>1 DEF Process
    <3> QED
      BY <1>1, <1>3, <3>2 DEF CancelMonitor
  <2> QED
    BY <1>1, <2>1, <2>2, <2>3, EndedWatches
<1>4. CASE StopAgent
  <2>1. /\ closed' = [k \in TaskIds |-> IF k \in watches THEN closed[k] + 1 ELSE closed[k]]
        /\ watches' = watches \ watches /\ messages' = << >> /\ proc' \in Process
    BY <1>4, FreshProcess DEF StopAgent
  <2>2. spent' \in Events /\ spent'.tasks = spent.tasks
    BY <1>1, <1>4, Spending DEF StopAgent
  <2> QED
    BY <1>1, <2>1, <2>2, Empty, EndedWatches
<1> QED
  BY <1>2, <1>3, <1>4

-----------------------------------------------------------------------------
LEMMA NextStreamInv ==
    ASSUME StreamInv, [AgentStreamNext]_messageVars
    PROVE  StreamInv'
<1>1. CASE UNCHANGED messageVars
  BY <1>1, QueueSteps DEF messageVars
<1>2. CASE TurnBreaks \/ DrainMore \/ MoreEnds \/ IdleGap
  BY <1>2, QueueSteps DEF TurnBreaks, DrainMore, MoreEnds, IdleGap
<1>3. CASE ProcBegins \/ ProcStarts \/ ProcResult \/ ProcDies \/ DrainDone \/ StopAgent
  BY <1>3, ProcessSteps, EndSteps
<1>4. ASSUME NEW n \in TaskIds, ProcTicks(n) \/ ProcNotes(n) \/ CancelMonitor(n)
      PROVE  StreamInv'
  BY <1>4, ProcessSteps, EndSteps
<1>5. CASE ForwardPrompt
  BY <1>5, ForwardStep
<1>6. CASE ReadTurn \/ ReadMore
  BY <1>6, ReadSteps
<1> QED
  BY <1>1, <1>2, <1>3, <1>4, <1>5, <1>6 DEF AgentStreamNext

(* However the user, the process and the end of the session end a watch, its *)
(* end is shown at most once, and not while it is tracked (WatchEndsOnce;    *)
(* cancel_monitor, _process_monitor_event, _terminate_active_monitors).      *)
THEOREM WatchEndShownOnce == AgentStreamSpec => []WatchEndsOnce
<1>1. StreamInv => WatchEndsOnce
  BY DEF StreamInv
<1> QED
  BY InitStreamInv, NextStreamInv, <1>1, PTL DEF AgentStreamSpec

-----------------------------------------------------------------------------
(***************************************************************************)
(* Worktrees, for any branches, any number of operations and any list that *)
(* git may give.                                                           *)
(*                                                                         *)
(* The code compares the text of paths, the property speaks of their names.*)
(* The proof goes from the one to the other: the text of a directory under *)
(* a worktree has a separator where the worktree's ends, and no name holds *)
(* a separator, so that two different worktrees never hold the same        *)
(* directory.  Then the longest of those that do is the innermost, and the *)
(* step that moves the session puts the badge and the selection on it.     *)
(***************************************************************************)

(* A branch has a name, of letters.                                        *)
LEMMA BranchesAre ==
    \A b \in Branches : b \in Seq({"a", "b"}) /\ b # <<>>
BY WorktreesAssumption

(* The names of a path are flattened one after the other.                    *)
LEMMA FlattenUpToThree ==
    ASSUME NEW T, NEW s \in Seq(T), Len(s) \in 1 .. 3
    PROVE  FlattenSeq(s) = IF Len(s) = 1 THEN s[1]
                           ELSE IF Len(s) = 2 THEN s[1] \o s[2] ELSE (s[1] \o s[2]) \o s[3]
<1> DEFINE n == Len(s)
           G(f) == [i \in 1 .. n |-> IF i = 1 THEN s[i] ELSE f[i - 1] \o s[i]]
           g == [i \in 1 .. n |-> IF i = 1 THEN s[1]
                                  ELSE IF i = 2 THEN s[1] \o s[2] ELSE (s[1] \o s[2]) \o s[3]]
           flat == CHOOSE f : f = G(f)
<1>1. n \in Nat /\ n \in {1, 2, 3}
  OBVIOUS
<1>2. FlattenSeq(s) = flat[n]
  <2>1. Len(s) # 0
    BY <1>1
  <2> QED
    BY <2>1, Zenon DEF FlattenSeq
<1> HIDE DEF n
<1>3. g = G(g)
  <2>1. ASSUME NEW i \in 1 .. n PROVE g[i] = G(g)[i]
    <3>1. CASE i = 1
      BY <3>1
    <3>2. CASE i # 1
      <4>1. i \in {2, 3} /\ i - 1 \in 1 .. n /\ (i = 2 => i - 1 = 1) /\ (i = 3 => i - 1 = 2)
        BY <1>1, <3>2
      <4>2. CASE i = 2
        BY <4>1, <4>2
      <4>3. CASE i = 3
        BY <4>1, <4>3
      <4> QED
        BY <4>1, <4>2, <4>3
    <3> QED
      BY <3>1, <3>2
  <2> QED
    BY <2>1
<1>4. flat = G(flat)
  BY <1>3
<1> HIDE DEF flat
<1>5. flat[1] = s[1]
  BY <1>1, <1>4
<1>6. n \in {2, 3} => flat[2] = s[1] \o s[2]
  <2> SUFFICES ASSUME n \in {2, 3} PROVE flat[2] = s[1] \o s[2]
    OBVIOUS
  <2>1. 2 \in 1 .. n /\ 2 # 1 /\ 2 - 1 = 1
    OBVIOUS
  <2>2. flat[2] = flat[2 - 1] \o s[2]
    BY <1>4, <2>1
  <2> QED
    BY <1>5, <2>1, <2>2
<1>7. n = 3 => flat[3] = (s[1] \o s[2]) \o s[3]
  <2> SUFFICES ASSUME n = 3 PROVE flat[3] = (s[1] \o s[2]) \o s[3]
    OBVIOUS
  <2>1. 3 \in 1 .. n /\ 3 # 1 /\ 3 - 1 = 2
    OBVIOUS
  <2>2. flat[3] = flat[3 - 1] \o s[3]
    BY <1>4, <2>1
  <2> QED
    BY <1>6, <2>1, <2>2
<1> QED
  BY <1>1, <1>2, <1>5, <1>6, <1>7 DEF n

(* What IsPrefix means, element by element.                                  *)
LEMMA PrefixIs ==
    ASSUME NEW T, NEW s \in Seq(T), NEW t \in Seq(T)
    PROVE  IsPrefix(s, t) <=> Len(s) <= Len(t) /\ \A i \in 1 .. Len(s) : s[i] = t[i]
<1>1. Len(s) \in Nat /\ Len(t) \in Nat
  OBVIOUS
<1>2. ASSUME Len(s) <= Len(t)
      PROVE  (SubSeq(s, 1, Len(s)) = SubSeq(t, 1, Len(s))) <=> \A i \in 1 .. Len(s) : s[i] = t[i]
  <2> DEFINE p == SubSeq(s, 1, Len(s))
             q == SubSeq(t, 1, Len(s))
             n == Len(s)
  <2>1. p = [i \in 1 .. n |-> s[i]] /\ q = [i \in 1 .. n |-> t[i]]
    BY <1>1, <1>2
  <2> HIDE DEF p, q, n
  <2>2. (p = q) <=> \A i \in 1 .. n : s[i] = t[i]
    BY <2>1
  <2> QED
    BY <2>2 DEF p, q, n
<1> QED
  BY <1>2 DEF IsPrefix

(* The letters that occur in the text of a path.                            *)
Letters == {"a", "b", "r", "o", "f", "/"}

(* Of paths, name by name.                                                   *)
LEMMA PathPrefix ==
    \A s, t \in Seq(Seq(Letters)) :
        IsPrefix(s, t) <=> Len(s) <= Len(t) /\ \A i \in 1 .. Len(s) : s[i] = t[i]
<1> DEFINE S == Seq(Letters)
<1> HIDE DEF S
<1>1. \A s, t \in Seq(S) : IsPrefix(s, t) <=> Len(s) <= Len(t) /\ \A i \in 1 .. Len(s) : s[i] = t[i]
  <2> SUFFICES ASSUME NEW s \in Seq(S), NEW t \in Seq(S)
               PROVE  IsPrefix(s, t) <=> Len(s) <= Len(t) /\ \A i \in 1 .. Len(s) : s[i] = t[i]
    OBVIOUS
  <2> QED
    BY PrefixIs
<1> QED
  BY <1>1 DEF S

(* The paths, name by name.                                                  *)
LEMMA PathsAre ==
    ASSUME NEW b \in Branches
    PROVE  /\ Project \in Seq(Seq(Letters)) /\ Len(Project) = 1 /\ Project[1] = <<"r">>
           /\ Elsewhere \in Seq(Seq(Letters)) /\ Len(Elsewhere) = 1 /\ Elsewhere[1] = <<"o">>
           /\ TreePath(b) \in Seq(Seq(Letters)) /\ Len(TreePath(b)) = 2
           /\ TreePath(b)[1] = <<"r">> /\ TreePath(b)[2] = b
           /\ FilePath(b) \in Seq(Seq(Letters)) /\ Len(FilePath(b)) = 3
           /\ FilePath(b)[1] = <<"r">> /\ FilePath(b)[2] = b /\ FilePath(b)[3] = <<"f">>
<1>1. b \in Seq(Letters) /\ <<"r">> \in Seq(Letters) /\ <<"o">> \in Seq(Letters) /\ <<"f">> \in Seq(Letters)
  <2>1. b \in Seq({"a", "b"})
    BY BranchesAre
  <2>2. {"a", "b"} \subseteq Letters
    BY DEF Letters
  <2>3. \A i \in 1 .. Len(b) : b[i] \in Letters
    BY <2>1, <2>2
  <2>4. b \in Seq(Letters)
    BY <2>1, <2>3
  <2> QED
    BY <2>4 DEF Letters
<1> DEFINE S == Seq(Letters)
<1>2. b \in S /\ <<"r">> \in S /\ <<"o">> \in S /\ <<"f">> \in S
  BY <1>1
<1> HIDE DEF S
<1>3. /\ Project \in Seq(S) /\ Len(Project) = 1 /\ Project[1] = <<"r">>
      /\ Elsewhere \in Seq(S) /\ Len(Elsewhere) = 1 /\ Elsewhere[1] = <<"o">>
  BY <1>2 DEF Project, Elsewhere
<1>4. /\ TreePath(b) \in Seq(S) /\ Len(TreePath(b)) = 2
      /\ TreePath(b)[1] = <<"r">> /\ TreePath(b)[2] = b
  BY <1>2, <1>3 DEF TreePath
<1>5. /\ FilePath(b) \in Seq(S) /\ Len(FilePath(b)) = 3
      /\ FilePath(b)[1] = <<"r">> /\ FilePath(b)[2] = b /\ FilePath(b)[3] = <<"f">>
  <2> DEFINE w == TreePath(b)
             f == <<"f">>
             g == Append(w, f)
  <2>1. w \in Seq(S) /\ Len(w) = 2 /\ w[1] = <<"r">> /\ w[2] = b /\ f \in S
    BY <1>2, <1>4
  <2> HIDE DEF w, f
  <2>2. g \in Seq(S) /\ Len(g) = 3 /\ g[1] = w[1] /\ g[2] = w[2] /\ g[3] = f
    <3>1. g \in Seq(S) /\ Len(g) = 3
      <4>1. g \in Seq(S) /\ Len(g) = Len(w) + 1
        BY <2>1, AppendProperties, Zenon
      <4>2. Len(w) = 2
        BY <2>1
      <4> HIDE DEF g
      <4> QED
        BY <4>1, <4>2
    <3>2. 1 \in 1 .. Len(w) /\ 2 \in 1 .. Len(w) /\ 3 = Len(w) + 1
      BY <2>1
    <3> QED
      BY <2>1, <3>1, <3>2, AppendProperties
  <2>3. g = FilePath(b)
    BY DEF FilePath, g, w, f
  <2> HIDE DEF g
  <2> QED
    BY <2>1, <2>2, <2>3 DEF f
<1> QED
  BY <1>3, <1>4, <1>5 DEF S

(* The directories that the model knows.                                   *)
LEMMA PlacesAre ==
    /\ Project \in Places /\ Elsewhere \in Places
    /\ \A b \in Branches : TreePath(b) \in Places /\ FilePath(b) \in Places
    /\ \A p \in Places : \/ p = Project \/ p = Elsewhere
                         \/ \E b \in Branches : p = TreePath(b) \/ p = FilePath(b)
BY DEF Places, TreePaths

(* A separator and a name, joined to what comes before.                      *)
LEMMA Joined ==
    ASSUME NEW s \in Seq(Letters), NEW x \in Seq(Letters)
    PROVE  LET t == s \o (<<"/">> \o x)
           IN /\ t \in Seq(Letters) /\ Len(t) = Len(s) + 1 + Len(x)
              /\ \A i \in 1 .. Len(s) : t[i] = s[i]
              /\ t[Len(s) + 1] = "/"
              /\ \A i \in 1 .. Len(x) : t[Len(s) + 1 + i] = x[i]
<1> DEFINE y == <<"/">> \o x
           t == s \o y
<1>1. <<"/">> \in Seq(Letters) /\ Len(s) \in Nat /\ Len(x) \in Nat
  BY DEF Letters
<1>2. /\ y \in Seq(Letters) /\ Len(y) = 1 + Len(x) /\ y[1] = "/"
      /\ \A i \in 1 .. Len(x) : y[1 + i] = x[i]
  <2> DEFINE z == <<"/">>
             v == z \o x
  <2>1. z \in Seq(Letters) /\ Len(z) = 1 /\ z[1] = "/"
    BY <1>1
  <2> HIDE DEF z
  <2>2. v \in Seq(Letters) /\ Len(v) = Len(z) + Len(x)
        /\ \A i \in 1 .. Len(z) + Len(x) : v[i] = IF i <= Len(z) THEN z[i] ELSE x[i - Len(z)]
    BY <1>1, <2>1, ConcatProperties
  <2>3. v = y
    BY DEF y, v, z
  <2> HIDE DEF v
  <2>4. v[1] = "/"
    BY <1>1, <2>1, <2>2
  <2>5. ASSUME NEW i \in 1 .. Len(x) PROVE v[1 + i] = x[i]
    <3>1. 1 + i \in 1 .. Len(z) + Len(x) /\ ~ (1 + i <= Len(z)) /\ (1 + i) - Len(z) = i
      BY <1>1, <2>1
    <3> QED
      BY <2>2, <3>1
  <2> QED
    BY <2>1, <2>2, <2>3, <2>4, <2>5
<1> HIDE DEF y
<1>3. /\ t \in Seq(Letters) /\ Len(t) = Len(s) + Len(y)
      /\ \A i \in 1 .. Len(s) : t[i] = s[i]
      /\ \A i \in 1 .. Len(y) : t[Len(s) + i] = y[i]
  <2>1. t \in Seq(Letters) /\ Len(t) = Len(s) + Len(y)
        /\ \A i \in 1 .. Len(s) + Len(y) : t[i] = IF i <= Len(s) THEN s[i] ELSE y[i - Len(s)]
    <3>1. s \in Seq(Letters) /\ y \in Seq(Letters)
      BY <1>2
    <3> QED
      BY <3>1, ConcatProperties, Zenon
  <2>2. Len(y) \in Nat
    BY <1>2
  <2> HIDE DEF t
  <2>3. ASSUME NEW i \in 1 .. Len(s) PROVE t[i] = s[i]
    <3>1. i \in 1 .. Len(s) + Len(y) /\ i <= Len(s)
      BY <1>1, <2>2
    <3> QED
      BY <2>1, <3>1
  <2>4. ASSUME NEW i \in 1 .. Len(y) PROVE t[Len(s) + i] = y[i]
    <3>1. Len(s) + i \in 1 .. Len(s) + Len(y) /\ ~ (Len(s) + i <= Len(s)) /\ (Len(s) + i) - Len(s) = i
      BY <1>1, <2>2
    <3> QED
      BY <2>1, <3>1
  <2> QED
    BY <2>1, <2>3, <2>4
<1> HIDE DEF t
<1>4. ASSUME NEW i \in 1 .. Len(x) PROVE t[Len(s) + 1 + i] = x[i]
  <2>1. 1 + i \in 1 .. Len(y) /\ Len(s) + (1 + i) = Len(s) + 1 + i
    BY <1>1, <1>2
  <2> QED
    BY <1>2, <1>3, <2>1
<1>5. t[Len(s) + 1] = "/"
  BY <1>1, <1>2, <1>3
<1> QED
  BY <1>1, <1>2, <1>3, <1>4, <1>5 DEF t, y

(* The texts of the paths.                                                   *)
LEMMA PieceIs ==
    ASSUME NEW p \in Places, p \in Seq(Seq(Letters)), Len(p) \in 1 .. 3
    PROVE  Text[p] = IF Len(p) = 1 THEN <<"/">> \o p[1]
                     ELSE IF Len(p) = 2 THEN (<<"/">> \o p[1]) \o (<<"/">> \o p[2])
                     ELSE ((<<"/">> \o p[1]) \o (<<"/">> \o p[2])) \o (<<"/">> \o p[3])
<1> DEFINE n == Len(p)
           q == [i \in DOMAIN p |-> <<"/">> \o p[i]]
           S == Seq(Letters)
<1>1. DOMAIN p = 1 .. n /\ n \in {1, 2, 3} /\ \A i \in 1 .. n : p[i] \in S
  OBVIOUS
<1>2. <<"/">> \in S /\ \A x \in S : <<"/">> \o x \in S
  BY DEF Letters
<1> HIDE DEF n, S
<1>3. q \in Seq(S) /\ Len(q) = n /\ \A i \in 1 .. n : q[i] = <<"/">> \o p[i]
  BY <1>1, <1>2
<1>4. Text[p] = FlattenSeq(q)
  BY DEF Text
<1> HIDE DEF q
<1>5. FlattenSeq(q) = IF Len(q) = 1 THEN q[1]
                      ELSE IF Len(q) = 2 THEN q[1] \o q[2] ELSE (q[1] \o q[2]) \o q[3]
  <2>1. Len(q) \in 1 .. 3 /\ q \in Seq(S)
    BY <1>1, <1>3
  <2> QED
    BY <2>1, FlattenUpToThree, Zenon
<1>6. 1 \in 1 .. n /\ (n \in {2, 3} => 2 \in 1 .. n) /\ (n = 3 => 3 \in 1 .. n)
  BY <1>1
<1> QED
  BY <1>1, <1>3, <1>4, <1>5, <1>6 DEF n

(* The same, one case for each depth.                                      *)
LEMMA PiecesAre ==
    ASSUME NEW p \in Places, p \in Seq(Seq(Letters))
    PROVE  /\ Len(p) = 1 => Text[p] = <<"/">> \o p[1]
           /\ Len(p) = 2 => Text[p] = (<<"/">> \o p[1]) \o (<<"/">> \o p[2])
           /\ Len(p) = 3 => Text[p] = ((<<"/">> \o p[1]) \o (<<"/">> \o p[2])) \o (<<"/">> \o p[3])
<1> DEFINE X == <<"/">> \o p[1]
           Y == X \o (<<"/">> \o p[2])
           Z == Y \o (<<"/">> \o p[3])
           n == Len(p)
<1>1. n \in 1 .. 3 => Text[p] = IF n = 1 THEN X ELSE IF n = 2 THEN Y ELSE Z
  BY PieceIs, Zenon
<1> HIDE DEF X, Y, Z
<1>2. n \in {1, 2, 3} => n \in 1 .. 3
  OBVIOUS
<1> HIDE DEF n
<1>3. (n = 1 => Text[p] = X) /\ (n = 2 => Text[p] = Y) /\ (n = 3 => Text[p] = Z)
  <2>1. n = 1 => Text[p] = X
    BY <1>1, <1>2
  <2>2. n = 2 => Text[p] = Y
    BY <1>1, <1>2
  <2>3. n = 3 => Text[p] = Z
    BY <1>1, <1>2
  <2> QED
    BY <2>1, <2>2, <2>3
<1> QED
  BY <1>3 DEF n, X, Y, Z

LEMMA TextsAre ==
    /\ Text[Project] = <<"/", "r">> /\ Text[Elsewhere] = <<"/", "o">>
    /\ \A b \in Branches :
          /\ Text[TreePath(b)] = <<"/", "r">> \o (<<"/">> \o b)
          /\ Text[FilePath(b)] = (<<"/", "r">> \o (<<"/">> \o b)) \o (<<"/">> \o <<"f">>)
<1>1. <<"/">> \o <<"r">> = <<"/", "r">> /\ <<"/">> \o <<"o">> = <<"/", "o">>
  <2>1. <<"/">> \in Seq(Letters) /\ "r" \in Letters /\ "o" \in Letters
    BY DEF Letters
  <2>2. /\ Append(<<"/">>, "r") = <<"/">> \o <<"r">>
        /\ Append(<<"/">>, "o") = <<"/">> \o <<"o">>
    BY <2>1, AppendIsConcat, Zenon
  <2>3. ASSUME NEW x \in Letters PROVE Append(<<"/">>, x) = <<"/", x>>
    <3> DEFINE s == <<"/">>
               u == Append(s, x)
               v == <<"/", x>>
    <3>1. s \in Seq(Letters) /\ Len(s) = 1 /\ s[1] = "/"
      BY <2>1
    <3>2. v \in Seq(Letters) /\ Len(v) = 2 /\ v[1] = "/" /\ v[2] = x
      BY <2>1
    <3> HIDE DEF s, v
    <3>3. u \in Seq(Letters) /\ Len(u) = 2 /\ u[1] = "/" /\ u[2] = x
      <4>1. u \in Seq(Letters) /\ Len(u) = Len(s) + 1 /\ u[Len(s) + 1] = x /\ u[1] = s[1]
        <5>1. x \in Letters /\ s \in Seq(Letters)
          BY <3>1
        <5>2. u \in Seq(Letters) /\ Len(u) = Len(s) + 1
          BY <5>1, AppendProperties, Zenon
        <5>4. u[1] = s[1]
          <6> HIDE DEF s
          <6>1. 1 \in 1 .. Len(s)
            BY <3>1
          <6> QED
            BY <5>1, <6>1, AppendProperties
        <5>3. u[Len(s) + 1] = x
          BY <5>1, AppendProperties, Zenon
        <5> QED
          BY <5>2, <5>3, <5>4
      <4> QED
        BY <3>1, <4>1
    <3> HIDE DEF u
    <3>4. \A i \in 1 .. Len(u) : u[i] = v[i]
      BY <3>2, <3>3
    <3>5. u = v
      BY <3>2, <3>3, <3>4, SeqEqual
    <3> QED
      BY <3>5 DEF u, v, s
  <2> QED
    BY <2>1, <2>2, <2>3
<1>2. /\ Project \in Seq(Seq(Letters)) /\ Len(Project) = 1 /\ Project[1] = <<"r">>
      /\ Elsewhere \in Seq(Seq(Letters)) /\ Len(Elsewhere) = 1 /\ Elsewhere[1] = <<"o">>
  BY DEF Project, Elsewhere, Letters
<1>3. Text[Project] = <<"/", "r">> /\ Text[Elsewhere] = <<"/", "o">>
  BY <1>1, <1>2, PlacesAre, PiecesAre, Zenon
<1>4. ASSUME NEW b \in Branches
      PROVE  /\ Text[TreePath(b)] = <<"/", "r">> \o (<<"/">> \o b)
             /\ Text[FilePath(b)] = (<<"/", "r">> \o (<<"/">> \o b)) \o (<<"/">> \o <<"f">>)
  <2> DEFINE w == TreePath(b)
             f == FilePath(b)
  <2>1. /\ w \in Places /\ w \in Seq(Seq(Letters)) /\ Len(w) = 2 /\ w[1] = <<"r">> /\ w[2] = b
        /\ f \in Places /\ f \in Seq(Seq(Letters)) /\ Len(f) = 3 /\ f[1] = <<"r">> /\ f[2] = b
        /\ f[3] = <<"f">>
    BY PlacesAre, PathsAre
  <2> HIDE DEF w, f
  <2>2. Text[w] = (<<"/">> \o w[1]) \o (<<"/">> \o w[2])
    BY <2>1, PiecesAre, Zenon
  <2>3. Text[f] = ((<<"/">> \o f[1]) \o (<<"/">> \o f[2])) \o (<<"/">> \o f[3])
    BY <2>1, PiecesAre, Zenon
  <2> QED
    BY <1>1, <2>1, <2>2, <2>3 DEF w, f
<1> QED
  BY <1>3, <1>4

(* The text of a worktree, letter by letter.                               *)
LEMMA TreeText ==
    ASSUME NEW b \in Branches
    PROVE  LET t == Text[TreePath(b)]
           IN /\ b \in Seq(Letters) /\ Len(b) \in Nat \ {0}
              /\ \A i \in 1 .. Len(b) : b[i] # "/" /\ b[i] # "f"
              /\ t \in Seq(Letters) /\ Len(t) = 3 + Len(b)
              /\ t[1] = "/" /\ t[2] = "r" /\ t[3] = "/"
              /\ \A i \in 1 .. Len(b) : t[3 + i] = b[i]
<1> DEFINE R == <<"/", "r">>
           t == Text[TreePath(b)]
<1>1. b \in Seq({"a", "b"}) /\ b # <<>>
  BY BranchesAre
<1>2. Len(b) \in Nat \ {0} /\ \A i \in 1 .. Len(b) : b[i] \in {"a", "b"}
  BY <1>1
<1>3. b \in Seq(Letters)
  BY <1>1, <1>2 DEF Letters
<1>4. R \in Seq(Letters) /\ Len(R) = 2 /\ R[1] = "/" /\ R[2] = "r"
  BY DEF Letters
<1>5. t = R \o (<<"/">> \o b)
  BY TextsAre
<1> HIDE DEF R, t
<1>6. /\ t \in Seq(Letters) /\ Len(t) = Len(R) + 1 + Len(b)
      /\ \A i \in 1 .. Len(R) : t[i] = R[i]
      /\ t[Len(R) + 1] = "/"
      /\ \A i \in 1 .. Len(b) : t[Len(R) + 1 + i] = b[i]
  BY <1>3, <1>4, <1>5, Joined
<1>7. t[1] = "/" /\ t[2] = "r" /\ t[3] = "/" /\ Len(t) = 3 + Len(b)
  <2>1. 1 \in 1 .. Len(R) /\ 2 \in 1 .. Len(R) /\ Len(R) + 1 = 3
    BY <1>4
  <2> QED
    BY <1>2, <1>4, <1>6, <2>1
<1>8. \A i \in 1 .. Len(b) : t[3 + i] = b[i]
  BY <1>4, <1>6
<1> QED
  BY <1>2, <1>3, <1>6, <1>7, <1>8 DEF t

(* The text of a file in it.                                               *)
LEMMA FileText ==
    ASSUME NEW b \in Branches
    PROVE  LET t == Text[TreePath(b)]
               f == Text[FilePath(b)]
           IN /\ f \in Seq(Letters) /\ Len(f) = 5 + Len(b)
              /\ \A i \in 1 .. 3 + Len(b) : f[i] = t[i]
              /\ f[4 + Len(b)] = "/" /\ f[5 + Len(b)] = "f"
<1> DEFINE t == Text[TreePath(b)]
           f == Text[FilePath(b)]
           e == <<"f">>
<1>1. e \in Seq(Letters) /\ Len(e) = 1 /\ e[1] = "f"
  BY DEF Letters
<1>2. t \in Seq(Letters) /\ Len(t) = 3 + Len(b) /\ Len(b) \in Nat
  BY TreeText
<1>3. f = t \o (<<"/">> \o e)
  BY TextsAre
<1> HIDE DEF t, f, e
<1>4. /\ f \in Seq(Letters) /\ Len(f) = Len(t) + 1 + Len(e)
      /\ \A i \in 1 .. Len(t) : f[i] = t[i]
      /\ f[Len(t) + 1] = "/"
      /\ \A i \in 1 .. Len(e) : f[Len(t) + 1 + i] = e[i]
  BY <1>1, <1>2, <1>3, Joined
<1>5. f[Len(t) + 1 + 1] = "f"
  BY <1>1, <1>4
<1>6. Len(t) + 1 = 4 + Len(b) /\ Len(t) + 1 + 1 = 5 + Len(b) /\ Len(f) = 5 + Len(b)
  BY <1>1, <1>2, <1>4
<1> QED
  BY <1>2, <1>4, <1>5, <1>6 DEF t, f

(* A path followed by a separator.                                           *)
LEMMA AtSlash ==
    ASSUME NEW u \in Seq(Letters), NEW t \in Seq(Letters)
    PROVE  IsPrefix(u \o <<"/">>, t) <=>
               /\ Len(u) + 1 <= Len(t) /\ t[Len(u) + 1] = "/"
               /\ \A i \in 1 .. Len(u) : t[i] = u[i]
<1> DEFINE v == u \o <<"/">>
<1>1. v = Append(u, "/") /\ "/" \in Letters /\ Len(u) \in Nat
  BY DEF Letters
<1>2. /\ v \in Seq(Letters) /\ Len(v) = Len(u) + 1 /\ v[Len(u) + 1] = "/"
      /\ \A i \in 1 .. Len(u) : v[i] = u[i]
  BY <1>1, AppendProperties
<1> HIDE DEF v
<1>3. IsPrefix(v, t) <=> Len(v) <= Len(t) /\ \A i \in 1 .. Len(v) : v[i] = t[i]
  BY <1>2, PrefixIs
<1>4. Len(u) + 1 \in 1 .. Len(v) /\ \A i \in 1 .. Len(v) : i \in 1 .. Len(u) \/ i = Len(u) + 1
  BY <1>1, <1>2
<1> QED
  BY <1>1, <1>2, <1>3, <1>4 DEF v

Roots == {Project} \cup TreePaths

(* What git may list.                                                      *)
LEMMA RootsAre ==
    /\ Roots \subseteq Places /\ Lists = SUBSET Roots
    /\ \A w \in Roots : w = Project \/ \E c \in Branches : w = TreePath(c)
    /\ \A c \in Branches : TreePath(c) # Project /\ TreePath(c) # NoPath
    /\ Project # NoPath /\ NoPath \notin Roots
<1>1. /\ Roots \subseteq Places /\ Lists = SUBSET Roots
      /\ \A w \in Roots : w = Project \/ \E c \in Branches : w = TreePath(c)
  BY DEF Roots, Lists, Places, TreePaths
<1>2. Len(Project) = 1 /\ Len(NoPath) = 0 /\ \A c \in Branches : Len(TreePath(c)) = 2
  BY PathsAre DEF Project, NoPath
<1>3. /\ \A c \in Branches : TreePath(c) # Project /\ TreePath(c) # NoPath
      /\ Project # NoPath
  BY <1>2
<1> QED
  BY <1>1, <1>3

(* No two paths are the same.                                              *)
LEMMA TreesApart ==
    ASSUME NEW b \in Branches, NEW c \in Branches
    PROVE  /\ TreePath(b) # Elsewhere /\ TreePath(b) # Project
           /\ FilePath(b) # Project /\ FilePath(b) # Elsewhere
           /\ TreePath(c) # FilePath(b)
           /\ TreePath(c) = TreePath(b) => c = b
           /\ FilePath(c) = FilePath(b) => c = b
<1>1. /\ Len(Project) = 1 /\ Len(Elsewhere) = 1 /\ Len(TreePath(b)) = 2 /\ Len(FilePath(b)) = 3
      /\ TreePath(b)[2] = b /\ FilePath(b)[2] = b
  BY PathsAre, Zenon
<1>2. Len(TreePath(c)) = 2 /\ TreePath(c)[2] = c /\ FilePath(c)[2] = c
  BY PathsAre, Zenon
<1> QED
  BY <1>1, <1>2

(* Nor are those two, nor a path below one of them and one of them.        *)
LEMMA PathsApart ==
    /\ \A b \in Branches : /\ TreePath(b) # Elsewhere /\ TreePath(b) # Project
                             /\ FilePath(b) # Project /\ FilePath(b) # Elsewhere
    /\ Project # Elsewhere
<1>1. Project # Elsewhere
  <2>1. <<"r">> # <<"o">>
    OBVIOUS
  <2> QED
    BY <2>1 DEF Project, Elsewhere
<1> QED
  BY <1>1, TreesApart

(* What is in the project.                                                 *)
LEMMA ProjectInside ==
    ASSUME NEW p \in Places
    PROVE  /\ Inside(p, Project) <=> p # Elsewhere
           /\ IsPrefix(Project, p) <=> p # Elsewhere
<1> DEFINE R == Text[Project]
           S == Seq(Letters)
<1>1. R \in Seq(Letters) /\ Len(R) = 2 /\ R[1] = "/" /\ R[2] = "r"
  BY TextsAre DEF Letters
<1>2. /\ Project \in Seq(S) /\ Len(Project) = 1 /\ Project[1] = <<"r">>
      /\ Elsewhere \in Seq(S) /\ Len(Elsewhere) = 1 /\ Elsewhere[1] = <<"o">>
  BY DEF Project, Elsewhere, Letters
<1> HIDE DEF R, S
<1>3. Inside(p, Project) <=>
          \/ p = Project
          \/ IsPrefix(R \o <<"/">>, Text[p])
  BY DEF Inside, R
<1>4. CASE p = Project
  <2>1. IsPrefix(Project, p) <=> \A i \in 1 .. Len(Project) : Project[i] = p[i]
    BY <1>2, <1>4, PrefixIs
  <2> QED
    BY <1>3, <1>4, <2>1, PathsApart
<1>5. CASE p = Elsewhere
  <2>1. Text[p] \in Seq(Letters) /\ Len(Text[p]) = 2
    BY <1>5, TextsAre DEF Letters
  <2>2. ~ IsPrefix(R \o <<"/">>, Text[p])
    BY <1>1, <2>1, AtSlash
  <2>3. IsPrefix(Project, p) <=>
            Len(Project) <= Len(p) /\ \A i \in 1 .. Len(Project) : Project[i] = p[i]
    BY <1>2, <1>5, PrefixIs
  <2>4. <<"r">> # <<"o">> /\ 1 \in 1 .. Len(Project)
    BY <1>2
  <2> QED
    BY <1>2, <1>3, <1>5, <2>2, <2>3, <2>4, PathsApart
<1>6. CASE \E b \in Branches : p = TreePath(b) \/ p = FilePath(b)
  <2>1. PICK b \in Branches : p = TreePath(b) \/ p = FilePath(b)
    BY <1>6
  <2>2. p # Elsewhere /\ p # Project
    BY <2>1, PathsApart
  <2>3. /\ Text[p] \in Seq(Letters) /\ 3 <= Len(Text[p])
        /\ Text[p][1] = "/" /\ Text[p][2] = "r" /\ Text[p][3] = "/"
    <3>1. CASE p = TreePath(b)
      BY <3>1, TreeText
    <3>2. CASE p = FilePath(b)
      <4> DEFINE t == Text[TreePath(b)]
                 f == Text[FilePath(b)]
      <4>1. t[1] = "/" /\ t[2] = "r" /\ t[3] = "/" /\ Len(b) \in Nat
        BY TreeText
      <4>2. /\ f \in Seq(Letters) /\ Len(f) = 5 + Len(b)
            /\ \A i \in 1 .. 3 + Len(b) : f[i] = t[i]
        BY FileText
      <4> HIDE DEF t, f
      <4>3. f[1] = "/" /\ f[2] = "r" /\ f[3] = "/"
        BY <4>1, <4>2
      <4> QED
        BY <3>2, <4>1, <4>2, <4>3 DEF f
    <3> QED
      BY <2>1, <3>1, <3>2
  <2>4. IsPrefix(R \o <<"/">>, Text[p])
    <3> DEFINE t == Text[p]
    <3>1. /\ t \in Seq(Letters) /\ Len(t) \in Nat
          /\ 3 <= Len(t) /\ t[1] = "/" /\ t[2] = "r" /\ t[3] = "/"
      BY <2>3
    <3> HIDE DEF t
    <3>2. \A i \in 1 .. Len(R) : t[i] = R[i]
      BY <1>1, <3>1
    <3>3. Len(R) + 1 <= Len(t) /\ t[Len(R) + 1] = "/"
      BY <1>1, <3>1
    <3>4. IsPrefix(R \o <<"/">>, t)
      BY <1>1, <3>1, <3>2, <3>3, AtSlash, Zenon
    <3> QED
      BY <3>4 DEF t
  <2>5. p \in Seq(S) /\ 1 <= Len(p) /\ p[1] = <<"r">>
    BY <2>1, PathsAre DEF S
  <2>6. IsPrefix(Project, p)
    <3>1. \A i \in 1 .. Len(Project) : i = 1
      BY <1>2
    <3>2. IsPrefix(Project, p) <=>
            Len(Project) <= Len(p) /\ \A i \in 1 .. Len(Project) : Project[i] = p[i]
      BY <1>2, <2>5, PrefixIs
    <3> QED
      BY <1>2, <2>5, <3>1, <3>2
  <2> QED
    BY <1>3, <2>2, <2>4, <2>6
<1> QED
  BY <1>4, <1>5, <1>6, PlacesAre

(* What is in a worktree: it and its file, nothing of a sibling.           *)
LEMMA TreeInside ==
    ASSUME NEW c \in Branches, NEW p \in Places
    PROVE  /\ Inside(p, TreePath(c)) <=> p \in {TreePath(c), FilePath(c)}
           /\ IsPrefix(TreePath(c), p) <=> p \in {TreePath(c), FilePath(c)}
<1> DEFINE w == TreePath(c)
           u == Text[w]
           S == Seq(Letters)
<1>1. /\ u \in Seq(Letters) /\ Len(u) = 3 + Len(c) /\ Len(c) \in Nat \ {0}
      /\ u[1] = "/" /\ u[2] = "r" /\ u[3] = "/"
      /\ \A i \in 1 .. Len(c) : u[3 + i] = c[i] /\ c[i] # "/" /\ c[i] # "f"
      /\ c \in Seq(Letters)
  BY TreeText
<1>2. w \in Seq(S) /\ Len(w) = 2 /\ w[1] = <<"r">> /\ w[2] = c
  BY PathsAre
<1> HIDE DEF S
<1>3. Inside(p, w) <=> p = w \/ IsPrefix(u \o <<"/">>, Text[p])
  BY DEF Inside
<1>4. CASE p = Project \/ p = Elsewhere
  <2>1. p \in Seq(S) /\ Len(p) = 1 /\ p # TreePath(c) /\ p # FilePath(c)
    BY <1>4, PathsAre, PathsApart, TreesApart DEF S
  <2>2. Text[p] \in Seq(Letters) /\ Len(Text[p]) = 2
    <3>1. Text[p] = <<"/", "r">> \/ Text[p] = <<"/", "o">>
      BY <1>4, TextsAre, Zenon
    <3>2. <<"/", "r">> \in Seq(Letters) /\ <<"/", "o">> \in Seq(Letters)
      BY DEF Letters
    <3>3. Len(<<"/", "r">>) = 2 /\ Len(<<"/", "o">>) = 2
      OBVIOUS
    <3> QED
      BY <3>1, <3>2, <3>3
  <2> DEFINE t == Text[p]
  <2>3. ~ IsPrefix(u \o <<"/">>, t)
    <3> HIDE DEF t, u
    <3>1. t \in Seq(Letters) /\ Len(t) = 2
      BY <2>2 DEF t
    <3>2. ~ (Len(u) + 1 <= Len(t))
      BY <1>1, <3>1
    <3> QED
      BY <1>1, <3>1, <3>2, AtSlash, Zenon
  <2>4. ~ IsPrefix(w, p)
    <3> HIDE DEF w
    <3>1. ~ (Len(w) <= Len(p))
      BY <1>2, <2>1
    <3> QED
      BY <1>2, <2>1, <3>1, PrefixIs, Zenon
  <2> QED
    BY <1>3, <2>1, <2>3, <2>4
<1>5. ASSUME NEW b \in Branches, p = TreePath(b)
      PROVE  /\ Inside(p, w) <=> p \in {w, FilePath(c)}
             /\ IsPrefix(w, p) <=> p \in {w, FilePath(c)}
  <2> DEFINE t == Text[p]
  <2>1. /\ t \in Seq(Letters) /\ Len(t) = 3 + Len(b) /\ Len(b) \in Nat \ {0}
        /\ \A i \in 1 .. Len(b) : t[3 + i] = b[i] /\ b[i] # "/" /\ b[i] # "f"
    BY <1>5, TreeText
  <2>2. p \in Seq(S) /\ Len(p) = 2 /\ p[1] = <<"r">> /\ p[2] = b /\ p # FilePath(c)
    <3> DEFINE q == TreePath(b)
    <3>1. q \in Seq(S) /\ Len(q) = 2 /\ q[1] = <<"r">> /\ q[2] = b
      BY PathsAre DEF S
    <3>2. q # FilePath(c)
      BY TreesApart
    <3> HIDE DEF q
    <3>3. p = q
      BY <1>5 DEF q
    <3> QED
      BY <3>1, <3>2, <3>3
  <2>3. p = w <=> b = c
    <3>1. TreePath(b) = TreePath(c) <=> b = c
      BY TreesApart
    <3> QED
      BY <1>5, <3>1
  <2>4. ~ IsPrefix(u \o <<"/">>, t)
    <3> HIDE DEF t, u
    <3>1. SUFFICES ASSUME Len(u) + 1 <= Len(t), t[Len(u) + 1] = "/" PROVE FALSE
      BY <1>1, <2>1, AtSlash, Zenon
    <3>2. Len(c) + 1 \in 1 .. Len(b) /\ Len(u) + 1 = 3 + (Len(c) + 1)
      BY <1>1, <2>1, <3>1
    <3> QED
      BY <2>1, <3>1, <3>2
  <2>5. IsPrefix(w, p) <=> b = c
    <3> HIDE DEF w
    <3>1. Len(w) <= Len(p) /\ 1 .. Len(w) = {1, 2}
      BY <1>2, <2>2
    <3>2. IsPrefix(w, p) <=> Len(w) <= Len(p) /\ \A i \in 1 .. Len(w) : w[i] = p[i]
      BY <1>2, <2>2, PathPrefix DEF S
    <3>3. (\A i \in 1 .. Len(w) : w[i] = p[i]) <=> w[1] = p[1] /\ w[2] = p[2]
      BY <3>1
    <3>4. IsPrefix(w, p) <=> w[1] = p[1] /\ w[2] = p[2]
      BY <3>1, <3>2, <3>3, Zenon
    <3>5. w[1] = p[1] /\ w[2] = c /\ p[2] = b
      BY <1>2, <2>2
    <3> HIDE DEF w
    <3> QED
      BY <3>4, <3>5
  <2> QED
    BY <1>3, <2>2, <2>3, <2>4, <2>5
<1>6. ASSUME NEW b \in Branches, p = FilePath(b)
      PROVE  /\ Inside(p, w) <=> p \in {w, FilePath(c)}
             /\ IsPrefix(w, p) <=> p \in {w, FilePath(c)}
  <2> DEFINE t == Text[p]
             v == Text[TreePath(b)]
  <2>1. /\ Len(b) \in Nat \ {0} /\ b \in Seq(Letters)
        /\ v[1] = "/" /\ v[2] = "r" /\ v[3] = "/"
        /\ \A i \in 1 .. Len(b) : v[3 + i] = b[i] /\ b[i] # "/" /\ b[i] # "f"
    BY TreeText
  <2>2. /\ t \in Seq(Letters) /\ Len(t) = 5 + Len(b)
        /\ \A i \in 1 .. 3 + Len(b) : t[i] = v[i]
        /\ t[4 + Len(b)] = "/" /\ t[5 + Len(b)] = "f"
    BY <1>6, FileText
  <2>3. p \in Seq(S) /\ Len(p) = 3 /\ p[1] = <<"r">> /\ p[2] = b /\ p # w
    <3> DEFINE q == FilePath(b)
    <3>1. q \in Seq(S) /\ Len(q) = 3 /\ q[1] = <<"r">> /\ q[2] = b
      BY PathsAre DEF S
    <3>2. q # w
      BY TreesApart
    <3> HIDE DEF q
    <3>3. p = q
      BY <1>6 DEF q
    <3> QED
      BY <3>1, <3>2, <3>3
  <2>4. p = FilePath(c) <=> b = c
    <3>1. FilePath(b) = FilePath(c) <=> b = c
      BY TreesApart
    <3> QED
      BY <1>6, <3>1
  <2> HIDE DEF t, u, v
  <2>5. IsPrefix(u \o <<"/">>, t) <=>
            /\ Len(u) + 1 <= Len(t) /\ t[Len(u) + 1] = "/"
            /\ \A i \in 1 .. Len(u) : t[i] = u[i]
    BY <1>1, <2>2, AtSlash, Zenon
  <2>6. \A i \in 1 .. Len(b) : t[3 + i] = b[i]
    <3>1. \A i \in 1 .. Len(b) : 3 + i \in 1 .. 3 + Len(b)
      BY <2>1
    <3> QED
      BY <2>1, <2>2, <3>1
  <2>7. ASSUME IsPrefix(u \o <<"/">>, t) PROVE b = c
    <3>1. /\ Len(u) + 1 <= Len(t) /\ t[Len(u) + 1] = "/"
          /\ \A i \in 1 .. Len(u) : t[i] = u[i]
      BY <2>5, <2>7
    <3>2. Len(c) <= Len(b) + 1
      BY <1>1, <2>1, <2>2, <3>1
    <3>3. Len(c) # Len(b) + 1
      <4> SUFFICES ASSUME Len(c) = Len(b) + 1 PROVE FALSE
        OBVIOUS
      <4>1. Len(u) + 1 = 5 + Len(b)
        BY <1>1, <2>1
      <4> QED
        BY <2>2, <3>1, <4>1
    <3>4. ~ (Len(c) < Len(b))
      <4> SUFFICES ASSUME Len(c) < Len(b) PROVE FALSE
        OBVIOUS
      <4>1. Len(c) + 1 \in 1 .. Len(b) /\ Len(u) + 1 = 3 + (Len(c) + 1)
        BY <1>1, <2>1
      <4> QED
        BY <2>1, <2>6, <3>1, <4>1
    <3>5. Len(c) = Len(b)
      BY <1>1, <2>1, <3>2, <3>3, <3>4
    <3>6. \A i \in 1 .. Len(b) : b[i] = c[i]
      <4> SUFFICES ASSUME NEW i \in 1 .. Len(b) PROVE b[i] = c[i]
        OBVIOUS
      <4>1. 3 + i \in 1 .. Len(u) /\ i \in 1 .. Len(c)
        BY <1>1, <2>1, <3>5
      <4> QED
        BY <1>1, <2>6, <3>1, <4>1
    <3> QED
      BY <1>1, <2>1, <3>5, <3>6, SeqEqual
  <2>8. ASSUME b = c PROVE IsPrefix(u \o <<"/">>, t)
    <3>1. u = v
      BY <2>8 DEF u, v
    <3>2. Len(u) + 1 <= Len(t) /\ Len(u) + 1 = 4 + Len(b)
      BY <1>1, <2>1, <2>2, <2>8
    <3>3. \A i \in 1 .. Len(u) : t[i] = u[i]
      BY <1>1, <2>2, <2>8, <3>1
    <3> QED
      BY <2>2, <2>5, <3>2, <3>3
  <2>9. IsPrefix(w, p) <=> b = c
    <3> HIDE DEF w
    <3>1. Len(w) <= Len(p) /\ 1 .. Len(w) = {1, 2}
      BY <1>2, <2>3
    <3>2. IsPrefix(w, p) <=> Len(w) <= Len(p) /\ \A i \in 1 .. Len(w) : w[i] = p[i]
      BY <1>2, <2>3, PathPrefix DEF S
    <3>3. (\A i \in 1 .. Len(w) : w[i] = p[i]) <=> w[1] = p[1] /\ w[2] = p[2]
      BY <3>1
    <3>4. IsPrefix(w, p) <=> w[1] = p[1] /\ w[2] = p[2]
      BY <3>1, <3>2, <3>3, Zenon
    <3>5. w[1] = p[1] /\ w[2] = c /\ p[2] = b
      BY <1>2, <2>3
    <3> HIDE DEF w
    <3> QED
      BY <3>4, <3>5
  <2> QED
    BY <1>3, <2>3, <2>4, <2>7, <2>8, <2>9 DEF t
<1> QED
  BY <1>4, <1>5, <1>6, PlacesAre

(* A directory is in a worktree exactly when its names begin with those of *)
(* the worktree.                                                           *)
LEMMA InsideIs ==
    ASSUME NEW w \in Roots, NEW p \in Places
    PROVE  Inside(p, w) <=> IsPrefix(w, p)
<1>1. CASE w = Project
  BY <1>1, ProjectInside
<1>2. ASSUME NEW c \in Branches, w = TreePath(c) PROVE Inside(p, w) <=> IsPrefix(w, p)
  <2>1. Inside(p, TreePath(c)) <=> IsPrefix(TreePath(c), p)
    BY TreeInside
  <2> QED
    BY <1>2, <2>1
<1> QED
  BY <1>1, <1>2, RootsAre

(* Every text has a length.                                                *)
LEMMA TextLength ==
    ASSUME NEW p \in Places
    PROVE  Text[p] \in Seq(Letters) /\ Len(Text[p]) \in Nat
<1>1. Text[Project] \in Seq(Letters) /\ Text[Elsewhere] \in Seq(Letters)
  BY TextsAre DEF Letters
<1>2. ASSUME NEW b \in Branches PROVE Text[TreePath(b)] \in Seq(Letters) /\ Text[FilePath(b)] \in Seq(Letters)
  BY TreeText, FileText
<1>3. Text[p] \in Seq(Letters)
  BY <1>1, <1>2, PlacesAre
<1> QED
  BY <1>3

(* The longest of some worktrees, where their lengths are bounded, is one  *)
(* of them.                                                                *)
LEMMA LongestIn ==
    ASSUME NEW S \in SUBSET Roots, S # {}, NEW n \in Nat, \A w \in S : Len(Text[w]) <= n
    PROVE  Longest(S) \in S /\ \A v \in S : Len(Text[v]) <= Len(Text[Longest(S)])
<1> DEFINE D == {n - Len(Text[w]) : w \in S}
<1>1. \A w \in S : Len(Text[w]) \in Nat
  BY TextLength, RootsAre
<1>2. D \in SUBSET Nat /\ D # {}
  BY <1>1
<1>3. PICK d \in D : \A e \in D : d <= e
  BY <1>2, LeastNatural, Zenon
<1>4. PICK w \in S : d = n - Len(Text[w])
  BY <1>3
<1>5. \A v \in S : Len(Text[v]) <= Len(Text[w])
  <2> SUFFICES ASSUME NEW v \in S PROVE Len(Text[v]) <= Len(Text[w])
    OBVIOUS
  <2>1. d <= n - Len(Text[v])
    BY <1>3
  <2> QED
    BY <1>1, <1>4, <2>1
<1> HIDE DEF D
<1> QED
  BY <1>4, <1>5 DEF Longest

(* No two worktrees hold the same directory.                               *)
LEMMA HoldingOne ==
    ASSUME NEW p \in Places, NEW c \in Branches, NEW d \in Branches,
           IsPrefix(TreePath(c), p), IsPrefix(TreePath(d), p)
    PROVE  c = d
<1>1. p \in {TreePath(c), FilePath(c)} /\ p \in {TreePath(d), FilePath(d)}
  BY TreeInside, Zenon
<1>2. TreePath(c) # FilePath(d) /\ TreePath(d) # FilePath(c)
  BY TreesApart
<1>3. (TreePath(c) = TreePath(d) => c = d) /\ (FilePath(c) = FilePath(d) => c = d)
  BY TreesApart
<1> QED
  BY <1>1, <1>2, <1>3

(* The worktree that the code finds is the innermost of those that hold the*)
(* directory.                                                              *)
LEMMA DeepestIs ==
    ASSUME NEW p \in Places, NEW listed \in SUBSET Roots
    PROVE  LET holding == {w \in listed : IsPrefix(w, p)}
           IN /\ holding = {} => TreeOf(p, listed) = NoPath
              /\ holding # {} => /\ TreeOf(p, listed) \in holding /\ TreeOf(p, listed) # NoPath
                                 /\ \A w \in holding : IsPrefix(w, TreeOf(p, listed))
<1> DEFINE holding == {w \in listed : IsPrefix(w, p)}
           tree == TreeOf(p, listed)
<1>1. tree = Longest(holding)
  <2>1. {w \in listed : Inside(p, w)} = holding
    BY InsideIs
  <2> QED
    BY <2>1 DEF TreeOf
<1>2. holding = {} => tree = NoPath
  BY <1>1 DEF Longest
<1>3. ASSUME holding # {}
      PROVE  tree \in holding /\ tree # NoPath /\ \A w \in holding : IsPrefix(w, tree)
  <2>1. holding \in SUBSET Roots /\ \A w \in holding : IsPrefix(w, p)
    OBVIOUS
  <2> HIDE DEF holding, tree
  <2>2. Len(Text[Project]) = 2
    BY TextsAre
  <2>3. PICK n \in Nat : \A w \in holding : Len(Text[w]) <= n
    <3>1. CASE \E c \in Branches : TreePath(c) \in holding
      <4>1. PICK c \in Branches : TreePath(c) \in holding
        BY <3>1
      <4>2. Len(Text[TreePath(c)]) = 3 + Len(c) /\ Len(c) \in Nat
        BY TreeText
      <4>3. \A w \in holding : w = Project \/ w = TreePath(c)
        BY <2>1, <4>1, HoldingOne, RootsAre
      <4> QED
        BY <2>2, <4>2, <4>3
    <3>2. CASE \A c \in Branches : TreePath(c) \notin holding
      <4>1. \A w \in holding : w = Project
        BY <2>1, <3>2, RootsAre
      <4> QED
        BY <2>2, <4>1
    <3> QED
      BY <3>1, <3>2
  <2>4. tree \in holding /\ \A v \in holding : Len(Text[v]) <= Len(Text[tree])
    BY <1>1, <1>3, <2>1, <2>3, LongestIn, Zenon
  <2>5. tree # NoPath /\ tree \in Places
    BY <2>1, <2>4, RootsAre
  <2>6. ASSUME NEW w \in holding PROVE IsPrefix(w, tree)
    <3>1. CASE w = Project
      <4>1. tree # Elsewhere
        BY <2>1, <2>4, RootsAre, PathsApart
      <4> QED
        BY <2>5, <3>1, <4>1, ProjectInside
    <3>2. ASSUME NEW c \in Branches, w = TreePath(c) PROVE IsPrefix(w, tree)
      <4>1. Len(Text[w]) = 3 + Len(c) /\ Len(c) \in Nat
        BY <3>2, TreeText
      <4>2. tree # Project
        <5>1. Len(Text[w]) <= Len(Text[tree])
          BY <2>4, <2>6
        <5> QED
          BY <2>2, <4>1, <5>1
      <4>3. PICK d \in Branches : tree = TreePath(d)
        BY <2>1, <2>4, <4>2, RootsAre
      <4>4. c = d
        BY <2>1, <2>4, <2>6, <3>2, <4>3, HoldingOne
      <4>5. IsPrefix(TreePath(c), TreePath(c))
        BY <2>5, <4>3, <4>4, TreeInside
      <4> QED
        BY <3>2, <4>3, <4>4, <4>5
    <3> QED
      BY <2>1, <3>1, <3>2, RootsAre
  <2> QED
    BY <2>4, <2>5, <2>6
<1> QED
  BY <1>2, <1>3

(* It is one of those listed.                                              *)
LEMMA TreeOfType ==
    ASSUME NEW p \in Places, NEW listed \in SUBSET Roots
    PROVE  TreeOf(p, listed) \in Roots \cup {NoPath}
BY DeepestIs

(* What is guessed from the paths of a tool call or of an output is a worktree of the list.  *)
LEMMA MostNamedType ==
    ASSUME NEW p \in Places, NEW q \in Places, NEW listed \in SUBSET Roots
    PROVE  MostNamed(<<p, q, q>>, listed) \in Roots \cup {NoPath}
<1> DEFINE paths == <<p, q, q>>
           votes == [w \in listed |-> {i \in DOMAIN paths : TreeOf(paths[i], listed) = w}]
           most == {w \in listed : /\ votes[w] # {}
                                   /\ \A v \in listed : Cardinality(votes[v]) <= Cardinality(votes[w])}
           A == TreeOf(p, listed)
           B == TreeOf(q, listed)
           Size(w) == IF w \in Roots THEN Len(Text[w]) ELSE 0
<1>1. MostNamed(paths, listed) = Longest(most)
  BY DEF MostNamed
<1>2. \A i \in DOMAIN paths : paths[i] = p \/ paths[i] = q
  OBVIOUS
<1>3. most \in SUBSET Roots /\ \A w \in most : w = A \/ w = B
  <2>1. \A w \in most : w \in listed /\ \E i \in DOMAIN paths : TreeOf(paths[i], listed) = w
    OBVIOUS
  <2> HIDE DEF paths, most
  <2> QED
    BY <1>2, <2>1
<1> HIDE DEF most, A, B, paths
<1>4. Size(A) \in Nat /\ Size(B) \in Nat
  BY TextLength, RootsAre
<1>5. \A w \in most : Len(Text[w]) <= Size(A) + Size(B)
  <2> SUFFICES ASSUME NEW w \in most PROVE Len(Text[w]) <= Size(A) + Size(B)
    OBVIOUS
  <2>1. (w = A \/ w = B) /\ w \in Roots
    BY <1>3
  <2>2. Len(Text[w]) = Size(A) \/ Len(Text[w]) = Size(B)
    BY <2>1
  <2> HIDE DEF Size
  <2> QED
    BY <1>4, <2>2
<1>6. Size(A) + Size(B) \in Nat
  <2> HIDE DEF Size
  <2> QED
    BY <1>4
<1>7. most # {} => Longest(most) \in most
  <2> HIDE DEF Size
  <2> QED
    BY <1>3, <1>5, <1>6, LongestIn, Zenon
<1>8. most = {} => Longest(most) = NoPath
  BY DEF Longest
<1> QED
  BY <1>1, <1>3, <1>7, <1>8 DEF paths

(* The same of an output.                                                  *)
LEMMA LastNamedType ==
    ASSUME NEW p \in Places, NEW q \in Places, NEW listed \in SUBSET Roots
    PROVE  LastNamed(<<p, q>>, listed) \in Roots \cup {NoPath}
<1> DEFINE output == <<p, q>>
           At(w) == {i \in DOMAIN output : IsPrefix(Text[w], Text[output[i]])}
           named == {w \in listed : At(w) # {}}
           last == {w \in named : \A v \in named : \A i \in At(v) : \E j \in At(w) : i <= j}
           n == Len(Text[p]) + Len(Text[q])
<1>1. LastNamed(output, listed) = Longest(last)
  BY DEF LastNamed
<1>2. \A i \in DOMAIN output : output[i] = p \/ output[i] = q
  OBVIOUS
<1>3. Len(Text[p]) \in Nat /\ Len(Text[q]) \in Nat /\ n \in Nat
  <2> DEFINE a == Len(Text[p])
             b == Len(Text[q])
  <2>1. a \in Nat /\ b \in Nat
    BY TextLength, Zenon
  <2> HIDE DEF a, b
  <2>2. a + b \in Nat
    BY <2>1
  <2> QED
    BY <2>1, <2>2 DEF a, b
<1>4. last \in SUBSET Roots /\ \A w \in last : \E x \in {p, q} : IsPrefix(Text[w], Text[x])
  <2>1. \A w \in last : w \in listed /\ \E i \in DOMAIN output : IsPrefix(Text[w], Text[output[i]])
    OBVIOUS
  <2> HIDE DEF output, last
  <2> QED
    BY <1>2, <2>1
<1> HIDE DEF last, output
<1>5. \A w \in last : Len(Text[w]) <= n
  <2> SUFFICES ASSUME NEW w \in last PROVE Len(Text[w]) <= n
    OBVIOUS
  <2>1. PICK x \in {p, q} : IsPrefix(Text[w], Text[x])
    BY <1>4
  <2>2. Len(Text[w]) \in Nat /\ Len(Text[x]) \in Nat /\ Len(Text[w]) <= Len(Text[x])
    BY <1>4, <2>1, TextLength, RootsAre DEF IsPrefix
  <2>3. Len(Text[x]) <= n
    <3>1. Len(Text[p]) <= n /\ Len(Text[q]) <= n
      <4> DEFINE a == Len(Text[p])
                 b == Len(Text[q])
      <4>1. a \in Nat /\ b \in Nat
        BY <1>3
      <4> HIDE DEF a, b
      <4>2. a <= a + b /\ b <= a + b
        BY <4>1
      <4> QED
        BY <4>2 DEF a, b
    <3> HIDE DEF n
    <3> QED
      BY <2>1, <3>1
  <2> HIDE DEF n
  <2> QED
    BY <1>3, <2>2, <2>3
<1> HIDE DEF n
<1>6. last # {} => Longest(last) \in last
  BY <1>3, <1>4, <1>5, LongestIn, Zenon
<1>7. last = {} => Longest(last) = NoPath
  BY DEF Longest
<1> QED
  BY <1>1, <1>4, <1>6, <1>7 DEF output

(* A report moves the session to a worktree of the list or leaves it; the badge and the  *)
(* selection follow the innermost of the worktrees that hold the new directory.          *)
PlaceType == [cwd : Places \cup {NoPath}, selected : Places \cup {NoPath},
              badge : [action : Actions \cup {"none", "cd"},
                       path : TreePaths \cup {Project, NoPath}]]

Deepest(now, next, paths) ==
    LET holding == {w \in paths : IsPrefix(w, next.cwd)} IN
    next.cwd # now.cwd =>
        IF holding = {}
        THEN next.badge = now.badge /\ next.selected = now.selected
        ELSE /\ next.badge.action = "cd" /\ next.badge.path = next.selected
             /\ next.selected \in holding
             /\ \A w \in holding : IsPrefix(w, next.selected)

LEMMA MovedDeepest ==
    ASSUME place \in PlaceType, NEW path \in Places \cup {NoPath}, NEW listed \in SUBSET Roots
    PROVE  Moved(path, listed) \in PlaceType /\ Deepest(place, Moved(path, listed), listed)
<1> DEFINE tree == TreeOf(path, listed)
           moved == Moved(path, listed)
           holding == {w \in listed : IsPrefix(w, path)}
<1>1. CASE path \in {NoPath, place.cwd}
  <2>1. moved = place
    BY <1>1 DEF Moved
  <2> QED
    BY <2>1 DEF Deepest
<1>2. CASE path \notin {NoPath, place.cwd} /\ tree = NoPath
  <2>1. moved = [place EXCEPT !.cwd = path] /\ path \in Places
    BY <1>2 DEF Moved
  <2>2. /\ moved \in PlaceType /\ moved.cwd = path
        /\ moved.badge = place.badge /\ moved.selected = place.selected
    BY <2>1 DEF PlaceType
  <2>3. holding = {}
    BY <1>2, <2>1, DeepestIs
  <2> HIDE DEF moved
  <2>5. {w \in listed : IsPrefix(w, moved.cwd)} = holding
    BY <2>2
  <2> HIDE DEF holding
  <2>6. Deepest(place, moved, listed)
    BY <2>2, <2>3, <2>5 DEF Deepest
  <2> QED
    BY <2>2, <2>6 DEF moved
<1>3. CASE path \notin {NoPath, place.cwd} /\ tree # NoPath
  <2>1. /\ moved = [cwd |-> path, selected |-> tree, badge |-> [action |-> "cd", path |-> tree]]
        /\ path \in Places
    BY <1>3 DEF Moved
  <2>2. tree \in Roots /\ tree \in Places
    BY <1>3, <2>1, TreeOfType, RootsAre
  <2>3. holding # {} /\ tree \in holding /\ \A w \in holding : IsPrefix(w, tree)
    BY <1>3, <2>1, DeepestIs
  <2> HIDE DEF tree
  <2>4. /\ moved \in PlaceType /\ moved.cwd = path /\ moved.selected = tree
        /\ moved.badge.action = "cd" /\ moved.badge.path = tree
    BY <2>1, <2>2 DEF PlaceType, Roots
  <2> HIDE DEF moved
  <2>5. {w \in listed : IsPrefix(w, moved.cwd)} = holding
    BY <2>4
  <2> HIDE DEF holding
  <2>6. Deepest(place, moved, listed)
    BY <2>3, <2>4, <2>5 DEF Deepest
  <2> QED
    BY <2>4, <2>6 DEF moved
<1> QED
  BY <1>1, <1>2, <1>3

(* A call other than list, detach and init names a branch.                               *)
CallNames == treeCall.action \notin {"list", "detach", "init"} => treeCall.branch \in Branches
TreeInv == TreeTypeOK /\ CallNames

LEMMA InitTreeInv == TreeInit => TreeInv
BY WorktreesAssumption, RootsAre
   DEF TreeInit, TreeInv, TreeTypeOK, CallNames, Expired, NoBadge, NoCall, NoCommand, Commands,
       Lists, Actions, ReadOnly

(* What the cache or git answers.                                          *)
LEMMA ListingsType ==
    ASSUME TreeInv, NEW listed \in Listings(listCache) \cup Listings(Expired)
    PROVE  listed \in Lists
<1>1. OnDisk \in Lists /\ {} \in Lists
  BY DEF OnDisk, Lists, TreePaths, TreeInv, TreeTypeOK
<1>2. listCache.paths \in Lists
  BY DEF TreeInv, TreeTypeOK
<1> QED
  BY <1>1, <1>2 DEF Listings, Expired

(* A report that is followed.                                              *)
LEMMA TracksType ==
    ASSUME TreeInv, NEW cache \in {listCache, Expired}, NEW guess,
           \A listed \in Lists : guess[listed] \in Places \cup {NoPath},
           Tracks(cache, guess)
    PROVE  /\ listCache' \in [live : BOOLEAN, paths : Lists] /\ place' \in PlaceType
           /\ Deepest(place, place', listCache'.paths)
<1>1. PICK listed \in Listings(cache) :
          /\ listCache' = [live |-> TRUE, paths |-> listed]
          /\ place' = Moved(guess[listed], listed)
  BY DEF Tracks
<1>2. listed \in Lists
  BY ListingsType
<1>3. listed \in SUBSET Roots /\ guess[listed] \in Places \cup {NoPath}
  BY <1>2, RootsAre
<1>4. place \in PlaceType
  BY DEF TreeInv, TreeTypeOK, PlaceType
<1>5. place' \in PlaceType /\ Deepest(place, place', listed)
  BY <1>1, <1>3, <1>4, MovedDeepest
<1> QED
  BY <1>1, <1>2, <1>5

DeepestStep == seat' = seat => Deepest(place, place', listCache'.paths)

(* A step that leaves the directory alone.                                 *)
LEMMA StandsStill ==
    ASSUME place'.cwd = place.cwd PROVE DeepestStep
BY DEF DeepestStep, Deepest

(* The state but for the bound, and what a step that leaves a part alone keeps.          *)
LEMMA CountedStays ==
    ASSUME TreeInv, Counted \/ UNCHANGED treeOps PROVE treeOps' \in 0 .. MaxTreeOps
BY WorktreesAssumption DEF TreeInv, TreeTypeOK, Counted

LEMMA PlaceTyped == TreeInv => place \in PlaceType
BY DEF TreeInv, TreeTypeOK, PlaceType

(* The steps, one lemma for each part of them.                             *)
LEMMA ReportSteps ==
    ASSUME TreeInv, CommandStarts \/ ToolNamesPaths \/ OutputNamesPaths
    PROVE  TreeInv' /\ DeepestStep
<1> DEFINE ListType == [live : BOOLEAN, paths : Lists]
           Moves == /\ listCache' \in ListType /\ place' \in PlaceType
                    /\ Deepest(place, place', listCache'.paths)
<1>1. ASSUME CommandStarts PROVE Moves /\ command' \in Commands
  <2>1. PICK target \in CdTargets :
            LET cache == IF command' = NoCommand THEN listCache ELSE Expired IN
            IF target \in {NoPath, place.cwd} THEN listCache' = cache /\ place' = place
            ELSE Tracks(cache, [listed \in Lists |-> target])
    BY <1>1 DEF CommandStarts
  <2>2. CASE target \in {NoPath, place.cwd}
    <3>1. listCache' \in {listCache, Expired} /\ place' = place
      BY <2>1, <2>2
    <3>2. listCache' \in ListType
      <4>1. Expired \in ListType
        BY DEF Expired, Lists
      <4> QED
        BY <3>1, <4>1 DEF TreeInv, TreeTypeOK
    <3> QED
      BY <1>1, <3>1, <3>2, PlaceTyped DEF Deepest, CommandStarts
  <2>3. CASE target \notin {NoPath, place.cwd}
    <3> DEFINE guess == [listed \in Lists |-> target]
    <3>1. \E cache \in {listCache, Expired} : Tracks(cache, guess)
      BY <2>1, <2>3
    <3>2. \A listed \in Lists : guess[listed] \in Places \cup {NoPath}
      BY DEF CdTargets
    <3> HIDE DEF guess
    <3>3. Moves
      BY <3>1, <3>2, TracksType
    <3> QED
      BY <1>1, <3>3 DEF CommandStarts
  <2> QED
    BY <2>2, <2>3
<1>2. ASSUME ToolNamesPaths PROVE Moves
  <2>1. PICK p \in Places, q \in Places :
            Tracks(listCache, [listed \in Lists |-> MostNamed(<<p, q, q>>, listed)])
    BY <1>2 DEF ToolNamesPaths
  <2> DEFINE guess == [listed \in Lists |-> MostNamed(<<p, q, q>>, listed)]
  <2>2. \A listed \in Lists : guess[listed] \in Places \cup {NoPath}
    BY MostNamedType, RootsAre
  <2>3. Tracks(listCache, guess)
    BY <2>1
  <2> HIDE DEF guess
  <2> QED
    BY <2>2, <2>3, TracksType
<1>3. ASSUME OutputNamesPaths PROVE Moves
  <2>1. PICK p \in Places, q \in Places :
            Tracks(listCache, [listed \in Lists |-> LastNamed(<<p, q>>, listed)])
    BY <1>3 DEF OutputNamesPaths
  <2> DEFINE guess == [listed \in Lists |-> LastNamed(<<p, q>>, listed)]
  <2>2. \A listed \in Lists : guess[listed] \in Places \cup {NoPath}
    BY LastNamedType, RootsAre
  <2>3. Tracks(listCache, guess)
    BY <2>1
  <2> HIDE DEF guess
  <2> QED
    BY <2>2, <2>3, TracksType
<1>4. Moves /\ command' \in Commands
  BY <1>1, <1>2, <1>3 DEF ToolNamesPaths, OutputNamesPaths, TreeInv, TreeTypeOK
<1>5. UNCHANGED <<trees, seat, toolRule, treeCall>> /\ Counted
  BY DEF CommandStarts, ToolNamesPaths, OutputNamesPaths, Follows
<1>6. treeOps' \in 0 .. MaxTreeOps
  BY <1>5, CountedStays
<1> QED
  BY <1>4, <1>5, <1>6 DEF TreeInv, TreeTypeOK, CallNames, PlaceType, DeepestStep

LEMMA CommandSteps ==
    ASSUME TreeInv, BashStarts \/ CommandRuns \/ ListingExpires
    PROVE  TreeInv' /\ DeepestStep
<1>1. treeOps' \in 0 .. MaxTreeOps
  BY CountedStays DEF BashStarts, Follows, CommandRuns, ListingExpires
<1>2. UNCHANGED <<place, seat, toolRule, treeCall>>
  BY DEF BashStarts, CommandRuns, ListingExpires
<1>3. Expired \in [live : BOOLEAN, paths : Lists] /\ NoCommand \in Commands
  BY DEF Expired, Lists, Commands
<1>4. /\ trees' \subseteq Branches /\ listCache' \in [live : BOOLEAN, paths : Lists]
      /\ command' \in Commands
  <2>1. CASE BashStarts
    BY <1>3, <2>1 DEF BashStarts, TreeInv, TreeTypeOK
  <2>2. CASE CommandRuns
    <3>1. command.branch \in Branches
      BY <2>2 DEF CommandRuns, TreeInv, TreeTypeOK, Commands
    <3> QED
      BY <1>3, <2>2, <3>1 DEF CommandRuns, TreeInv, TreeTypeOK
  <2>3. CASE ListingExpires
    BY <1>3, <2>3 DEF ListingExpires, TreeInv, TreeTypeOK
  <2> QED
    BY <2>1, <2>2, <2>3
<1> QED
  BY <1>1, <1>2, <1>4, StandsStill DEF TreeInv, TreeTypeOK, CallNames

CallType ==
    [pc : {"no", "asking", "allow", "deny", "running", "result"}, by : {"llm", "agent"},
     action : Actions, branch : Branches \cup {<<>>}, ok : BOOLEAN]
SeatType ==
    [status : {"active", "paused", "ended"}, busy : BOOLEAN,
     agent : {"none", "claude_code", "codex", "opencode", "acp"}, token : BOOLEAN]

LEMMA CallsType ==
    ASSUME TreeInv, NEW by \in {"llm", "agent"}, Calls(by)
    PROVE  treeCall' \in CallType /\ CallNames' /\ seat' \in SeatType
<1>1. PICK action \in Actions, b \in Branches \cup {<<>>} :
          /\ action \notin {"list", "detach", "init"} => b \in Branches
          /\ treeCall' = IF Gate(action) = "no" THEN NoCall
                         ELSE [pc |-> Gate(action), by |-> by, action |-> action, branch |-> b,
                               ok |-> FALSE]
  BY DEF Calls
<1>2. Gate(action) \in {"running", "no", "asking"}
  BY DEF Gate
<1>3. NoCall \in CallType /\ NoCall.action = "list"
  BY DEF NoCall, CallType, Actions, ReadOnly
<1>4. treeCall' \in CallType /\ CallNames'
  <2>1. CASE Gate(action) = "no"
    BY <1>1, <1>3, <2>1 DEF CallNames
  <2>2. CASE Gate(action) # "no"
    BY <1>1, <1>2, <2>2 DEF CallNames, CallType
  <2> QED
    BY <2>1, <2>2
<1>5. PICK z \in BOOLEAN : seat' = [seat EXCEPT !.busy = z]
  <2>1. seat.busy \in BOOLEAN /\ seat \in SeatType
    BY DEF TreeInv, TreeTypeOK, SeatType
  <2> DEFINE z == \/ seat.busy \/ treeCall'.pc = "asking"
                  \/ by = "llm" /\ treeCall' # NoCall
  <2>2. seat' = [seat EXCEPT !.busy = z]
    BY DEF Calls
  <2>3. z \in BOOLEAN
    BY <2>1
  <2> HIDE DEF z
  <2> QED
    BY <2>2, <2>3
<1>6. seat' \in SeatType
  BY <1>5 DEF SeatType, TreeInv, TreeTypeOK
<1> QED
  BY <1>4, <1>6

LEMMA CallSteps ==
    ASSUME TreeInv, LlmCalls \/ AgentCalls \/ Answered \/ Woken
    PROVE  TreeInv' /\ DeepestStep
<1>1. treeOps' \in 0 .. MaxTreeOps
  BY CountedStays DEF LlmCalls, AgentCalls, Calls, Answered, Woken
<1>2. UNCHANGED <<trees, listCache, place, command>>
  BY DEF LlmCalls, AgentCalls, Calls, Answered, Woken
<1>3. seat \in SeatType /\ treeCall \in CallType /\ CallNames /\ toolRule \in {"none", "allow", "deny"}
  BY DEF TreeInv, TreeTypeOK, SeatType, CallType
<1>4. /\ treeCall' \in CallType /\ CallNames' /\ seat' \in SeatType
      /\ toolRule' \in {"none", "allow", "deny"}
  <2>1. CASE LlmCalls \/ AgentCalls
    <3>1. \E by \in {"llm", "agent"} : Calls(by)
      BY <2>1 DEF LlmCalls, AgentCalls
    <3> QED
      BY <1>3, <3>1, CallsType DEF Calls
  <2>2. CASE Answered
    <3>1. PICK word \in {"allow", "deny"} :
              treeCall' = [treeCall EXCEPT !.pc = word] /\ toolRule' \in {toolRule, word}
      BY <2>2 DEF Answered
    <3>2. seat' = seat
      BY <2>2 DEF Answered
    <3>3. treeCall' \in CallType /\ CallNames'
      BY <1>3, <3>1 DEF CallType, CallNames
    <3> QED
      BY <1>3, <3>1, <3>2, <3>3
  <2>3. CASE Woken
    <3>1. NoCall \in CallType /\ NoCall.action = "list"
      BY DEF NoCall, CallType, Actions, ReadOnly
    <3>2. treeCall' \in CallType /\ CallNames'
      <4>1. treeCall' = [treeCall EXCEPT !.pc = "running"] \/ treeCall' = NoCall
        BY <2>3 DEF Woken
      <4>2. CASE treeCall' = [treeCall EXCEPT !.pc = "running"]
        BY <1>3, <4>2 DEF CallType, CallNames
      <4>3. CASE treeCall' = NoCall
        BY <3>1, <4>3 DEF CallNames
      <4> QED
        BY <4>1, <4>2, <4>3
    <3>3. seat' \in SeatType
      <4> DEFINE z == (treeCall.pc = "allow" \/ treeCall.by = "agent")
      <4>1. seat' = [seat EXCEPT !.busy = z] /\ z \in BOOLEAN
        BY <2>3 DEF Woken
      <4> HIDE DEF z
      <4> QED
        BY <1>3, <4>1 DEF SeatType
    <3> QED
      BY <1>3, <2>3, <3>2, <3>3 DEF Woken
  <2> QED
    BY <2>1, <2>2, <2>3
<1> QED
  BY <1>1, <1>2, <1>4, StandsStill DEF TreeInv, TreeTypeOK, CallType, SeatType

LEMMA ExecuteSteps ==
    ASSUME TreeInv, Executes \/ Returns
    PROVE  TreeInv' /\ DeepestStep
<1>1. treeOps' \in 0 .. MaxTreeOps
  BY CountedStays DEF Executes, Returns
<1>2. UNCHANGED <<listCache, toolRule, command>>
  BY DEF Executes, Returns
<1>3. seat \in SeatType /\ treeCall \in CallType /\ CallNames /\ place \in PlaceType
  BY DEF TreeInv, TreeTypeOK, SeatType, CallType, PlaceType
<1>4. CASE Executes
  <2>1. trees' \subseteq Branches
    <3>1. treeCall.action \in {"new", "merge", "rm", "attach", "get"} => treeCall.branch \in Branches
      BY <1>3 DEF CallNames
    <3>2. \A s \in Outcomes(treeCall.action, treeCall.branch) : s \subseteq Branches
      BY <3>1 DEF Outcomes, TreeInv, TreeTypeOK
    <3> QED
      BY <1>4, <3>2 DEF Executes, TreeInv, TreeTypeOK
  <2>2. treeCall' \in CallType /\ CallNames'
    <3>1. \/ treeCall' = [treeCall EXCEPT !.pc = "result", !.ok = TRUE]
          \/ treeCall' = [treeCall EXCEPT !.pc = "result"]
      BY <1>4 DEF Executes
    <3> QED
      BY <1>3, <3>1 DEF CallType, CallNames
  <2>3. UNCHANGED <<place, seat>>
    BY <1>4 DEF Executes
  <2> QED
    BY <1>1, <1>2, <2>1, <2>2, <2>3, StandsStill DEF TreeInv, TreeTypeOK, CallType
<1>5. CASE Returns
  <2>1. place' = Noted /\ treeCall' = NoCall /\ trees' = trees
    BY <1>5 DEF Returns
  <2>2. seat' \in SeatType
    <3> DEFINE z == (seat.busy /\ treeCall.by = "agent")
    <3>1. seat' = [seat EXCEPT !.busy = z] /\ z \in BOOLEAN
      BY <1>3, <1>5 DEF Returns, SeatType
    <3> HIDE DEF z
    <3> QED
      BY <1>3, <3>1 DEF SeatType
  <2>3. treeCall' \in CallType /\ CallNames'
    BY <2>1 DEF NoCall, CallType, CallNames, Actions, ReadOnly
  <2>4. place' \in PlaceType /\ place'.cwd = place.cwd
    <3> DEFINE badge == [action |-> treeCall.action, path |-> NoPath]
               chosen == IF treeCall.ok THEN TreePath(treeCall.branch) ELSE place.selected
    <3>1. /\ badge \in [action : Actions \cup {"none", "cd"}, path : TreePaths \cup {Project, NoPath}]
      BY <1>3 DEF CallType
    <3>2. treeCall.action \in {"new", "attach"} => chosen \in Places \cup {NoPath}
      BY <1>3, PlacesAre DEF CallNames, PlaceType
    <3>3. \/ /\ treeCall.action \in {"new", "attach"}
             /\ place' = [place EXCEPT !.badge = badge, !.selected = chosen]
          \/ place' = [place EXCEPT !.badge = badge, !.selected = NoPath]
          \/ place' = [place EXCEPT !.badge = badge]
          \/ place' = place
      BY <2>1 DEF Noted
    <3> HIDE DEF badge, chosen
    <3> QED
      BY <1>3, <3>1, <3>2, <3>3 DEF PlaceType
  <2> QED
    BY <1>1, <1>2, <2>1, <2>2, <2>3, <2>4, StandsStill
       DEF TreeInv, TreeTypeOK, CallType, SeatType, PlaceType
<1> QED
  BY <1>4, <1>5

LEMMA ClientSteps ==
    ASSUME TreeInv, HttpCreates \/ HttpRemoves \/ ClientSelects \/ PromptSelects
    PROVE  TreeInv' /\ DeepestStep
<1>1. treeOps' \in 0 .. MaxTreeOps
  BY CountedStays DEF HttpCreates, HttpRemoves, ClientSelects, PromptSelects
<1>2. UNCHANGED <<listCache, seat, toolRule, treeCall, command>>
  BY DEF HttpCreates, HttpRemoves, ClientSelects, PromptSelects
<1>3. trees' \subseteq Branches
  BY DEF HttpCreates, HttpRemoves, ClientSelects, PromptSelects, TreeInv, TreeTypeOK
<1>4. place' \in PlaceType /\ place'.cwd = place.cwd
  <2>1. CASE HttpCreates \/ HttpRemoves
    BY <2>1, PlaceTyped DEF HttpCreates, HttpRemoves
  <2>2. CASE ClientSelects \/ PromptSelects
    <3>1. PICK path \in Places \cup {NoPath} : place' = [place EXCEPT !.selected = path]
      BY <2>2 DEF ClientSelects, PromptSelects, Places
    <3> QED
      BY <3>1, PlaceTyped DEF PlaceType
  <2> QED
    BY <2>1, <2>2
<1> QED
  BY <1>1, <1>2, <1>3, <1>4, StandsStill DEF TreeInv, TreeTypeOK, CallNames, PlaceType

LEMMA SessionSteps ==
    ASSUME TreeInv, AgentStarts \/ AgentTurnEnds \/ AgentPrompted \/ Resumes
    PROVE  TreeInv' /\ DeepestStep
<1>1. treeOps' \in 0 .. MaxTreeOps
  BY CountedStays DEF AgentStarts, AgentTurnEnds, AgentPrompted, Resumes
<1>2. UNCHANGED <<trees, listCache, toolRule, treeCall, command>>
  BY DEF AgentStarts, AgentTurnEnds, AgentPrompted, Resumes
<1>3. seat \in SeatType /\ place \in PlaceType
  BY PlaceTyped DEF TreeInv, TreeTypeOK, SeatType
<1>4. seat' \in SeatType /\ place' \in PlaceType /\ (place'.cwd = place.cwd \/ seat' # seat)
  <2>1. CASE AgentStarts
    <3>1. PICK a \in {"claude_code", "codex", "opencode", "acp"}, tok \in BOOLEAN,
               dir \in OnDisk \cup {Elsewhere} :
              /\ seat' = [seat EXCEPT !.agent = a, !.busy = TRUE,
                                     !.token = tok /\ a \in {"codex", "acp"}]
              /\ place' = [place EXCEPT !.cwd = dir]
      BY <2>1 DEF AgentStarts
    <3>2. dir \in Places
      BY <3>1, PlacesAre DEF OnDisk, TreeInv, TreeTypeOK
    <3>3. seat.agent = "none"
      BY <2>1 DEF AgentStarts
    <3> DEFINE z == (tok /\ a \in {"codex", "acp"})
    <3>4. seat' = [seat EXCEPT !.agent = a, !.busy = TRUE, !.token = z] /\ z \in BOOLEAN
      BY <3>1
    <3> HIDE DEF z
    <3>5. seat' \in SeatType /\ seat'.agent = a
      BY <1>3, <3>1, <3>4 DEF SeatType
    <3>6. place' \in PlaceType
      BY <1>3, <3>1, <3>2 DEF PlaceType
    <3> QED
      BY <3>1, <3>3, <3>5, <3>6
  <2>2. CASE AgentTurnEnds \/ AgentPrompted \/ Resumes
    <3>1. place' = place
      BY <2>2 DEF AgentTurnEnds, AgentPrompted, Resumes
    <3>2. \/ \E z \in BOOLEAN : seat' = [seat EXCEPT !.busy = z]
          \/ seat' = [seat EXCEPT !.status = "active"]
      BY <2>2 DEF AgentTurnEnds, AgentPrompted, Resumes
    <3> QED
      BY <1>3, <3>1, <3>2 DEF SeatType
  <2> QED
    BY <2>1, <2>2
<1> QED
  BY <1>1, <1>2, <1>4 DEF TreeInv, TreeTypeOK, CallNames, PlaceType, SeatType, DeepestStep, Deepest

LEMMA LifecycleSteps ==
    ASSUME TreeInv, Pauses \/ Interrupts \/ Cancels \/ Ends
    PROVE  TreeInv' /\ DeepestStep
<1>1. PICK kind \in {"pause", "interrupt", "cancel", "end"}, status \in {"active", "paused", "ended"} :
          Lifecycle(kind, status)
  BY DEF Pauses, Interrupts, Cancels, Ends
<1>2. treeOps' \in 0 .. MaxTreeOps
  BY <1>1, CountedStays DEF Lifecycle
<1>3. UNCHANGED <<trees, listCache, place, toolRule>> /\ command' = NoCommand
  BY <1>1 DEF Lifecycle
<1>4. treeCall \in CallType /\ CallNames
  BY DEF TreeInv, TreeTypeOK, CallType
<1>5. seat' \in SeatType
  BY <1>1 DEF Lifecycle, SeatType
<1>6. treeCall' \in CallType /\ CallNames'
  <2>1. \/ treeCall' = [treeCall EXCEPT !.pc = "deny"]
        \/ treeCall' \in {treeCall, NoCall}
    BY <1>1 DEF Lifecycle
  <2>2. NoCall \in CallType /\ NoCall.action = "list"
    BY DEF NoCall, CallType, Actions, ReadOnly
  <2>3. CASE treeCall' = [treeCall EXCEPT !.pc = "deny"]
    BY <1>4, <2>3 DEF CallType, CallNames
  <2>4. CASE treeCall' \in {treeCall, NoCall}
    BY <1>4, <2>2, <2>4 DEF CallNames
  <2> QED
    BY <2>1, <2>3, <2>4
<1>7. NoCommand \in Commands
  BY DEF Commands
<1> QED
  BY <1>2, <1>3, <1>5, <1>6, <1>7, StandsStill DEF TreeInv, TreeTypeOK, CallType, SeatType

LEMMA NextTreeInv == TreeInv /\ [TreeNext]_treeVars => TreeInv' /\ DeepestStep
<1> SUFFICES ASSUME TreeInv, [TreeNext]_treeVars PROVE TreeInv' /\ DeepestStep
  OBVIOUS
<1>1. CASE UNCHANGED treeVars
  BY <1>1, StandsStill DEF treeVars, TreeInv, TreeTypeOK, CallNames
<1>2. CASE TreeNext
  BY <1>2, ReportSteps, CommandSteps, CallSteps, ExecuteSteps, ClientSteps, SessionSteps,
     LifecycleSteps DEF TreeNext
<1> QED
  BY <1>1, <1>2

(* When what an agent does moves the session, the badge and the selection  *)
(* go to the innermost listed worktree that holds the new directory, and   *)
(* stay where they are when none does (apply_agent_cwd,                    *)
(* resolve_worktree_for_cwd).                                              *)
THEOREM BadgeFollows == TreeSpec => TrackedDeepest
<1> DEFINE Deep == LET holding == {w \in listCache'.paths : IsPrefix(w, place'.cwd)} IN
                   place'.cwd # place.cwd /\ seat' = seat =>
                       IF holding = {}
                       THEN place'.badge = place.badge /\ place'.selected = place.selected
                       ELSE /\ place'.badge.action = "cd" /\ place'.badge.path = place'.selected
                            /\ place'.selected \in holding
                            /\ \A w \in holding : IsPrefix(w, place'.selected)
<1>1. TreeInv /\ [TreeNext]_treeVars => TreeInv'
  BY NextTreeInv
<1>2. TreeInv /\ [TreeNext]_treeVars => Deep
  BY NextTreeInv DEF DeepestStep, Deepest
<1> QED
  BY <1>1, <1>2, InitTreeInv, PTL DEF TreeSpec, TrackedDeepest
=============================================================================
