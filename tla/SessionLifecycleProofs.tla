----------------------- MODULE SessionLifecycleProofs -----------------------
(***************************************************************************)
(* Proofs about SessionLifecycle, for any callers, prompts, disturbances   *)
(* and bounds: the types; a session that has ended stays ended; one stream *)
(* task at a time reads an agent; a session nothing works for is not busy; *)
(* the session keeps to SessionContract and is archived once it has ended. *)
(*                                                                         *)
(* The invariant adds to the types what the steps rely on: a stream task   *)
(* that has not begun has an executor, and a call that waits knows what it *)
(* is to do.                                                               *)
(***************************************************************************)
EXTENDS SessionLifecycle, SequenceTheorems, TLAPS

Statuses == Terminal \cup {"active", "paused"}
Session == [status : Statuses, saved : BOOLEAN, later : BOOLEAN, known : BOOLEAN,
            exec : Execs, task : Turns, busy : BOOLEAN, gate : {"none", "open", "set"},
            question : BOOLEAN, groups : Int, ended : Nat, fired : BOOLEAN]
TurnType == [pc : {"new", "relay", "asking", "more", "stopping", "ending", "exiting",
                   "lingering", "cut", "done"}, e : Execs, x : Execs]
CallType == [op : {"none", "cancel", "end", "pause", "interrupt", "resume"},
             pc : {"idle", "kill", "join", "drop", "finish"}, x : Execs, t : Turns, had : BOOLEAN]
PromptType == [pc : {"idle", "row", "join", "lock", "llm", "started"}, kind : {"sent", "drained"},
               x : Execs, t : Turns]

(* The stream tasks: one that has not begun has an executor.                *)
TurnsOK(tn) ==
    /\ tn \in Seq(TurnType) /\ Len(tn) <= MaxTurns
    /\ \A t \in DOMAIN tn : tn[t].pc = "new" => tn[t].e # 0
(* The calls: one that waits for an executor or a task is one of the four.  *)
Stopping == {"cancel", "end", "pause", "interrupt"}
CallOK(k) == k \in CallType /\ (k.pc \in {"kill", "join"} => k.op \in Stopping)
(* The prompts: one that waits for the last task has an executor to go to.  *)
PromptOK(k) == k \in PromptType /\ (k.pc = "join" => k.x # 0)
CallsOK(k) == k \in [Callers -> CallType] /\ \A c \in Callers : CallOK(k[c])
PromptsOK(k) == k \in [Prompters -> PromptType] /\ \A p \in Prompters : PromptOK(k[p])

IInv ==
    /\ ses \in Session /\ live \subseteq Execs \ {0} /\ TurnsOK(turn) /\ asker \in Execs
    /\ CallsOK(call) /\ PromptsOK(prompt) /\ made \in Execs

(* What a step of the session may make of s.                                *)
Keeps(s, r) == r \in Session /\ (s.status \in Terminal => r.status \in Terminal)
Good == IInv' /\ (ses.status \in Terminal => ses'.status \in Terminal)

-----------------------------------------------------------------------------
LEMMA TypeFromIInv == IInv => TypeOK
BY DEF IInv, TypeOK, Session, Statuses, TurnType, TurnsOK, CallType, CallsOK, PromptType, PromptsOK

LEMMA Bounds == 0 \in Execs /\ 0 \in Turns /\ NoCall \in CallType /\ NoPrompt \in PromptType
               /\ CallOK(NoCall) /\ PromptOK(NoPrompt)
BY LifecycleAssumption
   DEF Execs, Turns, NoCall, NoPrompt, CallType, PromptType, CallOK, PromptOK, Stopping

(* The steps of the session object.                                         *)
LEMMA SessionSteps ==
    ASSUME NEW s \in Session
    PROVE  /\ s.status # "paused" /\ s.status \notin Terminal => Keeps(s, Paused(s))
           /\ s.status \notin Terminal => Paused(s) \in Session /\ Resumed(s) \in Session
           /\ Keeps(s, Completed(s)) /\ Keeps(s, BeginWait(s)) /\ Keeps(s, EndWait(s))
           /\ Keeps(s, Opened(s)) /\ Keeps(s, Closed(s)) /\ Keeps(s, Ended(s))
           /\ Keeps(s, Freed(s)) /\ Keeps(s, Released(s))
<1>1. Paused(s) \in Session /\ Resumed(s) \in Session
  BY DEF Session, Statuses, Terminal, Paused, Resumed
<1>2. Keeps(s, Completed(s)) /\ Keeps(s, BeginWait(s)) /\ Keeps(s, EndWait(s))
  BY DEF Keeps, Session, Statuses, Terminal, Completed, BeginWait, EndWait
<1>3. Keeps(s, Opened(s)) /\ Keeps(s, Closed(s)) /\ Keeps(s, Ended(s))
  BY DEF Keeps, Session, Opened, Closed, Ended
<1>4. Keeps(s, Freed(s)) /\ Keeps(s, Released(s))
  BY Bounds DEF Keeps, Session, Freed, Released
<1> QED
  BY <1>1, <1>2, <1>3, <1>4 DEF Keeps

LEMMA KeepsTrans ==
    ASSUME NEW s, NEW r, NEW q, Keeps(s, r), Keeps(r, q)
    PROVE  Keeps(s, q)
BY DEF Keeps

LEMMA AgentEndedKeeps ==
    ASSUME NEW s \in Session
    PROVE  Keeps(s, AgentEnded(s))
<1> DEFINE r == Freed(s)
<1>1. Keeps(s, r) /\ r \in Session
  BY SessionSteps DEF Keeps
<1>2. Keeps(s, Completed(r))
  BY <1>1, SessionSteps, KeepsTrans
<1>3. Keeps(r, Ended(r)) /\ Ended(r) \in Session
  BY <1>1, SessionSteps DEF Keeps
<1>4. Keeps(Ended(r), Completed(Ended(r)))
  BY <1>3, SessionSteps
<1>5. Keeps(s, Completed(Ended(r)))
  BY <1>1, <1>3, <1>4, KeepsTrans
<1>6. \A q \in Session : Keeps(q, [q EXCEPT !.fired = TRUE])
  BY DEF Keeps, Session
<1>7. Keeps(s, [Completed(Ended(r)) EXCEPT !.fired = TRUE])
  BY <1>5, <1>6, KeepsTrans DEF Keeps
<1> QED
  BY <1>2, <1>7 DEF AgentEnded

LEMMA FinishedKeeps ==
    ASSUME NEW s \in Session, NEW op \in Stopping, NEW had \in BOOLEAN
    PROVE  Keeps(s, Finished(op, had, s))
<1> DEFINE r == IF had THEN Closed(s) ELSE s
<1>1. Keeps(s, r) /\ r \in Session
  BY SessionSteps DEF Keeps
<1>2. CASE op = "cancel"
  <2>1. Ended(Released(r)) \in Session
    BY <1>1, SessionSteps DEF Keeps
  <2> QED
    BY <1>2, <2>1 DEF Finished, Keeps, Session, Statuses, Terminal
<1>3. CASE op = "end"
  <2>1. Ended(r) \in Session
    BY <1>1, SessionSteps DEF Keeps
  <2> QED
    BY <1>3, <2>1 DEF Finished, Keeps, Session, Statuses, Terminal
<1>4. CASE op = "pause"
  BY <1>4, <1>1, SessionSteps, KeepsTrans DEF Finished
<1>5. CASE op = "interrupt"
  BY <1>5, <1>1 DEF Finished, Keeps, Session
<1> QED
  BY <1>2, <1>3, <1>4, <1>5 DEF Stopping

(* The sequence of stream tasks.                                            *)
LEMMA TurnFields ==
    ASSUME NEW tn, TurnsOK(tn), NEW t \in DOMAIN tn
    PROVE  tn[t] \in TurnType /\ tn[t].e \in Execs /\ tn[t].x \in Execs /\ t \in Turns
           /\ (tn[t].pc = "new" => tn[t].e # 0)
<1>1. tn \in Seq(TurnType) /\ Len(tn) <= MaxTurns /\ DOMAIN tn = 1 .. Len(tn) /\ Len(tn) \in Nat
  BY DEF TurnsOK
<1>2. tn[t] \in TurnType
  BY <1>1
<1>3. t \in Turns
  BY <1>1, LifecycleAssumption DEF Turns
<1> QED
  BY <1>2, <1>3 DEF TurnsOK, TurnType

LEMMA TurnsMapped ==
    ASSUME NEW tn, TurnsOK(tn), NEW to, DOMAIN to = DOMAIN tn, to = [t \in DOMAIN tn |-> to[t]],
           \A t \in DOMAIN tn : to[t] = tn[t] \/ (to[t] \in TurnType /\ to[t].pc # "new")
    PROVE  TurnsOK(to)
<1>1. tn \in Seq(TurnType) /\ Len(tn) <= MaxTurns /\ DOMAIN tn = 1 .. Len(tn) /\ Len(tn) \in Nat
  BY DEF TurnsOK
<1>2. \A t \in DOMAIN tn : to[t] \in TurnType /\ (to[t].pc = "new" => to[t].e # 0)
  BY <1>1 DEF TurnsOK
<1>3. to \in [1 .. Len(tn) -> TurnType]
  BY <1>1, <1>2
<1>4. to \in Seq(TurnType) /\ Len(to) = Len(tn)
  BY <1>1, <1>3
<1> QED
  BY <1>1, <1>2, <1>4 DEF TurnsOK

LEMMA TurnsChanged ==
    ASSUME NEW tn, TurnsOK(tn), NEW t \in DOMAIN tn, NEW r \in TurnType, r.pc # "new"
    PROVE  TurnsOK([tn EXCEPT ![t] = r])
<1> DEFINE to == [tn EXCEPT ![t] = r]
<1>1. DOMAIN to = DOMAIN tn /\ to = [u \in DOMAIN tn |-> to[u]]
  BY DEF TurnsOK
<1>2. \A u \in DOMAIN tn : to[u] = tn[u] \/ (to[u] \in TurnType /\ to[u].pc # "new")
  BY DEF TurnsOK
<1> HIDE DEF to
<1>3. TurnsOK(to)
  BY <1>1, <1>2, TurnsMapped
<1> QED
  BY <1>3 DEF to

LEMMA TurnSteps ==
    ASSUME TurnsOK(turn), NEW t \in DOMAIN turn
    PROVE  /\ TurnsOK(Gone(t))
           /\ \A x \in Execs, pc \in {"relay", "asking", "more", "stopping", "ending", "exiting",
                                      "lingering"} : TurnsOK(Moved(t, pc, x))
           /\ \A tn \in Cuts(t) : TurnsOK(tn)
<1>1. turn[t] \in TurnType
  BY TurnFields
<1>2. TurnsOK(Gone(t))
  <2>1. [pc |-> "done", e |-> 0, x |-> 0] \in TurnType
    BY Bounds DEF TurnType
  <2> QED
    BY <2>1, TurnsChanged DEF Gone
<1>3. ASSUME NEW x \in Execs, NEW pc \in {"relay", "asking", "more", "stopping", "ending", "exiting",
                                          "lingering"}
      PROVE  TurnsOK(Moved(t, pc, x))
  <2> DEFINE r == [turn[t] EXCEPT !.pc = pc, !.x = x]
  <2>1. r \in TurnType /\ r.pc # "new"
    BY <1>1 DEF TurnType
  <2>2. Moved(t, pc, x) = [turn EXCEPT ![t] = r]
    BY <1>1 DEF Moved, TurnsOK, TurnType
  <2> HIDE DEF r
  <2>3. TurnsOK([turn EXCEPT ![t] = r])
    BY <2>1, TurnsChanged
  <2> QED
    BY <2>2, <2>3
<1>4. \A tn \in Cuts(t) : TurnsOK(tn)
  <2>1. [turn[t] EXCEPT !.pc = "cut"] \in TurnType /\ [turn[t] EXCEPT !.pc = "cut"].pc # "new"
    BY <1>1 DEF TurnType
  <2>2. TurnsOK([turn EXCEPT ![t].pc = "cut"])
    BY <2>1, TurnsChanged
  <2> QED
    BY <2>2 DEF Cuts
<1> QED
  BY <1>2, <1>3, <1>4

LEMMA WokenOK ==
    ASSUME TurnsOK(turn), NEW released
    PROVE  TurnsOK(Woken(turn)) /\ TurnsOK(WokenIf(released, turn))
<1> DEFINE to == Woken(turn)
<1>1. DOMAIN to = DOMAIN turn /\ to = [t \in DOMAIN turn |-> to[t]]
  BY DEF Woken
<1>2. ASSUME NEW t \in DOMAIN turn
      PROVE  to[t] = turn[t] \/ (to[t] \in TurnType /\ to[t].pc # "new")
  BY TurnFields DEF Woken, TurnType
<1> HIDE DEF to
<1>3. TurnsOK(to)
  BY <1>1, <1>2, TurnsMapped
<1> QED
  BY <1>3 DEF to, WokenIf

(* A stream task for an executor is added.                                  *)
LEMMA TurnAdded ==
    ASSUME TurnsOK(turn), Len(turn) < MaxTurns, NEW x \in Execs \ {0}
    PROVE  /\ TurnsOK(Append(turn, [pc |-> "new", e |-> x, x |-> 0]))
           /\ Len(turn) + 1 \in Turns
<1> DEFINE r == [pc |-> "new", e |-> x, x |-> 0]
           to == Append(turn, r)
<1>1. r \in TurnType
  BY Bounds DEF TurnType
<1>2. turn \in Seq(TurnType) /\ Len(turn) \in Nat
  BY DEF TurnsOK
<1>3. to \in Seq(TurnType) /\ Len(to) = Len(turn) + 1
      /\ \A t \in 1 .. Len(turn) + 1 : to[t] = IF t <= Len(turn) THEN turn[t] ELSE r
  BY <1>1, <1>2
<1>4. \A t \in DOMAIN to : to[t].pc = "new" => to[t].e # 0
  <2> SUFFICES ASSUME NEW t \in DOMAIN to
               PROVE  to[t].pc = "new" => to[t].e # 0
    OBVIOUS
  <2>1. t \in 1 .. Len(turn) + 1
    BY <1>3
  <2>2. CASE t <= Len(turn)
    BY <2>1, <2>2, <1>2, <1>3 DEF TurnsOK
  <2>3. CASE ~ t <= Len(turn)
    BY <2>1, <2>3, <1>3
  <2> QED
    BY <2>2, <2>3
<1>5. Len(to) <= MaxTurns /\ Len(turn) + 1 \in Turns
  BY <1>2, <1>3, LifecycleAssumption DEF Turns
<1> QED
  BY <1>3, <1>4, <1>5 DEF TurnsOK

-----------------------------------------------------------------------------
LEMMA InitIInv == Init => IInv
<1> SUFFICES ASSUME Init PROVE IInv
  OBVIOUS
<1>1. PICK blank \in BOOLEAN :
         /\ ses = [status |-> "active", saved |-> FALSE, later |-> FALSE,
                   known |-> ~ blank, exec |-> IF blank THEN 0 ELSE 1,
                   task |-> IF blank THEN 0 ELSE 1, busy |-> ~ blank, gate |-> "none",
                   question |-> FALSE, groups |-> IF blank THEN 0 ELSE 1, ended |-> 0,
                   fired |-> FALSE]
         /\ turn = IF blank THEN << >> ELSE << [pc |-> "new", e |-> 1, x |-> 0] >>
         /\ made = IF blank THEN 0 ELSE 1
  BY DEF Init
<1>2. 0 \in Execs /\ 1 \in Execs /\ 0 \in Turns /\ 1 \in Turns
  BY LifecycleAssumption DEF Execs, Turns
<1>3. ses \in Session /\ made \in Execs
  BY <1>1, <1>2 DEF Session, Statuses
<1>4. TurnsOK(turn)
  <2>1. CASE blank
    <3>1. turn = << >>
      BY <1>1, <2>1
    <3> QED
      BY <3>1, LifecycleAssumption DEF TurnsOK
  <2>2. CASE ~ blank
    <3> DEFINE r == [pc |-> "new", e |-> 1, x |-> 0]
    <3>1. turn = << r >> /\ r \in TurnType
      BY <1>1, <1>2, <2>2 DEF TurnType
    <3>2. << r >> \in Seq(TurnType) /\ Len(<< r >>) = 1 /\ << r >>[1] = r
      BY <3>1
    <3>3. r.e # 0
      OBVIOUS
    <3> HIDE DEF r
    <3> QED
      BY <3>1, <3>2, <3>3, LifecycleAssumption DEF TurnsOK
  <2> QED
    BY <2>1, <2>2
<1>5. CallsOK(call) /\ PromptsOK(prompt) /\ live \subseteq Execs \ {0} /\ asker \in Execs
  BY Bounds DEF Init, CallsOK, PromptsOK
<1> QED
  BY <1>3, <1>4, <1>5 DEF IInv

(* The lifecycle calls.                                                     *)
LEMMA CallSet ==
    ASSUME CallsOK(call), NEW c \in Callers, NEW op \in Stopping \cup {"resume"},
           NEW pc \in {"idle", "kill", "join", "drop", "finish"}, NEW x \in Execs, NEW t \in Turns,
           NEW had \in BOOLEAN, pc \in {"kill", "join"} => op \in Stopping
    PROVE  CallsOK([call EXCEPT ![c] = At(op, pc, x, t, had)])
<1>1. CallOK(At(op, pc, x, t, had))
  BY Bounds DEF At, CallOK, CallType, Stopping
<1> HIDE DEF At
<1> QED
  BY <1>1 DEF CallsOK, CallOK

LEMMA CallReset ==
    ASSUME CallsOK(call), NEW c \in Callers
    PROVE  CallsOK([call EXCEPT ![c] = NoCall])
BY Bounds DEF CallsOK

LEMMA TornStep ==
    ASSUME IInv, NEW c \in Callers, NEW op \in Stopping, NEW had \in BOOLEAN,
           NEW s \in Session, Keeps(ses, s), Torn(c, op, had, s)
    PROVE  Keeps(ses, ses') /\ TurnsOK(turn') /\ CallsOK(call')
<1>0. s.task \in Turns
  BY DEF Session
<1>1. CASE Alive(s.task)
  <2>1. turn' \in Cuts(s.task) /\ ses' = s /\ s.task \in DOMAIN turn
        /\ call' = [call EXCEPT ![c] = At(op, "join", 0, s.task, had)]
    BY <1>1 DEF Torn, Alive
  <2>2. TurnsOK(turn')
    BY <2>1, TurnSteps DEF IInv
  <2>3. CallsOK(call')
    BY <2>1, <1>0, CallSet, Bounds DEF IInv
  <2> QED
    BY <2>1, <2>2, <2>3
<1>2. CASE ~ Alive(s.task)
  <2>1. /\ ses' = Finished(op, had, [s EXCEPT !.task = 0])
        /\ turn' = WokenIf(op \in {"cancel", "pause"}, turn)
        /\ call' = [call EXCEPT ![c] = At(op, After(op), 0, 0, had)]
    BY <1>2 DEF Torn
  <2>2. Keeps(s, [s EXCEPT !.task = 0])
    BY Bounds DEF Keeps, Session
  <2>3. Keeps([s EXCEPT !.task = 0], ses')
    BY <2>1, <2>2, FinishedKeeps DEF Keeps
  <2>4. Keeps(ses, ses')
    BY <2>2, <2>3, KeepsTrans
  <2>5. TurnsOK(turn')
    BY <2>1, WokenOK DEF IInv
  <2>6. After(op) \in {"idle", "drop"}
    BY DEF After
  <2>7. CallsOK(call')
    BY <2>1, <2>6, CallSet, Bounds DEF IInv
  <2> QED
    BY <2>4, <2>5, <2>7
<1> QED
  BY <1>1, <1>2

LEMMA CallStartStep ==
    ASSUME IInv, NEW c \in Callers, NEW op \in Stopping, CallStart(c, op)
    PROVE  Good
<1>1. Keeps(ses, Marked(op)) /\ ses \in Session /\ ses.exec \in Execs
  <2>1. ses \in Session /\ Keeps(ses, ses)
    BY DEF IInv, Keeps
  <2>2. op = "pause" => ses.status \notin Terminal /\ ses.status # "paused"
    BY DEF CallStart, Allowed, Terminal
  <2>3. op = "pause" => Keeps(ses, Paused(ses))
    BY <2>1, <2>2, SessionSteps
  <2> QED
    BY <2>1, <2>3 DEF Marked, Session
<1>2. UNCHANGED <<asker, prompt, made>> /\ live' \subseteq Execs \ {0}
  BY DEF CallStart, IInv
<1>3. PICK waits \in Waits(ses.exec) :
         IF waits
         THEN /\ ses' = Marked(op)
              /\ call' = [call EXCEPT ![c] = At(op, "kill", ses.exec, 0, TRUE)]
              /\ UNCHANGED turn
         ELSE Torn(c, op, ses.exec # 0, [Marked(op) EXCEPT !.exec = 0])
  BY DEF CallStart
<1>4. Keeps(ses, ses') /\ TurnsOK(turn') /\ CallsOK(call')
  <2>1. CASE waits
    <3>1. ses' = Marked(op) /\ turn' = turn
          /\ call' = [call EXCEPT ![c] = At(op, "kill", ses.exec, 0, TRUE)]
      BY <2>1, <1>3
    <3>2. CallsOK([call EXCEPT ![c] = At(op, "kill", ses.exec, 0, TRUE)])
      BY <1>1, CallSet, Bounds DEF IInv
    <3> QED
      BY <3>1, <3>2, <1>1 DEF IInv
  <2>2. CASE ~ waits
    <3> DEFINE s == [Marked(op) EXCEPT !.exec = 0]
    <3>1. s \in Session /\ Keeps(ses, s)
      BY <1>1, Bounds DEF Keeps, Session
    <3>2. Torn(c, op, ses.exec # 0, s)
      BY <2>2, <1>3
    <3> HIDE DEF s
    <3> QED
      BY <3>1, <3>2, TornStep
  <2> QED
    BY <2>1, <2>2
<1> QED
  BY <1>2, <1>4 DEF Good, IInv, Keeps

LEMMA CallKilledStep ==
    ASSUME IInv, NEW c \in Callers, CallKilled(c)
    PROVE  Good
<1>1. call[c].op \in Stopping /\ call[c].x \in Execs
  BY DEF CallKilled, IInv, CallsOK, CallOK, CallType
<1>2. asker' \in Execs /\ UNCHANGED <<live, prompt, made>>
  BY Bounds DEF CallKilled, Orphaned, IInv
<1> DEFINE s == [ses EXCEPT !.exec = 0]
<1>3. s \in Session /\ Keeps(ses, s)
  BY Bounds DEF IInv, Keeps, Session
<1>4. Torn(c, call[c].op, TRUE, s)
  BY DEF CallKilled
<1> HIDE DEF s
<1>5. Keeps(ses, ses') /\ TurnsOK(turn') /\ CallsOK(call')
  BY <1>1, <1>3, <1>4, TornStep
<1> QED
  BY <1>2, <1>5 DEF Good, IInv, Keeps

LEMMA CallJoinedStep ==
    ASSUME IInv, NEW c \in Callers, CallJoined(c)
    PROVE  Good
<1>1. call[c].op \in Stopping /\ call[c].had \in BOOLEAN
  BY DEF CallJoined, IInv, CallsOK, CallOK, CallType
<1> DEFINE s == [ses EXCEPT !.task = 0]
<1>2. s \in Session /\ Keeps(ses, s)
  BY Bounds DEF IInv, Keeps, Session
<1>3. ses' = Finished(call[c].op, call[c].had, s)
      /\ turn' = WokenIf(call[c].op \in {"cancel", "pause"}, turn)
      /\ call' = [call EXCEPT ![c] = At(call[c].op, After(call[c].op), 0, 0, TRUE)]
  BY DEF CallJoined
<1> HIDE DEF s
<1>4. Keeps(ses, ses')
  BY <1>1, <1>2, <1>3, FinishedKeeps, KeepsTrans
<1>5. TurnsOK(turn')
  BY <1>3, WokenOK DEF IInv
<1>6. CallsOK(call')
  <2>1. After(call[c].op) \in {"idle", "drop"}
    BY DEF After
  <2> QED
    BY <1>1, <1>3, <2>1, CallSet, Bounds DEF IInv
<1> QED
  BY <1>4, <1>5, <1>6 DEF CallJoined, Good, IInv, Keeps

LEMMA CallDroppedStep ==
    ASSUME IInv, NEW c \in Callers, CallDropped(c)
    PROVE  Good
<1>1. CallsOK(call')
  BY CallReset DEF CallDropped, IInv
<1>2. Keeps(ses, ses')
  BY DEF CallDropped, IInv, Keeps, Session
<1> QED
  BY <1>1, <1>2 DEF CallDropped, Good, IInv, Keeps

LEMMA ResumeStep ==
    ASSUME IInv, NEW c \in Callers, Resume(c)
    PROVE  Good
<1> DEFINE s == Resumed(Released(ses))
<1>1. s \in Session /\ ses.status \notin Terminal
  <2>1. Released(ses) \in Session /\ ses.status = "paused"
    BY SessionSteps DEF IInv, Keeps, Resume
  <2> QED
    BY <2>1 DEF Resumed, Session, Statuses, Terminal
<1>2. TurnsOK(turn') /\ UNCHANGED <<asker, prompt>>
  BY WokenOK DEF Resume, IInv
<1>3. CASE s.later
  <2> DEFINE r == [s EXCEPT !.later = FALSE]
  <2>1. r \in Session /\ s.exec \in Execs
    BY <1>1 DEF Session
  <2>2. live' = live \ {s.exec} /\ made' = made
    BY <1>3 DEF Resume
  <2>3. PICK waits \in Waits(s.exec) :
          IF waits
          THEN ses' = r /\ call' = [call EXCEPT ![c] = At("resume", "finish", s.exec, 0, TRUE)]
          ELSE ses' = AgentEnded(r) /\ UNCHANGED call
    BY <1>3 DEF Resume
  <2> HIDE DEF r, s
  <2>4. CASE waits
    <3>1. CallsOK([call EXCEPT ![c] = At("resume", "finish", s.exec, 0, TRUE)])
      BY <2>1, CallSet, Bounds DEF IInv, Stopping
    <3> QED
      BY <2>1, <2>2, <2>3, <2>4, <3>1, <1>1, <1>2 DEF Good, IInv
  <2>5. CASE ~ waits
    <3>1. ses' \in Session
      BY <2>1, <2>3, <2>5, AgentEndedKeeps DEF Keeps
    <3> QED
      BY <2>2, <2>3, <2>5, <3>1, <1>1, <1>2 DEF Good, IInv
  <2> QED
    BY <2>4, <2>5
<1>4. CASE ~ s.later
  <2>1. /\ Rebuilds(s) => made < MaxExecs
        /\ made' = IF Rebuilds(s) THEN made + 1 ELSE made
        /\ ses' = IF Rebuilds(s) THEN [s EXCEPT !.exec = made + 1] ELSE s
        /\ UNCHANGED <<live, call>>
    BY <1>4 DEF Resume
  <2>2. Rebuilds(s) => made + 1 \in Execs
    BY <2>1, LifecycleAssumption DEF IInv, Execs
  <2> HIDE DEF s
  <2>3. ses' \in Session /\ made' \in Execs
    BY <2>1, <2>2, <1>1 DEF Session, IInv
  <2> QED
    BY <2>1, <2>3, <1>1, <1>2 DEF Good, IInv
<1> QED
  BY <1>3, <1>4

LEMMA ResumeFinishedStep ==
    ASSUME IInv, NEW c \in Callers, ResumeFinished(c)
    PROVE  Good
<1>1. CallsOK(call')
  BY CallReset DEF ResumeFinished, IInv
<1>2. Keeps(ses, ses')
  BY AgentEndedKeeps DEF ResumeFinished, IInv
<1>3. asker' \in Execs
  BY Bounds DEF ResumeFinished, Orphaned, IInv
<1> QED
  BY <1>1, <1>2, <1>3 DEF ResumeFinished, Good, IInv, Keeps

(* The stream task of a turn.                                               *)
LeftAs == {"stopping", "ending", "exiting"}
SesTurnLive == Keeps(ses, ses') /\ TurnsOK(turn') /\ live' \subseteq Execs \ {0}

LEMMA LeftKeeps ==
    ASSUME NEW s \in Session, NEW why \in LeftAs
    PROVE  Keeps(s, Left(why, s))
BY SessionSteps, AgentEndedKeeps DEF Left, LeftAs, Keeps

LEMMA LeaveStep ==
    ASSUME IInv, NEW t \in DOMAIN turn, NEW why \in LeftAs, NEW x \in Execs, NEW s \in Session,
           Keeps(ses, s), Leave(t, why, x, s)
    PROVE  SesTurnLive
<1>1. live' \subseteq Execs \ {0}
  BY DEF Leave, IInv
<1>2. PICK waits \in Waits(x) :
         IF waits THEN ses' = s /\ turn' = Moved(t, why, x)
         ELSE ses' = Left(why, s) /\ turn' = Gone(t)
  BY DEF Leave
<1>3. CASE waits
  <2>1. TurnsOK(Moved(t, why, x))
    BY TurnSteps DEF IInv, LeftAs
  <2> QED
    BY <1>1, <1>2, <1>3, <2>1 DEF SesTurnLive
<1>4. CASE ~ waits
  <2>1. Keeps(ses, Left(why, s))
    BY LeftKeeps, KeepsTrans
  <2>2. TurnsOK(Gone(t))
    BY TurnSteps DEF IInv
  <2> QED
    BY <1>1, <1>2, <1>4, <2>1, <2>2 DEF SesTurnLive
<1> QED
  BY <1>3, <1>4

LEMMA RelayOverStep ==
    ASSUME IInv, NEW t \in DOMAIN turn, NEW s \in Session, Keeps(ses, s), RelayOver(t, s)
    PROVE  SesTurnLive
<1>1. s.exec \in Execs
  BY DEF Session
<1>2. CASE s.status = "paused"
  <2>1. Leave(t, "stopping", s.exec, s)
    BY <1>2 DEF RelayOver
  <2> QED
    BY <1>1, <2>1, LeaveStep DEF LeftAs
<1>3. CASE s.status # "paused"
  <2>1. ses' = Closed(s) /\ turn' = Moved(t, "lingering", 0) /\ live' = live
    BY <1>3 DEF RelayOver
  <2>2. Keeps(ses, ses')
    BY <2>1, SessionSteps, KeepsTrans
  <2>3. TurnsOK(turn')
    BY <2>1, TurnSteps, Bounds DEF IInv
  <2> QED
    BY <2>1, <2>2, <2>3 DEF SesTurnLive, IInv
<1> QED
  BY <1>2, <1>3

LEMMA RaisedStep ==
    ASSUME IInv, NEW t \in DOMAIN turn, NEW s \in Session, Keeps(ses, s), Raised(t, s)
    PROVE  SesTurnLive
<1>1. Closed(s) \in Session /\ Keeps(ses, Closed(s)) /\ s.exec \in Execs
  BY SessionSteps, KeepsTrans DEF Keeps, Session
<1>2. Leave(t, "ending", s.exec, Closed(s))
  BY DEF Raised
<1> QED
  BY <1>1, <1>2, LeaveStep DEF LeftAs

LEMMA QuietGood ==
    ASSUME IInv, SesTurnLive, UNCHANGED <<asker, call, prompt, made>>
    PROVE  Good
BY DEF Good, IInv, SesTurnLive, Keeps

LEMMA TurnStartStep ==
    ASSUME IInv, NEW t \in DOMAIN turn, TurnStart(t)
    PROVE  Good
<1>1. turn[t].e \in Execs \ {0}
  BY TurnFields DEF TurnStart, IInv
<1>2. live' \subseteq Execs \ {0}
  BY <1>1 DEF TurnStart, IInv
<1>3. TurnsOK(turn')
  BY TurnSteps, Bounds DEF TurnStart, IInv
<1> QED
  BY <1>2, <1>3, QuietGood DEF TurnStart, SesTurnLive, Keeps, IInv

LEMMA NotBusy ==
    ASSUME NEW s \in Session
    PROVE  Keeps(s, s) /\ Keeps(s, [s EXCEPT !.busy = FALSE])
BY DEF Keeps, Session

LEMMA TurnFailsStep ==
    ASSUME IInv, NEW t \in DOMAIN turn, TurnFails(t)
    PROVE  Good
<1>1. ses \in Session /\ Keeps(ses, ses) /\ Raised(t, ses)
  BY NotBusy DEF TurnFails, IInv
<1> QED
  BY <1>1, RaisedStep, QuietGood DEF TurnFails

LEMMA TurnResultStep ==
    ASSUME IInv, NEW t \in DOMAIN turn, TurnResult(t)
    PROVE  Good
<1> DEFINE s == [ses EXCEPT !.busy = FALSE]
<1>1. s \in Session /\ Keeps(ses, s)
  BY NotBusy DEF IInv, Keeps
<1>2. \/ ses' = s /\ turn' = Gone(t) /\ live' = live
      \/ /\ ses' = s /\ live' = live
         /\ turn' = Moved(t, IF s.gate = "open" THEN "asking" ELSE "more", 0)
      \/ RelayOver(t, s)
  BY DEF TurnResult
<1>3. UNCHANGED <<asker, call, prompt, made>>
  BY DEF TurnResult
<1> HIDE DEF s
<1>4. TurnsOK(Gone(t)) /\ TurnsOK(Moved(t, "asking", 0)) /\ TurnsOK(Moved(t, "more", 0))
  BY TurnSteps, Bounds DEF IInv
<1>5. SesTurnLive
  <2>1. CASE RelayOver(t, s)
    BY <2>1, <1>1, RelayOverStep
  <2>2. CASE ~ RelayOver(t, s)
    BY <2>2, <1>1, <1>2, <1>4 DEF SesTurnLive, IInv
  <2> QED
    BY <2>1, <2>2
<1> QED
  BY <1>3, <1>5, QuietGood

LEMMA TurnMaxTurnsStep ==
    ASSUME IInv, NEW t \in DOMAIN turn, TurnMaxTurns(t)
    PROVE  Good
<1> DEFINE r == [ses EXCEPT !.busy = FALSE]
           s == Closed(r)
<1>1. r \in Session /\ Keeps(ses, r)
  BY NotBusy DEF IInv, Keeps
<1>2. IF s.status = "active" THEN RelayOver(t, Paused(s)) ELSE Raised(t, s)
  BY DEF TurnMaxTurns
<1> HIDE DEF r
<1>3. s \in Session /\ Keeps(ses, s)
  BY <1>1, SessionSteps, KeepsTrans DEF Keeps
<1> HIDE DEF s
<1>4. SesTurnLive
  <2>1. CASE s.status = "active"
    <3>1. s.status \notin Terminal /\ s.status # "paused"
      BY <2>1 DEF Terminal
    <3>2. Keeps(ses, Paused(s)) /\ Paused(s) \in Session
      BY <1>3, <3>1, SessionSteps, KeepsTrans DEF Keeps
    <3> QED
      BY <1>2, <2>1, <3>2, RelayOverStep
  <2>2. CASE s.status # "active"
    BY <1>2, <1>3, <2>2, RaisedStep
  <2> QED
    BY <2>1, <2>2
<1> QED
  BY <1>4, QuietGood DEF TurnMaxTurns

LEMMA TurnExitStep ==
    ASSUME IInv, NEW t \in DOMAIN turn, TurnExit(t)
    PROVE  Good
<1>1. ses \in Session /\ Keeps(ses, ses) /\ ses.exec \in Execs /\ turn[t].e \in Execs
  BY NotBusy, TurnFields DEF IInv, Session
<1>2. SesTurnLive
  <2>1. CASE ses.status \in Terminal
    <3>1. turn' = Gone(t) /\ ses' = ses /\ live' = live
      BY <2>1 DEF TurnExit, Terminal
    <3>2. TurnsOK(Gone(t))
      BY TurnSteps DEF IInv
    <3> QED
      BY <1>1, <3>1, <3>2 DEF SesTurnLive, IInv
  <2>2. CASE ses.status = "active"
    <3> DEFINE r == [ses EXCEPT !.busy = FALSE]
               s == Closed(r)
    <3>1. r \in Session /\ Keeps(ses, r)
      BY <1>1, NotBusy DEF Keeps
    <3>2. Leave(t, "exiting", turn[t].e, s)
      BY <2>2 DEF TurnExit, Terminal
    <3> HIDE DEF r
    <3>3. s \in Session /\ Keeps(ses, s)
      BY <3>1, SessionSteps, KeepsTrans DEF Keeps
    <3> HIDE DEF s
    <3> QED
      BY <1>1, <3>2, <3>3, LeaveStep DEF LeftAs
  <2>3. CASE ses.status = "paused"
    <3>1. Leave(t, "stopping", ses.exec, ses)
      BY <2>3 DEF TurnExit, Terminal
    <3> QED
      BY <1>1, <3>1, LeaveStep DEF LeftAs
  <2> QED
    BY <2>1, <2>2, <2>3, <1>1 DEF Session, Statuses
<1> QED
  BY <1>2, QuietGood DEF TurnExit

LEMMA TurnStoppedStep ==
    ASSUME IInv, NEW t \in DOMAIN turn, TurnStopped(t)
    PROVE  Good
<1>1. Keeps(ses, ses')
  BY LeftKeeps DEF TurnStopped, LeftAs, IInv
<1>2. TurnsOK(turn')
  BY TurnSteps DEF TurnStopped, IInv
<1>3. asker' \in Execs
  BY Bounds DEF TurnStopped, Orphaned, IInv
<1> QED
  BY <1>1, <1>2, <1>3 DEF TurnStopped, Good, IInv, Keeps

LEMMA TurnMoreStep ==
    ASSUME IInv, NEW t \in DOMAIN turn, TurnMore(t)
    PROVE  Good
<1>1. CASE ses.question /\ ses.gate = "open" /\ turn[t].e \in live
  <2>1. turn' = Moved(t, "asking", 0) /\ UNCHANGED <<ses, live>>
    BY <1>1 DEF TurnMore
  <2>2. TurnsOK(turn')
    BY <2>1, TurnSteps, Bounds DEF IInv
  <2>3. SesTurnLive
    BY <2>1, <2>2, NotBusy DEF SesTurnLive, IInv
  <2> QED
    BY <2>3, QuietGood DEF TurnMore
<1>2. CASE ~ (ses.question /\ ses.gate = "open" /\ turn[t].e \in live)
  <2>1. PICK result \in BOOLEAN :
              RelayOver(t, [ses EXCEPT !.question = FALSE,
                                       !.busy = IF result THEN FALSE ELSE @])
    BY <1>2 DEF TurnMore
  <2> DEFINE s == [ses EXCEPT !.question = FALSE, !.busy = IF result THEN FALSE ELSE @]
  <2>2. s \in Session /\ Keeps(ses, s)
    BY DEF IInv, Keeps, Session
  <2> HIDE DEF s
  <2>3. RelayOver(t, s)
    BY <2>1 DEF s
  <2>4. SesTurnLive
    BY <2>2, <2>3, RelayOverStep
  <2> QED
    BY <2>4, QuietGood DEF TurnMore
<1> QED
  BY <1>1, <1>2

LEMMA TurnGivesUpStep ==
    ASSUME IInv, NEW t \in DOMAIN turn, TurnGivesUp(t)
    PROVE  Good
<1>1. ses \in Session /\ Keeps(ses, ses) /\ RelayOver(t, ses)
  BY NotBusy DEF TurnGivesUp, IInv
<1> QED
  BY <1>1, RelayOverStep, QuietGood DEF TurnGivesUp

LEMMA TurnOverStep ==
    ASSUME IInv, NEW t \in DOMAIN turn, TurnOver(t)
    PROVE  Good
<1>1. SesTurnLive
  BY TurnSteps, NotBusy DEF TurnOver, SesTurnLive, IInv
<1> QED
  BY <1>1, QuietGood DEF TurnOver

(* The question gate.                                                       *)
LEMMA GateStep ==
    ASSUME IInv, Answer \/ GateWakes \/ GateTimeout
    PROVE  Good
<1>1. \A g \in {"none", "open", "set"}, q \in BOOLEAN :
         Keeps(ses, [ses EXCEPT !.gate = g]) /\ Keeps(ses, [ses EXCEPT !.gate = g, !.question = q])
  BY DEF IInv, Keeps, Session
<1>2. CASE Answer
  <2>1. Keeps(ses, ses') /\ TurnsOK(turn')
    BY <1>1, <1>2, WokenOK DEF Answer, IInv
  <2> QED
    BY <1>2, <2>1 DEF Answer, Good, IInv, Keeps
<1>3. CASE GateWakes
  <2> DEFINE s == [ses EXCEPT !.gate = "none", !.question = FALSE]
  <2>1. s \in Session /\ Keeps(ses, s)
    BY <1>1 DEF Keeps
  <2>2. ses' = EndWait(s) /\ asker' = 0 /\ UNCHANGED <<live, turn, call, prompt, made>>
    BY <1>3 DEF GateWakes
  <2> HIDE DEF s
  <2>3. Keeps(ses, ses')
    BY <2>1, <2>2, SessionSteps, KeepsTrans
  <2> QED
    BY <2>2, <2>3, Bounds DEF Good, IInv, Keeps
<1>4. CASE GateTimeout
  <2> DEFINE s == [ses EXCEPT !.gate = "none"]
  <2>1. s \in Session /\ Keeps(ses, s)
    BY <1>1 DEF Keeps
  <2>2. ses' = EndWait(s) /\ asker' = 0 /\ UNCHANGED <<live, turn, call, prompt, made>>
    BY <1>4 DEF GateTimeout
  <2> HIDE DEF s
  <2>3. Keeps(ses, ses')
    BY <2>1, <2>2, SessionSteps, KeepsTrans
  <2> QED
    BY <2>2, <2>3, Bounds DEF Good, IInv, Keeps
<1> QED
  BY <1>2, <1>3, <1>4

LEMMA AskStep ==
    ASSUME IInv, NEW t \in DOMAIN turn, Ask(t)
    PROVE  Good
<1> DEFINE s == [ses EXCEPT !.gate = "open", !.question = TRUE]
<1>1. s \in Session /\ Keeps(ses, s)
  BY DEF IInv, Keeps, Session
<1>2. ses' = BeginWait(s) /\ asker' \in Execs /\ UNCHANGED <<live, turn, call, prompt, made>>
  BY TurnFields DEF Ask, IInv
<1> HIDE DEF s
<1>3. Keeps(ses, ses')
  BY <1>1, <1>2, SessionSteps, KeepsTrans
<1> QED
  BY <1>2, <1>3 DEF Good, IInv, Keeps

(* Prompts and turns of the outer LLM.                                      *)
LEMMA PromptSet ==
    ASSUME PromptsOK(prompt), NEW p \in Prompters, NEW k, PromptOK(k)
    PROVE  PromptsOK([prompt EXCEPT ![p] = k])
BY DEF PromptsOK, PromptOK

LEMMA PromptMoved ==
    ASSUME PromptsOK(prompt), NEW p \in Prompters, NEW pc \in {"lock", "llm", "started"}
    PROVE  PromptsOK([prompt EXCEPT ![p].pc = pc])
<1>1. PromptOK([prompt[p] EXCEPT !.pc = pc])
  BY DEF PromptsOK, PromptOK, PromptType
<1> QED
  BY <1>1, PromptSet

LEMMA PromptGood ==
    ASSUME IInv, Keeps(ses, ses'), TurnsOK(turn'), PromptsOK(prompt'), made' \in Execs,
           UNCHANGED <<live, asker, call>>
    PROVE  Good
BY DEF Good, IInv, Keeps

LEMMA PromptArriveStep ==
    ASSUME IInv, NEW p \in Prompters, NEW kind \in {"sent", "drained"}, PromptArrive(p, kind)
    PROVE  Good
<1>1. PromptOK([NoPrompt EXCEPT !.pc = "row", !.kind = kind])
  BY Bounds DEF NoPrompt, PromptOK, PromptType
<1>2. PromptsOK(prompt')
  BY <1>1, PromptSet DEF PromptArrive, IInv
<1> QED
  BY <1>2, PromptGood, NotBusy DEF PromptArrive, IInv

LEMMA SpawnedStep ==
    ASSUME IInv, NEW p \in Prompters, NEW x \in Execs \ {0}, NEW s \in Session, Keeps(ses, s),
           Spawned(p, x, s)
    PROVE  Keeps(ses, ses') /\ TurnsOK(turn') /\ PromptsOK(prompt')
<1>1. TurnsOK(turn') /\ Len(turn) + 1 \in Turns
  BY TurnAdded DEF Spawned, IInv
<1>2. Keeps(ses, ses')
  BY <1>1 DEF Spawned, Keeps, Session
<1>3. PromptsOK(prompt')
  BY Bounds, PromptSet DEF Spawned, IInv
<1> QED
  BY <1>1, <1>2, <1>3

LEMMA PromptForwardStep ==
    ASSUME IInv, NEW p \in Prompters, PromptForward(p)
    PROVE  Good
<1> DEFINE r == [ses EXCEPT !.busy = TRUE]
           s == Opened(r)
<1>1. r \in Session /\ Keeps(ses, r) /\ ses.exec \in Execs \ {0}
  BY DEF PromptForward, IInv, Keeps, Session
<1>2. /\ UNCHANGED <<live, asker, call, made>>
      /\ IF Alive(s.task)
         THEN /\ turn' \in Cuts(s.task)
              /\ ses' = s
              /\ prompt' = [prompt EXCEPT ![p].pc = "join", ![p].x = s.exec, ![p].t = s.task]
         ELSE Spawned(p, s.exec, s)
  BY DEF PromptForward
<1> HIDE DEF r
<1>3. s \in Session /\ Keeps(ses, s)
  BY <1>1, SessionSteps, KeepsTrans DEF Keeps
<1>4. s.exec = ses.exec /\ s.task \in Turns
  BY <1>1, <1>3 DEF Opened, Session, r
<1> HIDE DEF s
<1>5. CASE Alive(s.task)
  <2> DEFINE k == [prompt[p] EXCEPT !.pc = "join", !.x = s.exec, !.t = s.task]
  <2>1. PromptOK(k)
    BY <1>1, <1>4 DEF IInv, PromptsOK, PromptOK, PromptType
  <2>2. prompt' = [prompt EXCEPT ![p] = k]
    BY <1>2, <1>5 DEF IInv, PromptsOK, PromptType
  <2> HIDE DEF k
  <2>3. PromptsOK(prompt')
    BY <2>1, <2>2, PromptSet DEF IInv
  <2>4. TurnsOK(turn')
    BY <1>2, <1>5, TurnSteps DEF Alive, IInv
  <2> QED
    BY <1>2, <1>3, <1>5, <2>3, <2>4, PromptGood DEF IInv
<1>6. CASE ~ Alive(s.task)
  <2>1. Keeps(ses, ses') /\ TurnsOK(turn') /\ PromptsOK(prompt')
    BY <1>1, <1>2, <1>3, <1>4, <1>6, SpawnedStep
  <2> QED
    BY <1>2, <2>1, PromptGood DEF IInv
<1> QED
  BY <1>5, <1>6

LEMMA PromptJoinedStep ==
    ASSUME IInv, NEW p \in Prompters, PromptJoined(p)
    PROVE  Good
<1>1. prompt[p].x \in Execs \ {0} /\ ses \in Session /\ Keeps(ses, ses)
  BY NotBusy DEF PromptJoined, IInv, PromptsOK, PromptOK, PromptType
<1>2. Keeps(ses, ses') /\ TurnsOK(turn') /\ PromptsOK(prompt')
  BY <1>1, SpawnedStep DEF PromptJoined
<1> QED
  BY <1>2, PromptGood DEF PromptJoined, IInv

LEMMA PromptEndStep ==
    ASSUME IInv, NEW p \in Prompters,
           PromptQueued(p) \/ PromptToLlm(p) \/ LlmLock(p) \/ LlmEnd(p) \/ LlmFails(p)
    PROVE  Good
<1>1. /\ Keeps(ses, ses) /\ Keeps(ses, [ses EXCEPT !.busy = TRUE])
      /\ Keeps(ses, [ses EXCEPT !.busy = FALSE])
      /\ Keeps(ses, [ses EXCEPT !.status = "failed", !.busy = FALSE])
      /\ Keeps(ses, [ses EXCEPT !.status = "failed", !.busy = FALSE, !.fired = TRUE])
  BY DEF IInv, Keeps, Session, Statuses, Terminal
<1>2. Keeps(ses, ses') /\ UNCHANGED <<live, turn, asker, call, made>>
  BY <1>1 DEF PromptQueued, PromptToLlm, LlmLock, LlmEnd, LlmFails
<1>3. \/ prompt' = [prompt EXCEPT ![p] = NoPrompt]
      \/ prompt' = [prompt EXCEPT ![p].pc = "lock"]
      \/ prompt' = [prompt EXCEPT ![p].pc = "llm"]
  BY DEF PromptQueued, PromptToLlm, LlmLock, LlmEnd, LlmFails
<1>4. PromptsOK([prompt EXCEPT ![p] = NoPrompt])
  BY Bounds, PromptSet DEF IInv
<1>5. PromptsOK([prompt EXCEPT ![p].pc = "lock"]) /\ PromptsOK([prompt EXCEPT ![p].pc = "llm"])
  BY PromptMoved DEF IInv
<1>6. PromptsOK(prompt')
  BY <1>3, <1>4, <1>5
<1> QED
  BY <1>2, <1>6, PromptGood DEF IInv

LEMMA LlmToolStep ==
    ASSUME IInv, NEW p \in Prompters, LlmTool(p)
    PROVE  Good
<1>1. made + 1 \in Execs \ {0} /\ made' \in Execs
  BY LifecycleAssumption DEF LlmTool, IInv, Execs
<1>2. TurnsOK(turn') /\ Len(turn) + 1 \in Turns
  BY <1>1, TurnAdded DEF LlmTool, IInv
<1> DEFINE s == [ses EXCEPT !.exec = made + 1, !.task = Len(turn) + 1, !.known = TRUE, !.busy = TRUE]
<1>3. s \in Session /\ Keeps(ses, s) /\ ses' = Opened(s)
  BY <1>1, <1>2 DEF LlmTool, IInv, Keeps, Session
<1> HIDE DEF s
<1>4. Keeps(ses, ses')
  BY <1>3, SessionSteps, KeepsTrans
<1>5. PromptsOK(prompt')
  BY PromptMoved DEF LlmTool, IInv
<1> QED
  BY <1>1, <1>2, <1>4, <1>5, PromptGood DEF LlmTool

-----------------------------------------------------------------------------
LEMMA NextStep ==
    ASSUME IInv, [Next]_vars
    PROVE  Good
<1>1. CASE UNCHANGED vars
  BY <1>1 DEF vars, Good, IInv
<1>2. ASSUME NEW c \in Callers,
             \/ \E op \in {"cancel", "end", "pause", "interrupt"} : CallStart(c, op)
             \/ Resume(c) \/ CallReturns(c)
      PROVE  Good
  BY <1>2, CallStartStep, ResumeStep, CallKilledStep, CallJoinedStep, CallDroppedStep,
     ResumeFinishedStep DEF CallReturns, Stopping
<1>3. ASSUME NEW t \in DOMAIN turn, TurnStep(t) \/ Ask(t)
      PROVE  Good
  BY <1>3, TurnStartStep, TurnFailsStep, TurnResultStep, TurnMaxTurnsStep, TurnExitStep,
     TurnStoppedStep, TurnMoreStep, TurnGivesUpStep, TurnOverStep, AskStep DEF TurnStep
<1>4. ASSUME NEW p \in Prompters,
             (\E kind \in {"sent", "drained"} : PromptArrive(p, kind)) \/ PromptStep(p)
      PROVE  Good
  BY <1>4, PromptArriveStep, PromptForwardStep, PromptJoinedStep, PromptEndStep, LlmToolStep
     DEF PromptStep
<1> QED
  BY <1>1, <1>2, <1>3, <1>4, GateStep DEF Next

(* Every reachable state has the types the model declares, for any numbers   *)
(* of callers, prompts, executors and stream tasks (SessionLifecycle).       *)
THEOREM SessionTyped == Spec => []TypeOK
<1>1. IInv /\ [Next]_vars => IInv'
  BY NextStep DEF Good
<1> QED
  BY InitIInv, TypeFromIInv, <1>1, PTL DEF Spec

(* No call, answer, timeout, result or teardown that is still on its way    *)
(* brings a session back that has ended (session.py, SessionStatus).         *)
THEOREM EndedStaysEnded == Spec => TerminalStays
<1>1. IInv /\ [Next]_vars => IInv' /\ [ses.status \in Terminal => ses'.status \in Terminal]_vars
  BY NextStep DEF Good
<1> QED
  BY InitIInv, <1>1, PTL DEF Spec, TerminalStays

-----------------------------------------------------------------------------
(* One stream task at a time reads an executor's messages.                  *)

Reads(tn, t) == tn[t].pc \in {"new", "relay", "asking", "more"}
(* The tasks that read, and those that will clear the session's attributes. *)
Holds(tn, t) == tn[t].pc \in {"new", "relay", "asking", "more", "stopping", "ending"}

(* A session without an executor that no resume will give one.              *)
Doomed(s) == s.exec = 0 /\ (s.status \in Terminal \/ s.later)

(* Without the outer LLM a prompt is queued or forwarded; one drain claims one. *)
Forwarded(pr) == \A p \in Prompters : pr[p].pc \in {"idle", "row", "join"}
OneDrained(pr) ==
    \A p, q \in Prompters :
        /\ pr[p].kind = "drained" /\ pr[p].pc # "idle"
        /\ pr[q].kind = "drained" /\ pr[q].pc # "idle"
        => p = q
(* The session's attribute names the one task that holds its agent.         *)
Followed(s, tn) == Doomed(s) \/ \A t \in DOMAIN tn : Holds(tn, t) => t = s.task
(* A call waits for a task when the executor is gone: nothing is forwarded. *)
CallWaits(s, tn, k) ==
    s.exec = 0 /\ (Doomed(s) \/ \A t \in DOMAIN tn : Holds(tn, t) => t = k.t /\ ~ Reads(tn, t))
CallsWait(s, tn, ca) == \A c \in Callers : ca[c].pc = "join" => CallWaits(s, tn, ca[c])
(* A prompt waits for a task when the session is busy: the others are queued. *)
KeptBusy(s) == s.exec = 0 \/ (s.busy /\ s.status # "paused")
PromptWaits(tn, k) ==
    \A t \in DOMAIN tn : ~ Reads(tn, t) /\ (Holds(tn, t) => t = k.t)
PromptsWait(s, tn, ca, pr) ==
    \A p \in Prompters : pr[p].pc = "join" =>
        /\ pr[p].kind = "drained" /\ KeptBusy(s) /\ PromptWaits(tn, pr[p])
        /\ \A c \in Callers : ca[c] = NoCall
OneReads(tn) == \A t, u \in DOMAIN tn : Reads(tn, t) /\ Reads(tn, u) => t = u

ReaderInv ==
    /\ Forwarded(prompt) /\ OneDrained(prompt) /\ Followed(ses, turn)
    /\ CallsWait(ses, turn, call) /\ PromptsWait(ses, turn, call, prompt) /\ OneReads(turn)

-----------------------------------------------------------------------------
(* A step of the stream tasks that starts none.                             *)
Quieter(tn) ==
    /\ DOMAIN tn = DOMAIN turn
    /\ \A t \in DOMAIN turn : /\ Reads(tn, t) => Reads(turn, t)
                              /\ Holds(tn, t) => Holds(turn, t)

LEMMA QuietMoves ==
    ASSUME TurnsOK(turn), NEW t \in DOMAIN turn
    PROVE  /\ Quieter(Gone(t)) /\ ~ Holds(Gone(t), t)
           /\ \A x : Quieter(Moved(t, "lingering", x)) /\ Quieter(Moved(t, "exiting", x))
           /\ Holds(turn, t) => \A x : /\ Quieter(Moved(t, "stopping", x))
                                       /\ Quieter(Moved(t, "ending", x))
           /\ Reads(turn, t) => \A x : /\ Quieter(Moved(t, "relay", x))
                                       /\ Quieter(Moved(t, "asking", x))
                                       /\ Quieter(Moved(t, "more", x))
           /\ \A tn \in Cuts(t) : Quieter(tn) /\ ~ Reads(tn, t)
<1>1. turn \in [DOMAIN turn -> TurnType]
  BY DEF TurnsOK
<1>2. Quieter(Gone(t)) /\ ~ Holds(Gone(t), t)
  BY <1>1 DEF Quieter, Gone, Reads, Holds
<1>3. ASSUME NEW x, NEW pc
      PROVE  /\ DOMAIN Moved(t, pc, x) = DOMAIN turn /\ Moved(t, pc, x)[t].pc = pc
             /\ \A u \in DOMAIN turn : u # t => Moved(t, pc, x)[u].pc = turn[u].pc
  BY <1>1 DEF Moved, TurnType
<1>4. ASSUME NEW x, NEW pc, pc \in {"lingering", "exiting"}
      PROVE  Quieter(Moved(t, pc, x))
  BY <1>3, <1>4 DEF Quieter, Reads, Holds
<1>5. ASSUME NEW x, NEW pc, pc \in {"stopping", "ending"}, Holds(turn, t)
      PROVE  Quieter(Moved(t, pc, x))
  BY <1>3, <1>5 DEF Quieter, Reads, Holds
<1>6. ASSUME NEW x, NEW pc, pc \in {"relay", "asking", "more"}, Reads(turn, t)
      PROVE  Quieter(Moved(t, pc, x))
  BY <1>3, <1>6 DEF Quieter, Reads, Holds
<1>7. ASSUME NEW tn \in Cuts(t)
      PROVE  Quieter(tn) /\ ~ Reads(tn, t)
  <2>1. CASE tn = [turn EXCEPT ![t].pc = "cut"]
    <3>1. /\ DOMAIN tn = DOMAIN turn /\ tn[t].pc = "cut"
          /\ \A u \in DOMAIN turn : u # t => tn[u].pc = turn[u].pc
      BY <1>1, <2>1 DEF TurnType
    <3> QED
      BY <3>1 DEF Quieter, Reads, Holds
  <2>2. CASE tn # [turn EXCEPT ![t].pc = "cut"]
    <3>1. tn = turn /\ turn[t].pc \in {"stopping", "ending", "exiting"}
      BY <1>7, <2>2 DEF Cuts
    <3> QED
      BY <3>1 DEF Quieter, Reads, Holds
  <2> QED
    BY <2>1, <2>2
<1> QED
  BY <1>2, <1>4, <1>5, <1>6, <1>7

LEMMA QuietWake ==
    ASSUME TurnsOK(turn), NEW released
    PROVE  Quieter(turn) /\ Quieter(Woken(turn)) /\ Quieter(WokenIf(released, turn))
<1>1. turn \in [DOMAIN turn -> TurnType]
  BY DEF TurnsOK
<1>2. DOMAIN Woken(turn) = DOMAIN turn
      /\ \A u \in DOMAIN turn :
            \/ Woken(turn)[u].pc = turn[u].pc
            \/ turn[u].pc = "asking" /\ Woken(turn)[u].pc = "more"
  BY <1>1 DEF Woken, TurnType
<1>3. Quieter(turn) /\ Quieter(Woken(turn))
  BY <1>2 DEF Quieter, Reads, Holds
<1> QED
  BY <1>3 DEF WokenIf

(* What the steps of the session do to the attributes of the agent.         *)
SameAgent(s, r) == r.exec = s.exec /\ r.task = s.task /\ (s.later => r.later)

LEMMA SameSteps ==
    ASSUME NEW s \in Session
    PROVE  /\ SameAgent(s, s) /\ SameAgent(s, Paused(s)) /\ SameAgent(s, Resumed(s))
           /\ SameAgent(s, Completed(s)) /\ SameAgent(s, BeginWait(s)) /\ SameAgent(s, EndWait(s))
           /\ SameAgent(s, Opened(s)) /\ SameAgent(s, Closed(s)) /\ SameAgent(s, Ended(s))
           /\ SameAgent(s, Released(s))
BY DEF SameAgent, Session, Paused, Resumed, Completed, BeginWait, EndWait, Opened, Closed, Ended,
       Released

LEMMA SameTrans ==
    ASSUME NEW s, NEW r, NEW q, SameAgent(s, r), SameAgent(r, q)
    PROVE  SameAgent(s, q)
BY DEF SameAgent

LEMMA FreedIs ==
    ASSUME NEW s \in Session
    PROVE  Freed(s) \in Session /\ Freed(s).exec = 0 /\ Freed(s).task = 0
           /\ Freed(s).later = s.later /\ Freed(s).status = s.status
BY Bounds DEF Freed, Session

(* An agent that has ended takes the executor, and the session with it.     *)
LEMMA EndedIs ==
    ASSUME NEW s \in Session
    PROVE  Doomed(AgentEnded(s))
<1> DEFINE r == Freed(s)
<1>1. r \in Session /\ r.exec = 0
  BY FreedIs
<1> HIDE DEF r
<1>2. CASE r.status = "paused"
  BY <1>1, <1>2 DEF AgentEnded, Completed, Doomed, Session, r
<1>3. CASE r.status # "paused"
  <2>1. Ended(r) \in Session /\ Ended(r).exec = 0 /\ Ended(r).status # "paused"
    BY <1>1, <1>3 DEF Ended, Session
  <2>2. Completed(Ended(r)).exec = 0 /\ Completed(Ended(r)).status = "completed"
        /\ Completed(Ended(r)) \in Session
    BY <2>1 DEF Completed, Session, Statuses, Terminal
  <2>3. AgentEnded(s) = [Completed(Ended(r)) EXCEPT !.fired = TRUE]
    BY <1>3 DEF AgentEnded, r
  <2> QED
    BY <2>2, <2>3 DEF Doomed, Session, Terminal
<1> QED
  BY <1>2, <1>3

LEMMA FinishedSame ==
    ASSUME NEW s \in Session, NEW op \in Stopping, NEW had \in BOOLEAN
    PROVE  SameAgent(s, Finished(op, had, s))
<1> DEFINE r == IF had THEN Closed(s) ELSE s
<1>1. SameAgent(s, r) /\ r \in Session
  BY SameSteps, SessionSteps DEF Keeps
<1>2. Released(r) \in Session /\ SameAgent(r, Released(r))
  BY <1>1, SameSteps, SessionSteps DEF Keeps
<1> HIDE DEF r
<1>3. SameAgent(r, Ended(Released(r))) /\ Ended(Released(r)) \in Session
  BY <1>1, <1>2, SameSteps, SessionSteps, SameTrans DEF Keeps
<1>4. SameAgent(r, Ended(r)) /\ Ended(r) \in Session
  BY <1>1, SameSteps, SessionSteps DEF Keeps
<1>5. CASE op = "cancel"
  <2>1. Finished(op, had, s) = [Ended(Released(r)) EXCEPT !.status = "cancelled", !.busy = FALSE]
    BY <1>5 DEF Finished, r
  <2> QED
    BY <2>1, <1>1, <1>3 DEF SameAgent, Session
<1>6. CASE op = "end"
  <2>1. Finished(op, had, s) = [Ended(r) EXCEPT !.status = "completed", !.busy = FALSE]
    BY <1>6 DEF Finished, r
  <2> QED
    BY <2>1, <1>1, <1>4 DEF SameAgent, Session
<1>7. CASE op = "pause"
  <2>1. Finished(op, had, s) = Released(r)
    BY <1>7 DEF Finished, r
  <2> QED
    BY <2>1, <1>1, <1>2, SameTrans
<1>8. CASE op = "interrupt"
  <2>1. Finished(op, had, s) = [r EXCEPT !.busy = FALSE]
    BY <1>8 DEF Finished, r
  <2> QED
    BY <2>1, <1>1 DEF SameAgent, Session
<1> QED
  BY <1>5, <1>6, <1>7, <1>8 DEF Stopping

-----------------------------------------------------------------------------
(* Steps that start no task.                                                *)
ReaderNext ==
    /\ Forwarded(prompt') /\ OneDrained(prompt') /\ Followed(ses', turn')
    /\ CallsWait(ses', turn', call') /\ PromptsWait(ses', turn', call', prompt') /\ OneReads(turn')

LEMMA ReaderPrime == ReaderNext => ReaderInv'
BY DEF ReaderNext, ReaderInv, Forwarded, OneDrained, Followed, CallsWait, PromptsWait, OneReads,
       CallWaits, PromptWaits, Reads, Holds, Doomed, KeptBusy

AgentStep ==
    \/ SameAgent(ses, ses')
    \/ Doomed(ses')
    \/ /\ ses'.exec = 0 /\ (ses.later => ses'.later)
       /\ \/ Doomed(ses) \/ ses'.task = ses.task
          \/ \A t \in DOMAIN turn' : ~ Holds(turn', t)
    \/ ~ Doomed(ses) /\ ses'.task = ses.task /\ (ses'.exec = ses.exec \/ made' # made)
PromptStays(p) ==
    \/ prompt[p].pc = "join" /\ prompt'[p] = prompt[p]
    \/ prompt'[p].kind = "drained" /\ PromptWaits(turn', prompt'[p])
PromptsStay ==
    \A p \in Prompters : prompt'[p].pc = "join" => PromptStays(p) /\ KeptBusy(ses')
CallsStay ==
    \A c \in Callers : call'[c].pc = "join" =>
        \/ call[c].pc = "join" /\ call'[c].t = call[c].t
        \/ CallWaits(ses', turn', call'[c])

LEMMA DoomedStays ==
    ASSUME Good, Doomed(ses), ses'.exec = 0, ses.later => ses'.later
    PROVE  Doomed(ses')
BY DEF Good, Doomed

LEMMA QuietPrompt ==
    ASSUME Quieter(turn'), NEW k, PromptWaits(turn, k)
    PROVE  PromptWaits(turn', k)
BY DEF Quieter, PromptWaits

LEMMA Stays ==
    ASSUME IInv, ReaderInv, Good, Orderly, Quieter(turn'), Forwarded(prompt'), OneDrained(prompt'),
           AgentStep, PromptsStay, CallsStay
    PROVE  ReaderInv'
<1>1. ASSUME NEW t \in DOMAIN turn', Holds(turn', t)
      PROVE  t \in DOMAIN turn /\ Holds(turn, t) /\ (Reads(turn', t) => Reads(turn, t))
  BY <1>1 DEF Quieter
<1>2. OneReads(turn')
  BY <1>1 DEF OneReads, ReaderInv, Quieter
<1>3. Followed(ses', turn')
  <2>1. CASE SameAgent(ses, ses')
    <3>1. CASE Doomed(ses)
      BY <2>1, <3>1, DoomedStays DEF Followed, SameAgent, Doomed
    <3>2. CASE ~ Doomed(ses)
      BY <1>1, <2>1, <3>2 DEF Followed, SameAgent, ReaderInv
    <3> QED
      BY <3>1, <3>2
  <2>2. CASE Doomed(ses')
    BY <2>2 DEF Followed
  <2>3. CASE /\ ses'.exec = 0 /\ (ses.later => ses'.later)
             /\ \/ Doomed(ses) \/ ses'.task = ses.task
                \/ \A t \in DOMAIN turn' : ~ Holds(turn', t)
    <3>1. CASE Doomed(ses)
      BY <2>3, <3>1, DoomedStays DEF Followed
    <3>2. CASE ~ Doomed(ses)
      BY <1>1, <2>3, <3>2 DEF Followed, ReaderInv
    <3> QED
      BY <3>1, <3>2
  <2>4. CASE ~ Doomed(ses) /\ ses'.task = ses.task /\ (ses'.exec = ses.exec \/ made' # made)
    BY <1>1, <2>4 DEF Followed, ReaderInv
  <2> QED
    BY <2>1, <2>2, <2>3, <2>4 DEF AgentStep
<1>4. CallsWait(ses', turn', call')
  <2> SUFFICES ASSUME NEW c \in Callers, call'[c].pc = "join", call[c].pc = "join",
                      call'[c].t = call[c].t
               PROVE  CallWaits(ses', turn', call'[c])
    BY DEF CallsWait, CallsStay
  <2>1. made' = made /\ CallWaits(ses, turn, call[c])
    BY DEF Orderly, ReaderInv, CallsWait
  <2>2. ses.exec = 0 /\ (Doomed(ses) \/ \A t \in DOMAIN turn : Holds(turn, t) => t = call[c].t /\ ~ Reads(turn, t))
    BY <2>1 DEF CallWaits
  <2>3. ses'.exec = 0
    BY <2>1, <2>2 DEF AgentStep, SameAgent, Doomed
  <2>4. CASE Doomed(ses)
    <3>1. Doomed(ses')
      BY <2>1, <2>3, <2>4, DoomedStays DEF AgentStep, SameAgent
    <3> QED
      BY <2>3, <3>1 DEF CallWaits
  <2>5. CASE ~ Doomed(ses)
    <3>1. \A t \in DOMAIN turn' : Holds(turn', t) => t = call[c].t /\ ~ Reads(turn', t)
      BY <1>1, <2>2, <2>5
    <3> QED
      BY <2>3, <3>1 DEF CallWaits
  <2> QED
    BY <2>4, <2>5
<1>5. PromptsWait(ses', turn', call', prompt')
  <2> SUFFICES ASSUME NEW p \in Prompters, prompt'[p].pc = "join"
               PROVE  /\ prompt'[p].kind = "drained" /\ KeptBusy(ses')
                      /\ PromptWaits(turn', prompt'[p]) /\ \A c \in Callers : call'[c] = NoCall
    BY DEF PromptsWait
  <2>1. KeptBusy(ses') /\ PromptStays(p) /\ \A c \in Callers : call'[c] = NoCall
    BY DEF PromptsStay, Orderly
  <2>2. CASE prompt[p].pc = "join" /\ prompt'[p] = prompt[p]
    <3>1. prompt[p].kind = "drained" /\ PromptWaits(turn, prompt[p])
      BY <2>2 DEF ReaderInv, PromptsWait
    <3> QED
      BY <2>1, <2>2, <3>1, QuietPrompt
  <2> QED
    BY <2>1, <2>2 DEF PromptStays
<1> QED
  BY <1>2, <1>3, <1>4, <1>5, ReaderPrime DEF ReaderNext

(* A step that starts one.                                                  *)
LEMMA Starts ==
    ASSUME IInv, ReaderInv, Good, NEW e \in Execs \ {0},
           turn' = Append(turn, [pc |-> "new", e |-> e, x |-> 0]), ses'.task = Len(turn) + 1,
           ses'.exec = ses.exec, ses.later => ses'.later,
           \A t \in DOMAIN turn : ~ Reads(turn, t),
           Doomed(ses) \/ \A t \in DOMAIN turn : ~ Holds(turn, t),
           \A c \in Callers : call'[c].pc # "join", \A p \in Prompters : prompt'[p].pc # "join",
           Forwarded(prompt'), OneDrained(prompt')
    PROVE  ReaderInv'
<1> DEFINE r == [pc |-> "new", e |-> e, x |-> 0]
<1>1. turn \in Seq(TurnType) /\ r \in TurnType /\ Len(turn) \in Nat
  BY Bounds DEF IInv, TurnsOK, TurnType
<1>2. DOMAIN turn = 1 .. Len(turn) /\ DOMAIN turn' = 1 .. Len(turn) + 1
      /\ \A t \in DOMAIN turn : turn'[t] = turn[t]
  BY <1>1
<1>3. \A t \in DOMAIN turn' : t \in DOMAIN turn \/ t = Len(turn) + 1
  BY <1>1, <1>2
<1>4. \A t \in DOMAIN turn' : Reads(turn', t) => t = Len(turn) + 1
  BY <1>2, <1>3 DEF Reads
<1>5. OneReads(turn')
  BY <1>4 DEF OneReads
<1>6. Followed(ses', turn')
  <2>1. CASE Doomed(ses)
    BY <2>1, DoomedStays DEF Followed, Doomed
  <2>2. CASE ~ Doomed(ses)
    BY <1>2, <1>3, <2>2 DEF Followed, Holds
  <2> QED
    BY <2>1, <2>2
<1>7. CallsWait(ses', turn', call') /\ PromptsWait(ses', turn', call', prompt')
  BY DEF CallsWait, PromptsWait
<1> QED
  BY <1>5, <1>6, <1>7, ReaderPrime DEF ReaderNext

(* Steps that leave the prompts alone, or end one.                          *)
LEMMA SamePrompts ==
    ASSUME ReaderInv, prompt' = prompt, KeptBusy(ses')
    PROVE  Forwarded(prompt') /\ OneDrained(prompt') /\ PromptsStay
BY DEF ReaderInv, PromptsStay, PromptStays

LEMMA NoPromptsWait ==
    ASSUME ReaderInv, prompt' = prompt, \A p \in Prompters : prompt[p].pc # "join"
    PROVE  Forwarded(prompt') /\ OneDrained(prompt') /\ PromptsStay
BY DEF ReaderInv, PromptsStay

LEMMA ReadsNoWait ==
    ASSUME ReaderInv, NEW t \in DOMAIN turn, Reads(turn, t)
    PROVE  \A p \in Prompters : prompt[p].pc # "join"
BY DEF ReaderInv, PromptsWait, PromptWaits

LEMMA PromptOut ==
    ASSUME IInv, ReaderInv, NEW p \in Prompters, prompt' = [prompt EXCEPT ![p] = NoPrompt]
    PROVE  /\ Forwarded(prompt') /\ OneDrained(prompt')
           /\ \A q \in Prompters : prompt'[q].pc = "join" => q # p /\ prompt'[q] = prompt[q]
<1>1. prompt'[p] = NoPrompt /\ \A q \in Prompters : q # p => prompt'[q] = prompt[q]
  BY DEF IInv, PromptsOK
<1>2. prompt'[p].pc = "idle"
  BY <1>1 DEF NoPrompt
<1>3. Forwarded(prompt')
  BY <1>1, <1>2 DEF ReaderInv, Forwarded
<1>4. OneDrained(prompt')
  <2>1. ASSUME NEW q \in Prompters, NEW u \in Prompters,
               prompt'[q].kind = "drained" /\ prompt'[q].pc # "idle",
               prompt'[u].kind = "drained" /\ prompt'[u].pc # "idle"
        PROVE  q = u
    <3>1. prompt'[q] = prompt[q] /\ prompt'[u] = prompt[u]
      BY <1>1, <1>2, <2>1
    <3> QED
      BY <2>1, <3>1 DEF ReaderInv, OneDrained
  <2> QED
    BY <2>1 DEF OneDrained
<1> QED
  BY <1>1, <1>2, <1>3, <1>4

-----------------------------------------------------------------------------
(* The lifecycle calls.                                                     *)
LEMMA CallOthers ==
    ASSUME IInv, NEW c \in Callers, NEW k, call' = [call EXCEPT ![c] = k]
    PROVE  call'[c] = k /\ \A d \in Callers : d # c => call'[d] = call[d]
BY DEF IInv, CallsOK

LEMMA CallSettles ==
    ASSUME IInv, NEW c \in Callers, NEW k, call' = [call EXCEPT ![c] = k],
           k.pc = "join" => CallWaits(ses', turn', k)
    PROVE  CallsStay
<1>1. call'[c] = k /\ \A d \in Callers : d # c => call'[d] = call[d]
  BY CallOthers
<1> QED
  BY <1>1 DEF CallsStay

LEMMA TornReads ==
    ASSUME IInv, ReaderInv, Good, Orderly, NEW c \in Callers, NEW op \in Stopping,
           NEW had \in BOOLEAN, NEW s \in Session, s.exec = 0, s.task = ses.task,
           ses.later => s.later,
           Torn(c, op, had, s), prompt' = prompt
    PROVE  ReaderInv'
<1>1. CASE Alive(s.task)
  <2> DEFINE k == At(op, "join", 0, s.task, had)
  <2>1. /\ turn' \in Cuts(s.task) /\ ses' = s /\ s.task \in DOMAIN turn
        /\ call' = [call EXCEPT ![c] = k]
    BY <1>1 DEF Torn, Alive
  <2>2. k.t = s.task
    BY DEF At
  <2>3. Quieter(turn') /\ ~ Reads(turn', s.task)
    BY <2>1, QuietMoves DEF IInv
  <2>4. AgentStep
    BY <2>1 DEF AgentStep
  <2> HIDE DEF k
  <2>5. CallWaits(ses', turn', k)
    BY <2>1, <2>2, <2>3, DoomedStays DEF CallWaits, Followed, ReaderInv, Quieter
  <2>6. CallsStay
    BY <2>1, <2>5, CallSettles
  <2>7. KeptBusy(ses')
    BY <2>1 DEF KeptBusy
  <2> QED
    BY <2>3, <2>4, <2>6, <2>7, SamePrompts, Stays
<1>2. CASE ~ Alive(s.task)
  <2> DEFINE z == [s EXCEPT !.task = 0]
             k == At(op, After(op), 0, 0, had)
  <2>1. /\ ses' = Finished(op, had, z)
        /\ turn' = WokenIf(op \in {"cancel", "pause"}, turn)
        /\ call' = [call EXCEPT ![c] = k]
    BY <1>2 DEF Torn
  <2>2. z \in Session /\ z.exec = 0 /\ (ses.later => z.later)
    BY Bounds DEF Session
  <2> HIDE DEF z
  <2>3. ses'.exec = 0 /\ (ses.later => ses'.later)
    BY <2>1, <2>2, FinishedSame DEF SameAgent
  <2>4. Quieter(turn')
    BY <2>1, QuietWake DEF IInv
  <2>5. ASSUME ~ Doomed(ses), NEW t \in DOMAIN turn', Holds(turn', t)
        PROVE  FALSE
    <3>1. t \in DOMAIN turn /\ Holds(turn, t) /\ t = ses.task
      BY <2>4, <2>5 DEF Quieter, Followed, ReaderInv
    <3> QED
      BY <3>1, <1>2 DEF Alive, Holds
  <2>6. AgentStep
    BY <2>3, <2>5 DEF AgentStep
  <2>7. k.pc # "join"
    BY DEF At, After, NoCall
  <2> HIDE DEF k
  <2>8. CallsStay
    BY <2>1, <2>7, CallSettles
  <2>9. KeptBusy(ses')
    BY <2>3 DEF KeptBusy
  <2> QED
    BY <2>4, <2>6, <2>8, <2>9, SamePrompts, Stays
<1> QED
  BY <1>1, <1>2

LEMMA CallStartReads ==
    ASSUME IInv, ReaderInv, Good, Orderly, NEW c \in Callers, NEW op \in Stopping,
           CallStart(c, op)
    PROVE  ReaderInv'
<1>1. Marked(op) \in Session /\ SameAgent(ses, Marked(op)) /\ prompt' = prompt
      /\ ses.status \notin Terminal /\ made' = made
  <2>1. ses \in Session /\ Paused(ses) \in Session
    <3>1. ses.status \notin Terminal
      BY DEF CallStart, Allowed, Terminal, Stopping
    <3> QED
      BY <3>1, SessionSteps DEF IInv
  <2>2. SameAgent(ses, ses) /\ SameAgent(ses, Paused(ses))
    BY <2>1, SameSteps
  <2> QED
    BY <2>1, <2>2 DEF Marked, CallStart, Allowed, Terminal, Stopping
<1>2. PICK waits \in Waits(ses.exec) :
         IF waits
         THEN /\ ses' = Marked(op)
              /\ call' = [call EXCEPT ![c] = At(op, "kill", ses.exec, 0, TRUE)]
              /\ UNCHANGED turn
         ELSE Torn(c, op, ses.exec # 0, [Marked(op) EXCEPT !.exec = 0])
  BY DEF CallStart
<1>3. CASE waits
  <2> DEFINE k == At(op, "kill", ses.exec, 0, TRUE)
  <2>1. ses' = Marked(op) /\ turn' = turn /\ call' = [call EXCEPT ![c] = k]
    BY <1>2, <1>3
  <2>2. k.pc = "kill" /\ k # NoCall
    BY DEF At, NoCall
  <2> HIDE DEF k
  <2>3. AgentStep /\ Quieter(turn')
    BY <1>1, <2>1, QuietWake DEF AgentStep, IInv
  <2>4. CallsStay
    BY <2>1, <2>2, CallSettles
  <2>5. \A p \in Prompters : prompt[p].pc # "join"
    <3>1. call'[c] # NoCall
      BY <2>1, <2>2, CallOthers
    <3>2. \A p \in Prompters : prompt'[p].pc # "join"
      BY <3>1 DEF Orderly
    <3> QED
      BY <1>1, <3>2
  <2> QED
    BY <1>1, <2>3, <2>4, <2>5, NoPromptsWait, Stays
<1>4. CASE ~ waits
  <2> DEFINE s == [Marked(op) EXCEPT !.exec = 0]
  <2>1. s \in Session /\ s.exec = 0 /\ s.task = ses.task /\ (ses.later => s.later)
    BY <1>1, Bounds DEF Session, SameAgent
  <2>2. Torn(c, op, ses.exec # 0, s)
    BY <1>2, <1>4
  <2> HIDE DEF s
  <2> QED
    BY <1>1, <2>1, <2>2, TornReads
<1> QED
  BY <1>3, <1>4

LEMMA CallKilledReads ==
    ASSUME IInv, ReaderInv, Good, Orderly, NEW c \in Callers, CallKilled(c)
    PROVE  ReaderInv'
<1>1. call[c].op \in Stopping /\ prompt' = prompt
  BY DEF CallKilled, IInv, CallsOK, CallOK, CallType
<1> DEFINE s == [ses EXCEPT !.exec = 0]
<1>2. s \in Session /\ s.exec = 0 /\ s.task = ses.task /\ (ses.later => s.later)
      /\ s.status = ses.status
  BY Bounds DEF IInv, Session
<1>3. Torn(c, call[c].op, TRUE, s)
  BY DEF CallKilled
<1> HIDE DEF s
<1> QED
  BY <1>1, <1>2, <1>3, TornReads

LEMMA CallJoinedReads ==
    ASSUME IInv, ReaderInv, Good, Orderly, NEW c \in Callers, CallJoined(c)
    PROVE  ReaderInv'
<1>1. call[c].op \in Stopping /\ call[c].had \in BOOLEAN /\ prompt' = prompt
  BY DEF CallJoined, IInv, CallsOK, CallOK, CallType
<1> DEFINE s == [ses EXCEPT !.task = 0]
           k == At(call[c].op, After(call[c].op), 0, 0, TRUE)
<1>2. ses.exec = 0 /\ (Doomed(ses) \/ \A t \in DOMAIN turn : Holds(turn, t) => t = call[c].t)
  BY DEF CallJoined, ReaderInv, CallsWait, CallWaits
<1>3. s \in Session /\ s.exec = 0 /\ (ses.later => s.later)
  BY <1>2, Bounds DEF IInv, Session
<1>4. ses' = Finished(call[c].op, call[c].had, s)
      /\ turn' = WokenIf(call[c].op \in {"cancel", "pause"}, turn)
      /\ call' = [call EXCEPT ![c] = k]
  BY DEF CallJoined
<1> HIDE DEF s
<1>5. ses'.exec = 0 /\ (ses.later => ses'.later)
  BY <1>1, <1>3, <1>4, FinishedSame DEF SameAgent
<1>6. Quieter(turn')
  BY <1>4, QuietWake DEF IInv
<1>7. ASSUME ~ Doomed(ses), NEW t \in DOMAIN turn', Holds(turn', t)
      PROVE  FALSE
  <2>1. t \in DOMAIN turn /\ Holds(turn, t) /\ t = call[c].t
    BY <1>2, <1>6, <1>7 DEF Quieter
  <2> QED
    BY <2>1 DEF Alive, Holds, CallJoined
<1>8. k.pc # "join"
  BY <1>1 DEF At, After, NoCall
<1> HIDE DEF k
<1>9. CallsStay /\ AgentStep /\ KeptBusy(ses')
  BY <1>4, <1>5, <1>7, <1>8, CallSettles DEF AgentStep, KeptBusy
<1> QED
  BY <1>1, <1>6, <1>9, SamePrompts, Stays

LEMMA CallDroppedReads ==
    ASSUME IInv, ReaderInv, Good, Orderly, NEW c \in Callers, CallDropped(c)
    PROVE  ReaderInv'
<1>1. ses' = [ses EXCEPT !.fired = TRUE] /\ call' = [call EXCEPT ![c] = NoCall]
      /\ turn' = turn /\ prompt' = prompt /\ call[c].pc = "drop"
  BY DEF CallDropped
<1>2. AgentStep /\ Quieter(turn')
  BY <1>1, QuietWake DEF AgentStep, SameAgent, IInv, Session
<1>3. CallsStay
  BY <1>1, CallSettles DEF NoCall
<1>4. \A p \in Prompters : prompt[p].pc # "join"
  BY <1>1 DEF ReaderInv, PromptsWait, NoCall
<1> QED
  BY <1>1, <1>2, <1>3, <1>4, NoPromptsWait, Stays

LEMMA ResumeFinishedReads ==
    ASSUME IInv, ReaderInv, Good, Orderly, NEW c \in Callers, ResumeFinished(c)
    PROVE  ReaderInv'
<1>1. ses' = AgentEnded(ses) /\ call' = [call EXCEPT ![c] = NoCall]
      /\ turn' = turn /\ prompt' = prompt /\ ses \in Session
  BY DEF ResumeFinished, IInv
<1>2. Doomed(ses')
  BY <1>1, EndedIs
<1>3. AgentStep /\ Quieter(turn') /\ KeptBusy(ses')
  BY <1>1, <1>2, QuietWake DEF AgentStep, IInv, Doomed, KeptBusy
<1>4. CallsStay
  BY <1>1, CallSettles DEF NoCall
<1> QED
  BY <1>1, <1>3, <1>4, SamePrompts, Stays

LEMMA ResumeReads ==
    ASSUME IInv, ReaderInv, Good, Orderly, NEW c \in Callers, Resume(c)
    PROVE  ReaderInv'
<1> DEFINE s == Resumed(Released(ses))
<1>1. s \in Session /\ SameAgent(ses, s) /\ ses.status = "paused" /\ s.later = ses.later
      /\ s.status = "active"
  <2>1. ses \in Session /\ Released(ses) \in Session /\ Released(ses).later = ses.later
        /\ SameAgent(ses, Released(ses)) /\ ses.status = "paused"
    <3>1. ses \in Session /\ ses.status = "paused"
      BY DEF IInv, Resume
    <3>2. Released(ses).later = ses.later
      BY <3>1 DEF Released, Session
    <3>3. Released(ses) \in Session
      BY <3>1, SessionSteps DEF Keeps
    <3>4. SameAgent(ses, Released(ses))
      BY <3>1, SameSteps
    <3> QED
      BY <3>1, <3>2, <3>3, <3>4
  <2>2. Resumed(Released(ses)) \in Session /\ SameAgent(Released(ses), Resumed(Released(ses)))
        /\ Resumed(Released(ses)).later = Released(ses).later
        /\ Resumed(Released(ses)).status = "active"
    BY <2>1, SameSteps DEF Resumed, Session, Statuses, Terminal
  <2> QED
    BY <2>1, <2>2, SameTrans
<1>2. Quieter(turn') /\ prompt' = prompt
  BY QuietWake DEF Resume, IInv
<1>3. KeptBusy(ses) \/ \A p \in Prompters : prompt[p].pc # "join"
  BY DEF ReaderInv, PromptsWait
<1>4. ses.exec = 0 \/ \A p \in Prompters : prompt[p].pc # "join"
  BY <1>1, <1>3 DEF KeptBusy
<1>5. CASE s.later
  <2> DEFINE r == [s EXCEPT !.later = FALSE]
             k == At("resume", "finish", s.exec, 0, TRUE)
  <2>1. r \in Session /\ r.exec = s.exec /\ r.task = s.task
    BY <1>1 DEF Session
  <2>2. PICK waits \in Waits(s.exec) :
          IF waits
          THEN ses' = r /\ call' = [call EXCEPT ![c] = k]
          ELSE ses' = AgentEnded(r) /\ UNCHANGED call
    BY <1>5 DEF Resume
  <2>3. k.pc = "finish" /\ k # NoCall
    BY DEF At, NoCall
  <2> HIDE DEF r, k, s
  <2>4. CASE waits
    <3>0. s.exec # 0
      <4>1. s.exec = 0 => Waits(s.exec) = {FALSE}
        BY DEF Waits, IInv
      <4> QED
        BY <2>2, <2>4, <4>1
    <3>1. ses' = r /\ call' = [call EXCEPT ![c] = k]
      BY <2>2, <2>4, <3>0
    <3>2. AgentStep /\ ses.exec # 0
      BY <1>1, <2>1, <3>0, <3>1 DEF AgentStep, Doomed, SameAgent
    <3>3. \A p \in Prompters : prompt[p].pc # "join"
      BY <1>4, <3>2
    <3>4. CallsStay
      BY <2>3, <3>1, CallSettles
    <3> QED
      BY <1>2, <3>2, <3>3, <3>4, NoPromptsWait, Stays
  <2>5. CASE ~ waits
    <3>1. ses' = AgentEnded(r) /\ call' = call
      BY <2>2, <2>5
    <3>2. Doomed(ses')
      BY <2>1, <3>1, EndedIs
    <3>3. AgentStep /\ KeptBusy(ses') /\ CallsStay
      BY <3>1, <3>2 DEF AgentStep, KeptBusy, Doomed, CallsStay
    <3> QED
      BY <1>2, <3>3, SamePrompts, Stays
  <2> QED
    BY <2>4, <2>5
<1>6. CASE ~ s.later
  <2>1. /\ made' = IF Rebuilds(s) THEN made + 1 ELSE made
        /\ ses' = IF Rebuilds(s) THEN [s EXCEPT !.exec = made + 1] ELSE s
        /\ call' = call
    BY <1>6 DEF Resume
  <2>2. ~ Doomed(ses) /\ s.task = ses.task /\ made \in Nat
    BY <1>1, <1>6, LifecycleAssumption DEF Doomed, SameAgent, Terminal, IInv, Execs
  <2>3. CallsStay
    BY <2>1 DEF CallsStay
  <2> HIDE DEF s
  <2>4. CASE Rebuilds(s)
    <3>1. made' # made /\ ses'.task = ses.task
      BY <2>1, <2>2, <2>4, <1>1 DEF Session
    <3>2. AgentStep /\ \A p \in Prompters : prompt[p].pc # "join"
      BY <2>2, <3>1 DEF AgentStep, Orderly
    <3> QED
      BY <1>2, <2>3, <3>2, NoPromptsWait, Stays
  <2>5. CASE ~ Rebuilds(s)
    <3>1. ses' = s /\ AgentStep
      BY <1>1, <2>1, <2>5 DEF AgentStep
    <3>2. CASE ses.exec = 0
      <4>1. KeptBusy(ses')
        BY <1>1, <3>1, <3>2 DEF KeptBusy, SameAgent
      <4> QED
        BY <1>2, <2>3, <3>1, <4>1, SamePrompts, Stays
    <3>3. CASE ses.exec # 0
      <4>1. \A p \in Prompters : prompt[p].pc # "join"
        BY <1>4, <3>3
      <4> QED
        BY <1>2, <2>3, <3>1, <4>1, NoPromptsWait, Stays
    <3> QED
      BY <3>2, <3>3
  <2> QED
    BY <2>4, <2>5
<1> QED
  BY <1>5, <1>6

-----------------------------------------------------------------------------
(* The stream task of a turn.                                               *)
LEMMA TurnReads ==
    ASSUME IInv, ReaderInv, Good, Orderly, Quieter(turn'), AgentStep,
           UNCHANGED <<call, prompt>>,
           KeptBusy(ses') \/ \A p \in Prompters : prompt[p].pc # "join"
    PROVE  ReaderInv'
<1>1. CallsStay
  BY DEF CallsStay
<1>2. Forwarded(prompt') /\ OneDrained(prompt') /\ PromptsStay
  BY SamePrompts, NoPromptsWait
<1> QED
  BY <1>1, <1>2, Stays

LEMMA LeaveReads ==
    ASSUME IInv, ReaderInv, NEW t \in DOMAIN turn, NEW why \in LeftAs, NEW x, NEW s \in Session,
           SameAgent(ses, s), Holds(turn, t), Leave(t, why, x, s)
    PROVE  Quieter(turn') /\ AgentStep
<1>1. PICK waits \in Waits(x) :
         IF waits THEN ses' = s /\ turn' = Moved(t, why, x)
         ELSE ses' = Left(why, s) /\ turn' = Gone(t)
  BY DEF Leave
<1>2. CASE waits
  <2>1. ses' = s /\ turn' = Moved(t, why, x)
    BY <1>1, <1>2
  <2>2. Quieter(turn')
    BY <2>1, QuietMoves DEF IInv, LeftAs
  <2> QED
    BY <2>1, <2>2 DEF AgentStep
<1>3. CASE ~ waits
  <2>1. ses' = Left(why, s) /\ turn' = Gone(t) /\ Quieter(turn') /\ ~ Holds(turn', t)
    BY <1>1, <1>3, QuietMoves DEF IInv
  <2>2. CASE why = "stopping"
    <3>1. ses' = Freed(s)
      BY <2>1, <2>2 DEF Left
    <3>2. ses'.exec = 0 /\ (ses.later => ses'.later)
      BY <3>1, FreedIs DEF SameAgent
    <3>3. ASSUME ~ Doomed(ses), NEW u \in DOMAIN turn', Holds(turn', u)
          PROVE  FALSE
      <4>1. u \in DOMAIN turn /\ Holds(turn, u)
        BY <2>1, <3>3 DEF Quieter
      <4>2. u = ses.task /\ t = ses.task
        BY <3>3, <4>1 DEF ReaderInv, Followed
      <4> QED
        BY <2>1, <3>3, <4>2
    <3> QED
      BY <2>1, <3>2, <3>3 DEF AgentStep
  <2>3. CASE why = "ending"
    <3>1. ses' = AgentEnded(s)
      BY <2>1, <2>3 DEF Left
    <3> QED
      BY <2>1, <3>1, EndedIs DEF AgentStep
  <2>4. CASE why = "exiting"
    <3>1. ses' = s
      BY <2>1, <2>4 DEF Left
    <3> QED
      BY <2>1, <3>1 DEF AgentStep
  <2> QED
    BY <2>2, <2>3, <2>4 DEF LeftAs
<1> QED
  BY <1>2, <1>3

LEMMA RelayOverReads ==
    ASSUME IInv, ReaderInv, NEW t \in DOMAIN turn, NEW s \in Session, SameAgent(ses, s),
           Holds(turn, t), RelayOver(t, s)
    PROVE  Quieter(turn') /\ AgentStep
<1>1. CASE s.status = "paused"
  <2>1. Leave(t, "stopping", s.exec, s)
    BY <1>1 DEF RelayOver
  <2> QED
    BY <2>1, LeaveReads DEF LeftAs
<1>2. CASE s.status # "paused"
  <2>1. ses' = Closed(s) /\ turn' = Moved(t, "lingering", 0)
    BY <1>2 DEF RelayOver
  <2>2. SameAgent(ses, ses')
    BY <2>1, SameSteps, SameTrans
  <2>3. Quieter(turn')
    BY <2>1, QuietMoves DEF IInv
  <2> QED
    BY <2>2, <2>3 DEF AgentStep
<1> QED
  BY <1>1, <1>2

LEMMA RaisedReads ==
    ASSUME IInv, ReaderInv, NEW t \in DOMAIN turn, NEW s \in Session, SameAgent(ses, s),
           Holds(turn, t), Raised(t, s)
    PROVE  Quieter(turn') /\ AgentStep
<1>1. Closed(s) \in Session /\ SameAgent(ses, Closed(s))
  BY SessionSteps, SameSteps, SameTrans DEF Keeps
<1>2. Leave(t, "ending", s.exec, Closed(s))
  BY DEF Raised
<1> QED
  BY <1>1, <1>2, LeaveReads DEF LeftAs

LEMMA ReadingStep ==
    ASSUME IInv, ReaderInv, Good, Orderly, NEW t \in DOMAIN turn, Reads(turn, t),
           TurnStart(t) \/ TurnFails(t) \/ TurnResult(t) \/ TurnMaxTurns(t) \/ TurnExit(t)
           \/ TurnMore(t) \/ TurnGivesUp(t) \/ Ask(t)
    PROVE  ReaderInv'
<1>1. (\A p \in Prompters : prompt[p].pc # "join") /\ UNCHANGED <<call, prompt>>
  BY ReadsNoWait
     DEF TurnStart, TurnFails, TurnResult, TurnMaxTurns, TurnExit, TurnMore, TurnGivesUp, Ask
<1>2. ses \in Session /\ SameAgent(ses, ses) /\ TurnsOK(turn) /\ Holds(turn, t)
  BY SameSteps DEF IInv, Reads, Holds
<1>3. CASE TurnStart(t)
  <2>1. ses' = ses /\ turn' = Moved(t, "relay", 0)
    BY <1>3 DEF TurnStart
  <2> QED
    BY <1>1, <1>2, <2>1, QuietMoves, TurnReads DEF AgentStep
<1>4. CASE TurnFails(t)
  BY <1>1, <1>2, <1>4, RaisedReads, TurnReads DEF TurnFails
<1>5. CASE TurnResult(t)
  <2> DEFINE s == [ses EXCEPT !.busy = FALSE]
  <2>1. s \in Session /\ SameAgent(ses, s)
    BY <1>2 DEF Session, SameAgent
  <2>2. \/ ses' = s /\ turn' = Gone(t)
        \/ ses' = s /\ turn' = Moved(t, "asking", 0)
        \/ ses' = s /\ turn' = Moved(t, "more", 0)
        \/ RelayOver(t, s)
    BY <1>5 DEF TurnResult
  <2> HIDE DEF s
  <2>3. CASE RelayOver(t, s)
    BY <1>1, <1>2, <2>1, <2>3, RelayOverReads, TurnReads
  <2>4. CASE ~ RelayOver(t, s)
    <3>1. Quieter(turn') /\ AgentStep
      BY <1>2, <2>1, <2>2, <2>4, QuietMoves DEF AgentStep
    <3> QED
      BY <1>1, <3>1, TurnReads
  <2> QED
    BY <2>3, <2>4
<1>6. CASE TurnMaxTurns(t)
  <2> DEFINE r == [ses EXCEPT !.busy = FALSE]
             s == Closed(r)
  <2>1. r \in Session /\ SameAgent(ses, r)
    BY <1>2 DEF Session, SameAgent
  <2>2. IF s.status = "active" THEN RelayOver(t, Paused(s)) ELSE Raised(t, s)
    BY <1>6 DEF TurnMaxTurns
  <2> HIDE DEF r
  <2>3. s \in Session /\ SameAgent(ses, s)
    BY <2>1, SessionSteps, SameSteps, SameTrans DEF Keeps
  <2> HIDE DEF s
  <2>4. CASE s.status = "active"
    <3>1. Paused(s) \in Session /\ SameAgent(ses, Paused(s))
      BY <2>3, <2>4, SessionSteps, SameSteps, SameTrans DEF Terminal
    <3> QED
      BY <1>1, <1>2, <2>2, <2>4, <3>1, RelayOverReads, TurnReads
  <2>5. CASE s.status # "active"
    BY <1>1, <1>2, <2>2, <2>3, <2>5, RaisedReads, TurnReads
  <2> QED
    BY <2>4, <2>5
<1>7. CASE TurnExit(t)
  <2>1. CASE ses.status \in Terminal
    <3>1. turn' = Gone(t) /\ ses' = ses
      BY <1>7, <2>1 DEF TurnExit, Terminal
    <3> QED
      BY <1>1, <1>2, <3>1, QuietMoves, TurnReads DEF AgentStep
  <2>2. CASE ses.status = "active"
    <3> DEFINE r == [ses EXCEPT !.busy = FALSE]
               s == Closed(r)
    <3>1. r \in Session /\ SameAgent(ses, r)
      BY <1>2 DEF Session, SameAgent
    <3>2. Leave(t, "exiting", turn[t].e, s)
      BY <1>7, <2>2 DEF TurnExit, Terminal
    <3> HIDE DEF r
    <3>3. s \in Session /\ SameAgent(ses, s)
      BY <3>1, SessionSteps, SameSteps, SameTrans DEF Keeps
    <3> HIDE DEF s
    <3> QED
      BY <1>1, <1>2, <3>2, <3>3, LeaveReads, TurnReads DEF LeftAs
  <2>3. CASE ses.status = "paused"
    <3>1. Leave(t, "stopping", ses.exec, ses)
      BY <1>7, <2>3 DEF TurnExit, Terminal
    <3> QED
      BY <1>1, <1>2, <3>1, LeaveReads, TurnReads DEF LeftAs
  <2> QED
    BY <2>1, <2>2, <2>3, <1>2 DEF Session, Statuses
<1>8. CASE TurnMore(t)
  <2>1. CASE ses.question /\ ses.gate = "open" /\ turn[t].e \in live
    <3>1. turn' = Moved(t, "asking", 0) /\ ses' = ses
      BY <1>8, <2>1 DEF TurnMore
    <3> QED
      BY <1>1, <1>2, <3>1, QuietMoves, TurnReads DEF AgentStep
  <2>2. CASE ~ (ses.question /\ ses.gate = "open" /\ turn[t].e \in live)
    <3>1. PICK result \in BOOLEAN :
                RelayOver(t, [ses EXCEPT !.question = FALSE,
                                         !.busy = IF result THEN FALSE ELSE @])
      BY <1>8, <2>2 DEF TurnMore
    <3> DEFINE s == [ses EXCEPT !.question = FALSE, !.busy = IF result THEN FALSE ELSE @]
    <3>2. s \in Session /\ SameAgent(ses, s)
      BY <1>2 DEF Session, SameAgent
    <3> HIDE DEF s
    <3>3. RelayOver(t, s)
      BY <3>1 DEF s
    <3> QED
      BY <1>1, <1>2, <3>2, <3>3, RelayOverReads, TurnReads
  <2> QED
    BY <2>1, <2>2
<1>9. CASE TurnGivesUp(t)
  BY <1>1, <1>2, <1>9, RelayOverReads, TurnReads DEF TurnGivesUp
<1>10. CASE Ask(t)
  <2> DEFINE s == [ses EXCEPT !.gate = "open", !.question = TRUE]
  <2>1. s \in Session /\ SameAgent(ses, s)
    BY <1>2 DEF Session, SameAgent
  <2>2. ses' = BeginWait(s) /\ turn' = turn
    BY <1>10 DEF Ask
  <2> HIDE DEF s
  <2>3. SameAgent(ses, ses')
    BY <2>1, <2>2, SameSteps, SameTrans
  <2> QED
    BY <1>1, <1>2, <2>2, <2>3, QuietWake, TurnReads DEF AgentStep
<1> QED
  BY <1>3, <1>4, <1>5, <1>6, <1>7, <1>8, <1>9, <1>10

LEMMA TurnStepReads ==
    ASSUME IInv, ReaderInv, Good, Orderly, NEW t \in DOMAIN turn, TurnStep(t) \/ Ask(t)
    PROVE  ReaderInv'
<1>1. ses \in Session /\ SameAgent(ses, ses)
  BY SameSteps DEF IInv
<1>2. KeptBusy(ses) \/ \A p \in Prompters : prompt[p].pc # "join"
  BY DEF ReaderInv, PromptsWait
<1>3. CASE TurnStopped(t)
  <2>1. /\ turn[t].pc \in {"stopping", "ending", "exiting"} /\ UNCHANGED <<call, prompt>>
        /\ ses' = Left(turn[t].pc, ses) /\ turn' = Gone(t)
    BY <1>3 DEF TurnStopped
  <2>2. Quieter(turn') /\ ~ Holds(turn', t)
    BY <2>1, QuietMoves DEF IInv
  <2>3. CASE turn[t].pc = "stopping"
    <3>1. ses' = Freed(ses) /\ Holds(turn, t)
      BY <2>1, <2>3 DEF Left, Holds
    <3>2. ses'.exec = 0 /\ (ses.later => ses'.later)
      BY <1>1, <3>1, FreedIs
    <3>3. ASSUME ~ Doomed(ses), NEW u \in DOMAIN turn', Holds(turn', u)
          PROVE  FALSE
      <4>1. u \in DOMAIN turn /\ Holds(turn, u)
        BY <2>2, <3>3 DEF Quieter
      <4>2. u = ses.task /\ t = ses.task
        BY <3>1, <3>3, <4>1 DEF ReaderInv, Followed
      <4> QED
        BY <2>2, <3>3, <4>2
    <3> QED
      BY <2>1, <2>2, <3>2, <3>3, TurnReads DEF AgentStep, KeptBusy
  <2>4. CASE turn[t].pc = "ending"
    <3>1. ses' = AgentEnded(ses)
      BY <2>1, <2>4 DEF Left
    <3> QED
      BY <1>1, <2>1, <2>2, <3>1, EndedIs, TurnReads DEF AgentStep, KeptBusy, Doomed
  <2>5. CASE turn[t].pc = "exiting"
    <3>1. ses' = ses
      BY <2>1, <2>5 DEF Left
    <3> QED
      BY <1>1, <1>2, <2>1, <2>2, <3>1, TurnReads DEF AgentStep
  <2> QED
    BY <2>1, <2>3, <2>4, <2>5
<1>4. CASE TurnOver(t)
  <2>1. ses' = ses /\ turn' = Gone(t) /\ UNCHANGED <<call, prompt>>
    BY <1>4 DEF TurnOver
  <2> QED
    BY <1>1, <1>2, <2>1, QuietMoves, TurnReads DEF AgentStep, IInv
<1>5. CASE ~ TurnStopped(t) /\ ~ TurnOver(t)
  <2>1. Reads(turn, t)
    BY <1>5 DEF TurnStep, Ask, TurnStart, TurnFails, TurnResult, TurnMaxTurns, TurnExit, TurnMore,
                TurnGivesUp, Reads
  <2> QED
    BY <1>5, <2>1, ReadingStep DEF TurnStep
<1> QED
  BY <1>3, <1>4, <1>5

(* The question gate.                                                       *)
LEMMA GateReads ==
    ASSUME IInv, ReaderInv, Good, Orderly, Answer \/ GateWakes \/ GateTimeout
    PROVE  ReaderInv'
<1>1. ses \in Session /\ TurnsOK(turn)
  BY DEF IInv
<1>2. KeptBusy(ses) \/ \A p \in Prompters : prompt[p].pc # "join"
  BY DEF ReaderInv, PromptsWait
<1>3. CASE Answer
  <2>1. ses' = [ses EXCEPT !.gate = "set"] /\ turn' = Woken(turn) /\ UNCHANGED <<call, prompt>>
    BY <1>3 DEF Answer
  <2>2. SameAgent(ses, ses') /\ (KeptBusy(ses) => KeptBusy(ses'))
    BY <1>1, <2>1 DEF SameAgent, KeptBusy, Session
  <2> QED
    BY <1>1, <1>2, <2>1, <2>2, QuietWake, TurnReads DEF AgentStep
<1>4. CASE GateWakes \/ GateTimeout
  <2>1. PICK s \in Session : SameAgent(ses, s) /\ s.status = ses.status /\ ses' = EndWait(s)
    <3>1. /\ [ses EXCEPT !.gate = "none", !.question = FALSE] \in Session
          /\ [ses EXCEPT !.gate = "none"] \in Session
          /\ SameAgent(ses, [ses EXCEPT !.gate = "none", !.question = FALSE])
          /\ SameAgent(ses, [ses EXCEPT !.gate = "none"])
          /\ [ses EXCEPT !.gate = "none", !.question = FALSE].status = ses.status
          /\ [ses EXCEPT !.gate = "none"].status = ses.status
      BY <1>1 DEF Session, SameAgent
    <3> QED
      BY <1>4, <3>1 DEF GateWakes, GateTimeout
  <2>2. SameAgent(ses, ses')
    BY <2>1, SameSteps, SameTrans
  <2>3. KeptBusy(ses) => KeptBusy(ses')
    BY <2>1 DEF EndWait, KeptBusy, SameAgent, Session
  <2>4. turn' = turn /\ UNCHANGED <<call, prompt>>
    BY <1>4 DEF GateWakes, GateTimeout
  <2> QED
    BY <1>1, <1>2, <2>2, <2>3, <2>4, QuietWake, TurnReads DEF AgentStep
<1> QED
  BY <1>3, <1>4

-----------------------------------------------------------------------------
(* The prompts.                                                             *)
LEMMA OtherPrompts ==
    ASSUME IInv, NEW p \in Prompters, NEW k, prompt' = [prompt EXCEPT ![p] = k]
    PROVE  prompt'[p] = k /\ \A q \in Prompters : q # p => prompt'[q] = prompt[q]
BY DEF IInv, PromptsOK

LEMMA PromptArriveReads ==
    ASSUME IInv, ReaderInv, Good, Orderly, NEW p \in Prompters, NEW kind \in {"sent", "drained"},
           PromptArrive(p, kind)
    PROVE  ReaderInv'
<1> DEFINE k == [NoPrompt EXCEPT !.pc = "row", !.kind = kind]
<1>1. prompt' = [prompt EXCEPT ![p] = k] /\ ses' = ses /\ turn' = turn /\ call' = call
      /\ (kind = "drained" =>
              \A q \in Prompters : prompt[q].pc = "idle" \/ prompt[q].kind # "drained")
  BY DEF PromptArrive
<1>2. k.pc = "row" /\ k.kind = kind
  BY DEF NoPrompt
<1> HIDE DEF k
<1>3. prompt'[p] = k /\ \A q \in Prompters : q # p => prompt'[q] = prompt[q]
  BY <1>1, OtherPrompts
<1>4. Forwarded(prompt')
  BY <1>2, <1>3 DEF ReaderInv, Forwarded
<1>5. OneDrained(prompt')
  <2>1. ASSUME NEW q \in Prompters, NEW u \in Prompters, q # p \/ u # p,
               prompt'[q].kind = "drained" /\ prompt'[q].pc # "idle",
               prompt'[u].kind = "drained" /\ prompt'[u].pc # "idle"
        PROVE  q = u
    <3>1. CASE q # p /\ u # p
      <4>1. prompt'[q] = prompt[q] /\ prompt'[u] = prompt[u]
        BY <1>3, <3>1
      <4> QED
        BY <2>1, <4>1 DEF ReaderInv, OneDrained
    <3>2. CASE q = p \/ u = p
      BY <1>1, <1>2, <1>3, <2>1, <3>2
    <3> QED
      BY <3>1, <3>2
  <2>2. \A q, u \in Prompters : q # p \/ u # p \/ q = u
    OBVIOUS
  <2> QED
    BY <2>1, <2>2 DEF OneDrained
<1>6. PromptsStay
  <2> SUFFICES ASSUME NEW q \in Prompters, prompt'[q].pc = "join"
               PROVE  PromptStays(q) /\ KeptBusy(ses')
    BY DEF PromptsStay
  <2>1. prompt'[q] = prompt[q]
    BY <1>2, <1>3
  <2> QED
    BY <1>1, <2>1 DEF PromptStays, ReaderInv, PromptsWait
<1>7. CallsStay /\ AgentStep /\ Quieter(turn')
  BY <1>1, QuietWake, SameSteps DEF CallsStay, AgentStep, IInv
<1> QED
  BY <1>4, <1>5, <1>6, <1>7, Stays

LEMMA PromptEndReads ==
    ASSUME IInv, ReaderInv, Good, Orderly, "llm" \notin Env, NEW p \in Prompters,
           PromptQueued(p) \/ PromptToLlm(p)
    PROVE  ReaderInv'
<1>1. prompt' = [prompt EXCEPT ![p] = NoPrompt] /\ turn' = turn /\ call' = call
  BY DEF PromptQueued, PromptToLlm
<1>2. \/ ses' = ses
      \/ ses' = [ses EXCEPT !.status = "failed", !.busy = FALSE] /\ ses.exec = 0
  BY DEF PromptQueued, PromptToLlm
<1>3. SameAgent(ses, ses') /\ (KeptBusy(ses) => KeptBusy(ses'))
  BY <1>2 DEF SameAgent, KeptBusy, IInv, Session
<1>4. PromptsStay
  BY <1>1, <1>3, PromptOut DEF PromptsStay, PromptStays, ReaderInv, PromptsWait
<1>5. CallsStay /\ AgentStep /\ Quieter(turn')
  BY <1>1, <1>3, QuietWake DEF CallsStay, AgentStep, IInv
<1> QED
  BY <1>1, <1>4, <1>5, PromptOut, Stays

LEMMA NoOtherWaits ==
    ASSUME ReaderInv, NEW p \in Prompters, prompt[p].kind = "drained", prompt[p].pc # "idle",
           NEW q \in Prompters, prompt[q].pc = "join"
    PROVE  q = p
BY DEF ReaderInv, PromptsWait, OneDrained

LEMMA PromptForwardReads ==
    ASSUME IInv, ReaderInv, Good, Orderly, NEW p \in Prompters, PromptForward(p)
    PROVE  ReaderInv'
<1> DEFINE r == [ses EXCEPT !.busy = TRUE]
           s == Opened(r)
<1>1. /\ UNCHANGED <<live, asker, call, made>>
      /\ prompt[p].pc = "row" /\ Delivered(p) /\ ses.exec # 0 /\ ses.exec \in Execs
      /\ IF Alive(s.task)
         THEN /\ turn' \in Cuts(s.task)
              /\ ses' = s
              /\ prompt' = [prompt EXCEPT ![p].pc = "join", ![p].x = s.exec, ![p].t = s.task]
         ELSE Spawned(p, s.exec, s)
  BY DEF PromptForward, IInv, Session
<1>r. /\ r \in Session /\ SameAgent(ses, r) /\ r.later = ses.later /\ r.busy
      /\ r.status = ses.status
  BY DEF IInv, Session, SameAgent
<1> HIDE DEF r
<1>2. /\ s \in Session /\ SameAgent(ses, s) /\ s.later = ses.later /\ s.busy
      /\ s.status = ses.status
  BY <1>r DEF Session, Opened, SameAgent
<1> HIDE DEF s
<1>3. s.exec = ses.exec /\ s.task = ses.task /\ ~ Doomed(ses)
  BY <1>1, <1>2 DEF SameAgent, Doomed
<1>4. \A t \in DOMAIN turn : Holds(turn, t) => t = ses.task
  BY <1>3 DEF ReaderInv, Followed
<1>5. \A c \in Callers : call'[c].pc # "join"
  BY <1>1 DEF ReaderInv, CallsWait, CallWaits
<1>6. ses.status # "paused" /\ (prompt[p].kind = "sent" => ~ Alive(ses.task) /\ ~ ses.busy)
  BY <1>1 DEF Delivered, Busy
<1>7. prompt[p].kind \in {"sent", "drained"}
  BY DEF IInv, PromptsOK, PromptType
<1>8. \A q \in Prompters : prompt[q].pc # "join"
  <2> SUFFICES ASSUME NEW q \in Prompters, prompt[q].pc = "join"
               PROVE  FALSE
    OBVIOUS
  <2>1. CASE prompt[p].kind = "drained"
    BY <1>1, <2>1, NoOtherWaits
  <2>2. CASE prompt[p].kind = "sent"
    BY <1>1, <1>6, <2>2 DEF ReaderInv, PromptsWait, KeptBusy
  <2> QED
    BY <1>7, <2>1, <2>2
<1>9. CASE Alive(s.task)
  <2> DEFINE k == [prompt[p] EXCEPT !.pc = "join", !.x = s.exec, !.t = s.task]
  <2>1. turn' \in Cuts(ses.task) /\ ses' = s /\ ses.task \in DOMAIN turn
        /\ prompt[p].kind = "drained"
    BY <1>1, <1>3, <1>6, <1>7, <1>9 DEF Alive
  <2>2. prompt' = [prompt EXCEPT ![p] = k]
    BY <1>1, <1>9 DEF IInv, PromptsOK, PromptType
  <2>3. k.kind = prompt[p].kind /\ k.pc = "join" /\ k.t = s.task
    BY DEF IInv, PromptsOK, PromptType
  <2> HIDE DEF k
  <2>4. prompt'[p] = k /\ \A q \in Prompters : q # p => prompt'[q] = prompt[q]
    BY <2>2, OtherPrompts
  <2>5. Forwarded(prompt')
    BY <2>3, <2>4 DEF ReaderInv, Forwarded
  <2>6. OneDrained(prompt')
    <3>1. \A q \in Prompters : prompt'[q].kind = prompt[q].kind
                              /\ (prompt'[q].pc # "idle" => prompt[q].pc # "idle")
      BY <1>1, <2>3, <2>4
    <3> QED
      BY <3>1 DEF ReaderInv, OneDrained
  <2>7. Quieter(turn') /\ ~ Reads(turn', ses.task)
    BY <2>1, QuietMoves DEF IInv
  <2>8. PromptWaits(turn', k)
    <3>1. ASSUME NEW t \in DOMAIN turn', Holds(turn', t)
          PROVE  t = ses.task
      BY <1>4, <2>7, <3>1 DEF Quieter
    <3>2. \A t \in DOMAIN turn' : Reads(turn', t) => Holds(turn', t)
      BY DEF Reads, Holds
    <3> QED
      BY <1>3, <2>3, <2>7, <3>1, <3>2 DEF PromptWaits
  <2>9. PromptsStay
    <3>1. KeptBusy(ses')
      BY <1>2, <1>6, <2>1 DEF KeptBusy
    <3>2. ASSUME NEW q \in Prompters, prompt'[q].pc = "join"
          PROVE  PromptStays(q)
      <4>1. q = p
        BY <1>8, <2>4, <3>2
      <4> QED
        BY <2>1, <2>3, <2>4, <2>8, <4>1 DEF PromptStays
    <3> QED
      BY <3>1, <3>2 DEF PromptsStay
  <2>10. CallsStay /\ AgentStep
    BY <1>2, <1>5, <2>1 DEF CallsStay, AgentStep
  <2> QED
    BY <2>5, <2>6, <2>7, <2>9, <2>10, Stays
<1>10. CASE ~ Alive(s.task)
  <2>1. /\ turn' = Append(turn, [pc |-> "new", e |-> ses.exec, x |-> 0])
        /\ ses' = [s EXCEPT !.task = Len(turn) + 1]
        /\ prompt' = [prompt EXCEPT ![p] = NoPrompt]
    BY <1>1, <1>3, <1>10 DEF Spawned
  <2>2. ses'.task = Len(turn) + 1 /\ ses'.exec = ses.exec /\ (ses.later => ses'.later)
    BY <1>2, <1>3, <2>1 DEF Session
  <2>3. \A t \in DOMAIN turn : ~ Holds(turn, t) /\ ~ Reads(turn, t)
    <3>1. ~ Alive(ses.task)
      BY <1>3, <1>10
    <3>2. \A t \in DOMAIN turn : Reads(turn, t) => Holds(turn, t)
      BY DEF Reads, Holds
    <3>3. \A t \in DOMAIN turn : ~ Holds(turn, t)
      BY <1>4, <3>1 DEF Alive, Holds
    <3> QED
      BY <3>2, <3>3
  <2>4. Forwarded(prompt') /\ OneDrained(prompt')
        /\ \A q \in Prompters : prompt'[q].pc # "join"
    BY <1>8, <2>1, PromptOut
  <2> QED
    BY <1>1, <1>5, <2>1, <2>2, <2>3, <2>4, Starts
<1> QED
  BY <1>9, <1>10

LEMMA PromptJoinedReads ==
    ASSUME IInv, ReaderInv, Good, Orderly, NEW p \in Prompters, PromptJoined(p)
    PROVE  ReaderInv'
<1>1. prompt[p].pc = "join" /\ ~ Alive(prompt[p].t) /\ prompt[p].x \in Execs \ {0} /\ call' = call
  BY DEF PromptJoined, IInv, PromptsOK, PromptOK, PromptType
<1>2. /\ turn' = Append(turn, [pc |-> "new", e |-> prompt[p].x, x |-> 0])
      /\ ses' = [ses EXCEPT !.task = Len(turn) + 1]
      /\ prompt' = [prompt EXCEPT ![p] = NoPrompt]
  BY DEF PromptJoined, Spawned
<1>3. ses'.task = Len(turn) + 1 /\ ses'.exec = ses.exec /\ (ses.later => ses'.later)
  BY <1>2 DEF IInv, Session
<1>4. prompt[p].kind = "drained" /\ PromptWaits(turn, prompt[p]) /\ \A c \in Callers : call[c] = NoCall
  BY <1>1 DEF ReaderInv, PromptsWait
<1>5. \A t \in DOMAIN turn : ~ Holds(turn, t) /\ ~ Reads(turn, t)
  BY <1>1, <1>4 DEF PromptWaits, Alive, Holds
<1>6. \A q \in Prompters : prompt'[q].pc # "join"
  BY <1>1, <1>2, <1>4, PromptOut, NoOtherWaits
<1>7. \A c \in Callers : call'[c].pc # "join"
  BY <1>1, <1>4 DEF NoCall
<1>8. Forwarded(prompt') /\ OneDrained(prompt')
  BY <1>2, PromptOut
<1> QED
  BY <1>1, <1>2, <1>3, <1>5, <1>6, <1>7, <1>8, Starts

-----------------------------------------------------------------------------
LEMMA InitReads == Init => ReaderInv
<1> SUFFICES ASSUME Init PROVE ReaderInv
  OBVIOUS
<1>1. (\A c \in Callers : call[c] = NoCall) /\ (\A p \in Prompters : prompt[p] = NoPrompt)
  BY DEF Init
<1>2. Forwarded(prompt) /\ OneDrained(prompt) /\ CallsWait(ses, turn, call)
      /\ PromptsWait(ses, turn, call, prompt)
  BY <1>1 DEF Forwarded, OneDrained, CallsWait, PromptsWait, NoCall, NoPrompt
<1>3. \/ turn = << >>
      \/ turn = << [pc |-> "new", e |-> 1, x |-> 0] >> /\ ses.task = 1
  BY DEF Init
<1>4. \A t \in DOMAIN turn : t = 1 /\ ses.task = 1
  BY <1>3
<1>5. Followed(ses, turn) /\ OneReads(turn)
  BY <1>4 DEF Followed, OneReads
<1> QED
  BY <1>2, <1>5 DEF ReaderInv

LEMMA ReaderStep ==
    ASSUME IInv, ReaderInv, [Next /\ Orderly]_vars, "llm" \notin Env
    PROVE  ReaderInv'
<1>1. Good
  BY NextStep
<1>2. CASE UNCHANGED vars
  BY <1>2 DEF vars, ReaderInv
<1>3. CASE Next /\ Orderly
  <2>1. ASSUME NEW c \in Callers,
               \/ \E op \in {"cancel", "end", "pause", "interrupt"} : CallStart(c, op)
               \/ Resume(c) \/ CallReturns(c)
        PROVE  ReaderInv'
    BY <1>1, <1>3, <2>1, CallStartReads, ResumeReads, CallKilledReads, CallJoinedReads,
       CallDroppedReads, ResumeFinishedReads DEF CallReturns, Stopping
  <2>2. ASSUME NEW t \in DOMAIN turn, TurnStep(t) \/ Ask(t)
        PROVE  ReaderInv'
    BY <1>1, <1>3, <2>2, TurnStepReads
  <2>3. ASSUME NEW p \in Prompters,
               (\E kind \in {"sent", "drained"} : PromptArrive(p, kind)) \/ PromptStep(p)
        PROVE  ReaderInv'
    <3>1. prompt[p].pc \in {"idle", "row", "join"}
      BY DEF ReaderInv, Forwarded
    <3>2. ~ LlmLock(p) /\ ~ LlmTool(p) /\ ~ LlmEnd(p) /\ ~ LlmFails(p)
      BY <3>1 DEF LlmLock, LlmTool, LlmEnd, LlmFails
    <3> QED
      BY <1>1, <1>3, <2>3, <3>2, PromptArriveReads, PromptEndReads, PromptForwardReads,
         PromptJoinedReads DEF PromptStep
  <2> QED
    BY <1>1, <1>3, <2>1, <2>2, <2>3, GateReads DEF Next
<1> QED
  BY <1>2, <1>3

LEMMA ReaderFromInv == ReaderInv => OneReader
BY DEF ReaderInv, OneReads, Reads, OneReader

(* Where calls and prompts that wait for the last stream task do not overlap, *)
(* and without turns of the outer LLM, no two stream tasks read one agent: a  *)
(* busy session queues, and the one prompt a drain forwards stops the task    *)
(* before it (agent_claude_code.py:1624).                                     *)
THEOREM OneReaderAtATime ==
    ASSUME "llm" \notin Env
    PROVE  OrderlySpec => []OneReader
<1>1. IInv /\ ReaderInv /\ [Next /\ Orderly]_vars => IInv' /\ ReaderInv'
  <2>1. ASSUME IInv, ReaderInv, [Next /\ Orderly]_vars
        PROVE  IInv' /\ ReaderInv'
    BY <2>1, ReaderStep, NextStep DEF Good
  <2> QED
    BY <2>1
<1>2. Init => IInv /\ ReaderInv
  BY InitIInv, InitReads
<1> QED
  BY <1>1, <1>2, ReaderFromInv, PTL DEF OrderlySpec

-----------------------------------------------------------------------------
(* A session that nothing works for is not busy.                            *)

(* Without questions no gate is open and no task waits for an answer.       *)
Calm(s) == s.gate = "none" /\ ~ s.saved /\ ~ s.question
NoQuestion(tn) == \A t \in DOMAIN tn : tn[t].pc \notin {"asking", "more"}
Occupied(s) == s.status = "active" /\ s.busy
(* What an occupied session has: a prompt or a call that waits for its stream *)
(* task, or a task that has a result, an exit or an end before it.           *)
PromptAt(pr) == \E p \in Prompters : pr[p].pc = "join"
CallAt(ca) ==
    \E c \in Callers : ca[c].pc \in {"kill", "join"} /\ ca[c].op \in {"cancel", "end", "interrupt"}
TurnAt(tn) == \E t \in DOMAIN tn : tn[t].pc \in {"new", "relay", "ending"}
Worked(tn, ca, pr) == PromptAt(pr) \/ CallAt(ca) \/ TurnAt(tn)
PausesHold(s, ca) ==
    \A c \in Callers : ca[c].op = "pause" /\ ca[c].pc \in {"kill", "join"} => s.status # "active"

IdleInv ==
    /\ Calm(ses) /\ asker = 0 /\ NoQuestion(turn) /\ Forwarded(prompt)
    /\ PausesHold(ses, call)
    /\ Occupied(ses) => Worked(turn, call, prompt)

LEMMA IdleSteps ==
    ASSUME Calm(ses'), asker' = 0, NoQuestion(turn'), Forwarded(prompt'), PausesHold(ses', call'),
           Occupied(ses') => Worked(turn', call', prompt')
    PROVE  IdleInv'
BY DEF IdleInv, Calm, NoQuestion, Forwarded, PausesHold, Occupied, Worked, PromptAt, CallAt, TurnAt

(* The steps of the session object: none makes it active or busy.           *)
Eases(s, r) ==
    /\ Calm(s) => Calm(r)
    /\ r.status = "active" => s.status = "active"
    /\ Occupied(r) => Occupied(s)

LEMMA EaseSteps ==
    ASSUME NEW s \in Session
    PROVE  /\ Eases(s, s) /\ Eases(s, Paused(s)) /\ Eases(s, Completed(s)) /\ Eases(s, Closed(s))
           /\ Eases(s, Ended(s)) /\ Eases(s, Freed(s)) /\ Eases(s, Released(s))
           /\ Eases(s, [s EXCEPT !.busy = FALSE]) /\ ~ Occupied([s EXCEPT !.busy = FALSE])
           /\ ~ Occupied(Paused(s)) /\ Paused(s).status = "paused"
           /\ Completed(s).status # "active"
<1>1. Eases(s, s) /\ Eases(s, Paused(s)) /\ ~ Occupied(Paused(s)) /\ Paused(s).status = "paused"
  BY DEF Eases, Calm, Occupied, Session, Paused
<1>2. Eases(s, Completed(s)) /\ Completed(s).status # "active"
  BY DEF Eases, Calm, Occupied, Session, Completed
<1>3. Eases(s, Closed(s)) /\ Eases(s, Ended(s)) /\ Eases(s, Freed(s))
  BY DEF Eases, Calm, Occupied, Session, Closed, Ended, Freed
<1>4. Eases(s, Released(s))
  BY DEF Eases, Calm, Occupied, Session, Released
<1>5. Eases(s, [s EXCEPT !.busy = FALSE]) /\ ~ Occupied([s EXCEPT !.busy = FALSE])
  BY DEF Eases, Calm, Occupied, Session
<1> QED
  BY <1>1, <1>2, <1>3, <1>4, <1>5

LEMMA EaseTrans ==
    ASSUME NEW s, NEW r, NEW q, Eases(s, r), Eases(r, q)
    PROVE  Eases(s, q)
BY DEF Eases

LEMMA AgentEndedEases ==
    ASSUME NEW s \in Session
    PROVE  Eases(s, AgentEnded(s)) /\ AgentEnded(s).status # "active"
<1> DEFINE r == Freed(s)
<1>1. r \in Session /\ Eases(s, r)
  BY SessionSteps, EaseSteps DEF Keeps
<1> HIDE DEF r
<1>2. CASE r.status = "paused"
  <2>1. AgentEnded(s) = Completed(r)
    BY <1>2 DEF AgentEnded, r
  <2> QED
    BY <1>1, <2>1, EaseSteps, EaseTrans
<1>3. CASE r.status # "paused"
  <2> DEFINE q == Completed(Ended(r))
  <2>1. Ended(r) \in Session /\ Eases(r, Ended(r))
    BY <1>1, SessionSteps, EaseSteps DEF Keeps
  <2>2. q \in Session /\ Eases(Ended(r), q) /\ q.status # "active"
    BY <2>1, SessionSteps, EaseSteps DEF Keeps
  <2>3. AgentEnded(s) = [q EXCEPT !.fired = TRUE]
    BY <1>3 DEF AgentEnded, r
  <2> HIDE DEF q
  <2>4. Eases(q, AgentEnded(s)) /\ AgentEnded(s).status # "active"
    BY <2>2, <2>3 DEF Eases, Calm, Occupied, Session
  <2>5. Eases(s, q)
    BY <1>1, <2>1, <2>2, EaseTrans
  <2> QED
    BY <2>4, <2>5, EaseTrans
<1> QED
  BY <1>2, <1>3

LEMMA FinishedEases ==
    ASSUME NEW s \in Session, NEW op \in Stopping, NEW had \in BOOLEAN
    PROVE  /\ Eases(s, Finished(op, had, s))
           /\ op # "pause" => ~ Occupied(Finished(op, had, s))
<1> DEFINE r == IF had THEN Closed(s) ELSE s
<1>1. Eases(s, r) /\ r \in Session
  BY EaseSteps, SessionSteps DEF Keeps
<1>2. Released(r) \in Session /\ Eases(r, Released(r))
  BY <1>1, EaseSteps, SessionSteps DEF Keeps
<1> HIDE DEF r
<1>3. CASE op = "cancel"
  <2> DEFINE q == Ended(Released(r))
  <2>1. q \in Session /\ Eases(Released(r), q)
    BY <1>2, EaseSteps, SessionSteps DEF Keeps
  <2>2. Finished(op, had, s) = [q EXCEPT !.status = "cancelled", !.busy = FALSE]
    BY <1>3 DEF Finished, r
  <2> HIDE DEF q
  <2>3. Eases(q, Finished(op, had, s)) /\ ~ Occupied(Finished(op, had, s))
    BY <2>1, <2>2 DEF Eases, Calm, Occupied, Session
  <2> QED
    BY <1>1, <1>2, <2>1, <2>3, EaseTrans
<1>4. CASE op = "end"
  <2> DEFINE q == Ended(r)
  <2>1. q \in Session /\ Eases(r, q)
    BY <1>1, EaseSteps, SessionSteps DEF Keeps
  <2>2. Finished(op, had, s) = [q EXCEPT !.status = "completed", !.busy = FALSE]
    BY <1>4 DEF Finished, r
  <2> HIDE DEF q
  <2>3. Eases(q, Finished(op, had, s)) /\ ~ Occupied(Finished(op, had, s))
    BY <2>1, <2>2 DEF Eases, Calm, Occupied, Session
  <2> QED
    BY <1>1, <2>1, <2>3, EaseTrans
<1>5. CASE op = "pause"
  <2>1. Finished(op, had, s) = Released(r)
    BY <1>5 DEF Finished, r
  <2> QED
    BY <1>1, <1>2, <1>5, <2>1, EaseTrans
<1>6. CASE op = "interrupt"
  <2>1. Finished(op, had, s) = [r EXCEPT !.busy = FALSE]
    BY <1>6 DEF Finished, r
  <2> QED
    BY <1>1, <2>1, EaseSteps, EaseTrans
<1> QED
  BY <1>3, <1>4, <1>5, <1>6 DEF Stopping

-----------------------------------------------------------------------------
(* The stream tasks.                                                        *)
LEMMA NoQuestionMoves ==
    ASSUME IInv, NoQuestion(turn), NEW t \in DOMAIN turn
    PROVE  /\ NoQuestion(Gone(t))
           /\ \A x, pc : pc \notin {"asking", "more"} => NoQuestion(Moved(t, pc, x))
           /\ \A x, pc : pc \in {"new", "relay", "ending"} => TurnAt(Moved(t, pc, x))
           /\ \A tn \in Cuts(t) : NoQuestion(tn)
           /\ turn[t].pc \notin {"new", "relay", "ending"} /\ TurnAt(turn) => TurnAt(Gone(t))
<1>1. turn \in [DOMAIN turn -> TurnType]
  BY DEF TurnsOK, IInv
<1>2. NoQuestion(Gone(t))
  BY <1>1 DEF Gone, NoQuestion
<1>3. ASSUME NEW x, NEW pc
      PROVE  /\ DOMAIN Moved(t, pc, x) = DOMAIN turn /\ Moved(t, pc, x)[t].pc = pc
             /\ \A u \in DOMAIN turn : u # t => Moved(t, pc, x)[u].pc = turn[u].pc
  BY <1>1 DEF Moved, TurnType
<1>4. \A x, pc : pc \notin {"asking", "more"} => NoQuestion(Moved(t, pc, x))
  BY <1>3 DEF NoQuestion
<1>5. \A x, pc : pc \in {"new", "relay", "ending"} => TurnAt(Moved(t, pc, x))
  BY <1>3 DEF TurnAt
<1>6. ASSUME NEW tn \in Cuts(t)
      PROVE  NoQuestion(tn)
  <2>1. CASE tn = [turn EXCEPT ![t].pc = "cut"]
    BY <1>1, <2>1 DEF TurnType, NoQuestion
  <2>2. CASE tn # [turn EXCEPT ![t].pc = "cut"]
    BY <1>6, <2>2 DEF Cuts
  <2> QED
    BY <2>1, <2>2
<1>7. ASSUME turn[t].pc \notin {"new", "relay", "ending"}, TurnAt(turn)
      PROVE  TurnAt(Gone(t))
  <2>1. PICK u \in DOMAIN turn : turn[u].pc \in {"new", "relay", "ending"}
    BY <1>7 DEF TurnAt
  <2>2. Gone(t)[u] = turn[u] /\ DOMAIN Gone(t) = DOMAIN turn
    BY <1>1, <1>7, <2>1 DEF Gone
  <2> QED
    BY <2>1, <2>2 DEF TurnAt
<1> QED
  BY <1>2, <1>4, <1>5, <1>6, <1>7

LEMMA CalmWake ==
    ASSUME Calm(ses), NEW released
    PROVE  WokenIf(released, turn) = turn
BY DEF Calm, WokenIf

LEMMA SpawnedTurn ==
    ASSUME IInv, NoQuestion(turn), NEW e
    PROVE  /\ NoQuestion(Append(turn, [pc |-> "new", e |-> e, x |-> 0]))
           /\ TurnAt(Append(turn, [pc |-> "new", e |-> e, x |-> 0]))
<1> DEFINE r == [pc |-> "new", e |-> e, x |-> 0]
           tn == Append(turn, r)
<1>1. turn \in Seq(TurnType) /\ Len(turn) \in Nat /\ DOMAIN turn = 1 .. Len(turn)
  BY DEF IInv, TurnsOK
<1>2. /\ DOMAIN tn = 1 .. Len(turn) + 1 /\ tn[Len(turn) + 1] = r
      /\ \A t \in 1 .. Len(turn) : tn[t] = turn[t]
  BY <1>1
<1>3. r.pc = "new"
  OBVIOUS
<1> HIDE DEF tn, r
<1>4. NoQuestion(tn)
  <2> SUFFICES ASSUME NEW t \in DOMAIN tn
               PROVE  tn[t].pc \notin {"asking", "more"}
    BY DEF NoQuestion
  <2>1. t \in 1 .. Len(turn) \/ t = Len(turn) + 1
    BY <1>1, <1>2
  <2> QED
    BY <1>1, <1>2, <1>3, <2>1 DEF NoQuestion
<1>5. Len(turn) + 1 \in DOMAIN tn
  BY <1>1, <1>2
<1> QED
  BY <1>2, <1>3, <1>4, <1>5 DEF TurnAt, tn, r

-----------------------------------------------------------------------------
(* The lifecycle calls.                                                     *)
LEMMA OtherCalls ==
    ASSUME IInv, NEW c \in Callers, NEW k, call' = [call EXCEPT ![c] = k]
    PROVE  call'[c] = k /\ \A d \in Callers : d # c => call'[d] = call[d]
BY DEF IInv, CallsOK

LEMMA TornFrees ==
    ASSUME IInv, IdleInv, NEW c \in Callers, NEW op \in Stopping, NEW had \in BOOLEAN,
           NEW s \in Session, Eases(ses, s), op = "pause" => s.status # "active",
           Torn(c, op, had, s), asker' = 0, prompt' = prompt
    PROVE  IdleInv'
<1>1. Calm(ses) /\ NoQuestion(turn) /\ Forwarded(prompt) /\ PausesHold(ses, call)
  BY DEF IdleInv
<1>2. CASE Alive(s.task)
  <2> DEFINE k == At(op, "join", 0, s.task, had)
  <2>1. turn' \in Cuts(s.task) /\ ses' = s /\ s.task \in DOMAIN turn
        /\ call' = [call EXCEPT ![c] = k]
    BY <1>2 DEF Torn, Alive
  <2>2. k.op = op /\ k.pc = "join"
    BY DEF At
  <2> HIDE DEF k
  <2>3. call'[c] = k /\ \A d \in Callers : d # c => call'[d] = call[d]
    BY <2>1, OtherCalls
  <2>4. PausesHold(ses', call')
    BY <1>1, <2>1, <2>2, <2>3 DEF PausesHold, Eases
  <2>5. Occupied(ses') => CallAt(call')
    BY <2>1, <2>2, <2>3 DEF Occupied, CallAt, Stopping
  <2>6. NoQuestion(turn') /\ Calm(ses')
    BY <1>1, <2>1, NoQuestionMoves DEF Eases
  <2> QED
    BY <1>1, <2>4, <2>5, <2>6, IdleSteps DEF Worked
<1>3. CASE ~ Alive(s.task)
  <2> DEFINE r == [s EXCEPT !.task = 0]
             k == At(op, After(op), 0, 0, had)
  <2>1. /\ ses' = Finished(op, had, r) /\ turn' = WokenIf(op \in {"cancel", "pause"}, turn)
        /\ call' = [call EXCEPT ![c] = k]
    BY <1>3 DEF Torn
  <2>2. r \in Session /\ Eases(s, r)
    BY Bounds DEF Session, Eases, Calm, Occupied
  <2>3. k.pc \notin {"kill", "join"}
    BY DEF At, After, NoCall
  <2> HIDE DEF r, k
  <2>4. Eases(ses, ses') /\ (op # "pause" => ~ Occupied(ses'))
    BY <2>1, <2>2, FinishedEases, EaseTrans
  <2>5. Eases(s, ses')
    BY <2>1, <2>2, FinishedEases, EaseTrans
  <2>6. ~ Occupied(ses')
    BY <2>4, <2>5 DEF Eases, Occupied
  <2>7. call'[c] = k /\ \A d \in Callers : d # c => call'[d] = call[d]
    BY <2>1, OtherCalls
  <2>8. PausesHold(ses', call')
    BY <1>1, <2>3, <2>4, <2>7 DEF PausesHold, Eases
  <2>9. turn' = turn /\ Calm(ses')
    BY <1>1, <2>1, <2>4, CalmWake DEF Eases
  <2> QED
    BY <1>1, <2>6, <2>8, <2>9, IdleSteps
<1> QED
  BY <1>2, <1>3

LEMMA CallStartFrees ==
    ASSUME IInv, IdleInv, NEW c \in Callers, NEW op \in Stopping, CallStart(c, op)
    PROVE  IdleInv'
<1>1. /\ Calm(ses) /\ asker = 0 /\ NoQuestion(turn) /\ Forwarded(prompt) /\ PausesHold(ses, call)
      /\ asker' = asker /\ prompt' = prompt
  BY DEF IdleInv, CallStart
<1>2. Marked(op) \in Session /\ Eases(ses, Marked(op))
      /\ (op = "pause" => Marked(op).status # "active")
  <2>1. ses \in Session /\ Paused(ses) \in Session
    <3>1. ses.status \notin Terminal
      BY DEF CallStart, Allowed, Terminal, Stopping
    <3> QED
      BY <3>1, SessionSteps DEF IInv
  <2> QED
    BY <2>1, EaseSteps DEF Marked
<1>3. PICK waits \in Waits(ses.exec) :
         IF waits
         THEN /\ ses' = Marked(op)
              /\ call' = [call EXCEPT ![c] = At(op, "kill", ses.exec, 0, TRUE)]
              /\ UNCHANGED turn
         ELSE Torn(c, op, ses.exec # 0, [Marked(op) EXCEPT !.exec = 0])
  BY DEF CallStart
<1>4. CASE waits
  <2> DEFINE k == At(op, "kill", ses.exec, 0, TRUE)
  <2>1. ses' = Marked(op) /\ turn' = turn /\ call' = [call EXCEPT ![c] = k]
    BY <1>3, <1>4
  <2>2. k.op = op /\ k.pc = "kill"
    BY DEF At
  <2> HIDE DEF k
  <2>3. call'[c] = k /\ \A d \in Callers : d # c => call'[d] = call[d]
    BY <2>1, OtherCalls
  <2>4. PausesHold(ses', call')
    BY <1>1, <1>2, <2>1, <2>2, <2>3 DEF PausesHold, Eases
  <2>5. Occupied(ses') => CallAt(call')
    BY <1>2, <2>1, <2>2, <2>3 DEF Occupied, CallAt, Stopping
  <2> QED
    BY <1>1, <1>2, <2>1, <2>4, <2>5, IdleSteps DEF Worked, Eases
<1>5. CASE ~ waits
  <2> DEFINE s == [Marked(op) EXCEPT !.exec = 0]
  <2>1. s \in Session /\ Eases(Marked(op), s) /\ s.status = Marked(op).status
    BY <1>2, Bounds DEF Session, Eases, Calm, Occupied
  <2>2. Torn(c, op, ses.exec # 0, s)
    BY <1>3, <1>5
  <2> HIDE DEF s
  <2>3. Eases(ses, s) /\ (op = "pause" => s.status # "active")
    BY <1>2, <2>1, EaseTrans
  <2> QED
    BY <1>1, <2>1, <2>2, <2>3, TornFrees
<1> QED
  BY <1>4, <1>5

LEMMA CallKilledFrees ==
    ASSUME IInv, IdleInv, NEW c \in Callers, CallKilled(c)
    PROVE  IdleInv'
<1>1. call[c].op \in Stopping /\ prompt' = prompt /\ call[c].pc = "kill"
  BY DEF CallKilled, IInv, CallsOK, CallOK, CallType
<1> DEFINE s == [ses EXCEPT !.exec = 0]
<1>2. s \in Session /\ s.status = ses.status /\ Eases(ses, s)
  BY Bounds DEF IInv, Session, Eases, Calm, Occupied
<1>3. Torn(c, call[c].op, TRUE, s) /\ asker' = 0
  BY DEF CallKilled, Orphaned, IdleInv
<1> HIDE DEF s
<1>4. call[c].op = "pause" => s.status # "active"
  BY <1>1, <1>2 DEF IdleInv, PausesHold
<1> QED
  BY <1>1, <1>2, <1>3, <1>4, TornFrees

LEMMA CallJoinedFrees ==
    ASSUME IInv, IdleInv, NEW c \in Callers, CallJoined(c)
    PROVE  IdleInv'
<1>1. /\ call[c].op \in Stopping /\ call[c].had \in BOOLEAN /\ call[c].pc = "join"
      /\ prompt' = prompt /\ asker' = asker
  BY DEF CallJoined, IInv, CallsOK, CallOK, CallType
<1> DEFINE s == [ses EXCEPT !.task = 0]
           k == At(call[c].op, After(call[c].op), 0, 0, TRUE)
<1>2. s \in Session /\ s.status = ses.status /\ Eases(ses, s)
  BY Bounds DEF IInv, Session, Eases, Calm, Occupied
<1>3. ses' = Finished(call[c].op, call[c].had, s)
      /\ turn' = WokenIf(call[c].op \in {"cancel", "pause"}, turn)
      /\ call' = [call EXCEPT ![c] = k]
  BY DEF CallJoined
<1>4. k.pc \notin {"kill", "join"}
  BY DEF At, After, NoCall
<1> HIDE DEF s, k
<1>5. Eases(s, ses') /\ (call[c].op # "pause" => ~ Occupied(ses'))
  BY <1>1, <1>2, <1>3, FinishedEases
<1>6. Eases(ses, ses')
  BY <1>2, <1>5, EaseTrans
<1>7. ~ Occupied(ses')
  BY <1>1, <1>2, <1>5 DEF Eases, Occupied, IdleInv, PausesHold
<1>8. call'[c] = k /\ \A d \in Callers : d # c => call'[d] = call[d]
  BY <1>3, OtherCalls
<1>9. PausesHold(ses', call')
  BY <1>4, <1>6, <1>8 DEF PausesHold, Eases, IdleInv
<1>10. turn' = turn /\ Calm(ses')
  BY <1>3, <1>6, CalmWake DEF Eases, IdleInv
<1> QED
  BY <1>1, <1>7, <1>9, <1>10, IdleSteps DEF IdleInv

LEMMA CallBackFrees ==
    ASSUME IInv, IdleInv, NEW c \in Callers, CallDropped(c) \/ ResumeFinished(c)
    PROVE  IdleInv'
<1>1. call' = [call EXCEPT ![c] = NoCall] /\ turn' = turn /\ prompt' = prompt
      /\ call[c].pc \notin {"kill", "join"} /\ ses \in Session
  BY DEF CallDropped, ResumeFinished, IInv
<1>2. asker' = 0
  BY DEF CallDropped, ResumeFinished, IdleInv, Orphaned
<1>3. Eases(ses, ses')
  <2>1. CASE CallDropped(c)
    BY <1>1, <2>1 DEF CallDropped, Eases, Calm, Occupied, Session
  <2>2. CASE ResumeFinished(c)
    BY <1>1, <2>2, AgentEndedEases DEF ResumeFinished
  <2> QED
    BY <2>1, <2>2
<1>4. call'[c] = NoCall /\ \A d \in Callers : d # c => call'[d] = call[d]
  BY <1>1, OtherCalls
<1>5. PausesHold(ses', call')
  BY <1>3, <1>4 DEF PausesHold, Eases, IdleInv, NoCall
<1>6. CallAt(call) => CallAt(call')
  BY <1>1, <1>4 DEF CallAt
<1> QED
  BY <1>1, <1>2, <1>3, <1>5, <1>6, IdleSteps DEF IdleInv, Eases, Worked

LEMMA ResumeFrees ==
    ASSUME IInv, IdleInv, PauseFirst, NEW c \in Callers, Resume(c)
    PROVE  IdleInv'
<1> DEFINE q == Released(ses)
           s == Resumed(q)
<1>1. /\ Calm(ses) /\ asker = 0 /\ NoQuestion(turn) /\ Forwarded(prompt) /\ PausesHold(ses, call)
      /\ asker' = 0 /\ prompt' = prompt /\ ses.status = "paused" /\ ses \in Session
      /\ turn' = WokenIf(TRUE, turn)
  BY DEF IdleInv, Resume, IInv
<1>2. q \in Session /\ Calm(q)
  BY <1>1, SessionSteps, EaseSteps DEF Keeps, Eases
<1> HIDE DEF q
<1>3. s \in Session /\ Calm(s) /\ ~ s.busy
  BY <1>2 DEF Resumed, Session, Calm, Statuses, Terminal
<1>4. /\ Calm(ses') /\ ~ Occupied(ses')
      /\ call' = call \/ \E k : k.op = "resume" /\ call' = [call EXCEPT ![c] = k]
  <2>1. CASE s.later
    <3> DEFINE r == [s EXCEPT !.later = FALSE]
               k == At("resume", "finish", s.exec, 0, TRUE)
    <3>1. r \in Session /\ Calm(r) /\ ~ Occupied(r)
      BY <1>3 DEF Session, Calm, Occupied
    <3>2. \/ ses' = r /\ call' = [call EXCEPT ![c] = k]
          \/ ses' = AgentEnded(r) /\ call' = call
      BY <2>1 DEF Resume, q
    <3>3. k.op = "resume"
      BY DEF At
    <3> HIDE DEF r, k, s
    <3>4. Calm(AgentEnded(r)) /\ ~ Occupied(AgentEnded(r))
      BY <3>1, AgentEndedEases DEF Eases
    <3> QED
      BY <3>1, <3>2, <3>3, <3>4
  <2>2. CASE ~ s.later
    <3>1. /\ ses' = IF Rebuilds(s) THEN [s EXCEPT !.exec = made + 1] ELSE s
          /\ call' = call
      BY <2>2 DEF Resume, q
    <3> HIDE DEF s
    <3> QED
      BY <1>3, <3>1 DEF Session, Calm, Occupied
  <2> QED
    BY <2>1, <2>2
<1>5. PausesHold(ses', call')
  <2> SUFFICES ASSUME NEW d \in Callers, call'[d].op = "pause", call'[d].pc \in {"kill", "join"},
                      ses'.status = "active"
               PROVE  FALSE
    BY DEF PausesHold
  <2>1. call'[d] = call[d]
    <3>1. CASE call' = call
      BY <3>1
    <3>2. CASE call' # call
      <4>1. PICK k : k.op = "resume" /\ call' = [call EXCEPT ![c] = k]
        BY <1>4, <3>2
      <4>2. d # c
        BY <4>1, OtherCalls
      <4> QED
        BY <4>1, <4>2, OtherCalls
    <3> QED
      BY <3>1, <3>2
  <2> QED
    BY <1>1, <2>1 DEF PauseFirst
<1>6. turn' = turn
  BY <1>1, CalmWake
<1> QED
  BY <1>1, <1>4, <1>5, <1>6, IdleSteps

-----------------------------------------------------------------------------
(* The stream task of a turn.                                               *)
LEMMA TurnFrees ==
    ASSUME IInv, IdleInv, Calm(ses'), ses'.status = "active" => ses.status = "active",
           NoQuestion(turn'), asker' = 0, UNCHANGED <<call, prompt>>,
           ~ Occupied(ses') \/ TurnAt(turn') \/ (Eases(ses, ses') /\ (TurnAt(turn) => TurnAt(turn')))
    PROVE  IdleInv'
<1>1. PausesHold(ses', call')
  BY DEF PausesHold, IdleInv
<1>2. Occupied(ses') => Worked(turn', call', prompt')
  BY DEF Worked, IdleInv, Eases
<1> QED
  BY <1>1, <1>2, IdleSteps DEF IdleInv

LEMMA LeaveFrees ==
    ASSUME IInv, IdleInv, NEW t \in DOMAIN turn, NEW why \in LeftAs, NEW x, NEW s \in Session,
           Eases(ses, s), Leave(t, why, x, s), why = "ending" \/ ~ Occupied(s),
           asker' = asker, UNCHANGED <<call, prompt>>
    PROVE  IdleInv'
<1>1. PICK waits \in Waits(x) :
         IF waits THEN ses' = s /\ turn' = Moved(t, why, x)
         ELSE ses' = Left(why, s) /\ turn' = Gone(t)
  BY DEF Leave
<1>2. Calm(ses) /\ NoQuestion(turn) /\ asker' = 0
  BY DEF IdleInv
<1>3. CASE waits
  <2>1. ses' = s /\ turn' = Moved(t, why, x)
    BY <1>1, <1>3
  <2>2. NoQuestion(turn') /\ (why = "ending" => TurnAt(turn'))
    BY <1>2, <2>1, NoQuestionMoves DEF LeftAs
  <2> QED
    BY <1>2, <2>1, <2>2, TurnFrees DEF Eases
<1>4. CASE ~ waits
  <2>1. ses' = Left(why, s) /\ turn' = Gone(t)
    BY <1>1, <1>4
  <2>2. Eases(s, ses') /\ ~ Occupied(ses')
    BY <2>1, EaseSteps, AgentEndedEases DEF Left, LeftAs, Occupied, Eases
  <2>3. Eases(ses, ses')
    BY <2>2, EaseTrans
  <2>4. NoQuestion(turn')
    BY <1>2, <2>1, NoQuestionMoves
  <2> QED
    BY <1>2, <2>2, <2>3, <2>4, TurnFrees DEF Eases
<1> QED
  BY <1>3, <1>4

LEMMA RelayOverFrees ==
    ASSUME IInv, IdleInv, NEW t \in DOMAIN turn, NEW s \in Session, Eases(ses, s), ~ Occupied(s),
           RelayOver(t, s), asker' = asker, UNCHANGED <<call, prompt>>
    PROVE  IdleInv'
<1>1. CASE s.status = "paused"
  <2>1. Leave(t, "stopping", s.exec, s)
    BY <1>1 DEF RelayOver
  <2> QED
    BY <2>1, LeaveFrees DEF LeftAs
<1>2. CASE s.status # "paused"
  <2>1. ses' = Closed(s) /\ turn' = Moved(t, "lingering", 0)
    BY <1>2 DEF RelayOver
  <2>2. Eases(s, ses') /\ Eases(ses, ses')
    BY <2>1, EaseSteps, EaseTrans
  <2>3. NoQuestion(turn')
    BY <2>1, NoQuestionMoves DEF IdleInv
  <2> QED
    BY <2>2, <2>3, TurnFrees DEF IdleInv, Eases
<1> QED
  BY <1>1, <1>2

LEMMA RaisedFrees ==
    ASSUME IInv, IdleInv, NEW t \in DOMAIN turn, NEW s \in Session, Eases(ses, s), Raised(t, s),
           asker' = asker, UNCHANGED <<call, prompt>>
    PROVE  IdleInv'
<1>1. Closed(s) \in Session /\ Eases(ses, Closed(s))
  BY SessionSteps, EaseSteps, EaseTrans DEF Keeps
<1>2. Leave(t, "ending", s.exec, Closed(s))
  BY DEF Raised
<1> QED
  BY <1>1, <1>2, LeaveFrees DEF LeftAs

LEMMA TurnResultFrees ==
    ASSUME IInv, IdleInv, NEW t \in DOMAIN turn, TurnResult(t)
    PROVE  IdleInv'
<1> DEFINE s == [ses EXCEPT !.busy = FALSE]
<1>1. s \in Session /\ Eases(ses, s) /\ ~ Occupied(s) /\ Calm(s)
  BY EaseSteps DEF IInv, IdleInv, Session, Eases
<1>2. \/ ses' = s /\ turn' = Gone(t)
      \/ s.question
      \/ RelayOver(t, s)
  BY DEF TurnResult
<1>3. asker' = asker /\ UNCHANGED <<call, prompt>>
  BY DEF TurnResult
<1> HIDE DEF s
<1>4. CASE RelayOver(t, s)
  BY <1>1, <1>3, <1>4, RelayOverFrees
<1>5. CASE ~ RelayOver(t, s)
  <2>1. ses' = s /\ turn' = Gone(t)
    BY <1>1, <1>2, <1>5 DEF Calm
  <2>2. NoQuestion(turn') /\ asker' = 0
    BY <1>3, <2>1, NoQuestionMoves DEF IdleInv
  <2> QED
    BY <1>1, <1>3, <2>1, <2>2, TurnFrees DEF Eases
<1> QED
  BY <1>4, <1>5

LEMMA TurnMaxTurnsFrees ==
    ASSUME IInv, IdleInv, NEW t \in DOMAIN turn, TurnMaxTurns(t)
    PROVE  IdleInv'
<1> DEFINE r == [ses EXCEPT !.busy = FALSE]
           s == Closed(r)
<1>1. r \in Session /\ Eases(ses, r)
  BY EaseSteps DEF IInv, Session
<1>2. /\ IF s.status = "active" THEN RelayOver(t, Paused(s)) ELSE Raised(t, s)
      /\ asker' = asker /\ UNCHANGED <<call, prompt>>
  BY DEF TurnMaxTurns
<1> HIDE DEF r
<1>3. s \in Session /\ Eases(ses, s)
  BY <1>1, SessionSteps, EaseSteps, EaseTrans DEF Keeps
<1> HIDE DEF s
<1>4. CASE s.status = "active"
  <2>1. Paused(s) \in Session /\ Eases(ses, Paused(s)) /\ ~ Occupied(Paused(s))
    BY <1>3, <1>4, SessionSteps, EaseSteps, EaseTrans DEF Terminal
  <2> QED
    BY <1>2, <1>4, <2>1, RelayOverFrees
<1>5. CASE s.status # "active"
  BY <1>2, <1>3, <1>5, RaisedFrees
<1> QED
  BY <1>4, <1>5

LEMMA TurnExitFrees ==
    ASSUME IInv, IdleInv, NEW t \in DOMAIN turn, TurnExit(t)
    PROVE  IdleInv'
<1>1. ses \in Session /\ asker' = asker /\ UNCHANGED <<call, prompt>>
  BY DEF TurnExit, IInv
<1>2. CASE ses.status \in Terminal
  <2>1. turn' = Gone(t) /\ ses' = ses
    BY <1>2 DEF TurnExit, Terminal
  <2>2. ~ Occupied(ses')
    BY <1>2, <2>1 DEF Occupied, Terminal
  <2>3. NoQuestion(turn')
    BY <2>1, NoQuestionMoves DEF IdleInv
  <2> QED
    BY <1>1, <2>1, <2>2, <2>3, TurnFrees DEF IdleInv
<1>3. CASE ses.status = "active"
  <2> DEFINE r == [ses EXCEPT !.busy = FALSE]
             s == Closed(r)
  <2>1. r \in Session /\ Eases(ses, r) /\ ~ Occupied(r)
    BY <1>1, EaseSteps DEF Session
  <2>2. Leave(t, "exiting", turn[t].e, s)
    BY <1>3 DEF TurnExit, Terminal
  <2> HIDE DEF r
  <2>3. s \in Session /\ Eases(ses, s) /\ ~ Occupied(s)
    <3>1. s \in Session /\ Eases(r, s)
      BY <2>1, SessionSteps, EaseSteps DEF Keeps
    <3> HIDE DEF s
    <3> QED
      BY <2>1, <3>1, EaseTrans DEF Eases
  <2> HIDE DEF s
  <2> QED
    BY <1>1, <2>2, <2>3, LeaveFrees DEF LeftAs
<1>4. CASE ses.status = "paused"
  <2>1. Leave(t, "stopping", ses.exec, ses) /\ ~ Occupied(ses)
    BY <1>4 DEF TurnExit, Terminal, Occupied
  <2> QED
    BY <1>1, <2>1, EaseSteps, LeaveFrees DEF LeftAs
<1> QED
  BY <1>1, <1>2, <1>3, <1>4 DEF Session, Statuses

LEMMA TurnStepFrees ==
    ASSUME IInv, IdleInv, "ask" \notin Env, NEW t \in DOMAIN turn, TurnStep(t) \/ Ask(t)
    PROVE  IdleInv'
<1>0. /\ Calm(ses) /\ asker = 0 /\ NoQuestion(turn) /\ ses \in Session /\ Eases(ses, ses)
      /\ turn[t].pc \notin {"asking", "more"}
  BY EaseSteps DEF IdleInv, IInv, NoQuestion
<1>1. CASE TurnStart(t)
  <2>1. ses' = ses /\ turn' = Moved(t, "relay", 0) /\ asker' = 0 /\ UNCHANGED <<call, prompt>>
    BY <1>0, <1>1 DEF TurnStart
  <2>2. NoQuestion(turn') /\ TurnAt(turn')
    BY <1>0, <2>1, NoQuestionMoves
  <2> QED
    BY <1>0, <2>1, <2>2, TurnFrees
<1>2. CASE TurnFails(t)
  BY <1>0, <1>2, RaisedFrees DEF TurnFails
<1>3. CASE TurnStopped(t)
  <2>1. /\ turn[t].pc \in LeftAs /\ UNCHANGED <<call, prompt>>
        /\ ses' = Left(turn[t].pc, ses) /\ turn' = Gone(t)
    BY <1>3 DEF TurnStopped, LeftAs
  <2>2. asker' = 0
    BY <1>0, <1>3 DEF TurnStopped, Orphaned
  <2>3. Eases(ses, ses') /\ (turn[t].pc = "ending" => ~ Occupied(ses'))
    BY <1>0, <2>1, EaseSteps, AgentEndedEases DEF Left, LeftAs, Occupied
  <2>4. NoQuestion(turn') /\ (turn[t].pc # "ending" /\ TurnAt(turn) => TurnAt(turn'))
    BY <1>0, <2>1, NoQuestionMoves DEF LeftAs
  <2> QED
    BY <1>0, <2>1, <2>2, <2>3, <2>4, TurnFrees DEF Eases
<1>4. CASE TurnOver(t)
  <2>1. ses' = ses /\ turn' = Gone(t) /\ asker' = 0 /\ UNCHANGED <<call, prompt>>
        /\ turn[t].pc \in {"lingering", "cut"}
    BY <1>0, <1>4 DEF TurnOver
  <2>2. NoQuestion(turn') /\ (TurnAt(turn) => TurnAt(turn'))
    BY <1>0, <2>1, NoQuestionMoves
  <2> QED
    BY <1>0, <2>1, <2>2, TurnFrees
<1>5. ~ Ask(t) /\ ~ TurnMore(t) /\ ~ TurnGivesUp(t)
  BY <1>0 DEF Ask, TurnMore, TurnGivesUp
<1> QED
  BY <1>1, <1>2, <1>3, <1>4, <1>5, TurnResultFrees, TurnMaxTurnsFrees, TurnExitFrees DEF TurnStep

-----------------------------------------------------------------------------
(* The prompts.                                                             *)
LEMMA PromptFrees ==
    ASSUME IInv, IdleInv, Calm(ses'), ses'.status = "active" => ses.status = "active",
           NoQuestion(turn'), Forwarded(prompt'), UNCHANGED <<asker, call>>,
           \/ ~ Occupied(ses') \/ TurnAt(turn') \/ PromptAt(prompt')
           \/ ses' = ses /\ turn' = turn /\ (PromptAt(prompt) => PromptAt(prompt'))
    PROVE  IdleInv'
<1>1. PausesHold(ses', call')
  BY DEF PausesHold, IdleInv
<1>2. Occupied(ses') => Worked(turn', call', prompt')
  BY DEF Worked, IdleInv
<1> QED
  BY <1>1, <1>2, IdleSteps DEF IdleInv

LEMMA PromptStepFrees ==
    ASSUME IInv, IdleInv, "llm" \notin Env, NEW p \in Prompters,
           (\E kind \in {"sent", "drained"} : PromptArrive(p, kind)) \/ PromptStep(p)
    PROVE  IdleInv'
<1>0. /\ Calm(ses) /\ NoQuestion(turn) /\ Forwarded(prompt) /\ ses \in Session
      /\ prompt[p].pc \in {"idle", "row", "join"}
  BY DEF IdleInv, IInv, Forwarded
<1>1. ASSUME NEW kind \in {"sent", "drained"}, PromptArrive(p, kind)
      PROVE  IdleInv'
  <2> DEFINE k == [NoPrompt EXCEPT !.pc = "row", !.kind = kind]
  <2>1. /\ prompt' = [prompt EXCEPT ![p] = k] /\ prompt[p].pc = "idle"
        /\ UNCHANGED <<ses, turn, asker, call>>
    BY <1>1 DEF PromptArrive, NoPrompt
  <2>2. k.pc = "row"
    BY DEF NoPrompt
  <2> HIDE DEF k
  <2>3. prompt'[p] = k /\ \A q \in Prompters : q # p => prompt'[q] = prompt[q]
    BY <2>1, OtherPrompts
  <2>4. Forwarded(prompt') /\ (PromptAt(prompt) => PromptAt(prompt'))
    BY <1>0, <2>1, <2>2, <2>3 DEF Forwarded, PromptAt
  <2> QED
    BY <1>0, <2>1, <2>4, PromptFrees
<1>2. CASE PromptQueued(p) \/ PromptToLlm(p)
  <2>1. prompt' = [prompt EXCEPT ![p] = NoPrompt] /\ prompt[p].pc = "row"
        /\ UNCHANGED <<turn, asker, call>>
    BY <1>2 DEF PromptQueued, PromptToLlm
  <2>2. \/ ses' = ses
        \/ ses' = [ses EXCEPT !.status = "failed", !.busy = FALSE]
    BY <1>2 DEF PromptQueued, PromptToLlm
  <2>3. prompt'[p] = NoPrompt /\ \A q \in Prompters : q # p => prompt'[q] = prompt[q]
    BY <2>1, OtherPrompts
  <2>4. Forwarded(prompt') /\ (PromptAt(prompt) => PromptAt(prompt'))
    BY <1>0, <2>1, <2>3 DEF Forwarded, PromptAt, NoPrompt
  <2>5. CASE ses' = ses
    BY <1>0, <2>1, <2>4, <2>5, PromptFrees
  <2>6. CASE ses' # ses
    <3>1. Calm(ses') /\ ses'.status = "failed"
      BY <1>0, <2>2, <2>6 DEF Calm, Session
    <3> QED
      BY <1>0, <2>1, <2>4, <3>1, PromptFrees DEF Occupied
  <2> QED
    BY <2>5, <2>6
<1>3. CASE PromptForward(p)
  <2> DEFINE r == [ses EXCEPT !.busy = TRUE]
             s == Opened(r)
  <2>1. /\ UNCHANGED <<asker, call>>
        /\ IF Alive(s.task)
           THEN /\ turn' \in Cuts(s.task)
                /\ ses' = s
                /\ prompt' = [prompt EXCEPT ![p].pc = "join", ![p].x = s.exec, ![p].t = s.task]
           ELSE Spawned(p, s.exec, s)
    BY <1>3 DEF PromptForward
  <2>2. r \in Session /\ Calm(r) /\ r.status = ses.status
    BY <1>0 DEF Session, Calm
  <2> HIDE DEF r
  <2>3. s \in Session /\ Calm(s) /\ s.status = ses.status
    BY <2>2 DEF Session, Calm, Opened
  <2> HIDE DEF s
  <2>4. CASE Alive(s.task)
    <3> DEFINE k == [prompt[p] EXCEPT !.pc = "join", !.x = s.exec, !.t = s.task]
    <3>1. turn' \in Cuts(s.task) /\ ses' = s /\ s.task \in DOMAIN turn
      BY <2>1, <2>4 DEF Alive
    <3>2. prompt' = [prompt EXCEPT ![p] = k]
      BY <2>1, <2>4 DEF IInv, PromptsOK, PromptType
    <3>3. k.pc = "join"
      BY DEF IInv, PromptsOK, PromptType
    <3> HIDE DEF k
    <3>4. prompt'[p] = k /\ \A q \in Prompters : q # p => prompt'[q] = prompt[q]
      BY <3>2, OtherPrompts
    <3>5. Forwarded(prompt') /\ PromptAt(prompt')
      BY <1>0, <3>3, <3>4 DEF Forwarded, PromptAt
    <3>6. NoQuestion(turn')
      BY <1>0, <3>1, NoQuestionMoves
    <3> QED
      BY <2>1, <2>3, <3>1, <3>5, <3>6, PromptFrees
  <2>5. CASE ~ Alive(s.task)
    <3>1. /\ turn' = Append(turn, [pc |-> "new", e |-> s.exec, x |-> 0])
          /\ ses' = [s EXCEPT !.task = Len(turn) + 1]
          /\ prompt' = [prompt EXCEPT ![p] = NoPrompt]
      BY <2>1, <2>5 DEF Spawned
    <3>2. Calm(ses') /\ ses'.status = ses.status
      BY <2>3, <3>1 DEF Session, Calm
    <3>3. NoQuestion(turn') /\ TurnAt(turn')
      BY <1>0, <3>1, SpawnedTurn
    <3>4. Forwarded(prompt')
      BY <1>0, <3>1, OtherPrompts DEF Forwarded, NoPrompt
    <3> QED
      BY <2>1, <3>2, <3>3, <3>4, PromptFrees
  <2> QED
    BY <2>4, <2>5
<1>4. CASE PromptJoined(p)
  <2>1. /\ turn' = Append(turn, [pc |-> "new", e |-> prompt[p].x, x |-> 0])
        /\ ses' = [ses EXCEPT !.task = Len(turn) + 1]
        /\ prompt' = [prompt EXCEPT ![p] = NoPrompt]
        /\ UNCHANGED <<asker, call>>
    BY <1>4 DEF PromptJoined, Spawned
  <2>2. Calm(ses') /\ ses'.status = ses.status
    BY <1>0, <2>1 DEF Session, Calm
  <2>3. NoQuestion(turn') /\ TurnAt(turn')
    BY <1>0, <2>1, SpawnedTurn
  <2>4. Forwarded(prompt')
    BY <1>0, <2>1, OtherPrompts DEF Forwarded, NoPrompt
  <2> QED
    BY <2>1, <2>2, <2>3, <2>4, PromptFrees
<1>5. ~ LlmLock(p) /\ ~ LlmTool(p) /\ ~ LlmEnd(p) /\ ~ LlmFails(p)
  BY <1>0 DEF LlmLock, LlmTool, LlmEnd, LlmFails
<1> QED
  BY <1>1, <1>2, <1>3, <1>4, <1>5 DEF PromptStep

-----------------------------------------------------------------------------
LEMMA InitIdle ==
    ASSUME Init, "llm" \notin Env
    PROVE  IdleInv
<1>1. /\ Calm(ses) /\ asker = 0 /\ turn = << [pc |-> "new", e |-> 1, x |-> 0] >>
      /\ \A c \in Callers : call[c] = NoCall
      /\ \A p \in Prompters : prompt[p] = NoPrompt
  BY DEF Init, Calm
<1>2. DOMAIN turn = {1} /\ turn[1].pc = "new"
  BY <1>1
<1>3. NoQuestion(turn) /\ TurnAt(turn)
  BY <1>2 DEF NoQuestion, TurnAt
<1>4. Forwarded(prompt) /\ PausesHold(ses, call)
  BY <1>1 DEF Forwarded, PausesHold, NoPrompt, NoCall
<1> QED
  BY <1>1, <1>3, <1>4 DEF IdleInv, Worked

LEMMA IdleStep ==
    ASSUME IInv, IdleInv, [Next /\ PauseFirst]_vars, "ask" \notin Env, "llm" \notin Env
    PROVE  IdleInv'
<1>1. CASE UNCHANGED vars
  <2>1. UNCHANGED <<ses, turn, asker, call, prompt>>
    BY <1>1 DEF vars
  <2> QED
    BY <2>1, IdleSteps DEF IdleInv
<1>2. CASE Next /\ PauseFirst
  <2>1. ASSUME NEW c \in Callers,
               \/ \E op \in {"cancel", "end", "pause", "interrupt"} : CallStart(c, op)
               \/ Resume(c) \/ CallReturns(c)
        PROVE  IdleInv'
    BY <1>2, <2>1, CallStartFrees, ResumeFrees, CallKilledFrees, CallJoinedFrees, CallBackFrees
       DEF CallReturns, Stopping
  <2>2. ASSUME NEW t \in DOMAIN turn, TurnStep(t) \/ Ask(t)
        PROVE  IdleInv'
    BY <2>2, TurnStepFrees
  <2>3. ASSUME NEW p \in Prompters,
               (\E kind \in {"sent", "drained"} : PromptArrive(p, kind)) \/ PromptStep(p)
        PROVE  IdleInv'
    BY <2>3, PromptStepFrees
  <2>4. ~ Answer /\ ~ GateWakes /\ ~ GateTimeout
    BY DEF IdleInv, Calm, Answer, GateWakes, GateTimeout
  <2> QED
    BY <1>2, <2>1, <2>2, <2>3, <2>4 DEF Next
<1> QED
  BY <1>1, <1>2

LEMMA IdleFromInv ==
    ASSUME IInv, IdleInv
    PROVE  IdleIsFree
<1> SUFFICES ASSUME Resting, ses.status = "active"
             PROVE  ~ Busy
  BY DEF IdleIsFree
<1>1. /\ \A t \in DOMAIN turn : turn[t].pc = "done"
      /\ \A c \in Callers : call[c] = NoCall
      /\ \A p \in Prompters : prompt[p].pc = "idle"
  BY DEF Resting, IdleInv, NoQuestion
<1>2. ~ Worked(turn, call, prompt)
  BY <1>1 DEF Worked, PromptAt, CallAt, TurnAt, NoCall
<1>3. ~ ses.busy
  BY <1>2 DEF IdleInv, Occupied
<1> QED
  BY <1>1, <1>3 DEF Busy, Alive, LlmHeld

(* A session that nothing works for takes prompts: whatever stopped its turn  *)
(* (a call, an exit, a failure, the limit) cleared the activity, for any       *)
(* callers, as long as no question is asked, no turn of the outer LLM runs,    *)
(* and a pause has returned before the session is resumed (session.py:435).    *)
THEOREM IdleSessionIsFree ==
    ASSUME "ask" \notin Env, "llm" \notin Env
    PROVE  Init /\ [][Next /\ PauseFirst]_vars => []IdleIsFree
<1>1. IInv /\ IdleInv /\ [Next /\ PauseFirst]_vars => IInv' /\ IdleInv'
  <2>1. ASSUME IInv, IdleInv, [Next /\ PauseFirst]_vars
        PROVE  IInv' /\ IdleInv'
    BY <2>1, IdleStep, NextStep DEF Good
  <2> QED
    BY <2>1
<1>2. Init => IInv /\ IdleInv
  BY InitIInv, InitIdle
<1>3. IInv /\ IdleInv => IdleIsFree
  BY IdleFromInv
<1> QED
  BY <1>1, <1>2, <1>3, PTL

-----------------------------------------------------------------------------
(***************************************************************************)
(* SessionContract: what a session announces and hands to the archive.     *)
(*                                                                         *)
(* A call and a stream task end the session after an await. The invariant  *)
(* says what the end rests on then: nothing was announced or handed over   *)
(* before the session was over, a call that is about to hand it over has   *)
(* ended it, and an ended session that was not handed over has such a call *)
(* (but for the one that fails for want of credentials).                   *)
(***************************************************************************)

IsOver(s) == s.status \in Terminal
(* A step that neither ends the session nor announces anything.             *)
Plain(s, r) == r.fired = s.fired /\ r.ended = s.ended /\ (IsOver(r) <=> IsOver(s))
(* The session is over and handed over, or over and its hand-over to come.  *)
Final(s, r) == IsOver(r) /\ r.fired /\ r.ended >= s.ended
Settled(s, r) == IsOver(r) /\ r.fired = s.fired /\ r.ended >= s.ended
Follows(s, r) == Plain(s, r) \/ Final(s, r)

Dropping(ca, c) == ca[c].pc = "drop"
DropsKept == \A c \in Callers : Dropping(call', c) <=> Dropping(call, c)

OverInv ==
    /\ ses.fired \/ ses.ended > 0 => IsOver(ses)
    /\ \A c \in Callers : Dropping(call, c) => IsOver(ses)
OwedInv == IsOver(ses) /\ ~ ses.fired => \E c \in Callers : Dropping(call, c)

(* What a step does to the end of the session.                              *)
EndStep ==
    \/ Follows(ses, ses') /\ DropsKept
    \/ /\ Settled(ses, ses')
       /\ \E c \in Callers : /\ Dropping(call', c)
                             /\ \A d \in Callers \ {c} : Dropping(call', d) <=> Dropping(call, d)
    \/ \E c \in Callers : CallDropped(c)
    \/ "noKey" \in Env /\ Settled(ses, ses') /\ DropsKept

LEMMA PlainSteps ==
    ASSUME NEW s \in Session
    PROVE  /\ Plain(s, s) /\ Plain(s, Opened(s)) /\ Plain(s, Closed(s)) /\ Plain(s, Freed(s))
           /\ Plain(s, Released(s)) /\ Plain(s, BeginWait(s)) /\ Plain(s, EndWait(s))
           /\ ~ IsOver(s) => Plain(s, Paused(s)) /\ Plain(s, Resumed(s))
           /\ s.status = "paused" => Plain(s, Completed(s))
<1>1. Plain(s, s) /\ Plain(s, Opened(s)) /\ Plain(s, Closed(s)) /\ Plain(s, Freed(s))
  BY DEF Plain, IsOver, Session, Opened, Closed, Freed
<1>2. Plain(s, Released(s))
  BY DEF Plain, IsOver, Session, Released
<1>3. Plain(s, BeginWait(s)) /\ Plain(s, EndWait(s))
  BY DEF Plain, IsOver, Terminal, Session, BeginWait, EndWait
<1>4. ~ IsOver(s) => Plain(s, Paused(s)) /\ Plain(s, Resumed(s))
  BY DEF Plain, IsOver, Terminal, Session, Paused, Resumed
<1>5. s.status = "paused" => Plain(s, Completed(s))
  BY DEF Plain, IsOver, Session, Completed
<1> QED
  BY <1>1, <1>2, <1>3, <1>4, <1>5

LEMMA PlainFollows ==
    ASSUME NEW s, NEW r, NEW q, Plain(s, r), Follows(r, q)
    PROVE  Follows(s, q)
BY DEF Plain, Follows, Final

LEMMA PlainTrans ==
    ASSUME NEW s, NEW r, NEW q, Plain(s, r), Plain(r, q)
    PROVE  Plain(s, q)
BY DEF Plain

(* A paused session keeps its end for the resume; any other one is over and handed over. *)
LEMMA AgentEndedFollows ==
    ASSUME NEW s \in Session
    PROVE  Follows(s, AgentEnded(s))
<1> DEFINE r == Freed(s)
<1>1. r \in Session /\ Plain(s, r)
  BY PlainSteps, FreedIs
<1> HIDE DEF r
<1>2. CASE r.status = "paused"
  <2>1. AgentEnded(s) = Completed(r)
    BY <1>2 DEF AgentEnded, r
  <2> QED
    BY <1>1, <1>2, <2>1, PlainSteps, PlainTrans DEF Follows
<1>3. CASE r.status # "paused"
  <2> DEFINE q == Ended(r)
  <2>1. q \in Session /\ q.ended = r.ended + 1 /\ q.status = r.status
    BY <1>1 DEF Ended, Session
  <2>2. AgentEnded(s) = [Completed(q) EXCEPT !.fired = TRUE]
    BY <1>3 DEF AgentEnded, r
  <2> HIDE DEF q
  <2>3. Completed(q) \in Session /\ Completed(q).status = "completed" /\ Completed(q).ended = q.ended
    BY <1>3, <2>1 DEF Completed, Session, Statuses, Terminal
  <2>4. Final(r, AgentEnded(s))
    BY <1>1, <2>1, <2>2, <2>3 DEF Final, IsOver, Terminal, Session
  <2> QED
    BY <1>1, <2>4, PlainFollows DEF Follows
<1> QED
  BY <1>2, <1>3

LEMMA FinishedEnds ==
    ASSUME NEW s \in Session, NEW op \in Stopping, NEW had \in BOOLEAN
    PROVE  /\ op \in {"cancel", "end"} => Settled(s, Finished(op, had, s))
           /\ op \in {"pause", "interrupt"} => Plain(s, Finished(op, had, s))
<1> DEFINE r == IF had THEN Closed(s) ELSE s
           q == Released(r)
<1>1. r \in Session /\ Plain(s, r)
  BY PlainSteps, SessionSteps DEF Keeps
<1> HIDE DEF r
<1>2. q \in Session /\ Plain(s, q)
  BY <1>1, PlainSteps, PlainTrans, SessionSteps DEF Keeps
<1> HIDE DEF q
<1>3. CASE op = "cancel"
  <2>1. Finished(op, had, s) = [Ended(q) EXCEPT !.status = "cancelled", !.busy = FALSE]
    BY <1>3 DEF Finished, r, q
  <2>2. Ended(q) \in Session /\ Ended(q).fired = q.fired /\ Ended(q).ended = q.ended + 1
    BY <1>2 DEF Ended, Session
  <2>3. Finished(op, had, s).status = "cancelled" /\ Finished(op, had, s).fired = q.fired
        /\ Finished(op, had, s).ended = q.ended + 1
    BY <2>1, <2>2 DEF Session
  <2>4. q.ended \in Nat /\ q.fired = s.fired /\ q.ended = s.ended
    BY <1>2 DEF Session, Plain
  <2> QED
    BY <1>3, <2>3, <2>4 DEF Settled, IsOver, Terminal
<1>4. CASE op = "end"
  <2>1. Finished(op, had, s) = [Ended(r) EXCEPT !.status = "completed", !.busy = FALSE]
    BY <1>4 DEF Finished, r
  <2>2. Ended(r) \in Session /\ Ended(r).fired = r.fired /\ Ended(r).ended = r.ended + 1
    BY <1>1 DEF Ended, Session
  <2>3. Finished(op, had, s).status = "completed" /\ Finished(op, had, s).fired = r.fired
        /\ Finished(op, had, s).ended = r.ended + 1
    BY <2>1, <2>2 DEF Session
  <2>4. r.ended \in Nat /\ r.fired = s.fired /\ r.ended = s.ended
    BY <1>1 DEF Session, Plain
  <2> QED
    BY <1>4, <2>3, <2>4 DEF Settled, IsOver, Terminal
<1>5. CASE op = "pause"
  <2>1. Finished(op, had, s) = q
    BY <1>5 DEF Finished, r, q
  <2> QED
    BY <1>2, <1>5, <2>1
<1>6. CASE op = "interrupt"
  <2>1. Finished(op, had, s) = [r EXCEPT !.busy = FALSE]
    BY <1>6 DEF Finished, r
  <2> QED
    BY <1>1, <1>6, <2>1 DEF Plain, IsOver, Session
<1> QED
  BY <1>3, <1>4, <1>5, <1>6 DEF Stopping

-----------------------------------------------------------------------------
(* The calls *)

LEMMA CallMoves ==
    ASSUME IInv, NEW c \in Callers, NEW op, NEW pc, NEW x, NEW t, NEW had,
           ~ Dropping(call, c), call' = [call EXCEPT ![c] = At(op, pc, x, t, had)]
    PROVE  /\ pc # "drop" => DropsKept
           /\ pc = "drop" => /\ Dropping(call', c)
                             /\ \A d \in Callers \ {c} : Dropping(call', d) <=> Dropping(call, d)
<1>1. call \in [Callers -> CallType]
  BY DEF IInv, CallsOK
<1>2. At(op, pc, x, t, had).pc = pc
  BY DEF At, NoCall
<1> HIDE DEF At
<1>3. Dropping(call', c) <=> pc = "drop"
  BY <1>1, <1>2 DEF Dropping
<1>4. \A d \in Callers \ {c} : Dropping(call', d) <=> Dropping(call, d)
  BY <1>1 DEF Dropping
<1> QED
  BY <1>3, <1>4 DEF DropsKept

LEMMA TornEnds ==
    ASSUME IInv, NEW c \in Callers, NEW op \in Stopping, NEW had \in BOOLEAN,
           NEW s \in Session, Plain(ses, s), ~ Dropping(call, c), Torn(c, op, had, s)
    PROVE  EndStep
<1>1. CASE Alive(s.task)
  <2>1. ses' = s /\ call' = [call EXCEPT ![c] = At(op, "join", 0, s.task, had)]
    BY <1>1 DEF Torn
  <2>2. DropsKept
    BY <2>1, CallMoves
  <2> QED
    BY <2>1, <2>2 DEF EndStep, Follows
<1>2. CASE ~ Alive(s.task)
  <2> DEFINE r == [s EXCEPT !.task = 0]
  <2>1. ses' = Finished(op, had, r) /\ call' = [call EXCEPT ![c] = At(op, After(op), 0, 0, had)]
    BY <1>2 DEF Torn
  <2>2. r \in Session /\ Plain(ses, r)
    BY Bounds DEF Plain, IsOver, Session
  <2> HIDE DEF r
  <2>3. CASE op \in {"cancel", "end"}
    <3>1. Settled(r, ses')
      BY <2>1, <2>2, <2>3, FinishedEnds
    <3>2. Settled(ses, ses')
      BY <2>2, <3>1 DEF Settled, Plain
    <3>3. After(op) = "drop"
      BY <2>3 DEF After
    <3> QED
      BY <2>1, <3>2, <3>3, CallMoves DEF EndStep
  <2>4. CASE op \in {"pause", "interrupt"}
    <3>1. Plain(ses, ses')
      BY <2>1, <2>2, <2>4, FinishedEnds, PlainTrans
    <3>2. After(op) = "idle"
      BY <2>4 DEF After
    <3>3. DropsKept
      BY <2>1, <3>2, CallMoves
    <3> QED
      BY <3>1, <3>3 DEF EndStep, Follows
  <2> QED
    BY <2>3, <2>4 DEF Stopping
<1> QED
  BY <1>1, <1>2

LEMMA CallStartEnds ==
    ASSUME IInv, NEW c \in Callers, NEW op \in Stopping, CallStart(c, op)
    PROVE  EndStep
<1> DEFINE s == Marked(op)
           r == [s EXCEPT !.exec = 0]
<1>1. ses \in Session /\ ~ Dropping(call, c) /\ Allowed(op)
  BY DEF IInv, CallStart, Dropping, NoCall
<1>2. s \in Session /\ Plain(ses, s)
  <2>1. CASE op = "pause"
    <3>1. ~ IsOver(ses) /\ s = Paused(ses)
      BY <1>1, <2>1 DEF Allowed, IsOver, Terminal, Marked
    <3> QED
      BY <1>1, <3>1, PlainSteps, SessionSteps DEF IsOver
  <2>2. CASE op # "pause"
    BY <1>1, <2>2, PlainSteps DEF Marked
  <2> QED
    BY <2>1, <2>2
<1> HIDE DEF s
<1>3. r \in Session /\ Plain(ses, r)
  BY <1>2, Bounds DEF Plain, IsOver, Session
<1>4. PICK waits \in Waits(ses.exec) :
         IF waits
         THEN /\ ses' = s
              /\ call' = [call EXCEPT ![c] = At(op, "kill", ses.exec, 0, TRUE)]
         ELSE Torn(c, op, ses.exec # 0, r)
  BY DEF CallStart, s
<1>5. CASE waits
  <2>1. ses' = s /\ DropsKept
    BY <1>1, <1>4, <1>5, CallMoves
  <2> QED
    BY <1>2, <2>1 DEF EndStep, Follows
<1>6. CASE ~ waits
  <2> HIDE DEF r
  <2> QED
    BY <1>1, <1>3, <1>4, <1>6, TornEnds
<1> QED
  BY <1>5, <1>6

LEMMA CallReturnsEnds ==
    ASSUME IInv, NEW c \in Callers, CallReturns(c)
    PROVE  EndStep
<1>1. ses \in Session /\ call[c] \in CallType /\ CallOK(call[c])
  BY DEF IInv, CallsOK
<1>2. CASE CallKilled(c)
  <2> DEFINE r == [ses EXCEPT !.exec = 0]
  <2>1. ~ Dropping(call, c) /\ call[c].op \in Stopping /\ Torn(c, call[c].op, TRUE, r)
    BY <1>1, <1>2 DEF CallKilled, CallOK, Dropping
  <2>2. r \in Session /\ Plain(ses, r)
    BY <1>1, Bounds DEF Plain, IsOver, Session
  <2> HIDE DEF r
  <2> QED
    BY <2>1, <2>2, TornEnds
<1>3. CASE CallJoined(c)
  <2> DEFINE r == [ses EXCEPT !.task = 0]
             op == call[c].op
  <2>1. /\ ~ Dropping(call, c) /\ op \in Stopping /\ call[c].had \in BOOLEAN
        /\ ses' = Finished(op, call[c].had, r)
        /\ call' = [call EXCEPT ![c] = At(op, After(op), 0, 0, TRUE)]
    BY <1>1, <1>3 DEF CallJoined, CallOK, CallType, Dropping
  <2>2. r \in Session /\ Plain(ses, r)
    BY <1>1, Bounds DEF Plain, IsOver, Session
  <2> HIDE DEF r, op
  <2>3. CASE op \in {"cancel", "end"}
    <3>1. Settled(r, ses')
      BY <2>1, <2>2, <2>3, FinishedEnds
    <3>2. Settled(ses, ses')
      BY <2>2, <3>1 DEF Settled, Plain
    <3>3. After(op) = "drop"
      BY <2>3 DEF After
    <3> QED
      BY <2>1, <3>2, <3>3, CallMoves DEF EndStep
  <2>4. CASE op \in {"pause", "interrupt"}
    <3>1. Plain(ses, ses')
      BY <2>1, <2>2, <2>4, FinishedEnds, PlainTrans
    <3>2. After(op) = "idle"
      BY <2>4 DEF After
    <3>3. DropsKept
      BY <2>1, <3>2, CallMoves
    <3> QED
      BY <3>1, <3>3 DEF EndStep, Follows
  <2> QED
    BY <2>1, <2>3, <2>4 DEF Stopping
<1>4. CASE CallDropped(c)
  BY <1>4 DEF EndStep
<1>5. CASE ResumeFinished(c)
  <2>1. Follows(ses, ses')
    BY <1>1, <1>5, AgentEndedFollows DEF ResumeFinished
  <2>2. call' = [call EXCEPT ![c] = NoCall] /\ ~ Dropping(call, c)
    BY <1>5 DEF ResumeFinished, Dropping
  <2>3. DropsKept
    BY <2>2 DEF DropsKept, Dropping, NoCall, IInv, CallsOK
  <2> QED
    BY <2>1, <2>3 DEF EndStep
<1> QED
  BY <1>2, <1>3, <1>4, <1>5 DEF CallReturns

LEMMA ResumeEnds ==
    ASSUME IInv, NEW c \in Callers, Resume(c)
    PROVE  EndStep
<1> DEFINE s == Resumed(Released(ses))
<1>1. ses \in Session /\ ~ Dropping(call, c) /\ ses.status = "paused" /\ ~ IsOver(ses)
  BY DEF IInv, Resume, Dropping, NoCall, IsOver, Terminal
<1>2. Released(ses) \in Session /\ Plain(ses, Released(ses)) /\ ~ IsOver(Released(ses))
  BY <1>1, PlainSteps, SessionSteps DEF Keeps, Plain
<1>3. s \in Session /\ Plain(ses, s)
  BY <1>2, PlainSteps, PlainTrans, SessionSteps DEF IsOver
<1> HIDE DEF s
<1>4. CASE s.later
  <2> DEFINE r == [s EXCEPT !.later = FALSE]
  <2>1. r \in Session /\ Plain(ses, r)
    BY <1>3 DEF Plain, IsOver, Session
  <2>2. PICK waits \in Waits(s.exec) :
           IF waits
           THEN /\ ses' = r
                /\ call' = [call EXCEPT ![c] = At("resume", "finish", s.exec, 0, TRUE)]
           ELSE ses' = AgentEnded(r) /\ UNCHANGED call
    BY <1>4 DEF Resume, s
  <2> HIDE DEF r
  <2>3. CASE waits
    <3>1. ses' = r /\ DropsKept
      BY <1>1, <2>2, <2>3, CallMoves
    <3> QED
      BY <2>1, <3>1 DEF EndStep, Follows
  <2>4. CASE ~ waits
    <3>1. Follows(r, ses') /\ DropsKept
      BY <2>1, <2>2, <2>4, AgentEndedFollows DEF DropsKept, Dropping
    <3> QED
      BY <2>1, <3>1, PlainFollows DEF EndStep
  <2> QED
    BY <2>3, <2>4
<1>5. CASE ~ s.later
  <2>1. ses' = (IF Rebuilds(s) THEN [s EXCEPT !.exec = made + 1] ELSE s) /\ UNCHANGED call
    BY <1>5 DEF Resume, s
  <2>2. Plain(ses, ses')
    BY <1>3, <2>1 DEF Plain, IsOver, Session
  <2> QED
    BY <2>1, <2>2 DEF EndStep, Follows, DropsKept, Dropping
<1> QED
  BY <1>4, <1>5

-----------------------------------------------------------------------------
(* The stream tasks *)

LEMMA QuietEnds ==
    ASSUME Follows(ses, ses'), UNCHANGED call
    PROVE  EndStep
BY DEF EndStep, DropsKept, Dropping

LEMMA FieldsPlain ==
    ASSUME NEW s \in Session, NEW b \in BOOLEAN, NEW q \in BOOLEAN, NEW g \in {"none", "open", "set"}
    PROVE  /\ [s EXCEPT !.busy = b] \in Session /\ Plain(s, [s EXCEPT !.busy = b])
           /\ [s EXCEPT !.gate = g] \in Session /\ Plain(s, [s EXCEPT !.gate = g])
           /\ [s EXCEPT !.gate = g, !.question = q] \in Session
           /\ Plain(s, [s EXCEPT !.gate = g, !.question = q])
           /\ [s EXCEPT !.question = q, !.busy = b] \in Session
           /\ Plain(s, [s EXCEPT !.question = q, !.busy = b])
<1>1. /\ [s EXCEPT !.busy = b] \in Session /\ [s EXCEPT !.gate = g] \in Session
      /\ [s EXCEPT !.gate = g, !.question = q] \in Session
      /\ [s EXCEPT !.question = q, !.busy = b] \in Session
  BY DEF Session
<1>2. Plain(s, [s EXCEPT !.busy = b]) /\ Plain(s, [s EXCEPT !.gate = g])
  BY DEF Session, Plain, IsOver
<1>3. /\ Plain(s, [s EXCEPT !.gate = g, !.question = q])
      /\ Plain(s, [s EXCEPT !.question = q, !.busy = b])
  BY DEF Session, Plain, IsOver
<1> QED
  BY <1>1, <1>2, <1>3

LEMMA ClosedPlain ==
    ASSUME NEW s \in Session
    PROVE  Closed(s) \in Session /\ Plain(s, Closed(s))
BY PlainSteps, SessionSteps DEF Keeps

LEMMA LeftFollows ==
    ASSUME NEW s \in Session, NEW why \in LeftAs
    PROVE  Follows(s, Left(why, s))
BY PlainSteps, AgentEndedFollows DEF Left, LeftAs, Follows

LEMMA LeaveFollows ==
    ASSUME NEW t, NEW why \in LeftAs, NEW x, NEW s \in Session, Plain(ses, s), Leave(t, why, x, s)
    PROVE  Follows(ses, ses')
<1>1. ses' = s \/ ses' = Left(why, s)
  BY DEF Leave
<1>2. Follows(s, ses')
  BY <1>1, LeftFollows, PlainSteps DEF Follows
<1> QED
  BY <1>2, PlainFollows

LEMMA RelayOverFollows ==
    ASSUME NEW t, NEW s \in Session, Plain(ses, s), RelayOver(t, s)
    PROVE  Follows(ses, ses')
<1>1. CASE s.status = "paused"
  BY <1>1, LeaveFollows DEF RelayOver, LeftAs
<1>2. CASE s.status # "paused"
  <2>1. ses' = Closed(s)
    BY <1>2 DEF RelayOver
  <2> QED
    BY <2>1, ClosedPlain, PlainTrans DEF Follows
<1> QED
  BY <1>1, <1>2

LEMMA RaisedFollows ==
    ASSUME NEW t, NEW s \in Session, Plain(ses, s), Raised(t, s)
    PROVE  Follows(ses, ses')
<1>1. Closed(s) \in Session /\ Plain(ses, Closed(s))
  BY ClosedPlain, PlainTrans
<1>2. Leave(t, "ending", s.exec, Closed(s))
  BY DEF Raised
<1> HIDE DEF Closed
<1> QED
  BY <1>1, <1>2, LeaveFollows DEF LeftAs

LEMMA TurnMaxTurnsFollows ==
    ASSUME IInv, NEW t \in DOMAIN turn, TurnMaxTurns(t)
    PROVE  Follows(ses, ses')
<1> DEFINE r == [ses EXCEPT !.busy = FALSE]
           s == Closed(r)
<1>1. r \in Session /\ Plain(ses, r)
  BY FieldsPlain DEF IInv
<1>2. IF s.status = "active" THEN RelayOver(t, Paused(s)) ELSE Raised(t, s)
  BY DEF TurnMaxTurns
<1> HIDE DEF r
<1>3. s \in Session /\ Plain(ses, s)
  BY <1>1, ClosedPlain, PlainTrans
<1> HIDE DEF s
<1>4. CASE s.status = "active"
  <2>1. ~ IsOver(s)
    BY <1>4 DEF IsOver, Terminal
  <2>2. Paused(s) \in Session /\ Plain(ses, Paused(s))
    BY <1>3, <2>1, PlainSteps, PlainTrans, SessionSteps DEF IsOver
  <2> QED
    BY <1>2, <1>4, <2>2, RelayOverFollows
<1>5. CASE s.status # "active"
  BY <1>2, <1>3, <1>5, RaisedFollows
<1> QED
  BY <1>4, <1>5

LEMMA TurnExitFollows ==
    ASSUME IInv, NEW t \in DOMAIN turn, TurnExit(t)
    PROVE  Follows(ses, ses')
<1>1. ses \in Session /\ Plain(ses, ses) /\ ses.status \in Statuses
  BY PlainSteps DEF IInv, Session
<1>2. CASE ses.status \in Terminal
  <2>1. ses' = ses
    BY <1>2 DEF TurnExit, Terminal
  <2> QED
    BY <1>1, <2>1 DEF Follows
<1>3. CASE ses.status = "active"
  <2> DEFINE r == [ses EXCEPT !.busy = FALSE]
             s == Closed(r)
  <2>1. r \in Session /\ Plain(ses, r)
    BY <1>1, FieldsPlain
  <2>2. Leave(t, "exiting", turn[t].e, s)
    BY <1>3 DEF TurnExit, Terminal
  <2> HIDE DEF r
  <2>3. s \in Session /\ Plain(ses, s)
    BY <2>1, ClosedPlain, PlainTrans
  <2> HIDE DEF s
  <2> QED
    BY <2>2, <2>3, LeaveFollows DEF LeftAs
<1>4. CASE ses.status = "paused"
  <2>1. Leave(t, "stopping", ses.exec, ses)
    BY <1>4 DEF TurnExit, Terminal
  <2> QED
    BY <1>1, <2>1, LeaveFollows DEF LeftAs
<1> QED
  BY <1>1, <1>2, <1>3, <1>4 DEF Statuses

LEMMA TurnMoreFollows ==
    ASSUME IInv, NEW t \in DOMAIN turn, TurnMore(t)
    PROVE  Follows(ses, ses')
<1>1. ses \in Session /\ Plain(ses, ses)
  BY PlainSteps DEF IInv
<1>2. CASE ses.question /\ ses.gate = "open" /\ turn[t].e \in live
  <2>1. ses' = ses
    BY <1>2 DEF TurnMore
  <2> QED
    BY <1>1, <2>1 DEF Follows
<1>3. CASE ~ (ses.question /\ ses.gate = "open" /\ turn[t].e \in live)
  <2>1. PICK result \in BOOLEAN :
              RelayOver(t, [ses EXCEPT !.question = FALSE,
                                       !.busy = IF result THEN FALSE ELSE @])
    BY <1>3 DEF TurnMore
  <2> DEFINE b == IF result THEN FALSE ELSE ses.busy
             s == [ses EXCEPT !.question = FALSE, !.busy = b]
  <2>2. b \in BOOLEAN
    BY <1>1 DEF Session
  <2>3. RelayOver(t, s)
    BY <2>1
  <2> HIDE DEF b
  <2>4. s \in Session /\ Plain(ses, s)
    BY <1>1, <2>2, FieldsPlain
  <2> HIDE DEF s
  <2> QED
    BY <2>3, <2>4, RelayOverFollows
<1> QED
  BY <1>2, <1>3

LEMMA TurnStepEnds ==
    ASSUME IInv, NEW t \in DOMAIN turn, TurnStep(t)
    PROVE  EndStep
<1>1. ses \in Session /\ Plain(ses, ses)
  BY PlainSteps DEF IInv
<1>2. CASE TurnStart(t) \/ TurnOver(t)
  <2>1. ses' = ses /\ UNCHANGED call
    BY <1>2 DEF TurnStart, TurnOver
  <2> QED
    BY <1>1, <2>1, QuietEnds DEF Follows
<1>3. CASE TurnFails(t)
  BY <1>1, <1>3, RaisedFollows, QuietEnds DEF TurnFails
<1>4. CASE TurnResult(t)
  <2> DEFINE s == [ses EXCEPT !.busy = FALSE]
  <2>1. s \in Session /\ Plain(ses, s)
    BY <1>1, FieldsPlain
  <2>2. (ses' = s \/ RelayOver(t, s)) /\ UNCHANGED call
    BY <1>4 DEF TurnResult
  <2> HIDE DEF s
  <2> QED
    BY <2>1, <2>2, RelayOverFollows, QuietEnds DEF Follows
<1>5. CASE TurnMaxTurns(t)
  BY <1>5, TurnMaxTurnsFollows, QuietEnds DEF TurnMaxTurns
<1>6. CASE TurnExit(t)
  BY <1>6, TurnExitFollows, QuietEnds DEF TurnExit
<1>7. CASE TurnStopped(t)
  <2>1. Follows(ses, ses') /\ UNCHANGED call
    BY <1>1, <1>7, LeftFollows DEF TurnStopped, LeftAs
  <2> QED
    BY <2>1, QuietEnds
<1>8. CASE TurnMore(t)
  BY <1>8, TurnMoreFollows, QuietEnds DEF TurnMore
<1>9. CASE TurnGivesUp(t)
  BY <1>1, <1>9, RelayOverFollows, QuietEnds DEF TurnGivesUp
<1> QED
  BY <1>2, <1>3, <1>4, <1>5, <1>6, <1>7, <1>8, <1>9 DEF TurnStep

-----------------------------------------------------------------------------
(* The gate, the prompts and the turns of the outer LLM *)

LEMMA GateEnds ==
    ASSUME IInv, Answer \/ GateWakes \/ GateTimeout \/ (\E t \in DOMAIN turn : Ask(t))
    PROVE  EndStep
<1>1. ses \in Session
  BY DEF IInv
<1>2. CASE Answer
  <2>1. Plain(ses, ses') /\ UNCHANGED call
    BY <1>1, <1>2, FieldsPlain DEF Answer
  <2> QED
    BY <2>1, QuietEnds DEF Follows
<1>3. CASE GateWakes
  <2> DEFINE s == [ses EXCEPT !.gate = "none", !.question = FALSE]
  <2>1. s \in Session /\ Plain(ses, s)
    BY <1>1, FieldsPlain
  <2>2. ses' = EndWait(s) /\ UNCHANGED call
    BY <1>3 DEF GateWakes
  <2> HIDE DEF s
  <2> QED
    BY <2>1, <2>2, PlainSteps, PlainTrans, QuietEnds DEF Follows
<1>4. CASE GateTimeout
  <2> DEFINE s == [ses EXCEPT !.gate = "none"]
  <2>1. s \in Session /\ Plain(ses, s)
    BY <1>1, FieldsPlain
  <2>2. ses' = EndWait(s) /\ UNCHANGED call
    BY <1>4 DEF GateTimeout
  <2> HIDE DEF s
  <2> QED
    BY <2>1, <2>2, PlainSteps, PlainTrans, QuietEnds DEF Follows
<1>5. ASSUME NEW t \in DOMAIN turn, Ask(t)
      PROVE  EndStep
  <2> DEFINE s == [ses EXCEPT !.gate = "open", !.question = TRUE]
  <2>1. s \in Session /\ Plain(ses, s)
    BY <1>1, FieldsPlain
  <2>2. ses' = BeginWait(s) /\ UNCHANGED call
    BY <1>5 DEF Ask
  <2> HIDE DEF s
  <2> QED
    BY <2>1, <2>2, PlainSteps, PlainTrans, QuietEnds DEF Follows
<1> QED
  BY <1>2, <1>3, <1>4, <1>5

LEMMA SpawnedPlain ==
    ASSUME NEW p, NEW x, NEW s \in Session, Plain(ses, s), Spawned(p, x, s)
    PROVE  Plain(ses, ses')
BY DEF Spawned, Plain, IsOver, Session

LEMMA PromptEnds ==
    ASSUME IInv, NEW p \in Prompters,
           (\E kind \in {"sent", "drained"} : PromptArrive(p, kind)) \/ PromptStep(p)
    PROVE  EndStep
<1>1. ses \in Session /\ Plain(ses, ses)
  BY PlainSteps DEF IInv
<1>2. CASE (\E kind \in {"sent", "drained"} : PromptArrive(p, kind)) \/ PromptQueued(p)
  <2>1. ses' = ses /\ UNCHANGED call
    BY <1>2 DEF PromptArrive, PromptQueued
  <2> QED
    BY <1>1, <2>1, QuietEnds DEF Follows
<1>3. CASE PromptForward(p)
  <2> DEFINE r == [ses EXCEPT !.busy = TRUE]
             s == Opened(r)
  <2>1. r \in Session /\ Plain(ses, r)
    BY <1>1, FieldsPlain
  <2>2. (ses' = s \/ Spawned(p, s.exec, s)) /\ UNCHANGED call
    BY <1>3 DEF PromptForward
  <2> HIDE DEF r
  <2>3. s \in Session /\ Plain(ses, s)
    BY <2>1, PlainSteps, PlainTrans, SessionSteps DEF Keeps
  <2> HIDE DEF s
  <2> QED
    BY <2>2, <2>3, SpawnedPlain, QuietEnds DEF Follows
<1>4. CASE PromptJoined(p)
  BY <1>1, <1>4, SpawnedPlain, QuietEnds DEF PromptJoined, Follows
<1>5. CASE PromptToLlm(p)
  <2>1. UNCHANGED call /\ (ses' = ses \/ ("noKey" \in Env
                             /\ ses' = [ses EXCEPT !.status = "failed", !.busy = FALSE]))
    BY <1>5 DEF PromptToLlm
  <2>2. CASE ses' = ses
    BY <1>1, <2>1, <2>2, QuietEnds DEF Follows
  <2>3. CASE ses' # ses
    <3>1. ses' = [ses EXCEPT !.status = "failed", !.busy = FALSE] /\ ses.ended \in Nat
      BY <1>1, <2>1, <2>3 DEF Session
    <3>2. ses'.status = "failed" /\ ses'.fired = ses.fired /\ ses'.ended = ses.ended
      BY <1>1, <3>1 DEF Session
    <3>3. Settled(ses, ses')
      BY <3>1, <3>2 DEF Settled, IsOver, Terminal
    <3> QED
      BY <2>1, <2>3, <3>3 DEF EndStep, DropsKept, Dropping
  <2> QED
    BY <2>2, <2>3
<1>6. CASE LlmLock(p) \/ LlmEnd(p)
  <2>1. UNCHANGED call /\ (ses' = ses \/ \E b \in BOOLEAN : ses' = [ses EXCEPT !.busy = b])
    BY <1>6 DEF LlmLock, LlmEnd
  <2> QED
    BY <1>1, <2>1, FieldsPlain, QuietEnds DEF Follows
<1>7. CASE LlmTool(p)
  <2> DEFINE s == [ses EXCEPT !.exec = made + 1, !.task = Len(turn) + 1, !.known = TRUE, !.busy = TRUE]
  <2>1. made + 1 \in Execs /\ Len(turn) + 1 \in Turns
    BY <1>7, TurnAdded, LifecycleAssumption DEF LlmTool, IInv, Execs, Turns, TurnsOK
  <2>2. s \in Session /\ Plain(ses, s)
    BY <1>1, <2>1 DEF Plain, IsOver, Session
  <2>3. ses' = Opened(s) /\ UNCHANGED call
    BY <1>7 DEF LlmTool
  <2> HIDE DEF s
  <2> QED
    BY <2>2, <2>3, PlainSteps, PlainTrans, QuietEnds DEF Follows
<1>8. CASE LlmFails(p)
  <2>1. Final(ses, ses') /\ UNCHANGED call
    BY <1>1, <1>8 DEF LlmFails, Final, IsOver, Terminal, Session
  <2> QED
    BY <2>1, QuietEnds DEF Follows
<1> QED
  BY <1>2, <1>3, <1>4, <1>5, <1>6, <1>7, <1>8 DEF PromptStep

-----------------------------------------------------------------------------
(* The invariants and the refinement *)

LEMMA NextEnds ==
    ASSUME IInv, [Next]_vars
    PROVE  EndStep
<1>1. CASE UNCHANGED vars
  BY <1>1, PlainSteps, QuietEnds DEF vars, IInv, Follows
<1>2. ASSUME NEW c \in Callers,
             \/ \E op \in {"cancel", "end", "pause", "interrupt"} : CallStart(c, op)
             \/ Resume(c) \/ CallReturns(c)
      PROVE  EndStep
  BY <1>2, CallStartEnds, ResumeEnds, CallReturnsEnds DEF Stopping
<1>3. ASSUME NEW t \in DOMAIN turn, TurnStep(t) \/ Ask(t)
      PROVE  EndStep
  BY <1>3, TurnStepEnds, GateEnds
<1> QED
  BY <1>1, <1>2, <1>3, GateEnds, PromptEnds DEF Next

LEMMA OverStep ==
    ASSUME IInv, OverInv, [Next]_vars
    PROVE  OverInv'
<1>1. EndStep /\ ses \in Session /\ ses' \in Session /\ call \in [Callers -> CallType]
  BY NextEnds, NextStep DEF Good, IInv, CallsOK
<1>2. CASE Follows(ses, ses') /\ DropsKept
  BY <1>1, <1>2 DEF OverInv, Follows, Plain, Final, DropsKept
<1>3. CASE Settled(ses, ses')
  BY <1>3 DEF OverInv, Settled
<1>4. ASSUME NEW c \in Callers, CallDropped(c)
      PROVE  OverInv'
  <2>1. IsOver(ses) /\ ses' = [ses EXCEPT !.fired = TRUE]
    BY <1>4 DEF CallDropped, OverInv, Dropping
  <2>2. IsOver(ses')
    BY <1>1, <2>1 DEF IsOver, Session
  <2> QED
    BY <2>2 DEF OverInv
<1> QED
  BY <1>1, <1>2, <1>3, <1>4 DEF EndStep

LEMMA OwedStep ==
    ASSUME "noKey" \notin Env, IInv, OverInv, OwedInv, [Next]_vars
    PROVE  OwedInv'
<1>1. EndStep /\ ses \in Session /\ call \in [Callers -> CallType]
  BY NextEnds DEF IInv, CallsOK
<1>2. CASE Follows(ses, ses') /\ DropsKept
  BY <1>2 DEF OwedInv, Follows, Plain, Final, DropsKept
<1>3. CASE \E c \in Callers : Dropping(call', c)
  BY <1>3 DEF OwedInv, Dropping
<1>4. ASSUME NEW c \in Callers, CallDropped(c)
      PROVE  OwedInv'
  BY <1>1, <1>4 DEF CallDropped, OwedInv, Session
<1> QED
  BY <1>1, <1>2, <1>3, <1>4 DEF EndStep

LEMMA InitEnds == Init => OverInv /\ OwedInv
<1> SUFFICES ASSUME Init PROVE OverInv /\ OwedInv
  OBVIOUS
<1>1. ses.status = "active" /\ ses.fired = FALSE /\ ses.ended = 0
  BY DEF Init
<1>2. \A c \in Callers : ~ Dropping(call, c)
  BY DEF Init, Dropping, NoCall
<1> QED
  BY <1>1, <1>2 DEF OverInv, OwedInv, IsOver, Terminal

LEMMA StandsIs ==
    ASSUME ses \in Session
    PROVE  /\ Stands = "over" <=> IsOver(ses)
           /\ Stands = "paused" <=> ses.status = "paused"
           /\ Stands \in {"open", "paused", "over"}
<1>1. ses.status \in Statuses
  BY DEF Session
<1>2. CASE ses.status \in Terminal
  BY <1>2 DEF Stands, IsOver, Terminal
<1>3. CASE ses.status = "paused"
  BY <1>3 DEF Stands, IsOver, Terminal
<1>4. CASE ses.status = "active"
  BY <1>4 DEF Stands, IsOver, Terminal
<1> QED
  BY <1>1, <1>2, <1>3, <1>4 DEF Statuses

LEMMA ContractStep ==
    ASSUME IInv, OverInv, [Next]_vars
    PROVE  [Contract!Next]_<<Stands, ses.ended > 0, ses.fired>>
<1> DEFINE told == ses.ended > 0
           Shown == <<Stands, told, ses.fired>>
<1>1. EndStep /\ ses \in Session /\ ses' \in Session
  BY NextEnds, NextStep DEF Good, IInv
<1>2. /\ Stands = "over" <=> IsOver(ses)
      /\ Stands \in {"open", "paused", "over"}
      /\ Stands' = "over" <=> IsOver(ses')
      /\ Stands' \in {"open", "paused", "over"}
  <2>1. /\ Stands' = "over" <=> IsOver(ses')
        /\ Stands' \in {"open", "paused", "over"}
    <3>1. ses'.status \in Statuses
      BY <1>1 DEF Session
    <3>2. CASE ses'.status \in Terminal
      BY <3>2 DEF Stands, IsOver, Terminal
    <3>3. CASE ses'.status = "paused"
      BY <3>3 DEF Stands, IsOver, Terminal
    <3>4. CASE ses'.status = "active"
      BY <3>4 DEF Stands, IsOver, Terminal
    <3> QED
      BY <3>1, <3>2, <3>3, <3>4 DEF Statuses
  <2> QED
    BY <1>1, <2>1, StandsIs
<1>3. told \in BOOLEAN /\ told' \in BOOLEAN /\ ses.fired \in BOOLEAN /\ ses'.fired \in BOOLEAN
      /\ ses.ended \in Nat /\ ses'.ended \in Nat
  BY <1>1 DEF Session
<1>4. CASE Plain(ses, ses')
  <2>1. told' = told /\ ses'.fired = ses.fired
    BY <1>4 DEF Plain
  <2>2. (Stands' = "over" <=> Stands = "over")
    BY <1>2, <1>4 DEF Plain
  <2> HIDE DEF told
  <2> QED
    BY <1>2, <2>1, <2>2 DEF Contract!Next, Contract!Pause, Contract!Resume, told
<1>5. CASE Final(ses, ses')
  <2>1. Stands' = "over" /\ ses'.fired = TRUE /\ ses'.ended >= ses.ended
    BY <1>2, <1>5 DEF Final
  <2>2. told => told'
    BY <1>3, <2>1
  <2>3. told' \in {told, TRUE}
    BY <1>3, <2>2
  <2> HIDE DEF told
  <2> QED
    BY <1>2, <1>3, <2>1, <2>3 DEF told, Contract!Next, Contract!End, Contract!HandOver
<1>6. CASE Settled(ses, ses')
  <2>1. Stands' = "over" /\ ses'.fired = ses.fired /\ ses'.ended >= ses.ended
    BY <1>2, <1>6 DEF Settled
  <2>2. told => told'
    BY <1>3, <2>1
  <2>3. told' \in {told, TRUE}
    BY <1>3, <2>2
  <2> HIDE DEF told
  <2> QED
    BY <1>2, <1>3, <2>1, <2>3 DEF told, Contract!Next, Contract!End, Contract!Announce
<1>7. ASSUME NEW c \in Callers, CallDropped(c)
      PROVE  Final(ses, ses')
  <2>1. IsOver(ses) /\ ses' = [ses EXCEPT !.fired = TRUE]
    BY <1>7 DEF CallDropped, OverInv, Dropping
  <2> QED
    BY <1>1, <1>3, <2>1 DEF Final, IsOver, Session
<1> QED
  BY <1>1, <1>4, <1>5, <1>6, <1>7 DEF EndStep, Follows

(* Of all the calls, tasks, answers and agents, with any of them overlapping, *)
(* those outside see a session that is open or paused until it is over for    *)
(* good, is announced to have ended and handed to the archive only then       *)
(* (SessionContract).                                                         *)
THEOREM KeepsItsContract == Spec => KeepsContract
<1>1. Init => IInv /\ OverInv
  BY InitIInv, InitEnds
<1>2. IInv /\ OverInv /\ [Next]_vars => IInv' /\ OverInv'
  BY NextStep, OverStep DEF Good
<1>3. Init => Contract!Init
  <2> SUFFICES ASSUME Init PROVE Contract!Init
    OBVIOUS
  <2>1. ses.status = "active" /\ ses.fired = FALSE /\ ses.ended = 0
    BY DEF Init
  <2> QED
    BY <2>1 DEF Contract!Init, Stands, Terminal
<1>4. IInv /\ OverInv /\ [Next]_vars => [Contract!Next]_<<Stands, ses.ended > 0, ses.fired>>
  BY ContractStep
<1> QED
  BY <1>1, <1>2, <1>3, <1>4, PTL DEF Spec, KeepsContract, Contract!Spec

(* Whoever ends the session, and however the calls overlap, SESSION_END and   *)
(* the archive task never come before its status says that it is over.        *)
THEOREM NothingTooEarly == Spec => []Contract!OnlyWhenOver
<1>1. Init => IInv /\ OverInv
  BY InitIInv, InitEnds
<1>2. IInv /\ OverInv /\ [Next]_vars => IInv' /\ OverInv'
  BY NextStep, OverStep DEF Good
<1>3. IInv /\ OverInv => Contract!OnlyWhenOver
  BY StandsIs DEF IInv, OverInv, Contract!OnlyWhenOver
<1> QED
  BY <1>1, <1>2, <1>3, PTL DEF Spec

(* A session that has ended is handed to the archive once nothing goes on in  *)
(* it, by the call or the agent that ended it, unless it fails for want of    *)
(* LLM credentials.                                                           *)
THEOREM EndIsArchived == ASSUME "noKey" \notin Env PROVE Spec => []EndArchived
<1>1. Init => IInv /\ OverInv /\ OwedInv
  BY InitIInv, InitEnds
<1>2. IInv /\ OverInv /\ OwedInv /\ [Next]_vars => IInv' /\ OverInv' /\ OwedInv'
  BY NextStep, OverStep, OwedStep DEF Good
<1>3. OwedInv => EndArchived
  BY DEF OwedInv, EndArchived, Resting, IsOver, Dropping, NoCall
<1> QED
  BY <1>1, <1>2, <1>3, PTL DEF Spec
=============================================================================
