---------------------------- MODULE SessionsProofs ----------------------------
(***************************************************************************)
(* Proofs about what gives a session its turns: the scheduled wakeups      *)
(* (Wakeups), the loop of the outer LLM (AgenticLoop) and the agents that  *)
(* run a process per turn (TurnAgents), each for every value of its        *)
(* constants.                                                              *)
(***************************************************************************)
EXTENDS Wakeups, AgenticLoop, TurnAgents, ListLemmas

-----------------------------------------------------------------------------
(***************************************************************************)
(* Wakeups, for any wakes, calls, restarts and disturbances.               *)
(*                                                                         *)
(* A prompt is sent by the timer of its wake, so the invariant counts the  *)
(* timers a wake may still get: one that has fired has its mark in the     *)
(* row, and a restart arms only rows without marks.                        *)
(***************************************************************************)

Total(w) == sent[w]["own"] + sent[w]["new"]
CallType == [op : {"none", "one", "all", "end"}, pc : {"idle", "tearing", "writing", "written"},
             at : SUBSET Wakes, todo : SUBSET Wakes, ids : SUBSET Wakes]

(* A wake whose ScheduleWakeup call has not returned is nowhere but in the  *)
(* call and in its row.                                                     *)
NotArmedYet ==
    \A w \in Wakes : placing[w] \in {"new", "writing", "stored"} =>
        /\ timer[w] = "off" /\ w \notin mirror /\ shown[w] = {} /\ Total(w) = 0
        /\ \A c \in Callers : w \notin call[c].ids
NoRowYet == \A w \in Wakes : placing[w] \in {"new", "writing"} => row[w] = {}

(* A timer that goes on to the prompt, and a prompt that was sent, have left *)
(* their mark in the row.                                                    *)
FiredInRow ==
    \A w \in Wakes : timer[w] \in {"marked", "toOwn", "toNew"} \/ Total(w) > 0 => "fired" \in row[w]
OneToSend == \A w \in Wakes : Total(w) <= 1 /\ (timer[w] # "off" => Total(w) = 0)

(* What a bulk cancel will cut the timers of has left the mirror, or is      *)
(* still on its list.                                                        *)
BulkList ==
    \A c \in Callers : call[c].op \in {"all", "end"} /\ call[c].pc \in {"writing", "written"} =>
        mirror \cap call[c].ids \subseteq call[c].at \cup call[c].todo

WakeInv == TypeOK /\ NotArmedYet /\ NoRowYet /\ FiredInRow /\ OneToSend /\ BulkList /\ ShownWillFire
-----------------------------------------------------------------------------
LEMMA IdleType == Idle \in CallType /\ Idle.ids = {} /\ Idle.op = "none"
BY DEF Idle, CallType

LEMMA InitWakeInv == Init => WakeInv
<1> SUFFICES ASSUME Init PROVE WakeInv
  OBVIOUS
<1>1. \A w \in Wakes : Total(w) = 0
  BY DEF Init, Total, Places
<1>2. TypeOK
  <2>1. call \in [Callers -> CallType]
    BY IdleType DEF Init
  <2>2. /\ row \in [Wakes -> SUBSET Marks] /\ timer \in [Wakes -> Stages]
        /\ sent \in [Wakes -> [Places -> Nat]]
    BY DEF Init, Stages
  <2>3. restarts \in 0 .. MaxRestarts
    BY WakeupAssumption DEF Init
  <2> QED
    BY <2>1, <2>2, <2>3 DEF Init, TypeOK, CallType
<1> QED
  BY <1>1, <1>2, IdleType
     DEF Init, WakeInv, NotArmedYet, NoRowYet, FiredInRow, OneToSend, BulkList, ShownWillFire

(* The agent's call.                                                        *)
LEMMA PlaceStep ==
    ASSUME WakeInv, NEW w \in Wakes, ScheduleWakeup(w) \/ EnqueueCommit(w)
    PROVE  WakeInv'
<1>1. TypeOK'
  <2>1. CASE ScheduleWakeup(w)
    BY <2>1 DEF WakeInv, TypeOK, ScheduleWakeup
  <2>2. CASE EnqueueCommit(w)
    BY <2>2 DEF WakeInv, TypeOK, EnqueueCommit, Marks
  <2> QED
    BY <2>1, <2>2
<1>2. NotArmedYet' /\ BulkList' /\ ShownWillFire'
  BY DEF WakeInv, TypeOK, ScheduleWakeup, EnqueueCommit, NotArmedYet, BulkList, ShownWillFire, Total
<1>3. NoRowYet' /\ FiredInRow' /\ OneToSend'
  <2>1. CASE ScheduleWakeup(w)
    BY <2>1 DEF WakeInv, TypeOK, ScheduleWakeup, NotArmedYet, NoRowYet, FiredInRow, OneToSend, Total
  <2>2. CASE EnqueueCommit(w)
    <3>1. NoRowYet' /\ FiredInRow'
      BY <2>2 DEF WakeInv, TypeOK, EnqueueCommit, NotArmedYet, NoRowYet, FiredInRow, Total
    <3>2. OneToSend'
      BY <2>2 DEF WakeInv, TypeOK, EnqueueCommit, OneToSend, Total
    <3> QED
      BY <3>1, <3>2
  <2> QED
    BY <2>1, <2>2
<1> QED
  BY <1>1, <1>2, <1>3 DEF WakeInv

LEMMA ArmStep ==
    ASSUME WakeInv, NEW w \in Wakes, Arm(w)
    PROVE  WakeInv'
<1>1. TypeOK'
  BY DEF WakeInv, TypeOK, Arm, Show, Stages
<1>2. NotArmedYet' /\ NoRowYet' /\ FiredInRow' /\ OneToSend'
  BY DEF WakeInv, TypeOK, Arm, Show, NotArmedYet, NoRowYet, FiredInRow, OneToSend, Total
<1>3. BulkList'
  BY DEF WakeInv, TypeOK, Arm, NotArmedYet, BulkList
<1>4. ShownWillFire'
  BY DEF WakeInv, TypeOK, Arm, ShownWillFire
<1> QED
  BY <1>1, <1>2, <1>3, <1>4 DEF WakeInv

(* A killed stream, alone or at the end of the session.                     *)
LEMMA KillKeeps ==
    ASSUME WakeInv, NEW landed, KillStream(landed), UNCHANGED <<mirror, timer, shown, sent>>
    PROVE  /\ row' \in [Wakes -> SUBSET Marks]
           /\ placing' \in [Wakes -> {"new", "writing", "stored", "over"}]
           /\ NoRowYet' /\ FiredInRow' /\ OneToSend'
           /\ \A w \in Wakes : placing'[w] \in {"new", "writing", "stored"} =>
                  placing[w] \in {"new", "writing", "stored"}
<1>1. landed \subseteq {w \in Wakes : placing[w] = "writing"}
      /\ placing' = [w \in Wakes |-> IF w \in Placing THEN "over" ELSE placing[w]]
      /\ row' = [w \in Wakes |-> IF w \in landed THEN {"stored"} ELSE row[w]]
  BY DEF KillStream
<1>2. \A w \in landed : w \in Placing /\ timer[w] = "off" /\ Total(w) = 0
  BY <1>1 DEF Placing, WakeInv, NotArmedYet
<1>3. \A w \in Wakes : placing'[w] \in {"new", "writing", "stored"} => placing[w] = placing'[w] /\ row'[w] = row[w]
  BY <1>1, <1>2
<1>4. row' \in [Wakes -> SUBSET Marks] /\ placing' \in [Wakes -> {"new", "writing", "stored", "over"}]
  BY <1>1 DEF WakeInv, TypeOK, Marks
<1>5. NoRowYet'
  BY <1>3 DEF WakeInv, NoRowYet
<1>6. FiredInRow' /\ OneToSend'
  BY <1>1, <1>2 DEF WakeInv, FiredInRow, OneToSend, Total
<1> QED
  BY <1>3, <1>4, <1>5, <1>6

LEMMA StreamKilledStep ==
    ASSUME WakeInv, StreamKilled
    PROVE  WakeInv'
<1>1. PICK landed : KillStream(landed)
  BY DEF StreamKilled
<1>2. /\ row' \in [Wakes -> SUBSET Marks]
      /\ placing' \in [Wakes -> {"new", "writing", "stored", "over"}]
      /\ NoRowYet' /\ FiredInRow' /\ OneToSend'
      /\ \A w \in Wakes : placing'[w] \in {"new", "writing", "stored"} =>
             placing[w] \in {"new", "writing", "stored"}
  BY <1>1, KillKeeps DEF StreamKilled
<1> QED
  BY <1>2 DEF StreamKilled, WakeInv, TypeOK, NotArmedYet, BulkList, ShownWillFire, Total

(* The timer.                                                               *)
LEMMA FireStep ==
    ASSUME WakeInv, NEW w \in Wakes, TimerFires(w) \/ MarkFired(w)
    PROVE  WakeInv'
<1>1. TypeOK'
  <2>1. CASE TimerFires(w)
    BY <2>1 DEF WakeInv, TypeOK, TimerFires, Stages
  <2>2. CASE MarkFired(w)
    BY <2>2 DEF WakeInv, TypeOK, MarkFired, Stages, Marks
  <2> QED
    BY <2>1, <2>2
<1>2. NotArmedYet' /\ NoRowYet' /\ BulkList'
  BY DEF WakeInv, TypeOK, TimerFires, MarkFired, NotArmedYet, NoRowYet, BulkList, Total
<1>3. FiredInRow' /\ OneToSend'
  BY DEF WakeInv, TypeOK, TimerFires, MarkFired, FiredInRow, OneToSend, Total
<1>4. ShownWillFire'
  BY DEF WakeInv, TypeOK, TimerFires, MarkFired, ShownWillFire
<1> QED
  BY <1>1, <1>2, <1>3, <1>4 DEF WakeInv

LEMMA RouteStep ==
    ASSUME WakeInv, NEW w \in Wakes, Route(w)
    PROVE  WakeInv'
<1>1. TypeOK'
  BY DEF WakeInv, TypeOK, Route, Show, Stages
<1>2. NotArmedYet' /\ NoRowYet' /\ BulkList'
  BY DEF WakeInv, TypeOK, Route, Show, NotArmedYet, NoRowYet, BulkList, Total
<1>3. FiredInRow' /\ OneToSend'
  BY DEF WakeInv, TypeOK, Route, FiredInRow, OneToSend, Total
<1>4. ShownWillFire'
  BY DEF WakeInv, TypeOK, Route, ShownWillFire
<1> QED
  BY <1>1, <1>2, <1>3, <1>4 DEF WakeInv

LEMMA DeliverStep ==
    ASSUME WakeInv, NEW w \in Wakes, Deliver(w)
    PROVE  WakeInv'
<1> DEFINE p == IF timer[w] = "toOwn" THEN "own" ELSE "new"
<1>1. /\ p \in Places /\ timer[w] \in {"toOwn", "toNew"}
      /\ sent' = [sent EXCEPT ![w][p] = @ + 1] /\ timer' = [timer EXCEPT ![w] = "off"]
      /\ UNCHANGED <<row, mirror, shown, placing, session, saved, archiving, call, restarts>>
  BY DEF Deliver, Places
<1>2. Total(w) = 0 /\ "fired" \in row[w]
  BY <1>1 DEF WakeInv, OneToSend, FiredInRow
<1> HIDE DEF p
<1>3. sent' \in [Wakes -> [Places -> Nat]] /\ \A v \in Wakes : v # w => sent'[v] = sent[v]
  BY <1>1 DEF WakeInv, TypeOK
<1>4. Total(w)' = 1
  BY <1>1, <1>2 DEF WakeInv, TypeOK, Total, Places
<1>5. \A v \in Wakes : v # w => Total(v)' = Total(v)
  BY <1>3 DEF Total
<1>6. TypeOK'
  BY <1>1, <1>3 DEF WakeInv, TypeOK, Stages
<1>7. NotArmedYet' /\ NoRowYet' /\ BulkList'
  BY <1>1, <1>5 DEF WakeInv, TypeOK, NotArmedYet, NoRowYet, BulkList
<1>8. FiredInRow' /\ OneToSend'
  BY <1>1, <1>2, <1>4, <1>5 DEF WakeInv, TypeOK, FiredInRow, OneToSend
<1>9. ShownWillFire'
  BY <1>1 DEF WakeInv, TypeOK, ShownWillFire
<1> QED
  BY <1>6, <1>7, <1>8, <1>9 DEF WakeInv

(* The calls.                                                               *)
LEMMA CallStarts ==
    ASSUME WakeInv, NEW c \in Callers, CancelOne(c) \/ CancelAll(c) \/ EndSession(c)
    PROVE  WakeInv'
<1>1. /\ call' \in [Callers -> CallType] /\ \A d \in Callers : d # c => call'[d] = call[d]
      /\ call'[c].ids \subseteq mirror \cup {w \in Wakes : "scheduled" \in shown[w]}
      /\ call'[c].op \in {"all", "end"} /\ call'[c].pc \in {"writing", "written"} =>
            call'[c].ids \subseteq call'[c].at \cup call'[c].todo
      /\ UNCHANGED <<row, mirror, timer, shown, sent, placing, session, saved, archiving, restarts>>
  <2> USE DEF WakeInv, TypeOK
  <2>1. CASE CancelOne(c)
    BY <2>1 DEF CancelOne, CallType
  <2>2. CASE CancelAll(c)
    BY <2>2 DEF CancelAll, CallType
  <2>3. CASE EndSession(c)
    BY <2>3 DEF EndSession, CallType, Idle
  <2> QED
    BY <2>1, <2>2, <2>3
<1>2. TypeOK'
  BY <1>1 DEF WakeInv, TypeOK, CallType
<1>3. NotArmedYet' /\ NoRowYet' /\ FiredInRow' /\ OneToSend' /\ ShownWillFire'
  BY <1>1 DEF WakeInv, NotArmedYet, NoRowYet, FiredInRow, OneToSend, ShownWillFire, Total
<1>4. BulkList'
  BY <1>1 DEF WakeInv, BulkList
<1> QED
  BY <1>2, <1>3, <1>4 DEF WakeInv

LEMMA EndTornStep ==
    ASSUME WakeInv, NEW c \in Callers, EndTorn(c)
    PROVE  WakeInv'
<1>1. PICK landed : KillStream(landed)
  BY DEF EndTorn
<1>2. /\ row' \in [Wakes -> SUBSET Marks]
      /\ placing' \in [Wakes -> {"new", "writing", "stored", "over"}]
      /\ NoRowYet' /\ FiredInRow' /\ OneToSend'
      /\ \A w \in Wakes : placing'[w] \in {"new", "writing", "stored"} =>
             placing[w] \in {"new", "writing", "stored"}
  BY <1>1, KillKeeps DEF EndTorn
<1>3. /\ call' \in [Callers -> CallType] /\ \A d \in Callers : d # c => call'[d] = call[d]
      /\ call'[c].ids \subseteq mirror
      /\ call'[c].pc \in {"writing", "written"} => call'[c].ids \subseteq call'[c].at \cup call'[c].todo
      /\ UNCHANGED <<mirror, timer, shown, sent, saved, restarts>>
      /\ session' \in {"live", "ended", "gone"} /\ (session' = "gone" <=> session = "gone")
      /\ archiving' \in BOOLEAN
  <2>1. CASE mirror = {}
    BY <2>1, IdleType DEF WakeInv, TypeOK, EndTorn, CallType
  <2>2. CASE mirror # {}
    <3>1. PICK w \in mirror :
             call' = [call EXCEPT ![c] = [op |-> "end", pc |-> "writing", at |-> {w},
                                          todo |-> mirror \ {w}, ids |-> mirror]]
      BY <2>2 DEF EndTorn
    <3> DEFINE e == [op |-> "end", pc |-> "writing", at |-> {w}, todo |-> mirror \ {w}, ids |-> mirror]
    <3>2. e \in CallType /\ e.ids = mirror /\ e.ids \subseteq e.at \cup e.todo
      BY DEF WakeInv, TypeOK, CallType
    <3>3. call' = [call EXCEPT ![c] = e] /\ call \in [Callers -> CallType]
      BY <3>1 DEF WakeInv, TypeOK, CallType
    <3> HIDE DEF e
    <3> QED
      BY <2>2, <3>2, <3>3 DEF WakeInv, TypeOK, EndTorn
  <2> QED
    BY <2>1, <2>2
<1>4. TypeOK'
  BY <1>2, <1>3 DEF WakeInv, TypeOK, CallType
<1>5. NotArmedYet' /\ BulkList' /\ ShownWillFire'
  BY <1>2, <1>3 DEF WakeInv, NotArmedYet, BulkList, ShownWillFire, Total
<1> QED
  BY <1>2, <1>4, <1>5 DEF WakeInv

LEMMA CancelCommitStep ==
    ASSUME WakeInv, NEW c \in Callers, CancelCommit(c)
    PROVE  WakeInv'
<1>1. TypeOK'
  <2>1. row' \in [Wakes -> SUBSET Marks]
    BY DEF WakeInv, TypeOK, CancelCommit, Marks
  <2>2. call' \in [Callers -> CallType]
    <3>1. call \in [Callers -> CallType]
      BY DEF WakeInv, TypeOK, CallType
    <3>2. call' = [call EXCEPT ![c].pc = "written"]
      BY DEF CancelCommit
    <3> QED
      BY <3>1, <3>2 DEF CallType
  <2>3. UNCHANGED <<mirror, timer, shown, sent, placing, session, saved, archiving, restarts>>
    BY DEF CancelCommit
  <2> QED
    BY <2>1, <2>2, <2>3 DEF WakeInv, TypeOK, CallType
<1>2. NotArmedYet' /\ NoRowYet' /\ FiredInRow' /\ OneToSend' /\ ShownWillFire'
  BY DEF WakeInv, TypeOK, CancelCommit, NotArmedYet, NoRowYet, FiredInRow, OneToSend, ShownWillFire, Total
<1>3. BulkList'
  BY DEF WakeInv, TypeOK, CancelCommit, BulkList
<1> QED
  BY <1>1, <1>2, <1>3 DEF WakeInv

(* The last step of a cancel: some wakes leave the mirror, the timers of a   *)
(* set that is out of the mirror by then are cut, and fired marks may land.  *)
LEMMA CutStep ==
    ASSUME WakeInv, NEW c \in Callers, NEW cut \in SUBSET Wakes, NEW landed \in SUBSET cut,
           Removed(c), CancelTimers(cut, landed), row' = Landed(landed),
           mirror' \cap cut = {}, call' = [call EXCEPT ![c] = Idle],
           archiving' \in BOOLEAN, UNCHANGED <<sent, placing, session, saved, restarts>>
    PROVE  WakeInv'
<1>1. /\ landed \subseteq {w \in cut : timer[w] = "marking"}
      /\ timer' = [w \in Wakes |-> IF w \in cut THEN "off" ELSE timer[w]]
      /\ row' = [w \in Wakes |-> IF w \in landed THEN row[w] \cup {"fired"} ELSE row[w]]
      /\ mirror' \subseteq mirror
      /\ shown' = [w \in Wakes |-> IF w \in call[c].at \cap mirror
                                   THEN shown[w] \cup {"cancelled"} ELSE shown[w]]
  BY DEF CancelTimers, Landed, Removed
<1>2. /\ Idle \in CallType /\ Idle.ids = {} /\ Idle.op = "none"
  BY DEF Idle, CallType
<1> HIDE DEF Idle
<1>3. TypeOK'
  BY <1>1, <1>2 DEF WakeInv, TypeOK, CallType, Stages, Marks
<1>4. NotArmedYet'
  BY <1>1, <1>2 DEF WakeInv, TypeOK, NotArmedYet, Total
<1>5. NoRowYet' /\ FiredInRow' /\ OneToSend'
  BY <1>1 DEF WakeInv, TypeOK, NotArmedYet, NoRowYet, FiredInRow, OneToSend, Total
<1>6. BulkList'
  BY <1>1, <1>2 DEF WakeInv, TypeOK, BulkList
<1>7. ShownWillFire'
  BY <1>1 DEF WakeInv, TypeOK, ShownWillFire
<1> QED
  BY <1>3, <1>4, <1>5, <1>6, <1>7 DEF WakeInv

LEMMA CancelledOneStep ==
    ASSUME WakeInv, NEW c \in Callers, CancelledOne(c)
    PROVE  WakeInv'
<1>1. PICK landed \in SUBSET call[c].at :
         CancelTimers(call[c].at \cap mirror, landed) /\ row' = Landed(landed)
  BY DEF CancelledOne
<1>2. call[c].at \in SUBSET Wakes /\ call[c].at \cap mirror \in SUBSET Wakes
  BY DEF WakeInv, TypeOK
<1>3. landed \in SUBSET (call[c].at \cap mirror)
  BY <1>1 DEF CancelTimers
<1>4. mirror' \cap (call[c].at \cap mirror) = {}
  BY DEF CancelledOne, Removed
<1>5. archiving' \in BOOLEAN
  BY DEF WakeInv, TypeOK, CancelledOne
<1> QED
  BY <1>1, <1>2, <1>3, <1>4, <1>5, CutStep DEF CancelledOne

LEMMA CancelNextStep ==
    ASSUME WakeInv, NEW c \in Callers, CancelNext(c)
    PROVE  WakeInv'
<1>1. PICK w \in call[c].todo :
         call' = [call EXCEPT ![c].pc = "writing", ![c].at = {w}, ![c].todo = @ \ {w}]
  BY DEF CancelNext
<1>2. /\ call' \in [Callers -> CallType] /\ \A d \in Callers : d # c => call'[d] = call[d]
      /\ call'[c].ids = call[c].ids /\ call'[c].at \cup call'[c].todo = call[c].todo
      /\ mirror' = mirror \ call[c].at
      /\ shown' = [v \in Wakes |-> IF v \in call[c].at \cap mirror
                                   THEN shown[v] \cup {"cancelled"} ELSE shown[v]]
      /\ UNCHANGED <<row, timer, sent, placing, session, saved, archiving, restarts>>
  BY <1>1 DEF WakeInv, TypeOK, CancelNext, Removed, CallType
<1>3. TypeOK'
  BY <1>2 DEF WakeInv, TypeOK, CallType
<1>4. NotArmedYet' /\ NoRowYet' /\ FiredInRow' /\ OneToSend' /\ ShownWillFire'
  BY <1>2 DEF WakeInv, TypeOK, NotArmedYet, NoRowYet, FiredInRow, OneToSend, ShownWillFire, Total
<1>5. BulkList'
  BY <1>2 DEF WakeInv, BulkList, CancelNext
<1> QED
  BY <1>3, <1>4, <1>5 DEF WakeInv

LEMMA CancelledAllStep ==
    ASSUME WakeInv, NEW c \in Callers, CancelledAll(c)
    PROVE  WakeInv'
<1>1. PICK landed \in SUBSET call[c].ids :
         CancelTimers(call[c].ids, landed) /\ row' = Landed(landed)
  BY DEF CancelledAll
<1>2. call[c].ids \in SUBSET Wakes
  BY DEF WakeInv, TypeOK
<1>3. mirror' \cap call[c].ids = {}
  BY DEF CancelledAll, Removed, WakeInv, BulkList
<1>4. archiving' \in BOOLEAN
  BY DEF WakeInv, TypeOK, CancelledAll
<1> QED
  BY <1>1, <1>2, <1>3, <1>4, CutStep DEF CancelledAll

(* The session and the worker.                                              *)
LEMMA SessionStep ==
    ASSUME WakeInv, AgentFinishes \/ Archive \/ Flush \/ RestoreSession
    PROVE  WakeInv'
<1>1. /\ UNCHANGED <<row, timer, shown, sent, placing, call, restarts>>
      /\ mirror' \in {mirror, {}} /\ (mirror' # {} /\ session' # "gone" => session # "gone")
  BY DEF AgentFinishes, Archive, Flush, RestoreSession
<1>2. TypeOK'
  BY <1>1 DEF WakeInv, TypeOK, AgentFinishes, Archive, Flush, RestoreSession
<1>3. NotArmedYet' /\ NoRowYet' /\ FiredInRow' /\ OneToSend' /\ BulkList' /\ ShownWillFire'
  BY <1>1 DEF WakeInv, NotArmedYet, NoRowYet, FiredInRow, OneToSend, BulkList, ShownWillFire, Total
<1> QED
  BY <1>2, <1>3 DEF WakeInv

LEMMA RestartStep ==
    ASSUME WakeInv, Restart
    PROVE  WakeInv'
<1>1. /\ mirror' = Hydrated /\ timer' = Armed /\ call' = [c \in Callers |-> Idle]
      /\ placing' = [w \in Wakes |-> IF w \in Placing THEN "over" ELSE placing[w]]
      /\ UNCHANGED <<row, shown, sent, saved>>
  BY DEF Restart
<1>2. Idle \in CallType /\ Idle.ids = {} /\ Idle.op = "none"
  BY DEF Idle, CallType
<1> HIDE DEF Idle
<1>3. /\ Hydrated \subseteq Wakes /\ timer' = [w \in Wakes |-> IF w \in Hydrated THEN "armed" ELSE "off"]
      /\ \A w \in Hydrated : row[w] = {"stored"}
  BY <1>1 DEF Hydrated, Pending, Armed
<1>4. ASSUME NEW w \in Wakes, placing'[w] \in {"new", "writing", "stored"}
      PROVE  placing[w] = "new" /\ w \notin Hydrated
  <2>1. placing[w] = "new"
    BY <1>1, <1>4 DEF WakeInv, TypeOK, Placing
  <2> QED
    BY <1>3, <2>1 DEF WakeInv, NoRowYet
<1>5. \A w \in Hydrated : Total(w) = 0
  <2>1. \A w \in Hydrated : ~ (Total(w) > 0)
    BY <1>3 DEF WakeInv, FiredInRow
  <2>2. \A w \in Wakes : Total(w) \in Nat
    BY DEF WakeInv, TypeOK, Total, Places
  <2> QED
    BY <1>3, <2>1, <2>2
<1>6. TypeOK'
  <2>1. /\ timer' \in [Wakes -> Stages] /\ call' \in [Callers -> CallType]
        /\ placing' \in [Wakes -> {"new", "writing", "stored", "over"}]
    BY <1>1, <1>2, <1>3 DEF WakeInv, TypeOK, Stages
  <2>2. restarts \in 0 .. MaxRestarts /\ restarts < MaxRestarts /\ restarts' = restarts + 1
        /\ archiving' = FALSE /\ session' \in {"live", "gone"}
    BY DEF WakeInv, TypeOK, Restart
  <2>3. restarts' \in 0 .. MaxRestarts
    BY <2>2, WakeupAssumption
  <2> QED
    BY <1>1, <1>3, <2>1, <2>2, <2>3 DEF WakeInv, TypeOK, CallType
<1>7. NotArmedYet' /\ NoRowYet'
  BY <1>1, <1>2, <1>3, <1>4 DEF WakeInv, NotArmedYet, NoRowYet, Total
<1>8. FiredInRow' /\ OneToSend'
  BY <1>1, <1>3, <1>5 DEF WakeInv, FiredInRow, OneToSend, Total
<1>9. BulkList' /\ ShownWillFire'
  BY <1>1, <1>2, <1>3 DEF BulkList, ShownWillFire
<1> QED
  BY <1>6, <1>7, <1>8, <1>9 DEF WakeInv

LEMMA NextWakeInv == WakeInv /\ [Next]_vars => WakeInv'
<1> SUFFICES ASSUME WakeInv, [Next]_vars PROVE WakeInv'
  OBVIOUS
<1>1. CASE UNCHANGED vars
  BY <1>1 DEF vars, WakeInv, TypeOK, NotArmedYet, NoRowYet, FiredInRow, OneToSend, BulkList,
              ShownWillFire, Total
<1>2. CASE Next
  BY <1>2, PlaceStep, ArmStep, StreamKilledStep, FireStep, RouteStep, DeliverStep, CallStarts,
     EndTornStep, CancelCommitStep, CancelledOneStep, CancelNextStep, CancelledAllStep,
     SessionStep, RestartStep DEF Next
<1> QED
  BY <1>1, <1>2

LEMMA WakeupsInvariant == Spec => []WakeInv
<1>1. Init => WakeInv
  BY InitWakeInv
<1>2. WakeInv /\ [Next]_vars => WakeInv'
  BY NextWakeInv
<1> QED
  BY <1>1, <1>2, PTL DEF Spec

(* The prompt of a wake is routed at most once, to its session or to a new   *)
(* one, whatever cancels, ends, restores and restarts meet its timer         *)
(* (_fire_pending_wakeup, restore_all_pending).                              *)
THEOREM PromptSentOnce == Spec => []SentOnce
<1>1. WakeInv => SentOnce
  BY DEF WakeInv, OneToSend, SentOnce, Total
<1> QED
  BY <1>1, WakeupsInvariant, PTL

(* A wake that the badge shows has a timer that will bring it out: a bulk    *)
(* cancel cuts only timers of wakes that have left the mirror                *)
(* (cancel_all_for_session), and a restart arms what it hydrates.            *)
THEOREM BadgeHasTimer == Spec => []ShownWillFire
BY WakeupsInvariant, PTL DEF WakeInv

-----------------------------------------------------------------------------
(***************************************************************************)
(* AgenticLoop, for any prompts, calls per reply, rounds and disturbances. *)
(*                                                                         *)
(* Replies and results are appended at different steps, with awaits and    *)
(* failures between them. The prompt that owes results holds the lock, so  *)
(* no other one can append in between: up to the last message, which is    *)
(* its reply, the history is paired.                                       *)
(***************************************************************************)

LoopPcs == {"none", "row", "queued", "wait", "context", "open", "llm", "close", "append", "tool",
            "runTool", "runAgent", "post", "error", "fail", "directTool", "directAgent", "done"}
HistoryMessage == [kind : {"user", "assistant", "results"}, calls : Nat]
LoopPrompt == [pc : LoopPcs, drained : BOOLEAN, asked : Nat, left : Int, round : Int]

LoopTyped ==
    /\ provider \in {"none", "anthropic", "openai"}
    /\ history \in Seq(HistoryMessage) /\ stored \in Seq(HistoryMessage)
    /\ loaded \in Nat /\ loaded <= Len(history)
    /\ prompt \in [Prompts -> LoopPrompt]
    /\ lock \in {0} \cup Prompts

(* The points of a prompt between the reply that asks for tools and their    *)
(* results, and all those at which it holds the lock.                        *)
Owing == {"tool", "runTool", "runAgent"}
Holding == {"context", "open", "llm", "close", "append", "post", "error", "fail"} \cup Owing

LockHeld == \A p \in Prompts : prompt[p].pc \in Holding <=> lock = p

(* While the lock's prompt owes results the last message is its reply, and   *)
(* what is before it is paired; at every other point all of it is.           *)
RepliesAnswered ==
    IF lock # 0 /\ prompt[lock].pc \in Owing
    THEN /\ loaded < Len(history) /\ prompt[lock].asked > 0
         /\ history[Len(history)] = Reply(prompt[lock].asked)
         /\ Paired(history, loaded, Len(history) - 1)
    ELSE Paired(history, loaded, Len(history))

LoopInv == LoopTyped /\ LockHeld /\ RepliesAnswered

-----------------------------------------------------------------------------
LEMMA ResultsType ==
    ASSUME NEW n \in Nat, n > 0
    PROVE  /\ Results(n) \in Seq(HistoryMessage)
           /\ Len(Results(n)) \in Nat /\ Len(Results(n)) > 0
           /\ \A j \in 1 .. Len(Results(n)) : Results(n)[j].kind = "results"
<1>1. \A m \in Nat : Result(m) \in HistoryMessage /\ Result(m).kind = "results"
  BY DEF Result, HistoryMessage
<1>2. CASE provider = "openai"
  <2>1. Results(n) = [i \in 1 .. n |-> Result(1)]
    BY <1>2 DEF Results
  <2>2. [i \in 1 .. n |-> Result(1)] \in Seq(HistoryMessage) /\ Len([i \in 1 .. n |-> Result(1)]) = n
    BY <1>1
  <2> QED
    BY <1>1, <2>1, <2>2
<1>3. CASE provider # "openai"
  <2>1. Results(n) = <<Result(n)>>
    BY <1>3 DEF Results
  <2> QED
    BY <1>1, <2>1
<1> QED
  BY <1>2, <1>3

(* Pairing speaks of the messages between its bounds only.                   *)
LEMMA PairedNothing ==
    ASSUME NEW h, NEW n \in Nat
    PROVE  Paired(h, n, n)
BY DEF Paired

LEMMA PairedSame ==
    ASSUME NEW g, NEW h, NEW first \in Nat, NEW last \in Nat, Paired(h, first, last),
           \A i \in first + 1 .. last : g[i] = h[i],
           \A i \in first + 1 .. last : h[i] \in HistoryMessage
    PROVE  Paired(g, first, last)
<1> SUFFICES ASSUME NEW i \in first + 1 .. last
             PROVE  /\ g[i].kind = "assistant" /\ g[i].calls > 0 =>
                         /\ i + Len(Results(g[i].calls)) <= last
                         /\ \A j \in 1 .. Len(Results(g[i].calls)) : g[i + j] = Results(g[i].calls)[j]
                    /\ g[i].kind = "results" => \E k \in first + 1 .. i - 1 :
                         g[k].kind = "assistant" /\ g[k].calls > 0 /\ i <= k + Len(Results(g[k].calls))
  BY DEF Paired
<1>1. g[i] = h[i] /\ i \in Nat /\ h[i].calls \in Nat
  BY DEF HistoryMessage
<1>2. ASSUME g[i].kind = "assistant", g[i].calls > 0
      PROVE  /\ i + Len(Results(g[i].calls)) <= last
             /\ \A j \in 1 .. Len(Results(g[i].calls)) : g[i + j] = Results(g[i].calls)[j]
  <2>1. Len(Results(h[i].calls)) \in Nat
    BY <1>1, <1>2, ResultsType
  <2>2. /\ i + Len(Results(h[i].calls)) <= last
        /\ \A j \in 1 .. Len(Results(h[i].calls)) : h[i + j] = Results(h[i].calls)[j]
    BY <1>1, <1>2 DEF Paired
  <2>3. \A j \in 1 .. Len(Results(h[i].calls)) : i + j \in first + 1 .. last
    BY <1>1, <2>1, <2>2
  <2> QED
    BY <1>1, <2>2, <2>3
<1>3. ASSUME g[i].kind = "results"
      PROVE  \E k \in first + 1 .. i - 1 :
                g[k].kind = "assistant" /\ g[k].calls > 0 /\ i <= k + Len(Results(g[k].calls))
  <2>1. PICK k \in first + 1 .. i - 1 :
           h[k].kind = "assistant" /\ h[k].calls > 0 /\ i <= k + Len(Results(h[k].calls))
    BY <1>1, <1>3 DEF Paired
  <2>2. g[k] = h[k]
    BY <1>1
  <2> QED
    BY <2>1, <2>2
<1> QED
  BY <1>2, <1>3

(* One more message that neither asks nor answers.                           *)
LEMMA PairedPlain ==
    ASSUME NEW h, NEW first \in Nat, NEW last \in Nat, Paired(h, first, last), first <= last,
           \A i \in first + 1 .. last : h[i] \in HistoryMessage,
           h[last + 1].kind # "results", ~ (h[last + 1].kind = "assistant" /\ h[last + 1].calls > 0)
    PROVE  Paired(h, first, last + 1)
<1> SUFFICES ASSUME NEW i \in first + 1 .. last + 1
             PROVE  /\ h[i].kind = "assistant" /\ h[i].calls > 0 =>
                         /\ i + Len(Results(h[i].calls)) <= last + 1
                         /\ \A j \in 1 .. Len(Results(h[i].calls)) : h[i + j] = Results(h[i].calls)[j]
                    /\ h[i].kind = "results" => \E k \in first + 1 .. i - 1 :
                         h[k].kind = "assistant" /\ h[k].calls > 0 /\ i <= k + Len(Results(h[k].calls))
  BY DEF Paired
<1>1. CASE i = last + 1
  BY <1>1
<1>2. CASE i # last + 1
  <2>1. i \in first + 1 .. last /\ h[i].calls \in Nat
    BY <1>2 DEF HistoryMessage
  <2>2. h[i].kind = "assistant" /\ h[i].calls > 0 =>
             /\ i + Len(Results(h[i].calls)) <= last
             /\ \A j \in 1 .. Len(Results(h[i].calls)) : h[i + j] = Results(h[i].calls)[j]
    BY <2>1 DEF Paired
  <2>3. h[i].calls > 0 => Len(Results(h[i].calls)) \in Nat
    BY <2>1, ResultsType
  <2>4. h[i].kind = "results" => \E k \in first + 1 .. i - 1 :
             h[k].kind = "assistant" /\ h[k].calls > 0 /\ i <= k + Len(Results(h[k].calls))
    BY <2>1 DEF Paired
  <2> QED
    BY <2>1, <2>2, <2>3, <2>4
<1> QED
  BY <1>1, <1>2

(* A reply and the results it asked for.                                     *)
LEMMA PairedReply ==
    ASSUME NEW h, NEW first \in Nat, NEW last \in Nat, Paired(h, first, last), first <= last,
           \A i \in first + 1 .. last : h[i] \in HistoryMessage,
           NEW n \in Nat, n > 0, h[last + 1] = Reply(n),
           \A j \in 1 .. Len(Results(n)) : h[last + 1 + j] = Results(n)[j]
    PROVE  Paired(h, first, last + 1 + Len(Results(n)))
<1>1. /\ Len(Results(n)) \in Nat /\ Len(Results(n)) > 0
      /\ \A j \in 1 .. Len(Results(n)) : Results(n)[j].kind = "results"
  BY ResultsType
<1> DEFINE m == Len(Results(n))
           end == last + 1 + m
<1>2. m \in Nat /\ end \in Nat /\ end = last + 1 + m
  BY <1>1
<1>3. h[last + 1].kind = "assistant" /\ h[last + 1].calls = n
  BY DEF Reply
<1> SUFFICES ASSUME NEW i \in first + 1 .. end
             PROVE  /\ h[i].kind = "assistant" /\ h[i].calls > 0 =>
                         /\ i + Len(Results(h[i].calls)) <= end
                         /\ \A j \in 1 .. Len(Results(h[i].calls)) : h[i + j] = Results(h[i].calls)[j]
                    /\ h[i].kind = "results" => \E k \in first + 1 .. i - 1 :
                         h[k].kind = "assistant" /\ h[k].calls > 0 /\ i <= k + Len(Results(h[k].calls))
  BY DEF Paired
<1>4. CASE i \in first + 1 .. last
  <2>1. h[i].calls \in Nat
    BY <1>4 DEF HistoryMessage
  <2>2. h[i].kind = "assistant" /\ h[i].calls > 0 =>
             /\ i + Len(Results(h[i].calls)) <= last
             /\ \A j \in 1 .. Len(Results(h[i].calls)) : h[i + j] = Results(h[i].calls)[j]
    BY <1>4 DEF Paired
  <2>3. h[i].calls > 0 => Len(Results(h[i].calls)) \in Nat
    BY <2>1, ResultsType
  <2>4. h[i].kind = "results" => \E k \in first + 1 .. i - 1 :
             h[k].kind = "assistant" /\ h[k].calls > 0 /\ i <= k + Len(Results(h[k].calls))
    BY <1>4 DEF Paired
  <2> HIDE DEF m
  <2> QED
    BY <1>2, <2>1, <2>2, <2>3, <2>4
<1>5. CASE i = last + 1
  <2>1. h[i].kind = "assistant" /\ h[i].calls = n
    BY <1>3, <1>5
  <2> QED
    BY <1>2, <1>5, <2>1
<1>6. CASE i \in last + 2 .. end
  <2> DEFINE j == i - (last + 1)
  <2>1. j \in 1 .. m /\ last + 1 + j = i
    BY <1>2, <1>6
  <2>2. h[i] = Results(n)[j] /\ Results(n)[j].kind = "results"
    BY <1>1, <2>1
  <2>3. h[i].kind = "results"
    BY <2>2
  <2>4. last + 1 \in first + 1 .. i - 1 /\ i <= last + 1 + m
    BY <1>2, <1>6
  <2>5. h[last + 1].kind = "assistant" /\ h[last + 1].calls > 0 /\ i <= last + 1 + Len(Results(h[last + 1].calls))
    BY <1>3, <2>4
  <2> QED
    BY <2>3, <2>4, <2>5
<1>7. i \in first + 1 .. last \/ i = last + 1 \/ i \in last + 2 .. end
  BY <1>2
<1> QED
  BY <1>4, <1>5, <1>6, <1>7

(* The provider never changes, so neither does what a reply is owed.         *)
LEMMA PairedPrime ==
    ASSUME provider' = provider, Paired(history', loaded', Len(history'))
    PROVE  Paired(history, loaded, Len(history))'
BY DEF Paired, Results
LEMMA PairedFrontPrime ==
    ASSUME provider' = provider, Paired(history', loaded', Len(history') - 1)
    PROVE  Paired(history, loaded, Len(history) - 1)'
BY DEF Paired, Results

LEMMA LoopFacts ==
    ASSUME LoopInv, NEW p \in Prompts
    PROVE  /\ prompt[p] \in LoopPrompt /\ p # 0
           /\ lock \in Prompts <=> lock # 0
           /\ prompt[p].pc \in Holding => lock = p
BY DEF LoopInv, LoopTyped, LockHeld, Prompts

LEMMA InitLoopInv == LoopInit => LoopInv
<1> SUFFICES ASSUME LoopInit PROVE LoopInv
  OBVIOUS
<1>1. LoopTyped
  <2>1. NewPrompt \in LoopPrompt
    BY DEF NewPrompt, LoopPrompt, LoopPcs
  <2> QED
    BY <2>1 DEF LoopInit, LoopTyped
<1>2. LockHeld
  BY DEF LoopInit, LockHeld, NewPrompt, Holding, Owing, Prompts
<1>3. RepliesAnswered
  BY PairedNothing DEF LoopInit, RepliesAnswered
<1> QED
  BY <1>1, <1>2, <1>3 DEF LoopInv

(* A prompt moves on and the history stays.                                  *)
LEMMA PromptMoves ==
    ASSUME LoopInv, UNCHANGED <<provider, history, loaded, lock>>, stored' \in Seq(HistoryMessage),
           NEW p \in Prompts, NEW q \in LoopPrompt, prompt' = [prompt EXCEPT ![p] = q],
           q.pc \in Holding <=> prompt[p].pc \in Holding,
           q.pc \in Owing <=> prompt[p].pc \in Owing,
           q.pc \in Owing => q.asked = prompt[p].asked
    PROVE  LoopInv'
<1>1. LoopTyped'
  BY DEF LoopInv, LoopTyped, Prompts
<1>2. \A s \in Prompts : prompt'[s] = IF s = p THEN q ELSE prompt[s]
  BY DEF LoopInv, LoopTyped
<1>3. LockHeld'
  BY <1>2 DEF LoopInv, LockHeld, Prompts
<1>4. RepliesAnswered'
  <2>1. lock # 0 => lock \in Prompts
    BY DEF LoopInv, LoopTyped
  <2>2. lock # 0 => /\ prompt'[lock].pc \in Owing <=> prompt[lock].pc \in Owing
                    /\ prompt[lock].pc \in Owing => prompt'[lock].asked = prompt[lock].asked
    BY <1>2, <2>1
  <2>3. CASE lock # 0 /\ prompt[lock].pc \in Owing
    <3>1. /\ loaded' < Len(history') /\ prompt'[lock'].asked > 0
          /\ history'[Len(history')] = Reply(prompt'[lock'].asked)
          /\ Paired(history', loaded', Len(history') - 1)
      BY <2>2, <2>3 DEF LoopInv, RepliesAnswered
    <3>2. lock' # 0 /\ prompt'[lock'].pc \in Owing
      BY <2>2, <2>3
    <3>3. history'[Len(history')] = Reply(prompt[lock].asked)'
      BY <3>1 DEF Reply
    <3> QED
      BY <3>1, <3>2, <3>3, PairedFrontPrime DEF RepliesAnswered, Owing
  <2>4. CASE ~ (lock # 0 /\ prompt[lock].pc \in Owing)
    <3>1. Paired(history', loaded', Len(history'))
      BY <2>4 DEF LoopInv, RepliesAnswered
    <3>2. ~ (lock' # 0 /\ prompt'[lock'].pc \in Owing)
      BY <2>2, <2>4
    <3> QED
      BY <3>1, <3>2, PairedPrime DEF RepliesAnswered, Owing
  <2> QED
    BY <2>3, <2>4
<1> QED
  BY <1>1, <1>3, <1>4 DEF LoopInv

(* Any step after which the history is paired and no results are owed.       *)
LEMMA NothingOwed ==
    ASSUME LoopTyped', LockHeld', provider' = provider,
           Paired(history', loaded', Len(history')), lock' # 0 => prompt'[lock'].pc \notin Owing
    PROVE  LoopInv'
<1>1. RepliesAnswered'
  BY PairedPrime DEF RepliesAnswered, Owing
<1> QED
  BY <1>1 DEF LoopInv

(* The only one that may be owed results is the reply of the lock's prompt.  *)
LEMMA NoReplyOpen ==
    ASSUME LoopInv, lock = 0 \/ prompt[lock].pc \notin Owing
    PROVE  Paired(history, loaded, Len(history))
BY DEF LoopInv, RepliesAnswered

LEMMA LoopGotoIs ==
    ASSUME LoopInv, NEW p \in Prompts, NEW pc \in LoopPcs, LoopGoto(p, pc)
    PROVE  LET q == [prompt[p] EXCEPT !.pc = pc]
           IN prompt' = [prompt EXCEPT ![p] = q] /\ q \in LoopPrompt /\ q.pc = pc /\ q.asked = prompt[p].asked
BY DEF LoopInv, LoopTyped, LoopGoto, LoopPrompt

LEMMA SimpleMoves ==
    ASSUME LoopInv, UNCHANGED <<provider, history, stored, loaded, lock>>,
           NEW p \in Prompts, NEW pc \in LoopPcs, LoopGoto(p, pc),
           pc \in Holding <=> prompt[p].pc \in Holding,
           pc \in Owing <=> prompt[p].pc \in Owing
    PROVE  LoopInv'
<1> DEFINE q == [prompt[p] EXCEPT !.pc = pc]
<1>1. prompt' = [prompt EXCEPT ![p] = q] /\ q \in LoopPrompt /\ q.pc = pc /\ q.asked = prompt[p].asked
  BY LoopGotoIs
<1> HIDE DEF q
<1>2. stored' \in Seq(HistoryMessage)
  BY DEF LoopInv, LoopTyped
<1> QED
  BY <1>1, <1>2, PromptMoves

-----------------------------------------------------------------------------
(* A prompt comes in and is routed.                                          *)
LEMMA LoopRouting ==
    ASSUME LoopInv, NEW p \in Prompts,
           Arrive(p) \/ Enqueue(p) \/ Forward(p) \/ Refuse(p) \/ DirectTool(p) \/ DirectDone(p)
    PROVE  LoopInv'
<1>1. UNCHANGED <<provider, history, stored, loaded, lock>>
  BY DEF Arrive, Enqueue, Forward, Refuse, DirectTool, DirectDone
<1>2. prompt[p].pc \in {"none", "row", "directTool", "directAgent"}
  BY DEF Arrive, Enqueue, Forward, Refuse, DirectTool, DirectDone, Routed, Is
<1>3. PICK pc \in {"row", "queued", "done", "directTool", "directAgent"} : LoopGoto(p, pc)
  BY DEF Arrive, Enqueue, Forward, Refuse, DirectTool, DirectDone
<1>4. pc \in LoopPcs /\ pc \notin Holding /\ pc \notin Owing
      /\ prompt[p].pc \notin Holding /\ prompt[p].pc \notin Owing
  BY <1>2 DEF LoopPcs, Holding, Owing
<1> QED
  BY <1>1, <1>3, <1>4, SimpleMoves

LEMMA LoopTakesLock ==
    ASSUME LoopInv, NEW p \in Prompts, AskLlm(p) \/ TakeLock(p)
    PROVE  LoopInv'
<1>1. UNCHANGED <<provider, history, stored, loaded>> /\ prompt[p].pc \in {"row", "wait"}
  BY DEF AskLlm, TakeLock, Routed, Is
<1>2. CASE LoopGoto(p, "wait") /\ lock' = lock
  BY <1>1, <1>2, SimpleMoves DEF LoopPcs, Holding, Owing
<1>3. CASE lock = 0 /\ lock' = p /\ LoopGoto(p, "context")
  <2> DEFINE q == [prompt[p] EXCEPT !.pc = "context"]
  <2>1. prompt' = [prompt EXCEPT ![p] = q] /\ q \in LoopPrompt /\ q.pc = "context"
    BY <1>3, LoopGotoIs DEF LoopPcs
  <2> HIDE DEF q
  <2>2. \A s \in Prompts : prompt'[s] = IF s = p THEN q ELSE prompt[s]
    BY <2>1 DEF LoopInv, LoopTyped
  <2>3. LoopTyped'
    BY <1>1, <1>3, <2>1 DEF LoopInv, LoopTyped, Prompts
  <2>4. LockHeld'
    BY <1>3, <2>1, <2>2, LoopFacts DEF LockHeld, Holding, Prompts
  <2>5. Paired(history', loaded', Len(history'))
    BY <1>1, <1>3, NoReplyOpen
  <2>6. prompt'[lock'].pc \notin Owing
    BY <1>3, <2>1, <2>2 DEF Owing
  <2> QED
    BY <1>1, <2>3, <2>4, <2>5, <2>6, NothingOwed
<1> QED
  BY <1>2, <1>3 DEF AskLlm, TakeLock

LEMMA LoopReleasesLock ==
    ASSUME LoopInv, NEW p \in Prompts, AfterLoop(p) \/ Fail(p)
    PROVE  LoopInv'
<1>1. UNCHANGED <<provider, history, stored, loaded>> /\ prompt[p].pc \in {"post", "fail"}
      /\ lock' = 0 /\ LoopGoto(p, "done")
  BY DEF AfterLoop, Fail, Is
<1>2. lock = p
  BY <1>1, LoopFacts DEF Holding
<1> DEFINE q == [prompt[p] EXCEPT !.pc = "done"]
<1>3. prompt' = [prompt EXCEPT ![p] = q] /\ q \in LoopPrompt /\ q.pc = "done"
  BY <1>1, LoopGotoIs DEF LoopPcs
<1> HIDE DEF q
<1>4. \A s \in Prompts : prompt'[s] = IF s = p THEN q ELSE prompt[s]
  BY <1>3 DEF LoopInv, LoopTyped
<1>5. LoopTyped'
  BY <1>1, <1>3 DEF LoopInv, LoopTyped, Prompts
<1>6. LockHeld'
  <2> SUFFICES ASSUME NEW s \in Prompts PROVE prompt'[s].pc \notin Holding
    BY <1>1, LoopFacts DEF LockHeld, Prompts
  <2>1. CASE s = p
    BY <1>3, <1>4, <2>1 DEF Holding, Owing
  <2>2. CASE s # p
    BY <1>2, <1>4, <2>2, LoopFacts
  <2> QED
    BY <2>1, <2>2
<1>7. Paired(history', loaded', Len(history'))
  BY <1>1, <1>2, NoReplyOpen DEF Owing
<1> QED
  BY <1>1, <1>5, <1>6, <1>7, NothingOwed

-----------------------------------------------------------------------------
(* The agentic loop.                                                         *)
LEMMA LoopKeepsHistory ==
    ASSUME LoopInv, NEW p \in Prompts,
           \/ OpenNextTurn(p) \/ StartTool(p) \/ LlmRaises(p) \/ MarkInterrupted(p)
    PROVE  LoopInv'
<1>1. UNCHANGED <<provider, history, stored, loaded, lock>>
  BY DEF OpenNextTurn, StartTool, LlmRaises, MarkInterrupted
<1>2. \/ prompt[p].pc = "close" /\ LoopGoto(p, "append")
      \/ prompt[p].pc = "tool" /\ (LoopGoto(p, "runTool") \/ LoopGoto(p, "runAgent"))
      \/ prompt[p].pc = "llm" /\ LoopGoto(p, "error")
      \/ prompt[p].pc = "error" /\ LoopGoto(p, "fail")
  BY DEF OpenNextTurn, StartTool, LlmRaises, MarkInterrupted, Is
<1>3. PICK pc \in {"append", "runTool", "runAgent", "error", "fail"} :
         /\ LoopGoto(p, pc)
         /\ pc \in Owing <=> prompt[p].pc \in Owing
         /\ prompt[p].pc \in Holding
  BY <1>2 DEF Owing, Holding
<1>4. pc \in LoopPcs /\ pc \in Holding
  BY DEF LoopPcs, Holding, Owing
<1> QED
  BY <1>1, <1>3, <1>4, SimpleMoves

(* The request to the LLM, and its reply.                                    *)
LEMMA LoopAsks ==
    ASSUME LoopInv, NEW p \in Prompts,
           OpenTurn(p) \/ (\E n \in 0 .. MaxCalls : Replied(p, n)) \/ ToolReturns(p)
    PROVE  LoopInv'
<1>1. UNCHANGED <<provider, history, stored, loaded, lock>> /\ stored' \in Seq(HistoryMessage)
      /\ prompt[p] \in LoopPrompt
  BY DEF OpenTurn, Replied, ToolReturns, LoopInv, LoopTyped
<1>2. CASE OpenTurn(p)
  <2> DEFINE q == [prompt[p] EXCEPT !.pc = "llm", !.round = 1]
  <2>1. q \in LoopPrompt /\ q.pc = "llm"
    <3> DEFINE x == [prompt[p] EXCEPT !.pc = "llm"]
    <3>1. x \in LoopPrompt /\ x.pc = "llm" /\ q = [x EXCEPT !.round = 1]
      BY <1>1 DEF LoopPrompt, LoopPcs
    <3> HIDE DEF x, q
    <3> QED
      BY <3>1 DEF LoopPrompt
  <2>3. prompt' = [prompt EXCEPT ![p] = q]
    BY <1>2 DEF OpenTurn, LoopInv, LoopTyped
  <2>2. prompt[p].pc = "open"
    BY <1>2 DEF OpenTurn, Is
  <2> HIDE DEF q
  <2> QED
    BY <1>1, <2>1, <2>2, <2>3, PromptMoves DEF Holding, Owing
<1>3. ASSUME NEW n \in 0 .. MaxCalls, Replied(p, n) PROVE LoopInv'
  <2> DEFINE q == [prompt[p] EXCEPT !.pc = "close", !.asked = n, !.left = n]
  <2>1. n \in Nat
    BY LoopAssumption
  <2>2. q \in LoopPrompt /\ q.pc = "close"
    <3> DEFINE x == [prompt[p] EXCEPT !.pc = "close"]
               y == [x EXCEPT !.asked = n]
    <3>1. x \in LoopPrompt /\ x.pc = "close"
      BY <1>1 DEF LoopPrompt, LoopPcs
    <3>2. q = [y EXCEPT !.left = n]
      BY <1>1 DEF LoopPrompt
    <3> HIDE DEF x, q
    <3>3. y \in LoopPrompt /\ y.pc = "close"
      BY <2>1, <3>1 DEF LoopPrompt
    <3> HIDE DEF y
    <3> QED
      BY <2>1, <3>2, <3>3 DEF LoopPrompt
  <2>4. prompt' = [prompt EXCEPT ![p] = q]
    BY <1>3 DEF Replied, LoopInv, LoopTyped
  <2>3. prompt[p].pc = "llm"
    BY <1>3 DEF Replied, Is
  <2> HIDE DEF q
  <2> QED
    BY <1>1, <2>2, <2>3, <2>4, PromptMoves DEF Holding, Owing
<1>4. CASE ToolReturns(p)
  <2> DEFINE x == [prompt[p] EXCEPT !.pc = "tool"]
             q == [x EXCEPT !.left = prompt[p].left - 1]
  <2>3. prompt' = [prompt EXCEPT ![p] = q]
    BY <1>4 DEF ToolReturns, LoopInv, LoopTyped
  <2>4. x \in LoopPrompt /\ x.pc = "tool" /\ x.asked = prompt[p].asked /\ prompt[p].left \in Int
    BY <1>1 DEF LoopPrompt, LoopPcs
  <2> HIDE DEF x
  <2>1. prompt' = [prompt EXCEPT ![p] = q] /\ q \in LoopPrompt /\ q.pc = "tool"
        /\ q.asked = prompt[p].asked
    BY <2>3, <2>4 DEF LoopPrompt
  <2>2. prompt[p].pc \in {"runTool", "runAgent"}
    BY <1>4 DEF ToolReturns, Is
  <2> HIDE DEF q
  <2> QED
    BY <1>1, <2>1, <2>2, PromptMoves DEF Holding, Owing
<1> QED
  BY <1>2, <1>3, <1>4

(* The step of the lock's prompt that changes the history.                   *)
LEMMA HolderWrites ==
    ASSUME LoopInv, UNCHANGED <<provider, stored, loaded, lock>>, NEW p \in Prompts,
           prompt[p].pc \in Holding, NEW q \in LoopPrompt, prompt' = [prompt EXCEPT ![p] = q],
           q.pc \in Holding
    PROVE  /\ lock = p /\ prompt'[p] = q /\ LockHeld'
           /\ history' \in Seq(HistoryMessage) /\ loaded <= Len(history') => LoopTyped'
<1>1. lock = p /\ \A s \in Prompts : prompt'[s] = IF s = p THEN q ELSE prompt[s]
  BY LoopFacts DEF LoopInv, LoopTyped
<1>2. LockHeld'
  BY <1>1 DEF LoopInv, LockHeld, Prompts
<1>3. history' \in Seq(HistoryMessage) /\ loaded <= Len(history') => LoopTyped'
  BY DEF LoopInv, LoopTyped, Prompts
<1> QED
  BY <1>1, <1>2, <1>3

LEMMA AppendedHistory ==
    ASSUME LoopInv, NEW m \in HistoryMessage, history' = Append(history, m)
    PROVE  /\ history' \in Seq(HistoryMessage) /\ Len(history') = Len(history) + 1
           /\ history'[Len(history) + 1] = m
           /\ \A i \in 1 .. Len(history) : history'[i] = history[i] /\ history[i] \in HistoryMessage
           /\ Len(history) \in Nat /\ loaded \in Nat /\ loaded <= Len(history)
<1>1. history \in Seq(HistoryMessage) /\ loaded \in Nat /\ loaded <= Len(history)
  BY DEF LoopInv, LoopTyped
<1> QED
  BY <1>1, AppendProperties

LEMMA LoopBuildsContext ==
    ASSUME LoopInv, NEW p \in Prompts, BuildContext(p)
    PROVE  LoopInv'
<1> DEFINE q == [prompt[p] EXCEPT !.pc = "open"]
<1>1. UNCHANGED <<provider, stored, loaded, lock>> /\ prompt[p].pc = "context"
      /\ history' = Append(history, User)
  BY DEF BuildContext, Is
<1>2. prompt' = [prompt EXCEPT ![p] = q] /\ q \in LoopPrompt /\ q.pc = "open"
  BY LoopGotoIs DEF BuildContext, LoopPcs
<1> HIDE DEF q
<1>3. User \in HistoryMessage /\ User.kind = "user"
  BY DEF User, HistoryMessage
<1>4. /\ lock = p /\ prompt'[p] = q /\ LockHeld'
      /\ history' \in Seq(HistoryMessage) /\ loaded <= Len(history') => LoopTyped'
  BY <1>1, <1>2, HolderWrites DEF Holding
<1>5. /\ history' \in Seq(HistoryMessage) /\ Len(history') = Len(history) + 1
      /\ history'[Len(history) + 1] = User
      /\ \A i \in 1 .. Len(history) : history'[i] = history[i] /\ history[i] \in HistoryMessage
      /\ Len(history) \in Nat /\ loaded \in Nat /\ loaded <= Len(history)
  BY <1>1, <1>3, AppendedHistory
<1>6. Paired(history, loaded, Len(history))
  BY <1>1, <1>4, NoReplyOpen DEF Owing
<1>7. /\ \A i \in loaded + 1 .. Len(history) : history'[i] = history[i]
      /\ \A i \in loaded + 1 .. Len(history) : history[i] \in HistoryMessage
  BY <1>5
<1>8. Paired(history', loaded, Len(history))
  BY <1>5, <1>6, <1>7, PairedSame
<1>9. Paired(history', loaded, Len(history) + 1)
  BY <1>3, <1>5, <1>7, <1>8, PairedPlain
<1> QED
  BY <1>1, <1>2, <1>4, <1>5, <1>9, NothingOwed DEF Owing

LEMMA LoopAppendsReply ==
    ASSUME LoopInv, NEW p \in Prompts, AppendReply(p)
    PROVE  LoopInv'
<1> DEFINE n == prompt[p].asked
           pc == IF n = 0 THEN "post" ELSE "tool"
           q == [prompt[p] EXCEPT !.pc = pc]
<1>1. UNCHANGED <<provider, stored, loaded, lock>> /\ prompt[p].pc = "append" /\ n \in Nat
  BY DEF AppendReply, Is, LoopInv, LoopTyped, LoopPrompt
<1>2. pc \in {"post", "tool"} /\ pc \in LoopPcs /\ LoopGoto(p, pc) /\ (pc = "tool" <=> n # 0)
  BY DEF AppendReply, LoopPcs
<1> HIDE DEF pc
<1>3. prompt' = [prompt EXCEPT ![p] = q] /\ q \in LoopPrompt /\ q.pc = pc /\ q.asked = n
  BY <1>2, LoopGotoIs
<1> HIDE DEF q
<1>4. /\ lock = p /\ prompt'[p] = q /\ LockHeld' /\ p # 0
      /\ history' \in Seq(HistoryMessage) /\ loaded <= Len(history') => LoopTyped'
  BY <1>1, <1>2, <1>3, HolderWrites, LoopFacts DEF Holding, Owing
<1>5. Paired(history, loaded, Len(history))
  BY <1>1, <1>4, NoReplyOpen DEF Owing
<1>6. CASE n = 0 /\ history' = history
  <2>1. LoopTyped'
    BY <1>1, <1>4, <1>6 DEF LoopInv, LoopTyped
  <2> QED
    BY <1>1, <1>2, <1>3, <1>4, <1>5, <1>6, <2>1, NothingOwed DEF Owing
<1>7. CASE history' = Append(history, Reply(n))
  <2>1. Reply(n) \in HistoryMessage /\ Reply(n).kind = "assistant" /\ Reply(n).calls = n
    BY <1>1 DEF Reply, HistoryMessage
  <2>2. /\ history' \in Seq(HistoryMessage) /\ Len(history') = Len(history) + 1
        /\ history'[Len(history) + 1] = Reply(n)
        /\ \A i \in 1 .. Len(history) : history'[i] = history[i] /\ history[i] \in HistoryMessage
        /\ Len(history) \in Nat /\ loaded \in Nat /\ loaded <= Len(history)
    BY <1>7, <2>1, AppendedHistory
  <2>3. /\ \A i \in loaded + 1 .. Len(history) : history'[i] = history[i]
        /\ \A i \in loaded + 1 .. Len(history) : history[i] \in HistoryMessage
    BY <2>2
  <2>4. Paired(history', loaded, Len(history)) /\ LoopTyped'
    <3>1. Paired(history', loaded, Len(history))
      BY <1>5, <2>2, <2>3, PairedSame
    <3>2. loaded <= Len(history')
      BY <2>2
    <3> QED
      BY <1>4, <2>2, <3>1, <3>2
  <2>5. \A i \in loaded + 1 .. Len(history) : history'[i] \in HistoryMessage
    BY <2>3
  <2>6. CASE n = 0
    <3>1. ~ (Reply(n).kind = "assistant" /\ Reply(n).calls > 0) /\ Reply(n).kind # "results"
      BY <2>1, <2>6
    <3>2. Paired(history', loaded, Len(history) + 1)
      BY <2>2, <2>4, <2>5, <3>1, PairedPlain
    <3> QED
      BY <1>1, <1>2, <1>3, <1>4, <2>2, <2>4, <2>6, <3>2, NothingOwed DEF Owing
  <2>7. CASE n # 0
    <3>1. lock' = p /\ prompt'[lock'].pc \in Owing /\ prompt'[lock'].asked = n
      BY <1>1, <1>2, <1>3, <1>4, <2>7 DEF Owing
    <3>2. /\ loaded' < Len(history') /\ n > 0 /\ Len(history') - 1 = Len(history)
          /\ history'[Len(history')] = Reply(n)
      BY <1>1, <2>2, <2>7
    <3>3. Paired(history, loaded, Len(history) - 1)'
      BY <1>1, <2>4, <3>2, PairedFrontPrime
    <3>4. RepliesAnswered'
      BY <1>4, <3>1, <3>2, <3>3 DEF RepliesAnswered, Owing, Reply
    <3> QED
      BY <1>4, <2>4, <3>4 DEF LoopInv
  <2> QED
    BY <2>6, <2>7
<1> QED
  BY <1>6, <1>7 DEF AppendReply

LEMMA LoopAppendsResults ==
    ASSUME LoopInv, NEW p \in Prompts, AppendResults(p)
    PROVE  LoopInv'
<1> DEFINE n == prompt[p].asked
           last == Len(history) - 1
<1>1. UNCHANGED <<provider, stored, loaded, lock>> /\ prompt[p].pc = "tool" /\ n \in Nat
      /\ history' = history \o Results(n) /\ prompt[p] \in LoopPrompt
  BY DEF AppendResults, Is, LoopInv, LoopTyped, LoopPrompt
<1>2. PICK q \in LoopPrompt : prompt' = [prompt EXCEPT ![p] = q] /\ q.pc \in {"post", "llm"}
  <2>1. CASE LoopGoto(p, "post")
    <3> DEFINE q == [prompt[p] EXCEPT !.pc = "post"]
    <3>1. "post" \in LoopPcs
      BY DEF LoopPcs
    <3>2. prompt' = [prompt EXCEPT ![p] = q] /\ q \in LoopPrompt /\ q.pc = "post"
      BY <2>1, <3>1, LoopGotoIs
    <3> HIDE DEF q
    <3> QED
      BY <3>2
  <2>2. CASE prompt' = [prompt EXCEPT ![p].pc = "llm", ![p].round = @ + 1]
    <3> DEFINE q == [prompt[p] EXCEPT !.pc = "llm", !.round = prompt[p].round + 1]
    <3>1. q \in LoopPrompt /\ q.pc = "llm"
      <4> DEFINE x == [prompt[p] EXCEPT !.pc = "llm"]
      <4>1. /\ x \in LoopPrompt /\ x.pc = "llm" /\ prompt[p].round \in Int
            /\ q = [x EXCEPT !.round = prompt[p].round + 1]
        BY <1>1 DEF LoopPrompt, LoopPcs
      <4> HIDE DEF x, q
      <4> QED
        BY <4>1 DEF LoopPrompt
    <3>2. prompt' = [prompt EXCEPT ![p] = q]
      BY <2>2 DEF LoopInv, LoopTyped
    <3> QED
      BY <3>1, <3>2
  <2> QED
    BY <2>1, <2>2 DEF AppendResults
<1>3. /\ lock = p /\ prompt'[p] = q /\ LockHeld' /\ p # 0
      /\ history' \in Seq(HistoryMessage) /\ loaded <= Len(history') => LoopTyped'
  BY <1>1, <1>2, HolderWrites, LoopFacts DEF Holding, Owing
<1>4. /\ loaded < Len(history) /\ n > 0 /\ history[Len(history)] = Reply(n)
      /\ Paired(history, loaded, last)
  BY <1>1, <1>3 DEF LoopInv, RepliesAnswered, Owing
<1>5. /\ Results(n) \in Seq(HistoryMessage) /\ Len(Results(n)) \in Nat /\ Len(Results(n)) > 0
  BY <1>1, <1>4, ResultsType
<1>6. history \in Seq(HistoryMessage) /\ Len(history) \in Nat /\ loaded \in Nat
  BY DEF LoopInv, LoopTyped
<1>7. /\ history' \in Seq(HistoryMessage) /\ Len(history') = Len(history) + Len(Results(n))
      /\ \A i \in 1 .. Len(history) : history'[i] = history[i] /\ history[i] \in HistoryMessage
      /\ \A j \in 1 .. Len(Results(n)) : history'[Len(history) + j] = Results(n)[j]
  <2>1. /\ history \o Results(n) \in Seq(HistoryMessage)
        /\ Len(history \o Results(n)) = Len(history) + Len(Results(n))
        /\ \A i \in 1 .. Len(history) + Len(Results(n)) : (history \o Results(n))[i] =
              IF i <= Len(history) THEN history[i] ELSE Results(n)[i - Len(history)]
    BY <1>5, <1>6, ConcatProperties
  <2>2. ASSUME NEW j \in 1 .. Len(Results(n)) PROVE history'[Len(history) + j] = Results(n)[j]
    <3>1. /\ Len(history) + j \in 1 .. Len(history) + Len(Results(n)) /\ ~ (Len(history) + j <= Len(history))
          /\ Len(history) + j - Len(history) = j
      BY <1>5, <1>6
    <3> QED
      BY <1>1, <2>1, <3>1
  <2> QED
    BY <1>1, <1>5, <1>6, <2>1, <2>2
<1>8. last \in Nat /\ loaded <= last /\ last + 1 = Len(history)
  BY <1>4, <1>6
<1>9. /\ \A i \in loaded + 1 .. last : history'[i] = history[i]
      /\ \A i \in loaded + 1 .. last : history[i] \in HistoryMessage
  BY <1>6, <1>7, <1>8
<1>10. Paired(history', loaded, last)
  BY <1>4, <1>6, <1>8, <1>9, PairedSame
<1>11. history'[last + 1] = Reply(n) /\ \A j \in 1 .. Len(Results(n)) : history'[last + 1 + j] = Results(n)[j]
  BY <1>4, <1>6, <1>7, <1>8
<1>12. \A i \in loaded + 1 .. last : history'[i] \in HistoryMessage
  BY <1>9
<1> HIDE DEF last, n
<1>13. Paired(history', loaded, last + 1 + Len(Results(n)))
  BY <1>1, <1>4, <1>6, <1>8, <1>10, <1>11, <1>12, PairedReply
<1>14. Paired(history', loaded', Len(history')) /\ loaded <= Len(history')
  <2>3. Len(history') = Len(history) + Len(Results(n))
    BY <1>7
  <2>4. last \in Nat /\ loaded <= last /\ last + 1 = Len(history)
    BY <1>8
  <2>1. last + 1 + Len(Results(n)) = Len(history') /\ loaded <= Len(history')
    BY <1>5, <1>6, <2>3, <2>4
  <2>2. loaded' = loaded
    BY <1>1
  <2> QED
    BY <1>13, <2>1, <2>2
<1> QED
  BY <1>1, <1>2, <1>3, <1>7, <1>14, NothingOwed DEF Owing

LEMMA LoopToolRaises ==
    ASSUME LoopInv, NEW p \in Prompts, ToolRaises(p)
    PROVE  LoopInv'
<1> DEFINE q == [prompt[p] EXCEPT !.pc = "error"]
           last == Len(history) - 1
<1>1. UNCHANGED <<provider, stored, loaded, lock>> /\ prompt[p].pc \in {"runTool", "runAgent"}
      /\ history' = Front(history)
  BY DEF ToolRaises
<1>2. prompt' = [prompt EXCEPT ![p] = q] /\ q \in LoopPrompt /\ q.pc = "error"
  BY LoopGotoIs DEF ToolRaises, LoopPcs
<1> HIDE DEF q
<1>3. /\ lock = p /\ prompt'[p] = q /\ LockHeld' /\ p # 0
      /\ history' \in Seq(HistoryMessage) /\ loaded <= Len(history') => LoopTyped'
  BY <1>1, <1>2, HolderWrites, LoopFacts DEF Holding, Owing
<1>4. loaded < Len(history) /\ Paired(history, loaded, last)
  BY <1>1, <1>3 DEF LoopInv, RepliesAnswered, Owing
<1>5. history \in Seq(HistoryMessage) /\ Len(history) \in Nat /\ loaded \in Nat
  BY DEF LoopInv, LoopTyped
<1>6. last \in Nat /\ loaded <= last /\ last \in 0 .. Len(history)
  BY <1>4, <1>5
<1>7. /\ history' \in Seq(HistoryMessage) /\ Len(history') = last
      /\ \A i \in 1 .. last : history'[i] = history[i] /\ history[i] \in HistoryMessage
  <2>1. history' = SubSeq(history, 1, last)
    BY <1>1 DEF Front
  <2>2. \A i \in 1 .. last : i \in 1 .. Len(history)
    BY <1>5
  <2>3. \A i \in 1 .. last : history[i] \in HistoryMessage
    BY <1>5, <2>2
  <2> HIDE DEF last
  <2>4. /\ SubSeq(history, 1, last) \in Seq(HistoryMessage)
        /\ Len(SubSeq(history, 1, last)) = IF 1 <= last THEN last - 1 + 1 ELSE 0
        /\ \A i \in 1 .. last - 1 + 1 : SubSeq(history, 1, last)[i] = history[1 + i - 1]
    BY <1>6, <2>3, SubSeqProperties
  <2>5. Len(SubSeq(history, 1, last)) = last
        /\ \A i \in 1 .. last : SubSeq(history, 1, last)[i] = history[i]
    BY <1>6, <2>4
  <2> QED
    BY <2>1, <2>3, <2>4, <2>5
<1>8. /\ \A i \in loaded + 1 .. last : history'[i] = history[i]
      /\ \A i \in loaded + 1 .. last : history[i] \in HistoryMessage
  BY <1>5, <1>6, <1>7
<1> HIDE DEF last
<1>9. Paired(history', loaded, last)
  BY <1>4, <1>5, <1>6, <1>8, PairedSame
<1> QED
  BY <1>1, <1>2, <1>3, <1>6, <1>7, <1>9, NothingOwed DEF Owing

-----------------------------------------------------------------------------
(* The queue, and the session around the loop.                               *)
LEMMA RepliesStay ==
    ASSUME LoopInv, UNCHANGED <<provider, history, loaded, lock, prompt>>
    PROVE  RepliesAnswered'
<1>1. CASE lock # 0 /\ prompt[lock].pc \in Owing
  <2>1. /\ loaded' < Len(history') /\ prompt'[lock'].asked > 0
        /\ history'[Len(history')] = Reply(prompt'[lock'].asked)
        /\ Paired(history', loaded', Len(history') - 1)
    BY <1>1 DEF LoopInv, RepliesAnswered
  <2>2. lock' # 0 /\ prompt'[lock'].pc \in Owing
    BY <1>1
  <2>3. history'[Len(history')] = Reply(prompt[lock].asked)'
    BY <2>1 DEF Reply
  <2> QED
    BY <2>1, <2>2, <2>3, PairedFrontPrime DEF RepliesAnswered, Owing
<1>2. CASE ~ (lock # 0 /\ prompt[lock].pc \in Owing)
  <2>1. Paired(history', loaded', Len(history'))
    BY <1>2 DEF LoopInv, RepliesAnswered
  <2>2. ~ (lock' # 0 /\ prompt'[lock'].pc \in Owing)
    BY <1>2
  <2> QED
    BY <2>1, <2>2, PairedPrime DEF RepliesAnswered, Owing
<1> QED
  BY <1>1, <1>2

LEMMA LoopDrains ==
    ASSUME LoopInv, DrainTests
    PROVE  LoopInv'
<1>1. UNCHANGED <<provider, history, stored, loaded, lock>> /\ stored' \in Seq(HistoryMessage)
  BY DEF DrainTests, LoopInv, LoopTyped
<1>2. CASE prompt' = prompt
  <2>1. LoopTyped' /\ LockHeld'
    BY <1>1, <1>2 DEF LoopInv, LoopTyped, LockHeld, Prompts
  <2>2. RepliesAnswered'
    BY <1>1, <1>2, RepliesStay
  <2> QED
    BY <2>1, <2>2 DEF LoopInv
<1>3. ASSUME NEW p \in Prompts, Is(p, "queued"),
             prompt' = [prompt EXCEPT ![p].pc = "row", ![p].drained = TRUE]
      PROVE  LoopInv'
  <2> DEFINE x == [prompt[p] EXCEPT !.pc = "row"]
             q == [x EXCEPT !.drained = TRUE]
  <2>1. prompt[p] \in LoopPrompt /\ prompt[p].pc = "queued"
    BY <1>3 DEF Is, LoopInv, LoopTyped
  <2>2. prompt' = [prompt EXCEPT ![p] = q]
    BY <1>3 DEF LoopInv, LoopTyped
  <2>3. x \in LoopPrompt /\ x.pc = "row"
    BY <2>1 DEF LoopPrompt, LoopPcs
  <2> HIDE DEF x
  <2>4. q \in LoopPrompt /\ q.pc = "row"
    BY <2>3 DEF LoopPrompt
  <2> HIDE DEF q
  <2> QED
    BY <1>1, <2>1, <2>2, <2>4, PromptMoves DEF Holding, Owing
<1> QED
  BY <1>2, <1>3 DEF DrainTests

(* A step that leaves the prompts, the lock and the history as they are.     *)
LEMMA LoopAround ==
    ASSUME LoopInv, UNCHANGED <<provider, history, loaded, lock, prompt>>,
           stored' \in {stored, history}
    PROVE  LoopInv'
<1>1. LoopTyped' /\ LockHeld'
  BY DEF LoopInv, LoopTyped, LockHeld, Prompts
<1>2. RepliesAnswered'
  BY RepliesStay
<1> QED
  BY <1>1, <1>2 DEF LoopInv

LEMMA LoopReloads ==
    ASSUME LoopInv, NEW s, Reload(s)
    PROVE  LoopInv'
<1>1. /\ provider' = provider /\ lock' = 0 /\ history' = stored /\ loaded' = Len(stored) /\ stored' = stored
      /\ prompt' = [p \in Prompts |-> IF p \in InProgress THEN [prompt[p] EXCEPT !.pc = "done"]
                                                         ELSE prompt[p]]
  BY DEF Reload
<1>2. ASSUME NEW p \in Prompts
      PROVE  prompt'[p] \in LoopPrompt /\ prompt'[p].pc \notin Holding
  <2>1. CASE p \in InProgress
    <3>1. prompt'[p] = [prompt[p] EXCEPT !.pc = "done"] /\ prompt[p] \in LoopPrompt
      BY <1>1, <2>1 DEF LoopInv, LoopTyped
    <3> QED
      BY <3>1 DEF LoopPrompt, LoopPcs, Holding, Owing
  <2>2. CASE p \notin InProgress
    <3>1. prompt'[p] = prompt[p] /\ prompt[p] \in LoopPrompt
          /\ prompt[p].pc \in {"none", "queued", "done"}
      BY <1>1, <2>2 DEF LoopInv, LoopTyped, InProgress
    <3> QED
      BY <3>1 DEF Holding, Owing
  <2> QED
    BY <2>1, <2>2
<1>3. prompt' \in [Prompts -> LoopPrompt]
  <2>1. \A p \in Prompts : prompt'[p] \in LoopPrompt
    BY <1>2
  <2> DEFINE f == [p \in Prompts |-> IF p \in InProgress THEN [prompt[p] EXCEPT !.pc = "done"]
                                                        ELSE prompt[p]]
  <2>2. prompt' = f /\ f = [p \in Prompts |-> f[p]]
    BY <1>1
  <2> HIDE DEF f
  <2> QED
    BY <2>1, <2>2
<1>4. Len(stored) \in Nat /\ stored \in Seq(HistoryMessage)
  BY DEF LoopInv, LoopTyped
<1>5. LoopTyped'
  BY <1>1, <1>3, <1>4 DEF LoopInv, LoopTyped, Prompts
<1>6. LockHeld'
  <2>1. lock' = 0 /\ \A p \in Prompts : p # 0 /\ prompt'[p].pc \notin Holding
    BY <1>1, <1>2, LoopFacts
  <2> QED
    BY <2>1 DEF LockHeld
<1>7. Paired(history', loaded', Len(history'))
  BY <1>1, <1>4, PairedNothing
<1> QED
  BY <1>1, <1>5, <1>6, <1>7, NothingOwed

LEMMA NextLoopInv ==
    ASSUME LoopInv, [LoopNext]_loopVars
    PROVE  LoopInv'
<1>1. ASSUME NEW p \in Prompts,
             \/ Arrive(p) \/ Enqueue(p) \/ Forward(p) \/ Refuse(p) \/ DirectTool(p) \/ DirectDone(p)
             \/ AskLlm(p) \/ TakeLock(p) \/ BuildContext(p) \/ OpenTurn(p)
      PROVE  LoopInv'
  BY <1>1, LoopRouting, LoopTakesLock, LoopBuildsContext, LoopAsks
<1>2. ASSUME NEW p \in Prompts,
             \/ AnthropicReplies(p) \/ OpenAiReplies(p) \/ OpenNextTurn(p) \/ AppendReply(p)
             \/ StartTool(p) \/ ToolReturns(p) \/ AppendResults(p)
      PROVE  LoopInv'
  BY <1>2, LoopAsks, LoopKeepsHistory, LoopAppendsReply, LoopAppendsResults
     DEF AnthropicReplies, OpenAiReplies
<1>3. ASSUME NEW p \in Prompts,
             ToolRaises(p) \/ LlmRaises(p) \/ AfterLoop(p) \/ MarkInterrupted(p) \/ Fail(p)
      PROVE  LoopInv'
  BY <1>3, LoopToolRaises, LoopKeepsHistory, LoopReleasesLock
<1>4. CASE AgentRests \/ LoopEnd \/ FlushHistory \/ ArchiveHistory
  <2>1. UNCHANGED <<provider, history, loaded, lock, prompt>> /\ stored' \in {stored, history}
    BY <1>4 DEF AgentRests, LoopEnd, FlushHistory, ArchiveHistory
  <2> QED
    BY <2>1, LoopAround
<1>5. CASE UNCHANGED loopVars
  <2>1. UNCHANGED <<provider, history, loaded, lock, prompt>> /\ stored' = stored
    BY <1>5 DEF loopVars
  <2> QED
    BY <2>1, LoopAround
<1>6. CASE RestoreArchived \/ RestartWorker
  BY <1>6, LoopReloads DEF RestoreArchived, RestartWorker
<1> QED
  BY <1>1, <1>2, <1>3, <1>4, <1>5, <1>6, LoopDrains DEF LoopNext

(* Whenever the LLM is called, and whenever no prompt holds the lock, every*)
(* tool call of the history that this object has appended is followed by   *)
(* its result, for both providers, whatever fails, is cancelled, forwarded *)
(* to an agent or left at the limit of rounds (LLMClient.run_agentic_loop).*)
THEOREM RepliesHaveResults == LoopSpec => []HistoryPaired
<1>1. LoopInv => HistoryPaired
  BY NoReplyOpen DEF LoopInv, HistoryPaired, Is, Owing
<1> QED
  BY <1>1, InitLoopInv, NextLoopInv, PTL DEF LoopSpec

-----------------------------------------------------------------------------
(***************************************************************************)
(* TurnAgents, for all three kinds of agents, any number of turns and      *)
(* executors, while no prompt overtakes a message a drain has claimed and  *)
(* neither a resume nor a turn overlaps a teardown. With either the claim  *)
(* fails, in the ways the runs of the module show TLC.                     *)
(*                                                                         *)
(* A turn ends in several steps, and a call tears the agent down in three: *)
(* what must be idle at the end is made idle by different ones of them.    *)
(* The invariant says that the one live turn is the one the session names, *)
(* on the one executor that holds a process, and which step is still to    *)
(* come.                                                                   *)
(***************************************************************************)

SessType == [status : {"active", "paused", "done"}, busy : BOOLEAN, cwp : BOOLEAN]
TurnPcs == {"none", "first", "resume", "spawn", "handshake", "read", "exit", "tail", "end", "drop",
            "done"}
TurnType == [pc : TurnPcs, ex : 0 .. MaxExecutors, src : 0 .. MaxTurnTasks, ok : BOOLEAN]
KillType == [kind : {"none", "pause", "interrupt", "cancel", "end", "finalize"},
             pc : {"no", "kill", "join", "finish"}, ex : 0 .. MaxExecutors]

TurnsTyped ==
    /\ agent \in {"codex", "opencode", "acp"}
    /\ sess \in SessType
    /\ resumeId \in BOOLEAN /\ token \in BOOLEAN /\ tool \in BOOLEAN /\ claimed \in BOOLEAN
    /\ exec \in 0 .. MaxExecutors /\ built \in 0 .. MaxExecutors
    /\ owned \in [Executors -> 0 .. MaxTurnTasks]
    /\ alive \subseteq Turns
    /\ turn \in [Turns -> TurnType]
    /\ cur \in 0 .. MaxTurnTasks
    /\ kill \in KillType

NoLive == \A t \in Turns : ~ Live(t)

(* At most one turn is live: the task the session names, on its executor; a   *)
(* claimed message waits for none.                                           *)
OneTurn == \A t \in Turns : Live(t) => t = cur /\ turn[t].ex = exec /\ exec # 0
ClaimAlone == claimed => NoLive

(* Only the session's executor holds a process, and only that one runs;       *)
(* there is none while one is about to be spawned or was stopped.            *)
OwnedByExec == \A x \in Executors : owned[x] # 0 => x = exec
AliveOwned == \A p \in alive : exec # 0 /\ owned[exec] = p
SpawnsAlone == \A t \in Turns : turn[t].pc \in {"spawn", "drop"} => owned[turn[t].ex] = 0
OneShotFree == NoLive /\ OneShot => \A x \in Executors : owned[x] = 0

(* A turn that ended well has shown that it is free, and so has a session      *)
(* without turns unless a call has yet to show it; the indicator is cleared    *)
(* with the session's executor.                                              *)
OkEnded == \A t \in Turns : Live(t) /\ turn[t].ok => turn[t].pc \in {"exit", "tail"} /\ ~ sess.busy
ShownFree == NoLive /\ kill.pc # "finish" => ~ sess.busy /\ (exec = 0 => ~ tool)
Stopped ==
    /\ sess.status # "active" => ~ sess.busy
    /\ sess.status # "active" /\ kill.pc = "no" => ~ token /\ exec = 0

(* A call that tears down has the session's executor, unless that is gone.    *)
TearsDown ==
    /\ kill.pc = "finish" => exec = 0
    /\ kill.pc \in {"kill", "join"} => exec \in {0, kill.ex}
    /\ kill.pc = "join" => kill.ex # 0 /\ owned[kill.ex] = 0 /\ \A t \in Turns : turn[t].pc # "spawn"

TurnsInv ==
    /\ TurnsTyped
    /\ OneTurn /\ ClaimAlone
    /\ OwnedByExec /\ AliveOwned /\ SpawnsAlone /\ OneShotFree
    /\ OkEnded /\ ShownFree /\ Stopped /\ TearsDown

(* A session that is being paused stays so until the call has finished.       *)
PauseHolds == kill.kind = "pause" => sess.status # "active" /\ kill.pc # "no"

InOrder == "overtake" \notin AgentEnv /\ "overlap" \notin AgentEnv

-----------------------------------------------------------------------------
LEMMA InitTurnsInv == AgentInit => TurnsInv
<1> SUFFICES ASSUME AgentInit PROVE TurnsInv
  OBVIOUS
<1>1. MaxTurnTasks \in Nat /\ MaxExecutors \in Nat
  BY AgentAssumption
<1>2. NoTurn \in TurnType /\ NoTurn.pc = "none" /\ NoKill \in KillType /\ NoKill.pc = "no"
  BY <1>1 DEF NoTurn, NoKill, TurnType, TurnPcs, KillType
<1>3. sess \in SessType /\ ~ sess.busy /\ sess.status = "active"
  BY DEF AgentInit, SessType
<1>4. TurnsTyped
  <2>1. turn \in [Turns -> TurnType] /\ owned \in [Executors -> 0 .. MaxTurnTasks] /\ kill \in KillType
    BY <1>1, <1>2 DEF AgentInit
  <2>2. /\ exec \in 0 .. MaxExecutors /\ built \in 0 .. MaxExecutors /\ cur \in 0 .. MaxTurnTasks
        /\ alive \subseteq Turns /\ agent \in {"codex", "opencode", "acp"}
    BY <1>1 DEF AgentInit
  <2>3. resumeId \in BOOLEAN /\ token \in BOOLEAN /\ tool \in BOOLEAN /\ claimed \in BOOLEAN
    BY DEF AgentInit
  <2> QED
    BY <1>3, <2>1, <2>2, <2>3 DEF TurnsTyped
<1>5. NoLive /\ \A t \in Turns : turn[t].pc = "none"
  BY <1>2 DEF AgentInit, NoLive, Live
<1>6. OneTurn /\ ClaimAlone /\ SpawnsAlone /\ OkEnded
  BY <1>5 DEF OneTurn, ClaimAlone, SpawnsAlone, OkEnded, NoLive
<1>7. OwnedByExec /\ AliveOwned /\ OneShotFree
  BY DEF AgentInit, OwnedByExec, AliveOwned, OneShotFree
<1>8. ShownFree /\ Stopped /\ TearsDown
  BY <1>2, <1>3 DEF AgentInit, ShownFree, Stopped, TearsDown
<1> QED
  BY <1>4, <1>6, <1>7, <1>8 DEF TurnsInv

(* The live turn, and that there is no other.                                *)
LEMMA LiveTurn ==
    ASSUME TurnsInv, NEW t \in Turns, Live(t)
    PROVE  /\ t = cur /\ turn[t] \in TurnType /\ turn[t].ex = exec /\ exec \in Executors
           /\ ~ NoLive /\ ~ claimed
           /\ \A s \in Turns : s # t => ~ Live(s)
           /\ turn[t].ok => turn[t].pc \in {"exit", "tail"} /\ ~ sess.busy
<1>1. MaxTurnTasks \in Nat /\ MaxExecutors \in Nat
  BY AgentAssumption
<1>2. t = cur /\ turn[t].ex = exec /\ exec # 0 /\ \A s \in Turns : s # t => ~ Live(s)
  BY DEF TurnsInv, OneTurn
<1>3. turn[t] \in TurnType /\ exec \in 0 .. MaxExecutors
  BY DEF TurnsInv, TurnsTyped
<1>4. exec \in Executors
  BY <1>1, <1>2, <1>3 DEF Executors
<1>5. ~ NoLive /\ ~ claimed
  BY DEF NoLive, TurnsInv, ClaimAlone
<1>6. turn[t].ok => turn[t].pc \in {"exit", "tail"} /\ ~ sess.busy
  BY DEF TurnsInv, OkEnded
<1> QED
  BY <1>2, <1>3, <1>4, <1>5, <1>6

(* stop_process of the session's executor leaves no process.                 *)
LEMMA ExecStopped ==
    ASSUME TurnsInv, exec \in Executors, StopProcess(exec)
    PROVE  /\ alive' = {} /\ owned' \in [Executors -> 0 .. MaxTurnTasks]
           /\ \A x \in Executors : owned'[x] = 0
<1>1. exec # 0 /\ 0 \in 0 .. MaxTurnTasks
  BY AgentAssumption DEF Executors
<1>2. alive' = alive \ {owned[exec]} /\ owned' = [owned EXCEPT ![exec] = 0]
  BY <1>1 DEF StopProcess
<1>3. alive' = {}
  BY <1>2 DEF TurnsInv, AliveOwned
<1> QED
  BY <1>1, <1>2, <1>3 DEF TurnsInv, TurnsTyped, OwnedByExec

(* The live turn goes on, and leaves the processes as they are.              *)
LEMMA TurnGoesOn ==
    ASSUME TurnsInv, NEW t \in Turns, Live(t), NEW q \in TurnType,
           turn' = [turn EXCEPT ![t] = q], q.pc \notin {"none", "done", "spawn", "drop"},
           q.ex = turn[t].ex, UNCHANGED <<agent, exec, built, owned, cur, claimed, kill, token>>,
           alive' = alive, sess' \in SessType, sess'.status = sess.status, sess'.busy => sess.busy,
           tool' \in BOOLEAN, resumeId' \in BOOLEAN,
           q.ok => q.pc \in {"exit", "tail"} /\ ~ sess'.busy
    PROVE  TurnsInv'
<1>1. turn'[t] = q /\ \A s \in Turns : s # t => turn'[s] = turn[s]
  BY DEF TurnsInv, TurnsTyped
<1>2. Live(t)' /\ \A s \in Turns : s # t => ~ Live(s)'
  BY <1>1, LiveTurn DEF Live
<1>3. TurnsTyped'
  BY <1>1 DEF TurnsInv, TurnsTyped
<1>4. OneTurn' /\ OkEnded'
  <2>1. ASSUME NEW s \in Turns, Live(s)'
        PROVE  s = t /\ turn'[s] = q
    BY <1>1, <1>2, <2>1
  <2>2. t = cur' /\ q.ex = exec' /\ exec' # 0
    BY LiveTurn DEF Executors
  <2> QED
    BY <2>1, <2>2 DEF OneTurn, OkEnded
<1>5. ~ NoLive' /\ ~ claimed'
  BY <1>2, LiveTurn DEF NoLive
<1>6. ClaimAlone' /\ ShownFree' /\ OneShotFree'
  BY <1>5 DEF ClaimAlone, ShownFree, OneShotFree
<1>7. OwnedByExec' /\ AliveOwned'
  BY DEF TurnsInv, OwnedByExec, AliveOwned
<1>8. SpawnsAlone'
  BY <1>1 DEF TurnsInv, SpawnsAlone
<1>9. Stopped'
  BY DEF TurnsInv, Stopped
<1>10. TearsDown'
  BY <1>1 DEF TurnsInv, TearsDown
<1> QED
  BY <1>3, <1>4, <1>6, <1>7, <1>8, <1>9, <1>10 DEF TurnsInv

LEMMA GotoIs ==
    ASSUME TurnsInv, NEW t \in Turns, NEW pc \in TurnPcs, Goto(t, pc)
    PROVE  LET q == [turn[t] EXCEPT !.pc = pc]
           IN turn' = [turn EXCEPT ![t] = q] /\ q \in TurnType /\ q.pc = pc /\ q.ex = turn[t].ex
              /\ q.ok = turn[t].ok
BY DEF TurnsInv, TurnsTyped, Goto, TurnType

LEMMA OutcomeIs ==
    ASSUME TurnsInv, NEW t \in Turns, NEW pc \in TurnPcs, NEW ok \in BOOLEAN, Outcome(t, pc, ok)
    PROVE  \E q \in TurnType : turn' = [turn EXCEPT ![t] = q] /\ q.pc = pc /\ q.ex = turn[t].ex
                               /\ q.ok = ok
<1> DEFINE x == [turn[t] EXCEPT !.pc = pc]
           q == [x EXCEPT !.ok = ok]
<1>1. turn[t] \in TurnType
  BY DEF TurnsInv, TurnsTyped
<1>2. turn' = [turn EXCEPT ![t] = q]
  BY DEF Outcome, TurnsInv, TurnsTyped
<1>3. x \in TurnType /\ x.pc = pc /\ x.ex = turn[t].ex
  BY <1>1 DEF TurnType
<1> HIDE DEF x
<1>4. q \in TurnType /\ q.pc = pc /\ q.ex = turn[t].ex /\ q.ok = ok
  BY <1>3 DEF TurnType
<1> HIDE DEF q
<1> QED
  BY <1>2, <1>4

LEMMA ReadsIs ==
    ASSUME TurnsInv, NEW t \in Turns, NEW pc \in TurnPcs, NEW src \in 0 .. MaxTurnTasks,
           turn' = [turn EXCEPT ![t].pc = pc, ![t].src = src]
    PROVE  \E q \in TurnType : turn' = [turn EXCEPT ![t] = q] /\ q.pc = pc /\ q.ex = turn[t].ex
                               /\ q.ok = turn[t].ok
<1> DEFINE x == [turn[t] EXCEPT !.pc = pc]
           q == [x EXCEPT !.src = src]
<1>1. turn[t] \in TurnType
  BY DEF TurnsInv, TurnsTyped
<1>2. turn' = [turn EXCEPT ![t] = q]
  BY DEF TurnsInv, TurnsTyped
<1>3. x \in TurnType /\ x.pc = pc /\ x.ex = turn[t].ex /\ x.ok = turn[t].ok
  BY <1>1 DEF TurnType
<1> HIDE DEF x
<1>4. q \in TurnType /\ q.pc = pc /\ q.ex = turn[t].ex /\ q.ok = turn[t].ok
  BY <1>3 DEF TurnType
<1> HIDE DEF q
<1> QED
  BY <1>2, <1>4

-----------------------------------------------------------------------------
(* The reading of a turn.                                                    *)
LEMMA TurnStays ==
    ASSUME TurnsInv, NEW t \in Turns, turn[t].pc = "read", turn' = turn,
           UNCHANGED <<agent, exec, built, owned, alive, cur, claimed, kill, token>>,
           sess' \in SessType, sess'.status = sess.status, sess'.busy => sess.busy,
           tool' \in BOOLEAN, resumeId' \in BOOLEAN
    PROVE  TurnsInv'
<1>1. Live(t) /\ turn[t] \in TurnType
  BY DEF Live, TurnsInv, TurnsTyped
<1>2. ~ turn[t].ok
  BY <1>1, LiveTurn
<1>3. turn' = [turn EXCEPT ![t] = turn[t]]
  BY DEF TurnsInv, TurnsTyped
<1> QED
  BY <1>1, <1>2, <1>3, TurnGoesOn

LEMMA TurnReads ==
    ASSUME TurnsInv, NEW t \in Turns,
           \/ CodexThread(t) \/ CodexItem(t) \/ OpenCodeStep(t) \/ OpenCodeTool(t) \/ AcpTool(t)
    PROVE  TurnsInv'
<1>1. /\ turn[t].pc = "read" /\ turn' = turn /\ sess' = sess
      /\ UNCHANGED <<agent, exec, built, owned, alive, cur, claimed, kill, token>>
  BY DEF CodexThread, CodexItem, OpenCodeStep, OpenCodeTool, AcpTool, Reads
<1>2. tool' \in BOOLEAN /\ resumeId' \in BOOLEAN
  BY DEF CodexThread, CodexItem, OpenCodeStep, OpenCodeTool, AcpTool, TurnsInv, TurnsTyped
<1>3. sess' \in SessType
  BY <1>1 DEF TurnsInv, TurnsTyped
<1> QED
  BY <1>1, <1>2, <1>3, TurnStays

(* The live turn ends its reading, its exit or its handshake.                *)
LEMMA TurnOutcome ==
    ASSUME TurnsInv, NEW t \in Turns, Live(t), NEW pc \in {"exit", "tail", "end", "read"},
           NEW ok \in BOOLEAN, Outcome(t, pc, ok) \/ (Goto(t, pc) /\ ok = turn[t].ok),
           UNCHANGED <<agent, exec, built, owned, alive, cur, claimed, kill, token>>,
           sess' \in SessType, sess'.status = sess.status, sess'.busy => sess.busy,
           tool' \in BOOLEAN, resumeId' \in BOOLEAN,
           ok => pc \in {"exit", "tail"} /\ ~ sess'.busy
    PROVE  TurnsInv'
<1>1. pc \in TurnPcs
  BY DEF TurnPcs
<1>2. PICK q \in TurnType : turn' = [turn EXCEPT ![t] = q] /\ q.pc = pc /\ q.ex = turn[t].ex /\ q.ok = ok
  <2>1. CASE Outcome(t, pc, ok)
    BY <1>1, <2>1, OutcomeIs
  <2>2. CASE Goto(t, pc) /\ ok = turn[t].ok
    <3> DEFINE q == [turn[t] EXCEPT !.pc = pc]
    <3>1. turn' = [turn EXCEPT ![t] = q] /\ q \in TurnType /\ q.pc = pc /\ q.ex = turn[t].ex
          /\ q.ok = turn[t].ok
      BY <1>1, <2>2, GotoIs
    <3> HIDE DEF q
    <3> QED
      BY <2>2, <3>1
  <2> QED
    BY <2>1, <2>2
<1> QED
  BY <1>2, TurnGoesOn

LEMMA FreedSession ==
    ASSUME TurnsInv
    PROVE  /\ sess \in SessType
           /\ LET s == [sess EXCEPT !.busy = FALSE]
              IN s \in SessType /\ s.status = sess.status /\ ~ s.busy
BY DEF TurnsInv, TurnsTyped, SessType

LEMMA TurnEnds ==
    ASSUME TurnsInv, NEW t \in Turns,
           CodexEnds(t) \/ OpenCodeEnds(t) \/ AcpTurnEnd(t) \/ AcpTurnFails(t) \/ EndOfFile(t)
    PROVE  TurnsInv'
<1>1. /\ turn[t].pc = "read" /\ UNCHANGED <<agent, exec, built, owned, alive, cur, claimed, kill, token>>
  BY DEF CodexEnds, OpenCodeEnds, AcpTurnEnd, AcpTurnFails, EndOfFile, Reads
<1>2. Live(t) /\ tool \in BOOLEAN /\ resumeId \in BOOLEAN
  BY <1>1 DEF Live, TurnsInv, TurnsTyped
<1>3. CASE CodexEnds(t)
  <2>1. sess' = [sess EXCEPT !.busy = FALSE] /\ resumeId' = resumeId
    BY <1>3 DEF CodexEnds
  <2>2. CASE Outcome(t, "exit", TRUE) /\ tool' = tool
    BY <1>1, <1>2, <2>1, <2>2, FreedSession, TurnOutcome
  <2>3. CASE tool' = FALSE /\ Outcome(t, "exit", FALSE)
    BY <1>1, <1>2, <2>1, <2>3, FreedSession, TurnOutcome
  <2>4. CASE tool' = FALSE /\ turn' = turn
    BY <1>1, <1>2, <2>1, <2>4, FreedSession, TurnStays
  <2> QED
    BY <1>3, <2>2, <2>3, <2>4 DEF CodexEnds
<1>4. CASE OpenCodeEnds(t)
  <2>1. tool' = tool /\ resumeId' = resumeId
    BY <1>4 DEF OpenCodeEnds
  <2>2. CASE Outcome(t, "exit", TRUE) /\ sess' = [sess EXCEPT !.busy = FALSE]
    BY <1>1, <1>2, <2>1, <2>2, FreedSession, TurnOutcome
  <2>3. CASE Outcome(t, "exit", FALSE) /\ sess' = sess
    BY <1>1, <1>2, <2>1, <2>3, FreedSession, TurnOutcome
  <2> QED
    BY <1>4, <2>2, <2>3 DEF OpenCodeEnds
<1>5. CASE AcpTurnEnd(t)
  <2>1. tool' = tool /\ resumeId' = TRUE /\ Outcome(t, "tail", TRUE)
        /\ sess' = [sess EXCEPT !.busy = FALSE]
    BY <1>5 DEF AcpTurnEnd
  <2> QED
    BY <1>1, <1>2, <2>1, FreedSession, TurnOutcome
<1>6. CASE AcpTurnFails(t) \/ EndOfFile(t)
  <2>1. tool' = tool /\ resumeId' = resumeId /\ sess' = sess
        /\ (Outcome(t, "tail", FALSE) \/ Outcome(t, "exit", FALSE))
    BY <1>6 DEF AcpTurnFails, EndOfFile
  <2> QED
    BY <1>1, <1>2, <2>1, FreedSession, TurnOutcome
<1> QED
  BY <1>3, <1>4, <1>5, <1>6

LEMMA TurnHandshakes ==
    ASSUME TurnsInv, NEW t \in Turns, ExitAwaited(t) \/ WritePrompt(t) \/ AcpHandshake(t)
    PROVE  TurnsInv'
<1>1. /\ turn[t].pc \in {"exit", "handshake"}
      /\ UNCHANGED <<agent, sess, resumeId, token, tool, exec, built, owned, alive, cur, claimed, kill>>
  BY DEF ExitAwaited, WritePrompt, AcpHandshake
<1>2. Live(t) /\ tool \in BOOLEAN /\ resumeId \in BOOLEAN /\ sess \in SessType /\ turn[t].ok \in BOOLEAN
  BY <1>1 DEF Live, TurnsInv, TurnsTyped, TurnType
<1>3. turn[t].ok => turn[t].pc = "exit" /\ ~ sess.busy
  BY <1>1, <1>2, LiveTurn
<1>4. CASE ExitAwaited(t)
  <2>1. Goto(t, "tail")
    BY <1>4 DEF ExitAwaited
  <2> QED
    BY <1>1, <1>2, <1>3, <2>1, TurnOutcome
<1>5. CASE turn[t].pc = "handshake" /\ (Outcome(t, "tail", FALSE) \/ Goto(t, "read"))
  <2>1. ~ turn[t].ok
    BY <1>3, <1>5
  <2> QED
    BY <1>1, <1>2, <1>5, <2>1, TurnOutcome
<1>6. ASSUME turn[t].pc = "handshake", NEW src \in 0 .. MaxTurnTasks,
             turn' = [turn EXCEPT ![t].pc = "read", ![t].src = src]
      PROVE  TurnsInv'
  <2>1. ~ turn[t].ok
    BY <1>3, <1>6
  <2>2. PICK q \in TurnType : turn' = [turn EXCEPT ![t] = q] /\ q.pc = "read" /\ q.ex = turn[t].ex
                              /\ q.ok = turn[t].ok
    BY <1>6, ReadsIs DEF TurnPcs
  <2> QED
    BY <1>1, <1>2, <2>1, <2>2, TurnGoesOn
<1>7. owned[turn[t].ex] \in 0 .. MaxTurnTasks
  BY <1>2, LiveTurn DEF TurnsInv, TurnsTyped
<1> QED
  BY <1>4, <1>5, <1>6, <1>7 DEF WritePrompt, AcpHandshake

-----------------------------------------------------------------------------
(* The process of a turn.                                                    *)
LEMMA ProcessOfTurn ==
    ASSUME TurnsInv, NEW t \in Turns, Live(t), NEW q \in TurnType,
           turn' = [turn EXCEPT ![t] = q], q.pc \notin {"none", "done"}, q.ex = turn[t].ex, ~ q.ok,
           UNCHANGED <<agent, sess, resumeId, token, tool, exec, built, cur, claimed, kill>>,
           owned' \in [Executors -> 0 .. MaxTurnTasks], alive' \subseteq Turns,
           \A x \in Executors : owned'[x] # 0 => x = exec,
           \A p \in alive' : owned'[exec] = p,
           q.pc \in {"spawn", "drop"} => owned'[exec] = 0,
           kill.pc = "join" => q.pc # "spawn" /\ owned'[exec] = 0
    PROVE  TurnsInv'
<1>1. turn'[t] = q /\ \A s \in Turns : s # t => turn'[s] = turn[s]
  BY DEF TurnsInv, TurnsTyped
<1>2. Live(t)' /\ \A s \in Turns : s # t => ~ Live(s)'
  BY <1>1, LiveTurn DEF Live
<1>3. TurnsTyped'
  BY <1>1 DEF TurnsInv, TurnsTyped
<1>4. OneTurn' /\ OkEnded'
  <2>1. ASSUME NEW s \in Turns, Live(s)'
        PROVE  s = t /\ turn'[s] = q
    BY <1>1, <1>2, <2>1
  <2>2. t = cur' /\ q.ex = exec' /\ exec' # 0
    BY LiveTurn DEF Executors
  <2> QED
    BY <2>1, <2>2 DEF OneTurn, OkEnded
<1>5. ~ NoLive' /\ ~ claimed'
  BY <1>2, LiveTurn DEF NoLive
<1>6. ClaimAlone' /\ ShownFree' /\ OneShotFree'
  BY <1>5 DEF ClaimAlone, ShownFree, OneShotFree
<1>7. exec' = exec /\ exec # 0 /\ q.ex = exec
  BY LiveTurn DEF Executors
<1>8. OwnedByExec' /\ AliveOwned'
  BY <1>7 DEF OwnedByExec, AliveOwned
<1>9. SpawnsAlone'
  <2> SUFFICES ASSUME NEW s \in Turns, turn'[s].pc \in {"spawn", "drop"}
               PROVE  owned'[turn'[s].ex] = 0
    BY DEF SpawnsAlone
  <2>1. s = t
    BY <1>2 DEF Live
  <2> QED
    BY <1>1, <1>7, <2>1
<1>10. Stopped'
  BY DEF TurnsInv, Stopped
<1>11. TearsDown'
  <2>1. kill.pc = "finish" => exec = 0
    BY DEF TurnsInv, TearsDown
  <2>2. kill.pc \in {"kill", "join"} => exec = kill.ex
    BY <1>7 DEF TurnsInv, TearsDown
  <2>3. kill.pc = "join" => \A s \in Turns : turn'[s].pc # "spawn"
    BY <1>1 DEF TurnsInv, TearsDown
  <2> QED
    BY <1>7, <2>1, <2>2, <2>3 DEF TearsDown
<1> QED
  BY <1>3, <1>4, <1>6, <1>8, <1>9, <1>10, <1>11 DEF TurnsInv

(* Nothing about the processes changes.                                      *)
LEMMA ProcessesAre ==
    ASSUME TurnsInv
    PROVE  /\ owned \in [Executors -> 0 .. MaxTurnTasks] /\ alive \subseteq Turns
           /\ \A x \in Executors : owned[x] # 0 => x = exec
           /\ \A p \in alive : owned[exec] = p
           /\ kill.pc = "join" => exec \in {0, kill.ex} /\ owned[kill.ex] = 0
BY DEF TurnsInv, TurnsTyped, OwnedByExec, AliveOwned, TearsDown

LEMMA TurnBegins ==
    ASSUME TurnsInv, InOrder, NEW t \in Turns, BeginCodex(t) \/ BeginOpenCode(t) \/ EnsureAcp(t)
    PROVE  TurnsInv'
<1>1. /\ turn[t].pc \in {"first", "resume"}
      /\ UNCHANGED <<agent, sess, resumeId, token, tool, exec, built, cur, claimed, kill>>
  BY DEF BeginCodex, BeginOpenCode, Begin, EnsureAcp
<1>2. Live(t)
  BY <1>1 DEF Live
<1>3. /\ turn[t] \in TurnType /\ turn[t].ex = exec /\ exec \in Executors /\ ~ turn[t].ok /\ exec # 0
      /\ turn[t].ok \in BOOLEAN
  BY <1>1, <1>2, LiveTurn DEF TurnType, Executors
<1>4. kill.pc # "join"
  <2>1. kill.pc = "join" => kill.ex = exec
    BY <1>3, ProcessesAre
  <2> QED
    BY <1>3, <2>1 DEF InOrder, BeginCodex, BeginOpenCode, Begin, EnsureAcp
<1>5. CASE Goto(t, "spawn") /\ StopProcess(exec)
  <2> DEFINE q == [turn[t] EXCEPT !.pc = "spawn"]
  <2>1. turn' = [turn EXCEPT ![t] = q] /\ q \in TurnType /\ q.pc = "spawn" /\ q.ex = turn[t].ex /\ ~ q.ok
    BY <1>3, <1>5, GotoIs DEF TurnPcs
  <2> HIDE DEF q
  <2>2. alive' = {} /\ owned' \in [Executors -> 0 .. MaxTurnTasks] /\ \A x \in Executors : owned'[x] = 0
    BY <1>3, <1>5, ExecStopped
  <2> QED
    BY <1>1, <1>2, <1>3, <1>4, <2>1, <2>2, ProcessOfTurn
<1>6. ASSUME UNCHANGED <<owned, alive>>, NEW q \in TurnType, turn' = [turn EXCEPT ![t] = q],
             q.pc \in {"tail", "read"}, q.ex = turn[t].ex, ~ q.ok
      PROVE  TurnsInv'
  BY <1>1, <1>2, <1>3, <1>4, <1>6, ProcessesAre, ProcessOfTurn
<1>7. CASE Outcome(t, "tail", FALSE) /\ UNCHANGED <<owned, alive>>
  <2>1. PICK q \in TurnType : turn' = [turn EXCEPT ![t] = q] /\ q.pc = "tail" /\ q.ex = turn[t].ex
                              /\ q.ok = FALSE
    BY <1>7, OutcomeIs DEF TurnPcs
  <2> QED
    BY <1>6, <1>7, <2>1
<1>8. CASE turn' = [turn EXCEPT ![t].pc = "read", ![t].src = owned[exec]] /\ UNCHANGED <<owned, alive>>
  <2>1. owned[exec] \in 0 .. MaxTurnTasks
    BY <1>3, ProcessesAre
  <2>2. PICK q \in TurnType : turn' = [turn EXCEPT ![t] = q] /\ q.pc = "read" /\ q.ex = turn[t].ex
                              /\ q.ok = turn[t].ok
    BY <1>8, <2>1, ReadsIs DEF TurnPcs
  <2> QED
    BY <1>3, <1>6, <1>8, <2>2
<1> QED
  BY <1>3, <1>5, <1>7, <1>8 DEF BeginCodex, BeginOpenCode, Begin, EnsureAcp

(* A spawn, of which the executor holds the process as soon as it exists.     *)
LEMMA TurnSpawns ==
    ASSUME TurnsInv, NEW t \in Turns, CodexSpawns(t) \/ OpenCodeSpawns(t) \/ AcpSpawns(t)
    PROVE  TurnsInv'
<1>1. /\ turn[t].pc = "spawn"
      /\ UNCHANGED <<agent, sess, resumeId, token, tool, exec, built, cur, claimed, kill>>
  BY DEF CodexSpawns, OpenCodeSpawns, AcpSpawns
<1>2. Live(t)
  BY <1>1 DEF Live
<1>3. /\ turn[t] \in TurnType /\ turn[t].ex = exec /\ exec \in Executors /\ ~ turn[t].ok /\ exec # 0
  BY <1>1, <1>2, LiveTurn DEF Executors
<1>4. /\ kill.pc # "join" /\ owned[exec] = 0
  BY <1>1, <1>3 DEF TurnsInv, TearsDown, SpawnsAlone
<1>5. t \in 0 .. MaxTurnTasks /\ t # 0
  BY AgentAssumption DEF Turns
<1>6. alive = {}
  BY <1>4, <1>5, ProcessesAre DEF Turns
<1>7. ASSUME \/ owned' = [owned EXCEPT ![exec] = t] /\ alive' \in {alive, alive \cup {t}}
             \/ UNCHANGED <<owned, alive>>,
             NEW q \in TurnType, turn' = [turn EXCEPT ![t] = q],
             q.pc \in {"tail", "read", "handshake"}, q.ex = turn[t].ex, ~ q.ok
      PROVE  TurnsInv'
  <2>1. CASE owned' = [owned EXCEPT ![exec] = t] /\ alive' \in {alive, alive \cup {t}}
    <3>1. /\ owned' \in [Executors -> 0 .. MaxTurnTasks] /\ alive' \subseteq Turns
          /\ \A x \in Executors : owned'[x] # 0 => x = exec
          /\ \A p \in alive' : owned'[exec] = p
      BY <1>3, <1>5, <1>6, <2>1, ProcessesAre
    <3> QED
      BY <1>1, <1>2, <1>4, <1>7, <3>1, ProcessOfTurn
  <2>2. CASE UNCHANGED <<owned, alive>>
    BY <1>1, <1>2, <1>4, <1>7, <2>2, ProcessesAre, ProcessOfTurn
  <2> QED
    BY <1>7, <2>1, <2>2
<1>8. /\ \/ owned' = [owned EXCEPT ![exec] = t] /\ alive' \in {alive, alive \cup {t}}
         \/ UNCHANGED <<owned, alive>>
      /\ \/ Outcome(t, "tail", FALSE) \/ Goto(t, "handshake")
         \/ turn' = [turn EXCEPT ![t].pc = "read", ![t].src = t]
         \/ turn' = [turn EXCEPT ![t].pc = "handshake", ![t].src = t]
  BY <1>3 DEF CodexSpawns, OpenCodeSpawns, AcpSpawns
<1>9. PICK q \in TurnType : /\ turn' = [turn EXCEPT ![t] = q] /\ q.pc \in {"tail", "read", "handshake"}
                            /\ q.ex = turn[t].ex /\ ~ q.ok
  <2>1. CASE Outcome(t, "tail", FALSE)
    <3>1. "tail" \in TurnPcs
      BY DEF TurnPcs
    <3>2. PICK q \in TurnType : turn' = [turn EXCEPT ![t] = q] /\ q.pc = "tail" /\ q.ex = turn[t].ex /\ q.ok = FALSE
      BY <2>1, <3>1, OutcomeIs
    <3> QED
      BY <3>2
  <2>2. CASE Goto(t, "handshake")
    <3> DEFINE q == [turn[t] EXCEPT !.pc = "handshake"]
    <3>1. turn' = [turn EXCEPT ![t] = q] /\ q \in TurnType /\ q.pc = "handshake" /\ q.ex = turn[t].ex
          /\ q.ok = turn[t].ok
      BY <2>2, GotoIs DEF TurnPcs
    <3> HIDE DEF q
    <3> QED
      BY <1>3, <3>1
  <2>3. CASE turn' = [turn EXCEPT ![t].pc = "read", ![t].src = t]
    <3>1. PICK q \in TurnType : turn' = [turn EXCEPT ![t] = q] /\ q.pc = "read" /\ q.ex = turn[t].ex
                                /\ q.ok = turn[t].ok
      BY <1>5, <2>3, ReadsIs DEF TurnPcs
    <3> QED
      BY <1>3, <3>1
  <2>4. CASE turn' = [turn EXCEPT ![t].pc = "handshake", ![t].src = t]
    <3>1. PICK q \in TurnType : turn' = [turn EXCEPT ![t] = q] /\ q.pc = "handshake" /\ q.ex = turn[t].ex
                                /\ q.ok = turn[t].ok
      BY <1>5, <2>4, ReadsIs DEF TurnPcs
    <3> QED
      BY <1>3, <3>1
  <2> QED
    BY <1>8, <2>1, <2>2, <2>3, <2>4
<1> QED
  BY <1>7, <1>8, <1>9

(* The end of the session stops the process.                                 *)
LEMMA TurnStopsSession ==
    ASSUME TurnsInv, NEW t \in Turns, EndAgentSession(t)
    PROVE  TurnsInv'
<1> DEFINE q == [turn[t] EXCEPT !.pc = "drop"]
<1>1. /\ turn[t].pc = "end" /\ StopProcess(exec)
      /\ UNCHANGED <<agent, sess, resumeId, token, tool, exec, built, cur, claimed, kill>>
      /\ turn' = [turn EXCEPT ![t] = q] /\ q \in TurnType /\ q.pc = "drop" /\ q.ex = turn[t].ex
      /\ q.ok = turn[t].ok
  BY GotoIs DEF EndAgentSession, TurnPcs
<1> HIDE DEF q
<1>2. Live(t)
  BY <1>1 DEF Live
<1>3. exec \in Executors /\ ~ turn[t].ok
  BY <1>1, <1>2, LiveTurn
<1>4. alive' = {} /\ owned' \in [Executors -> 0 .. MaxTurnTasks] /\ \A x \in Executors : owned'[x] = 0
  BY <1>1, <1>3, ExecStopped
<1> QED
  BY <1>1, <1>2, <1>3, <1>4, ProcessOfTurn

-----------------------------------------------------------------------------
(* A turn is gone.                                                           *)
LEMMA NoneLeft ==
    ASSUME TurnsTyped', NoLive', OwnedByExec', AliveOwned', Stopped', TearsDown',
           kill'.pc # "finish" => ~ sess'.busy /\ (exec' = 0 => ~ tool'),
           agent' # "acp" => \A x \in Executors : owned'[x] = 0
    PROVE  TurnsInv'
<1>1. \A t \in Turns : turn'[t].pc \in {"none", "done"}
  BY DEF NoLive, Live
<1>2. OneTurn' /\ ClaimAlone' /\ OkEnded' /\ SpawnsAlone'
  BY <1>1 DEF NoLive, OneTurn, ClaimAlone, OkEnded, SpawnsAlone
<1>3. ShownFree' /\ OneShotFree'
  BY DEF ShownFree, OneShotFree, OneShot
<1> QED
  BY <1>2, <1>3 DEF TurnsInv

LEMMA LastTurnDone ==
    ASSUME TurnsInv, NEW t \in Turns, Live(t), Goto(t, "done")
    PROVE  NoLive' /\ turn' \in [Turns -> TurnType]
<1> DEFINE q == [turn[t] EXCEPT !.pc = "done"]
<1>1. turn' = [turn EXCEPT ![t] = q] /\ q \in TurnType /\ q.pc = "done"
  BY GotoIs DEF TurnPcs
<1> HIDE DEF q
<1>2. turn'[t] = q /\ \A s \in Turns : s # t => turn'[s] = turn[s]
  BY <1>1 DEF TurnsInv, TurnsTyped
<1>3. NoLive'
  BY <1>1, <1>2, LiveTurn DEF NoLive, Live
<1> QED
  BY <1>1, <1>3 DEF TurnsInv, TurnsTyped

LEMMA TurnSettles ==
    ASSUME TurnsInv, NEW t \in Turns, SettleOneShot(t) \/ SettleAcp(t)
    PROVE  TurnsInv'
<1>1. /\ turn[t].pc = "tail"
      /\ UNCHANGED <<agent, sess, resumeId, token, tool, exec, built, cur, claimed, kill>>
  BY DEF SettleOneShot, SettleAcp
<1>2. Live(t) /\ tool \in BOOLEAN /\ resumeId \in BOOLEAN /\ sess \in SessType
  BY <1>1 DEF Live, TurnsInv, TurnsTyped
<1>3. /\ turn[t].ex = exec /\ exec \in Executors /\ exec # 0 /\ turn[t].ok \in BOOLEAN
      /\ turn[t].ok => ~ sess.busy
  BY <1>2, LiveTurn DEF TurnType, Executors
<1>4. CASE ~ turn[t].ok
  <2>1. Goto(t, "end") /\ UNCHANGED <<owned, alive>>
    BY <1>4 DEF SettleOneShot, SettleAcp
  <2> QED
    BY <1>1, <1>2, <1>3, <1>4, <2>1, TurnOutcome
<1>5. CASE turn[t].ok
  <2>1. Goto(t, "done") /\ (StopProcess(exec) \/ (agent = "acp" /\ UNCHANGED <<owned, alive>>))
    BY <1>3, <1>5 DEF SettleOneShot, SettleAcp, OneShot
  <2>2. NoLive' /\ turn' \in [Turns -> TurnType]
    BY <1>2, <2>1, LastTurnDone
  <2>3. /\ owned' \in [Executors -> 0 .. MaxTurnTasks] /\ alive' \subseteq Turns
        /\ \A x \in Executors : owned'[x] # 0 => x = exec
        /\ \A p \in alive' : owned'[exec] = p
        /\ kill.pc = "join" => owned'[kill.ex] = 0
        /\ agent # "acp" => \A x \in Executors : owned'[x] = 0
    <3>1. CASE StopProcess(exec)
      <4>1. alive' = {} /\ owned' \in [Executors -> 0 .. MaxTurnTasks] /\ \A x \in Executors : owned'[x] = 0
        BY <1>3, <3>1, ExecStopped
      <4>2. kill.pc = "join" => kill.ex = exec
        BY <1>3, ProcessesAre DEF Executors
      <4> QED
        BY <1>3, <4>1, <4>2
    <3>2. CASE agent = "acp" /\ UNCHANGED <<owned, alive>>
      BY <3>2, ProcessesAre
    <3> QED
      BY <2>1, <3>1, <3>2
  <2>4. TurnsTyped'
    BY <1>1, <2>2, <2>3 DEF TurnsInv, TurnsTyped
  <2>5. OwnedByExec' /\ AliveOwned'
    BY <1>1, <1>3, <2>3 DEF OwnedByExec, AliveOwned, Executors
  <2>6. Stopped'
    BY <1>1 DEF TurnsInv, Stopped
  <2>7. TearsDown'
    BY <1>1, <2>2, <2>3 DEF TurnsInv, TearsDown, NoLive, Live
  <2> QED
    BY <1>1, <1>3, <1>5, <2>2, <2>3, <2>4, <2>5, <2>6, <2>7, NoneLeft
<1> QED
  BY <1>3, <1>4, <1>5

LEMMA TurnDropsAgent ==
    ASSUME TurnsInv, NEW t \in Turns, DropAgent(t)
    PROVE  TurnsInv'
<1>1. /\ turn[t].pc = "drop" /\ Goto(t, "done") /\ exec' = 0 /\ cur' = 0 /\ token' = FALSE /\ tool' = FALSE
      /\ sess' = Complete /\ UNCHANGED <<agent, resumeId, built, owned, alive, claimed, kill>>
  BY DEF DropAgent
<1>2. Live(t)
  BY <1>1 DEF Live
<1>3. turn[t].ex = exec /\ exec \in Executors
  BY <1>2, LiveTurn
<1>4. \A x \in Executors : owned[x] = 0
  BY <1>1, <1>3, ProcessesAre DEF TurnsInv, SpawnsAlone
<1>5. alive = {}
  BY <1>3, <1>4, ProcessesAre DEF Turns
<1>6. NoLive' /\ turn' \in [Turns -> TurnType]
  BY <1>1, <1>2, LastTurnDone
<1>7. sess' \in SessType /\ ~ sess'.busy
  <2>1. sess \in SessType /\ (sess.status # "active" => ~ sess.busy)
    BY DEF TurnsInv, TurnsTyped, Stopped
  <2>2. CASE sess.status = "paused"
    <3>1. sess' = [sess EXCEPT !.cwp = TRUE] /\ ~ sess.busy
      BY <1>1, <2>1, <2>2 DEF Complete
    <3> QED
      BY <2>1, <3>1 DEF SessType
  <2>3. CASE sess.status # "paused"
    <3> DEFINE x == [sess EXCEPT !.status = "done"]
    <3>1. sess' = [x EXCEPT !.busy = FALSE]
      BY <1>1, <2>3 DEF Complete
    <3>2. x \in SessType
      BY <2>1 DEF SessType
    <3> HIDE DEF x
    <3> QED
      BY <3>1, <3>2 DEF SessType
  <2> QED
    BY <2>2, <2>3
<1>8. TurnsTyped'
  <2>1. exec' \in 0 .. MaxExecutors /\ cur' \in 0 .. MaxTurnTasks
    BY <1>1, AgentAssumption
  <2>2. token' \in BOOLEAN /\ tool' \in BOOLEAN
    BY <1>1
  <2> QED
    BY <1>1, <1>6, <1>7, <2>1, <2>2 DEF TurnsInv, TurnsTyped
<1>9. OwnedByExec' /\ AliveOwned'
  BY <1>1, <1>4, <1>5 DEF OwnedByExec, AliveOwned
<1>10. Stopped'
  BY <1>1, <1>7 DEF Stopped
<1>11. TearsDown'
  BY <1>1, <1>6 DEF TurnsInv, TearsDown, NoLive, Live
<1> QED
  BY <1>1, <1>4, <1>6, <1>7, <1>8, <1>9, <1>10, <1>11, NoneLeft

-----------------------------------------------------------------------------
(* A new turn.                                                               *)
LEMMA NextTurnIs ==
    ASSUME Unused # {}
    PROVE  NextTurn \in Turns /\ turn[NextTurn].pc = "none"
<1>1. Unused \in SUBSET Nat
  BY AgentAssumption DEF Unused, Turns
<1>2. \E t \in Unused : \A u \in Unused : t <= u
  BY <1>1, LeastNatural
<1>3. NextTurn \in Unused
  BY <1>2 DEF NextTurn
<1> QED
  BY <1>3 DEF Unused

LEMMA TurnIsNew ==
    ASSUME TurnsInv, NoLive, NEW t \in Turns, NEW q \in TurnType, q.pc \in {"first", "resume"}, ~ q.ok,
           turn' = [turn EXCEPT ![t] = q], cur' = t, q.ex = exec', exec' \in Executors,
           exec' = exec \/ exec = 0, built' \in 0 .. MaxExecutors, sess.status = "active",
           sess' = [sess EXCEPT !.busy = TRUE], tool' = FALSE, token' \in BOOLEAN,
           kill.pc # "no" => exec' = exec, claimed' = FALSE,
           UNCHANGED <<agent, resumeId, owned, alive, kill>>
    PROVE  TurnsInv'
<1>1. turn'[t] = q /\ \A s \in Turns : s # t => turn'[s] = turn[s]
  BY DEF TurnsInv, TurnsTyped
<1>2. Live(t)' /\ \A s \in Turns : s # t => ~ Live(s)'
  BY <1>1 DEF Live, NoLive
<1>3. exec' # 0 /\ t \in 0 .. MaxTurnTasks
  BY AgentAssumption DEF Executors, Turns
<1>4. sess' \in SessType /\ sess'.status = "active"
  BY DEF TurnsInv, TurnsTyped, SessType
<1>5. exec' \in 0 .. MaxExecutors
  BY AgentAssumption DEF Executors
<1>6. TurnsTyped'
  BY <1>1, <1>3, <1>4, <1>5 DEF TurnsInv, TurnsTyped
<1>7. OneTurn' /\ OkEnded'
  <2>1. ASSUME NEW s \in Turns, Live(s)'
        PROVE  s = t /\ turn'[s] = q
    BY <1>1, <1>2, <2>1
  <2> QED
    BY <1>3, <2>1 DEF OneTurn, OkEnded
<1>8. ~ NoLive' /\ ~ claimed'
  BY <1>2 DEF NoLive
<1>9. ClaimAlone' /\ ShownFree' /\ OneShotFree'
  BY <1>8 DEF ClaimAlone, ShownFree, OneShotFree
<1>10. /\ \A x \in Executors : owned[x] # 0 => x = exec
       /\ \A p \in alive : exec # 0 /\ owned[exec] = p
  BY DEF TurnsInv, OwnedByExec, AliveOwned
<1>11. OwnedByExec' /\ AliveOwned'
  BY <1>10 DEF OwnedByExec, AliveOwned, Executors
<1>12. SpawnsAlone'
  BY <1>1 DEF TurnsInv, SpawnsAlone
<1>13. Stopped'
  BY <1>4 DEF Stopped
<1>14. TearsDown'
  BY <1>1, <1>3 DEF TurnsInv, TearsDown
<1> QED
  BY <1>6, <1>7, <1>9, <1>11, <1>12, <1>13, <1>14 DEF TurnsInv

(* A session that is not busy has no live turn, nor has one without agent.     *)
LEMMA NotBusyNoLive ==
    ASSUME TurnsInv, exec = 0 \/ ~ Busy
    PROVE  NoLive
<1> SUFFICES ASSUME NEW t \in Turns, Live(t) PROVE FALSE
  BY DEF NoLive
<1>1. t = cur /\ exec # 0 /\ cur # 0
  BY LiveTurn, AgentAssumption DEF Executors, Turns
<1>2. Busy
  BY <1>1 DEF Busy
<1> QED
  BY <1>1, <1>2

LEMMA AgentStarts ==
    ASSUME TurnsInv, InOrder, StartCodex \/ StartOpenCode \/ StartAcp
    PROVE  TurnsInv'
<1>1. PICK tok \in BOOLEAN : StartAgent(tok)
  BY DEF StartCodex, StartOpenCode, StartAcp
<1> DEFINE t == NextTurn
           q == [pc |-> "first", ex |-> built + 1, src |-> 0, ok |-> FALSE]
<1>2. /\ sess.status = "active" /\ exec = 0 /\ ~ Busy /\ kill.pc = "no" /\ Unused # {}
      /\ built < MaxExecutors /\ ~ claimed /\ claimed' = claimed /\ built' = built + 1 /\ exec' = built + 1
      /\ sess' = [sess EXCEPT !.busy = TRUE] /\ turn' = [turn EXCEPT ![t] = q] /\ cur' = t
      /\ tool' = FALSE /\ token' = (token \/ tok)
      /\ UNCHANGED <<agent, resumeId, owned, alive, kill>>
  BY <1>1 DEF StartAgent, InOrder
<1>3. NoLive
  BY <1>2, NotBusyNoLive
<1>4. t \in Turns
  BY <1>2, NextTurnIs
<1>5. built + 1 \in Executors /\ built + 1 \in 0 .. MaxExecutors /\ 0 \in 0 .. MaxTurnTasks
  BY <1>2, AgentAssumption DEF TurnsInv, TurnsTyped, Executors
<1>6. q \in TurnType /\ q.pc = "first" /\ ~ q.ok /\ q.ex = exec'
  BY <1>2, <1>5 DEF TurnType, TurnPcs
<1>7. (token \/ tok) \in BOOLEAN /\ claimed \in BOOLEAN
  BY DEF TurnsInv, TurnsTyped
<1>8. claimed' = FALSE
  BY <1>2, <1>7
<1> HIDE DEF t, q
<1> QED
  BY <1>2, <1>3, <1>4, <1>5, <1>6, <1>7, <1>8, TurnIsNew

LEMMA AgentPrompted ==
    ASSUME TurnsInv, InOrder, Prompt \/ DrainForwards
    PROVE  TurnsInv'
<1>1. UNCHANGED <<agent, resumeId, token, exec, built, owned, alive, kill>>
  BY DEF Prompt, DrainForwards
<1>2. NoLive /\ claimed' = FALSE
  <2>1. CASE Prompt
    <3>1. ~ Busy /\ ~ claimed /\ claimed' = claimed /\ claimed \in BOOLEAN
      BY <2>1 DEF Prompt, InOrder, TurnsInv, TurnsTyped
    <3> QED
      BY <3>1, NotBusyNoLive
  <2>2. CASE DrainForwards
    BY <2>2 DEF DrainForwards, TurnsInv, ClaimAlone
  <2> QED
    BY <2>1, <2>2
<1>3. CASE sess.status = "active" /\ (ForwardOneShot \/ ForwardAcp)
  <2> DEFINE t == NextTurn
             q == [pc |-> "resume", ex |-> exec, src |-> 0, ok |-> FALSE]
  <2>1. /\ exec # 0 /\ Unused # {} /\ sess' = [sess EXCEPT !.busy = TRUE]
        /\ turn' = [turn EXCEPT ![t] = q] /\ cur' = t /\ tool' = FALSE
    BY <1>3 DEF ForwardOneShot, ForwardAcp
  <2>2. t \in Turns
    BY <2>1, NextTurnIs
  <2>3. exec \in Executors /\ exec \in 0 .. MaxExecutors /\ 0 \in 0 .. MaxTurnTasks
        /\ built \in 0 .. MaxExecutors /\ token \in BOOLEAN
    BY <2>1, AgentAssumption DEF TurnsInv, TurnsTyped, Executors
  <2>4. q \in TurnType /\ q.pc = "resume" /\ ~ q.ok /\ q.ex = exec
    BY <2>3 DEF TurnType, TurnPcs
  <2> HIDE DEF t, q
  <2> QED
    BY <1>1, <1>2, <1>3, <2>1, <2>2, <2>3, <2>4, TurnIsNew
<1>4. CASE UNCHANGED <<sess, turn, cur, tool>>
  <2>1. TurnsTyped'
    BY <1>1, <1>2, <1>4 DEF TurnsInv, TurnsTyped
  <2>2. NoLive' /\ OneTurn' /\ OkEnded' /\ ClaimAlone'
    BY <1>1, <1>2, <1>4 DEF NoLive, Live, OneTurn, OkEnded, ClaimAlone
  <2>3. OwnedByExec' /\ AliveOwned' /\ SpawnsAlone' /\ OneShotFree'
    BY <1>1, <1>2, <1>4 DEF TurnsInv, OwnedByExec, AliveOwned, SpawnsAlone, OneShotFree, OneShot
  <2>4. ShownFree' /\ Stopped' /\ TearsDown'
    BY <1>1, <1>2, <1>4 DEF TurnsInv, ShownFree, Stopped, TearsDown
  <2> QED
    BY <2>1, <2>2, <2>3, <2>4 DEF TurnsInv
<1> QED
  BY <1>3, <1>4 DEF Prompt, DrainForwards

LEMMA DrainHasClaimed ==
    ASSUME TurnsInv, DrainClaims
    PROVE  TurnsInv'
<1>1. /\ UNCHANGED <<agent, sess, resumeId, token, tool, exec, built, owned, alive>>
      /\ UNCHANGED <<turn, cur, kill>> /\ claimed' = TRUE /\ ~ Busy
  BY DEF DrainClaims
<1>2. NoLive
  BY <1>1, NotBusyNoLive
<1>3. TurnsTyped'
  BY <1>1 DEF TurnsInv, TurnsTyped
<1>4. NoLive' /\ OneTurn' /\ OkEnded' /\ ClaimAlone'
  BY <1>1, <1>2 DEF NoLive, Live, OneTurn, OkEnded, ClaimAlone
<1>5. OwnedByExec' /\ AliveOwned' /\ SpawnsAlone' /\ OneShotFree'
  BY <1>1, <1>2 DEF TurnsInv, OwnedByExec, AliveOwned, SpawnsAlone, OneShotFree, OneShot
<1>6. ShownFree' /\ Stopped' /\ TearsDown'
  BY <1>1, <1>2 DEF TurnsInv, ShownFree, Stopped, TearsDown
<1> QED
  BY <1>3, <1>4, <1>5, <1>6 DEF TurnsInv

LEMMA ProcessHasExited ==
    ASSUME TurnsInv, ProcessExits
    PROVE  TurnsInv'
<1>1. /\ UNCHANGED <<agent, sess, resumeId, token, tool, exec, built, owned>>
      /\ UNCHANGED <<turn, cur, claimed, kill>> /\ alive' \subseteq alive
  BY DEF ProcessExits
<1>2. TurnsTyped'
  BY <1>1 DEF TurnsInv, TurnsTyped
<1>3. NoLive' <=> NoLive
  BY <1>1 DEF NoLive, Live
<1>4. OneTurn' /\ OkEnded' /\ ClaimAlone'
  BY <1>1, <1>3 DEF TurnsInv, Live, OneTurn, OkEnded, ClaimAlone
<1>5. OwnedByExec' /\ AliveOwned' /\ SpawnsAlone' /\ OneShotFree'
  BY <1>1, <1>3 DEF TurnsInv, OwnedByExec, AliveOwned, SpawnsAlone, OneShotFree, OneShot
<1>6. ShownFree' /\ Stopped' /\ TearsDown'
  BY <1>1, <1>3 DEF TurnsInv, ShownFree, Stopped, TearsDown
<1> QED
  BY <1>2, <1>4, <1>5, <1>6 DEF TurnsInv

-----------------------------------------------------------------------------
(* The calls that tear down.                                                 *)
LEMMA CallHasKilled ==
    ASSUME TurnsInv, NEW kind \in {"pause", "interrupt", "cancel", "end"}, CallKills(kind)
    PROVE  TurnsInv'
<1>1. /\ kill.pc = "no" /\ kill' = [kind |-> kind, pc |-> "kill", ex |-> exec]
      /\ sess' = IF kind = "pause" THEN [sess EXCEPT !.status = "paused", !.busy = FALSE] ELSE sess
      /\ UNCHANGED <<agent, resumeId, token, tool, exec, built, owned, alive>>
      /\ UNCHANGED <<turn, cur, claimed>>
  BY DEF CallKills
<1>2. kill' \in KillType /\ kill'.pc = "kill" /\ kill'.ex = exec
  BY <1>1 DEF TurnsInv, TurnsTyped, KillType
<1>3. sess' \in SessType /\ (sess'.busy => sess.busy) /\ (sess'.status # "active" => ~ sess'.busy)
  <2>1. CASE kind = "pause"
    <3> DEFINE x == [sess EXCEPT !.status = "paused"]
    <3>1. sess' = [x EXCEPT !.busy = FALSE] /\ x \in SessType
      BY <1>1, <2>1 DEF TurnsInv, TurnsTyped, SessType
    <3> HIDE DEF x
    <3> QED
      BY <3>1 DEF SessType
  <2>2. CASE kind # "pause"
    BY <1>1, <2>2 DEF TurnsInv, TurnsTyped, Stopped
  <2> QED
    BY <2>1, <2>2
<1>4. TurnsTyped'
  BY <1>1, <1>2, <1>3 DEF TurnsInv, TurnsTyped
<1>5. NoLive' <=> NoLive
  BY <1>1 DEF NoLive, Live
<1>6. OneTurn' /\ OkEnded' /\ ClaimAlone'
  BY <1>1, <1>3, <1>5 DEF TurnsInv, Live, OneTurn, OkEnded, ClaimAlone
<1>7. OwnedByExec' /\ AliveOwned' /\ SpawnsAlone' /\ OneShotFree'
  BY <1>1, <1>5 DEF TurnsInv, OwnedByExec, AliveOwned, SpawnsAlone, OneShotFree, OneShot
<1>8. ShownFree' /\ Stopped' /\ TearsDown'
  BY <1>1, <1>2, <1>3, <1>5 DEF TurnsInv, ShownFree, Stopped, TearsDown
<1> QED
  BY <1>4, <1>6, <1>7, <1>8 DEF TurnsInv

LEMMA TeardownHasKilled ==
    ASSUME TurnsInv, TeardownKills
    PROVE  TurnsInv'
<1>1. /\ kill.pc = "kill" /\ kill.ex # 0 /\ owned[kill.ex] # 0 /\ kill' = [kill EXCEPT !.pc = "join"]
      /\ StopProcess(kill.ex)
      /\ UNCHANGED <<agent, sess, resumeId, token, tool, exec, built, turn, cur, claimed>>
  BY DEF TeardownKills
<1>2. kill' \in KillType /\ kill'.pc = "join" /\ kill'.ex = kill.ex /\ kill.ex \in Executors
  BY <1>1, AgentAssumption DEF TurnsInv, TurnsTyped, KillType, Executors
<1>3. kill.ex = exec
  BY <1>1, <1>2 DEF TurnsInv, OwnedByExec
<1>4. alive' = {} /\ owned' \in [Executors -> 0 .. MaxTurnTasks] /\ \A x \in Executors : owned'[x] = 0
  BY <1>1, <1>2, <1>3, ExecStopped
<1>5. \A t \in Turns : turn[t].pc # "spawn"
  <2> SUFFICES ASSUME NEW t \in Turns, turn[t].pc = "spawn" PROVE FALSE
    OBVIOUS
  <2>1. turn[t].ex = exec /\ owned[turn[t].ex] = 0
    BY LiveTurn DEF Live, TurnsInv, SpawnsAlone
  <2> QED
    BY <1>1, <1>3, <2>1
<1>6. TurnsTyped'
  BY <1>1, <1>2, <1>4 DEF TurnsInv, TurnsTyped
<1>7. NoLive' <=> NoLive
  BY <1>1 DEF NoLive, Live
<1>8. OneTurn' /\ OkEnded' /\ ClaimAlone'
  BY <1>1, <1>7 DEF TurnsInv, Live, OneTurn, OkEnded, ClaimAlone
<1>9. OwnedByExec' /\ AliveOwned' /\ OneShotFree'
  BY <1>4 DEF OwnedByExec, AliveOwned, OneShotFree
<1>10. SpawnsAlone'
  <2> SUFFICES ASSUME NEW t \in Turns, turn[t].pc \in {"spawn", "drop"} PROVE owned'[turn[t].ex] = 0
    BY <1>1 DEF SpawnsAlone
  <2>1. turn[t].ex \in Executors
    BY LiveTurn DEF Live
  <2> QED
    BY <1>4, <2>1
<1>11. ShownFree' /\ Stopped'
  BY <1>1, <1>2, <1>7 DEF TurnsInv, ShownFree, Stopped
<1>12. TearsDown'
  BY <1>1, <1>2, <1>3, <1>4, <1>5 DEF TearsDown
<1> QED
  BY <1>6, <1>8, <1>9, <1>10, <1>11, <1>12 DEF TurnsInv

LEMMA TeardownHasCancelled ==
    ASSUME TurnsInv, TeardownCancels
    PROVE  TurnsInv'
<1>1. /\ kill.pc = "join" \/ (kill.pc = "kill" /\ (kill.ex # 0 => owned[kill.ex] = 0))
      /\ kill' = [kill EXCEPT !.pc = "finish"]
      /\ exec' = IF kill.ex # 0 THEN 0 ELSE exec
      /\ turn' = IF cur # 0 /\ Live(cur) THEN [turn EXCEPT ![cur].pc = "done"] ELSE turn
      /\ cur' = 0
      /\ UNCHANGED <<agent, sess, resumeId, token, tool, built, owned, alive, claimed>>
  BY DEF TeardownCancels
<1>2. kill' \in KillType /\ kill'.pc = "finish"
  BY <1>1 DEF TurnsInv, TurnsTyped, KillType
<1>3. exec \in {0, kill.ex} /\ (kill.ex # 0 => owned[kill.ex] = 0)
  BY <1>1 DEF TurnsInv, TearsDown
<1>4. exec' = 0 /\ \A x \in Executors : owned[x] = 0
  BY <1>1, <1>3, ProcessesAre DEF Executors
<1>5. alive = {}
  <2> SUFFICES ASSUME NEW p \in alive PROVE FALSE
    OBVIOUS
  <2>1. exec # 0 /\ owned[exec] = p /\ p # 0
    BY AgentAssumption DEF TurnsInv, TurnsTyped, AliveOwned, Turns
  <2> QED
    BY <1>3, <2>1
<1>6. NoLive' /\ turn' \in [Turns -> TurnType]
  <2>1. CASE cur # 0 /\ Live(cur)
    <3>1. cur \in Turns /\ Goto(cur, "done")
      BY <1>1, <2>1, AgentAssumption DEF Goto, TurnsInv, TurnsTyped, Turns
    <3> QED
      BY <2>1, <3>1, LastTurnDone
  <2>2. CASE ~ (cur # 0 /\ Live(cur))
    <3>1. turn' = turn
      BY <1>1, <2>2
    <3>2. NoLive
      <4> SUFFICES ASSUME NEW t \in Turns, Live(t) PROVE FALSE
        BY DEF NoLive
      <4>1. t = cur /\ cur # 0
        BY LiveTurn, AgentAssumption DEF Turns
      <4> QED
        BY <2>2, <4>1
    <3> QED
      BY <3>1, <3>2 DEF NoLive, Live, TurnsInv, TurnsTyped
  <2> QED
    BY <2>1, <2>2
<1>7. TurnsTyped'
  <2>1. exec' \in 0 .. MaxExecutors /\ cur' \in 0 .. MaxTurnTasks
    BY <1>1, <1>4, AgentAssumption
  <2> QED
    BY <1>1, <1>2, <1>6, <2>1 DEF TurnsInv, TurnsTyped
<1>8. OwnedByExec' /\ AliveOwned'
  BY <1>1, <1>4, <1>5 DEF OwnedByExec, AliveOwned
<1>9. Stopped' /\ TearsDown'
  BY <1>1, <1>2, <1>4 DEF TurnsInv, Stopped, TearsDown
<1> QED
  BY <1>1, <1>2, <1>4, <1>6, <1>7, <1>8, <1>9, NoneLeft

LEMMA NoExecNoLive ==
    ASSUME TurnsInv, exec = 0
    PROVE  NoLive
BY NotBusyNoLive

LEMMA TeardownHasFinished ==
    ASSUME TurnsInv, PauseHolds, TeardownFinishes
    PROVE  TurnsInv'
<1>1. /\ kill.pc = "finish" /\ kill' = NoKill /\ token' = FALSE /\ tool' = FALSE
      /\ sess' = CASE kill.kind = "pause" -> sess
                   [] kill.kind = "interrupt" -> [sess EXCEPT !.busy = FALSE]
                   [] OTHER -> [sess EXCEPT !.status = "done", !.busy = FALSE]
      /\ UNCHANGED <<agent, resumeId, exec, built, owned, alive, turn, cur, claimed>>
  BY DEF TeardownFinishes
<1>2. kill' \in KillType /\ kill'.pc = "no"
  BY <1>1, AgentAssumption DEF NoKill, KillType
<1>3. exec = 0 /\ NoLive
  BY <1>1, NoExecNoLive DEF TurnsInv, TearsDown
<1>4. sess' \in SessType /\ ~ sess'.busy
  <2>1. CASE kill.kind = "pause"
    BY <1>1, <2>1 DEF PauseHolds, TurnsInv, TurnsTyped, Stopped
  <2>2. CASE kill.kind = "interrupt"
    BY <1>1, <2>2, FreedSession
  <2>3. CASE kill.kind \notin {"pause", "interrupt"}
    <3> DEFINE x == [sess EXCEPT !.status = "done"]
    <3>1. sess' = [x EXCEPT !.busy = FALSE] /\ x \in SessType
      BY <1>1, <2>3 DEF TurnsInv, TurnsTyped, SessType
    <3> HIDE DEF x
    <3> QED
      BY <3>1 DEF SessType
  <2> QED
    BY <2>1, <2>2, <2>3
<1>5. TurnsTyped'
  BY <1>1, <1>2, <1>4 DEF TurnsInv, TurnsTyped
<1>6. OneTurn' /\ OkEnded' /\ ClaimAlone'
  BY <1>1, <1>3 DEF NoLive, Live, OneTurn, OkEnded, ClaimAlone
<1>7. OwnedByExec' /\ AliveOwned' /\ SpawnsAlone' /\ OneShotFree'
  <2>1. NoLive' <=> NoLive
    BY <1>1 DEF NoLive, Live
  <2> QED
    BY <1>1, <2>1 DEF TurnsInv, OwnedByExec, AliveOwned, SpawnsAlone, OneShotFree, OneShot
<1>8. ShownFree' /\ Stopped' /\ TearsDown'
  BY <1>1, <1>2, <1>3, <1>4 DEF ShownFree, Stopped, TearsDown
<1> QED
  BY <1>5, <1>6, <1>7, <1>8 DEF TurnsInv

LEMMA HasResumed ==
    ASSUME TurnsInv, InOrder, Resume
    PROVE  TurnsInv'
<1>1. /\ sess.status = "paused" /\ kill.pc = "no"
      /\ sess' = [status |-> "active", busy |-> FALSE, cwp |-> FALSE]
      /\ UNCHANGED <<agent, resumeId, tool, owned, alive, turn, cur, claimed>>
  BY DEF Resume, InOrder
<1>2. exec = 0 /\ NoLive /\ ~ tool
  BY <1>1, NoExecNoLive DEF TurnsInv, Stopped, ShownFree
<1>3. \A x \in Executors : owned[x] = 0
  BY <1>2, AgentAssumption DEF TurnsInv, OwnedByExec, Executors
<1>4. alive = {}
  BY <1>2 DEF TurnsInv, AliveOwned
<1>5. sess' \in SessType /\ ~ sess'.busy /\ sess'.status = "active"
  BY <1>1 DEF SessType
<1>6. /\ kill' \in KillType /\ kill'.pc \in {"no", "kill"} /\ (kill'.pc = "kill" => exec' = 0)
      /\ exec' \in 0 .. MaxExecutors /\ built' \in 0 .. MaxExecutors
      /\ token' \in BOOLEAN
  <2>1. kill \in KillType /\ exec \in 0 .. MaxExecutors /\ built \in 0 .. MaxExecutors /\ token \in BOOLEAN
    BY DEF TurnsInv, TurnsTyped
  <2>2. CASE sess.cwp
    <3>1. kill' = [kind |-> "finalize", pc |-> "kill", ex |-> exec] /\ exec' = exec /\ built' = built
          /\ token' = token
      BY <2>2 DEF Resume
    <3>2. kill' \in KillType /\ kill'.pc = "kill"
      BY <2>1, <3>1 DEF KillType
    <3> QED
      BY <1>2, <2>1, <3>1, <3>2
  <2>3. CASE ~ sess.cwp /\ exec = 0 /\ resumeId /\ built < MaxExecutors
    <3>1. kill' = kill /\ exec' = built + 1 /\ built' = built + 1
      BY <2>3 DEF Resume
    <3>2. token' \in {token, TRUE}
      BY <2>3 DEF Resume
    <3>3. token' \in BOOLEAN
      BY <2>1, <3>2
    <3>4. built + 1 \in 0 .. MaxExecutors
      BY <2>1, <2>3, AgentAssumption
    <3> QED
      BY <1>1, <2>1, <3>1, <3>3, <3>4
  <2>4. CASE ~ sess.cwp /\ ~ (exec = 0 /\ resumeId /\ built < MaxExecutors)
    <3>1. kill' = kill /\ UNCHANGED <<exec, built, token>>
      BY <2>4 DEF Resume
    <3> QED
      BY <1>1, <2>1, <3>1
  <2> QED
    BY <2>2, <2>3, <2>4
<1>7. TurnsTyped'
  BY <1>1, <1>5, <1>6 DEF TurnsInv, TurnsTyped
<1>8. NoLive' /\ OneTurn' /\ OkEnded' /\ ClaimAlone'
  BY <1>1, <1>2 DEF NoLive, Live, OneTurn, OkEnded, ClaimAlone
<1>9. OwnedByExec' /\ AliveOwned' /\ OneShotFree'
  BY <1>1, <1>3, <1>4 DEF OwnedByExec, AliveOwned, OneShotFree
<1>10. SpawnsAlone'
  BY <1>1, <1>2 DEF SpawnsAlone, NoLive, Live
<1>11. ShownFree' /\ Stopped' /\ TearsDown'
  BY <1>1, <1>2, <1>5, <1>6 DEF ShownFree, Stopped, TearsDown
<1> QED
  BY <1>7, <1>8, <1>9, <1>10, <1>11 DEF TurnsInv

(* Only a resume makes a paused session active again.                         *)
LEMMA PauseIsHeld ==
    ASSUME TurnsInv, PauseHolds, InOrder, [AgentNext]_agentVars
    PROVE  PauseHolds'
<1>1. sess \in SessType
  BY DEF TurnsInv, TurnsTyped
<1>2. CASE kill' = kill /\ sess'.status = sess.status
  BY <1>2 DEF PauseHolds
<1>3. ASSUME NEW kind \in {"pause", "interrupt", "cancel", "end"}, CallKills(kind)
      PROVE  PauseHolds'
  BY <1>1, <1>3 DEF CallKills, PauseHolds, SessType
<1>4. CASE TeardownKills \/ TeardownCancels
  <2>1. kill'.kind = kill.kind /\ kill'.pc # "no" /\ sess' = sess
    BY <1>4 DEF TeardownKills, TeardownCancels, TurnsInv, TurnsTyped, KillType
  <2> QED
    BY <2>1 DEF PauseHolds
<1>5. CASE TeardownFinishes
  BY <1>5 DEF TeardownFinishes, PauseHolds, NoKill
<1>6. CASE Resume
  <2>1. kill.pc = "no"
    BY <1>6 DEF Resume, InOrder
  <2>2. kill.kind # "pause"
    BY <2>1 DEF PauseHolds
  <2>3. CASE sess.cwp
    BY <1>6, <2>3 DEF Resume, PauseHolds
  <2>4. CASE ~ sess.cwp
    BY <1>6, <2>2, <2>4 DEF Resume, PauseHolds
  <2> QED
    BY <2>3, <2>4
<1>7. CASE StartCodex \/ StartOpenCode \/ StartAcp \/ Prompt \/ DrainClaims \/ DrainForwards
  <2>1. kill' = kill
    BY <1>7 DEF StartCodex, StartOpenCode, StartAcp, StartAgent, Prompt, DrainClaims, DrainForwards
  <2>2. sess' = sess \/ sess' = [sess EXCEPT !.busy = TRUE]
    BY <1>7 DEF StartCodex, StartOpenCode, StartAcp, StartAgent, Prompt, DrainClaims, DrainForwards,
                ForwardOneShot, ForwardAcp
  <2>3. sess'.status = sess.status
    BY <1>1, <2>2 DEF SessType
  <2> QED
    BY <1>2, <2>1, <2>3
<1>8. ASSUME NEW t \in Turns, DropAgent(t)
      PROVE  PauseHolds'
  <2>1. kill' = kill /\ sess' = Complete
    BY <1>8 DEF DropAgent
  <2>2. sess.status # "active" => sess'.status # "active"
    BY <1>1, <2>1 DEF Complete, SessType
  <2> QED
    BY <2>1, <2>2 DEF PauseHolds
<1>9. ASSUME NEW t \in Turns,
             \/ BeginCodex(t) \/ BeginOpenCode(t) \/ CodexSpawns(t) \/ OpenCodeSpawns(t)
             \/ WritePrompt(t) \/ CodexThread(t) \/ CodexItem(t) \/ OpenCodeStep(t) \/ OpenCodeTool(t)
             \/ EndOfFile(t) \/ ExitAwaited(t) \/ SettleOneShot(t) \/ EnsureAcp(t) \/ AcpSpawns(t)
             \/ AcpHandshake(t) \/ AcpTool(t) \/ AcpTurnFails(t) \/ SettleAcp(t) \/ EndAgentSession(t)
      PROVE  PauseHolds'
  <2>1. kill' = kill /\ sess' = sess
    BY <1>9 DEF BeginCodex, BeginOpenCode, Begin, CodexSpawns, OpenCodeSpawns, WritePrompt, CodexThread,
                CodexItem, OpenCodeStep, OpenCodeTool, EndOfFile, ExitAwaited, SettleOneShot, EnsureAcp,
                AcpSpawns, AcpHandshake, AcpTool, AcpTurnFails, SettleAcp, EndAgentSession
  <2> QED
    BY <1>2, <2>1
<1>10. ASSUME NEW t \in Turns, CodexEnds(t) \/ OpenCodeEnds(t) \/ AcpTurnEnd(t)
       PROVE  PauseHolds'
  <2>1. kill' = kill /\ (sess' = sess \/ sess' = [sess EXCEPT !.busy = FALSE])
    BY <1>10 DEF CodexEnds, OpenCodeEnds, AcpTurnEnd
  <2> QED
    BY <1>2, <2>1, FreedSession
<1>11. CASE ProcessExits
  BY <1>2, <1>11 DEF ProcessExits
<1>12. CASE UNCHANGED agentVars
  BY <1>2, <1>12 DEF agentVars
<1> QED
  BY <1>3, <1>4, <1>5, <1>6, <1>7, <1>8, <1>9, <1>10, <1>11, <1>12 DEF AgentNext

LEMMA NextTurnsInv ==
    ASSUME TurnsInv, PauseHolds, InOrder, [AgentNext]_agentVars
    PROVE  TurnsInv'
<1>1. CASE StartCodex \/ StartOpenCode \/ StartAcp
  BY <1>1, AgentStarts
<1>2. CASE Prompt \/ DrainForwards
  BY <1>2, AgentPrompted
<1>3. CASE DrainClaims
  BY <1>3, DrainHasClaimed
<1>4. ASSUME NEW t \in Turns, BeginCodex(t) \/ BeginOpenCode(t) \/ EnsureAcp(t)
      PROVE  TurnsInv'
  BY <1>4, TurnBegins
<1>5. ASSUME NEW t \in Turns, CodexSpawns(t) \/ OpenCodeSpawns(t) \/ AcpSpawns(t)
      PROVE  TurnsInv'
  BY <1>5, TurnSpawns
<1>6. ASSUME NEW t \in Turns, WritePrompt(t) \/ ExitAwaited(t) \/ AcpHandshake(t)
      PROVE  TurnsInv'
  BY <1>6, TurnHandshakes
<1>7. ASSUME NEW t \in Turns,
             \/ CodexThread(t) \/ CodexItem(t) \/ OpenCodeStep(t) \/ OpenCodeTool(t) \/ AcpTool(t)
      PROVE  TurnsInv'
  BY <1>7, TurnReads
<1>8. ASSUME NEW t \in Turns,
             \/ CodexEnds(t) \/ OpenCodeEnds(t) \/ AcpTurnEnd(t) \/ AcpTurnFails(t) \/ EndOfFile(t)
      PROVE  TurnsInv'
  BY <1>8, TurnEnds
<1>9. ASSUME NEW t \in Turns, SettleOneShot(t) \/ SettleAcp(t)
      PROVE  TurnsInv'
  BY <1>9, TurnSettles
<1>10. ASSUME NEW t \in Turns, EndAgentSession(t)
       PROVE  TurnsInv'
  BY <1>10, TurnStopsSession
<1>11. ASSUME NEW t \in Turns, DropAgent(t)
       PROVE  TurnsInv'
  BY <1>11, TurnDropsAgent
<1>12. CASE ProcessExits
  BY <1>12, ProcessHasExited
<1>13. ASSUME NEW kind \in {"pause", "interrupt", "cancel", "end"}, CallKills(kind)
       PROVE  TurnsInv'
  BY <1>13, CallHasKilled
<1>14. CASE TeardownKills \/ TeardownCancels
  BY <1>14, TeardownHasKilled, TeardownHasCancelled
<1>15. CASE TeardownFinishes
  BY <1>15, TeardownHasFinished
<1>16. CASE Resume
  BY <1>16, HasResumed
<1>17. CASE UNCHANGED agentVars
  <2>1. UNCHANGED <<agent, sess, resumeId, token, tool, exec, built>>
    BY <1>17 DEF agentVars
  <2>2. UNCHANGED <<owned, alive, turn, cur, claimed, kill>>
    BY <1>17 DEF agentVars
  <2>3. TurnsTyped'
    BY <2>1, <2>2 DEF TurnsInv, TurnsTyped
  <2>4. NoLive' <=> NoLive
    BY <2>2 DEF NoLive, Live
  <2>5. OneTurn' /\ OkEnded' /\ ClaimAlone'
    BY <2>1, <2>2, <2>4 DEF TurnsInv, Live, OneTurn, OkEnded, ClaimAlone
  <2>6. OwnedByExec' /\ AliveOwned' /\ SpawnsAlone' /\ OneShotFree'
    BY <2>1, <2>2, <2>4 DEF TurnsInv, OwnedByExec, AliveOwned, SpawnsAlone, OneShotFree, OneShot
  <2>7. ShownFree' /\ Stopped' /\ TearsDown'
    BY <2>1, <2>2, <2>4 DEF TurnsInv, ShownFree, Stopped, TearsDown
  <2> QED
    BY <2>3, <2>5, <2>6, <2>7 DEF TurnsInv
<1> QED
  BY <1>1, <1>2, <1>3, <1>4, <1>5, <1>6, <1>7, <1>8, <1>9, <1>10, <1>11, <1>12, <1>13, <1>14, <1>15,
     <1>16, <1>17 DEF AgentNext

LEMMA SettlesFreeFollows ==
    ASSUME TurnsInv
    PROVE  SettlesFree
<1> SUFFICES ASSUME Quiet
             PROVE  /\ ~ sess.busy /\ (tool => exec # 0)
                    /\ alive # {} => agent = "acp" /\ exec # 0 /\ alive = {owned[exec]}
                    /\ sess.status # "active" => ~ token /\ exec = 0
  BY DEF SettlesFree
<1>1. NoLive /\ kill.pc = "no"
  BY DEF Quiet, LiveTurns, NoLive
<1>2. ~ sess.busy /\ (tool => exec # 0)
  BY <1>1 DEF TurnsInv, ShownFree
<1>3. sess.status # "active" => ~ token /\ exec = 0
  BY <1>1 DEF TurnsInv, Stopped
<1>4. ASSUME alive # {}
      PROVE  agent = "acp" /\ exec # 0 /\ alive = {owned[exec]}
  <2>1. PICK p : p \in alive
    BY <1>4
  <2>2. exec # 0 /\ owned[exec] = p /\ p # 0 /\ exec \in Executors /\ \A r \in alive : r = p
    BY <2>1, AgentAssumption DEF TurnsInv, TurnsTyped, AliveOwned, Turns, Executors
  <2>3. ~ OneShot
    BY <1>1, <2>2 DEF TurnsInv, OneShotFree
  <2> QED
    BY <2>1, <2>2, <2>3 DEF OneShot
<1> QED
  BY <1>2, <1>3, <1>4

(* When no turn and no lifecycle call is in progress the session shows it: *)
(* it is not busy, names a tool only if it has an agent, has no process    *)
(* but that of an ACP agent waiting for its prompt, and a session that is  *)
(* not active has neither an executor nor a token (relay_codex_stream,     *)
(* relay_opencode_stream, the ACP turn, _end_agent_session,                *)
(* SessionLifecycle).                                                      *)
THEOREM SettledIsFree ==
    ASSUME InOrder
    PROVE  AgentSpec => []SettlesFree
<1>1. AgentInit => TurnsInv /\ PauseHolds
  <2>1. AgentInit => PauseHolds
    BY DEF AgentInit, PauseHolds, NoKill
  <2> QED
    BY <2>1, InitTurnsInv
<1>2. TurnsInv /\ PauseHolds /\ [AgentNext]_agentVars => (TurnsInv /\ PauseHolds)'
  BY NextTurnsInv, PauseIsHeld
<1>3. TurnsInv => SettlesFree
  BY SettlesFreeFollows
<1> QED
  BY <1>1, <1>2, <1>3, PTL DEF AgentSpec
=============================================================================
