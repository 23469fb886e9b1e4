---------------------------- MODULE DesktopProofs -----------------------------
(***************************************************************************)
(* Proofs about what runs beside the worker or shares its machine: the     *)
(* dashboards that start and stop it (Supervision), the router             *)
(* (PortMapping), the installer (Updates), the settings file (SettingsFile)*)
(* and the records of its use (Telemetry), each for every value of its     *)
(* constants; and about all the parts that share no state, put together    *)
(* (MCServices).                                                           *)
(***************************************************************************)
EXTENDS MCServices, ServicesProofs

-----------------------------------------------------------------------------
(***************************************************************************)
(* Supervision, for any number of processes and of dashboards, on both     *)
(* systems.                                                                *)
(*                                                                         *)
(* A worker is handed over between the child the dashboard spawned, a      *)
(* thread that stops it and the watchdog of a dashboard that went away.    *)
(* The invariant adds to the claim what keeps a handle from being          *)
(* overwritten: a spawn begins only when what is held has ended or is      *)
(* being stopped, and a dashboard that comes up has a number that no       *)
(* process has.                                                            *)
(***************************************************************************)

WorkerType == [Pids -> {"none", "starting", "serving", "ending", "dead", "stranger"}]
UiType == [owned : {None} \cup Pids, adopted : {None} \cup Pids, external : BOOLEAN,
           probes : BOOLEAN, shown : {"Start", "Stop"}, started : BOOLEAN,
           tk : {"launch", "idle", "migrating", "spawned"}]
StopperType == [what : {"child", "pid", "childwait", "pidwait", "stopunit", "unitstopped",
                        "startunit", "unitstarted"}, pid : {None} \cup Pids]

(* A worker process that has not ended, and is no other program's.          *)
AtWork(w, p) == w[p] \notin {"none", "dead", "stranger"}

(* The dashboards are numbered as they are launched.                        *)
LaunchesCounted ==
    /\ gui # None => gui = guis
    /\ \A p \in Pids : origin[p] <= guis
(* The threads that ask the service manager have no process.                *)
UnitThreads ==
    \A t \in stoppers : t.what \in {"stopunit", "unitstopped", "startunit", "unitstarted"} <=> t.pid = None
(* A dashboard that comes up has spawned nothing, and one that is about to  *)
(* spawn holds nothing that runs.                                           *)
RoomToSpawn ==
    /\ ui.tk = "launch" => ui.owned = None /\ (gui # None => \A p \in Pids : origin[p] # gui)
    /\ ui.tk = "migrating" => ui.owned = None \/ ~Exists(ui.owned)
    /\ ui.owned # None => worker[ui.owned] # "none"

SuperviseInv == SupervisionTypeOK /\ LaunchesCounted /\ UnitThreads /\ RoomToSpawn /\ NoLostWorker
-----------------------------------------------------------------------------
(* What the dashboard knows.                                                *)
LEMMA LookedTyped ==
    ASSUME NEW u \in UiType
    PROVE  Looked(u) \in UiType /\ Looked(u).owned = u.owned /\ Looked(u).tk = u.tk
<1> DEFINE a == [u EXCEPT !.adopted = None]
           b == [a EXCEPT !.started = FALSE]
<1>1. Looked(u) = b \/ Looked(u) = u
  BY DEF Looked
<1>2. a \in UiType /\ a.owned = u.owned /\ a.tk = u.tk
  BY DEF UiType
<1> HIDE DEF a
<1>3. b \in UiType /\ b.owned = u.owned /\ b.tk = u.tk
  BY <1>2 DEF UiType
<1> QED
  BY <1>1, <1>3

LEMMA AdoptingTyped ==
    ASSUME NEW u \in UiType, PortOpen
    PROVE  Adopting(u) \in UiType /\ Adopting(u).owned = u.owned /\ Adopting(u).tk = u.tk
<1> DEFINE who == IF Foreign(Listener) THEN None ELSE Listener
           a == [u EXCEPT !.adopted = who]
           b == [a EXCEPT !.external = TRUE]
           c == [b EXCEPT !.probes = TRUE]
           d == [c EXCEPT !.started = TRUE]
<1>1. Adopting(u) = d
  BY DEF Adopting
<1>2. who \in {None} \cup Pids
  BY DEF PortOpen, Listener
<1> HIDE DEF who
<1>3. a \in UiType /\ a.owned = u.owned /\ a.tk = u.tk
  BY <1>2 DEF UiType
<1> HIDE DEF a
<1>4. b \in UiType /\ b.owned = u.owned /\ b.tk = u.tk
  BY <1>3 DEF UiType
<1> HIDE DEF b
<1>5. c \in UiType /\ c.owned = u.owned /\ c.tk = u.tk
  BY <1>4 DEF UiType
<1> HIDE DEF c
<1>6. d \in UiType /\ d.owned = u.owned /\ d.tk = u.tk
  BY <1>5 DEF UiType
<1> QED
  BY <1>1, <1>6

LEMMA ShownTyped ==
    ASSUME NEW u \in UiType
    PROVE  Shown(u) \in UiType /\ Shown(u).owned = u.owned /\ Shown(u).tk = "idle"
<1> DEFINE a == [u EXCEPT !.shown = "Stop"]
           b == [a EXCEPT !.tk = "idle"]
<1>1. Shown(u) = b
  BY DEF Shown
<1>2. a \in UiType /\ a.owned = u.owned
  BY DEF UiType
<1> HIDE DEF a
<1>3. b \in UiType /\ b.owned = u.owned /\ b.tk = "idle"
  BY <1>2 DEF UiType
<1> QED
  BY <1>1, <1>3

LEMMA ClearedTyped ==
    ASSUME NEW u \in UiType
    PROVE  /\ Cleared(u) \in UiType /\ Cleared(u).tk = u.tk
           /\ Cleared(u).owned = IF u.owned # None /\ ~Exists(u.owned) THEN None ELSE u.owned
<1> DEFINE own == IF u.owned # None /\ ~Exists(u.owned) THEN None ELSE u.owned
           adopt == IF u.adopted # None /\ ~PidAlive(u.adopted) THEN None ELSE u.adopted
           ext == IF platform = "macos" THEN FALSE ELSE u.external
           a == [u EXCEPT !.owned = own]
           b == [a EXCEPT !.adopted = adopt]
           c == [b EXCEPT !.started = FALSE]
           d == [c EXCEPT !.shown = "Start"]
           e == [d EXCEPT !.external = ext]
<1>1. Cleared(u) = e
  BY DEF Cleared, UiType
<1>2. own \in {None} \cup Pids /\ adopt \in {None} \cup Pids /\ ext \in BOOLEAN
  BY DEF UiType
<1> HIDE DEF own, adopt, ext
<1>3. a \in UiType /\ a.owned = own /\ a.tk = u.tk
  BY <1>2 DEF UiType
<1> HIDE DEF a
<1>4. b \in UiType /\ b.owned = own /\ b.tk = u.tk
  BY <1>2, <1>3 DEF UiType
<1> HIDE DEF b
<1>5. c \in UiType /\ c.owned = own /\ c.tk = u.tk
  BY <1>4 DEF UiType
<1> HIDE DEF c
<1>6. d \in UiType /\ d.owned = own /\ d.tk = u.tk
  BY <1>5 DEF UiType
<1> HIDE DEF d
<1>7. e \in UiType /\ e.owned = own /\ e.tk = u.tk
  BY <1>2, <1>6 DEF UiType
<1> QED
  BY <1>1, <1>7 DEF own

LEMMA FreshUiTyped == FreshUi \in UiType /\ FreshUi.owned = None /\ FreshUi.tk = "launch"
  BY DEF FreshUi, UiType

(* Telling processes to end starts none.                                    *)
EndsOnly(w) ==
    /\ w \in WorkerType
    /\ \A p \in Pids : /\ AtWork(w, p) => AtWork(worker, p)
                       /\ w[p] \notin {"none", "dead"} => worker[p] \notin {"none", "dead"}
                       /\ w[p] = "none" => worker[p] = "none"

LEMMA TerminatedTyped ==
    ASSUME worker \in WorkerType, NEW p \in Pids PROVE EndsOnly(WorkerTerminated(worker, p))
  BY DEF WorkerTerminated, EndsOnly, WorkerType, AtWork

LEMMA EndedTyped == ASSUME worker \in WorkerType, NEW S PROVE EndsOnly(Ended(worker, S))
<1>1. \A p \in Pids : EndsOnly(WorkerTerminated(worker, p))
  BY TerminatedTyped
<1>2. \A p \in Pids : Ended(worker, S)[p] = (IF p \in S THEN WorkerTerminated(worker, p)[p] ELSE worker[p])
  BY DEF Ended
<1>3. Ended(worker, S) \in WorkerType
  BY <1>1, <1>2 DEF Ended, EndsOnly, WorkerType
<1> QED
  BY <1>1, <1>2, <1>3 DEF EndsOnly, AtWork

LEMMA DeadTyped ==
    ASSUME worker \in WorkerType, NEW p \in Pids
    PROVE  EndsOnly([worker EXCEPT ![p] = "dead"])
  BY DEF EndsOnly, WorkerType, AtWork

LEMMA InitSuperviseInv == SupervisionInit => SuperviseInv
<1> SUFFICES ASSUME SupervisionInit PROVE SuperviseInv
  OBVIOUS
<1>1. ui \in UiType /\ ui.owned = None /\ ui.tk = "launch"
  BY FreshUiTyped DEF SupervisionInit
<1>2. origin \in [Pids -> TheLauncher .. MaxGuis] /\ \A p \in Pids : origin[p] = 0
  BY SupervisionAssumption DEF SupervisionInit, None, TheLauncher
<1>3. SupervisionTypeOK
  <2>1. worker \in WorkerType /\ gui \in {None} \cup (1 .. MaxGuis)
    BY DEF SupervisionInit, WorkerType
  <2>2. guis \in 0 .. MaxGuis
    BY SupervisionAssumption DEF SupervisionInit
  <2>3. managed \in BOOLEAN
    BY DEF SupervisionInit
  <2> QED
    BY <1>1, <1>2, <2>1, <2>2, <2>3 DEF SupervisionInit, SupervisionTypeOK, UiType, WorkerType
<1> QED
  BY <1>1, <1>2, <1>3
     DEF SupervisionInit, SuperviseInv, LaunchesCounted, UnitThreads, RoomToSpawn, NoLostWorker, Exists, None

(* A step of a dashboard that stays: a process it had spawned, and that     *)
(* goes on, is held or stopped after it as before.                          *)
LEMMA SameGui ==
    ASSUME SuperviseInv, UNCHANGED <<platform, managed, gui, guis>>,
           worker' \in WorkerType, origin' \in [Pids -> TheLauncher .. MaxGuis], ui' \in UiType,
           stoppers' \subseteq StopperType, pidfile' \in {None} \cup Pids, unit' \in BOOLEAN,
           UnitThreads', RoomToSpawn',
           \A p \in Pids : origin'[p] = origin[p] \/ origin'[p] \in {TheUnit, TheLauncher},
           \A p \in Pids : AtWork(worker', p) =>
               \/ AtWork(worker, p)
               \/ origin'[p] \in {TheUnit, TheLauncher},
           \A p \in Pids : AtWork(worker', p) /\ origin'[p] = gui /\ gui # None /\ ui.owned = p =>
               ui'.owned = p \/ \E t \in stoppers' : t.pid = p,
           \A p \in Pids : AtWork(worker', p) /\ origin'[p] = gui /\ gui # None =>
               ((\E t \in stoppers : t.pid = p) => \E t \in stoppers' : t.pid = p)
    PROVE  SuperviseInv'
<1>1. SupervisionTypeOK'
  BY DEF SuperviseInv, SupervisionTypeOK, WorkerType, UiType, StopperType
<1>2. guis \in Nat /\ gui \in Nat
  BY SupervisionAssumption DEF SuperviseInv, SupervisionTypeOK, None
<1>3. LaunchesCounted'
  BY <1>2 DEF SuperviseInv, LaunchesCounted, TheUnit, TheLauncher
<1>4. NoLostWorker'
  <2> SUFFICES ASSUME NEW p \in Pids, AtWork(worker', p), gui # None, origin'[p] = gui
               PROVE  ui'.owned = p \/ \E t \in stoppers' : t.pid = p
    BY DEF NoLostWorker, Exists, AtWork
  <2>1. origin'[p] \notin {TheUnit, TheLauncher}
    BY <1>2 DEF TheUnit, TheLauncher
  <2>2. AtWork(worker, p) /\ origin[p] = gui
    BY <2>1
  <2>3. ui.owned = p \/ \E t \in stoppers : t.pid = p
    BY <2>2 DEF SuperviseInv, NoLostWorker, Exists, AtWork
  <2> QED
    BY <2>3
<1> QED
  BY <1>1, <1>3, <1>4 DEF SuperviseInv

(* Processes end, threads go on.                                            *)
LEMMA ProcessesEnd ==
    ASSUME SuperviseInv, EndsOnly(worker'), UNCHANGED <<platform, managed, origin, gui, guis, ui, pidfile>>,
           unit' \in BOOLEAN, stoppers' \subseteq StopperType, UnitThreads',
           \A t \in stoppers : t.pid # None => \E s \in stoppers' : s.pid = t.pid
    PROVE  SuperviseInv'
<1>1. ui \in UiType /\ ui.owned \in {None} \cup Pids /\ origin \in [Pids -> TheLauncher .. MaxGuis]
      /\ pidfile \in {None} \cup Pids
  BY DEF SuperviseInv, SupervisionTypeOK, UiType
<1>2. RoomToSpawn'
  BY <1>1 DEF SuperviseInv, RoomToSpawn, EndsOnly, Exists
<1>3. \A p \in Pids : p # None
  BY DEF Pids, None
<1> QED
  BY <1>1, <1>2, <1>3, SameGui DEF EndsOnly

(* The dashboard changes what it shows; it goes on to a spawn only when     *)
(* what it holds has ended.                                                 *)
LEMMA DashboardStep ==
    ASSUME SuperviseInv, UNCHANGED <<platform, managed, worker, origin, gui, guis>>,
           ui' \in UiType, stoppers' \subseteq StopperType, pidfile' \in {None} \cup Pids, unit' \in BOOLEAN,
           UnitThreads', ui'.tk \in {"idle", "migrating"}, ui'.owned = ui.owned,
           ui'.tk = "migrating" => ui.owned = None \/ ~Exists(ui.owned),
           \A t \in stoppers : t.pid # None => \E s \in stoppers' : s.pid = t.pid
    PROVE  SuperviseInv'
<1>1. worker \in WorkerType /\ origin \in [Pids -> TheLauncher .. MaxGuis]
  BY DEF SuperviseInv, SupervisionTypeOK, WorkerType
<1>2. RoomToSpawn'
  BY DEF SuperviseInv, RoomToSpawn, Exists
<1>3. \A p \in Pids : p # None
  BY DEF Pids, None
<1> QED
  BY <1>1, <1>2, <1>3, SameGui

(* A start from the dashboard, when what it held has ended.                 *)
LEMMA StartTyped ==
    ASSUME SuperviseInv, NEW STATE u, u \in UiType, StartServer(u)
    PROVE  /\ ui' \in UiType /\ ui'.owned = u.owned /\ ui'.tk \in {"idle", "migrating"}
           /\ stoppers \subseteq stoppers' /\ stoppers' \subseteq StopperType /\ UnitThreads'
           /\ unit' \in BOOLEAN
<1>1. stoppers \subseteq StopperType /\ UnitThreads /\ unit \in BOOLEAN
  BY DEF SuperviseInv, SupervisionTypeOK, StopperType
<1>2. CASE StartChild(u)
  <2>1. ui' \in UiType /\ ui'.owned = u.owned /\ ui'.tk \in {"idle", "migrating"}
    BY <1>2 DEF StartChild, UiType
  <2> QED
    BY <1>1, <1>2, <2>1 DEF StartChild, UnitThreads
<1>3. CASE StartLinux(u) /\ ~StartChild(u)
  <2>1. CASE /\ u.external \/ PortOpen
             /\ ui' = Shown(IF u.external THEN u ELSE Adopting(u))
             /\ UNCHANGED <<stoppers, unit>>
    <3>1. CASE u.external
      BY <1>1, <2>1, <3>1, ShownTyped DEF UnitThreads
    <3>2. CASE ~u.external
      <4>1. Adopting(u) \in UiType /\ Adopting(u).owned = u.owned
        BY <2>1, <3>2, AdoptingTyped
      <4>2. ui' = Shown(Adopting(u))
        BY <2>1, <3>2
      <4>3. ui' \in UiType /\ ui'.owned = u.owned /\ ui'.tk = "idle"
        BY <4>1, <4>2, ShownTyped
      <4> QED
        BY <1>1, <2>1, <4>3 DEF UnitThreads
    <3> QED
      BY <3>1, <3>2
  <2>2. CASE /\ stoppers' = stoppers \cup {DeskThread("startunit", None)}
             /\ ui' = [u EXCEPT !.tk = "idle"] /\ UNCHANGED unit
    <3>1. ui' \in UiType /\ ui'.owned = u.owned /\ ui'.tk = "idle"
      BY <2>2 DEF UiType
    <3>2. DeskThread("startunit", None) \in StopperType /\ DeskThread("startunit", None).pid = None
          /\ DeskThread("startunit", None).what = "startunit"
      BY DEF DeskThread, StopperType
    <3> QED
      BY <1>1, <2>2, <3>1, <3>2 DEF UnitThreads
  <2> QED
    BY <1>3, <2>1, <2>2 DEF StartLinux
<1>4. CASE StartMacos(u) /\ ~StartChild(u)
  <2>1. ui' = Shown([u EXCEPT !.external = TRUE]) /\ UNCHANGED stoppers /\ unit' \in BOOLEAN
    BY <1>1, <1>4 DEF StartMacos
  <2>2. [u EXCEPT !.external = TRUE] \in UiType /\ [u EXCEPT !.external = TRUE].owned = u.owned
    BY DEF UiType
  <2>3. ui' \in UiType /\ ui'.owned = u.owned /\ ui'.tk = "idle"
    BY <2>1, <2>2, ShownTyped
  <2> QED
    BY <1>1, <2>1, <2>3 DEF UnitThreads
<1> QED
  BY <1>2, <1>3, <1>4 DEF StartServer, StartWindows

LEMMA HeldHasEnded ==
    ASSUME NEW u \in UiType, ~WorkerRuns(u) PROVE u.owned = None \/ ~Exists(u.owned)
  BY DEF WorkerRuns, ManagerRuns

LEMMA ChildSteps == ASSUME SuperviseInv, SpawnFails \/ WritePidfile PROVE SuperviseInv'
<1>1. ui \in UiType /\ stoppers \subseteq StopperType /\ pidfile \in {None} \cup Pids /\ unit \in BOOLEAN
      /\ UnitThreads
  BY DEF SuperviseInv, SupervisionTypeOK, UiType, StopperType
<1>2. CASE SpawnFails
  <2>1. ui' \in UiType /\ ui'.owned = ui.owned /\ ui'.tk = "idle"
    BY <1>1, <1>2 DEF SpawnFails, UiType
  <2> QED
    BY <1>1, <1>2, <2>1, DashboardStep DEF SpawnFails, UnitThreads
<1>3. CASE WritePidfile
  <2>1. ui' \in UiType /\ ui'.owned = ui.owned /\ ui'.tk = "idle" /\ pidfile' \in {None} \cup Pids
    BY <1>1, <1>3, ShownTyped DEF WritePidfile, UiType
  <2> QED
    BY <1>1, <1>3, <2>1, DashboardStep DEF WritePidfile, UnitThreads
<1> QED
  BY <1>2, <1>3

(* What the dashboard held has ended, or a thread of its is stopping it.    *)
LEMMA SpawnStep == ASSUME SuperviseInv, SpawnChild PROVE SuperviseInv'
<1>1. PICK p \in FreshPid :
         /\ worker' = [worker EXCEPT ![p] = "starting"] /\ origin' = [origin EXCEPT ![p] = gui]
         /\ ui' = [ui EXCEPT !.owned = p, !.adopted = None, !.started = TRUE, !.tk = "spawned"]
  BY DEF SpawnChild, Spawn
<1>2. /\ gui # None /\ ui.tk = "migrating" /\ UNCHANGED <<platform, managed, gui, guis, stoppers, pidfile, unit>>
      /\ p \in Pids /\ ui \in UiType /\ worker \in WorkerType
      /\ origin \in [Pids -> TheLauncher .. MaxGuis] /\ gui \in TheLauncher .. MaxGuis
  BY SupervisionAssumption
     DEF SpawnChild, SuperviseInv, SupervisionTypeOK, UiType, WorkerType, FreshPid, None, TheLauncher
<1>3. ui' \in UiType /\ ui'.owned = p /\ ui'.tk = "spawned"
  <2> DEFINE a == [ui EXCEPT !.owned = p]
             b == [a EXCEPT !.adopted = None]
             c == [b EXCEPT !.started = TRUE]
             d == [c EXCEPT !.tk = "spawned"]
  <2>1. ui' = d
    BY <1>1
  <2>2. a \in UiType /\ a.owned = p
    BY <1>2 DEF UiType
  <2> HIDE DEF a
  <2>3. b \in UiType /\ b.owned = p
    BY <2>2 DEF UiType
  <2> HIDE DEF b
  <2>4. c \in UiType /\ c.owned = p
    BY <2>3 DEF UiType
  <2> HIDE DEF c
  <2>5. d \in UiType /\ d.owned = p /\ d.tk = "spawned"
    BY <2>4 DEF UiType
  <2> QED
    BY <2>1, <2>5
<1>4. worker' \in WorkerType /\ origin' \in [Pids -> TheLauncher .. MaxGuis]
      /\ worker'[p] = "starting" /\ origin'[p] = gui
      /\ \A q \in Pids : q # p => worker'[q] = worker[q] /\ origin'[q] = origin[q]
  BY <1>1, <1>2 DEF WorkerType
<1>5. SupervisionTypeOK'
  BY <1>2, <1>3, <1>4 DEF SuperviseInv, SupervisionTypeOK, WorkerType, UiType
<1>6. LaunchesCounted'
  <2>1. gui <= guis /\ guis \in Nat
    BY <1>2, SupervisionAssumption DEF SuperviseInv, SupervisionTypeOK, LaunchesCounted
  <2> QED
    BY <1>2, <1>4, <2>1 DEF SuperviseInv, LaunchesCounted
<1>7. UnitThreads' /\ RoomToSpawn'
  BY <1>2, <1>3, <1>4 DEF SuperviseInv, UnitThreads, RoomToSpawn
<1>8. NoLostWorker'
  <2> SUFFICES ASSUME NEW q \in Pids, AtWork(worker', q), origin'[q] = gui
               PROVE  ui'.owned = q \/ \E t \in stoppers : t.pid = q
    BY <1>2 DEF NoLostWorker, Exists, AtWork
  <2>1. CASE q # p
    <3>1. AtWork(worker, q) /\ origin[q] = gui
      BY <1>4, <2>1 DEF AtWork
    <3>2. ui.owned # q
      BY <1>2, <3>1 DEF SuperviseInv, RoomToSpawn, AtWork, Exists, Pids, None
    <3> QED
      BY <1>2, <3>1, <3>2 DEF SuperviseInv, NoLostWorker, AtWork, Exists
  <2> QED
    BY <1>3, <2>1
<1> QED
  BY <1>5, <1>6, <1>7, <1>8 DEF SuperviseInv

(* A spawn by the launcher or the service manager is none of the            *)
(* dashboard's.                                                             *)
LEMMA OtherSpawns == ASSUME SuperviseInv, LauncherSpawns \/ UnitSpawns PROVE SuperviseInv'
<1>1. PICK p \in FreshPid, who \in {TheUnit, TheLauncher} :
         worker' = [worker EXCEPT ![p] = "starting"] /\ origin' = [origin EXCEPT ![p] = who]
  BY DEF LauncherSpawns, UnitSpawns, Spawn
<1>2. UNCHANGED <<platform, managed, gui, guis, ui, stoppers, pidfile, unit>>
  BY DEF LauncherSpawns, UnitSpawns
<1>3. p \in Pids /\ worker[p] = "none" /\ worker \in WorkerType /\ ui \in UiType
      /\ origin \in [Pids -> TheLauncher .. MaxGuis] /\ who \in TheLauncher .. MaxGuis
  BY SupervisionAssumption
     DEF SuperviseInv, SupervisionTypeOK, UiType, WorkerType, FreshPid, TheUnit, TheLauncher
<1>4. worker' \in WorkerType /\ origin' \in [Pids -> TheLauncher .. MaxGuis]
      /\ worker'[p] = "starting" /\ origin'[p] = who
      /\ \A q \in Pids : q # p => worker'[q] = worker[q] /\ origin'[q] = origin[q]
  BY <1>1, <1>3 DEF WorkerType
<1>5. RoomToSpawn'
  <2>1. ui.owned \in {None} \cup Pids /\ (ui.owned # None => ui.owned # p)
    BY <1>3 DEF SuperviseInv, RoomToSpawn, UiType
  <2>2. gui # None => who # gui
    BY SupervisionAssumption DEF SuperviseInv, SupervisionTypeOK, None, TheUnit, TheLauncher
  <2> QED
    BY <1>2, <1>4, <2>1, <2>2 DEF SuperviseInv, RoomToSpawn, Exists
<1>6. UnitThreads' /\ stoppers' \subseteq StopperType /\ pidfile' \in {None} \cup Pids /\ unit' \in BOOLEAN
  BY <1>2 DEF SuperviseInv, SupervisionTypeOK, UnitThreads, StopperType
<1>7. \A q \in Pids : AtWork(worker', q) => AtWork(worker, q) \/ origin'[q] \in {TheUnit, TheLauncher}
  BY <1>4 DEF AtWork
<1> QED
  BY <1>2, <1>3, <1>4, <1>5, <1>6, <1>7, SameGui

(* A dashboard that goes leaves its workers to the watchdog.                *)
LEMMA GuiGoes ==
    ASSUME SuperviseInv, GuiGone, EndsOnly(worker'), UNCHANGED <<platform, managed, origin, guis>>,
           pidfile' \in {None} \cup Pids, unit' \in BOOLEAN
    PROVE  SuperviseInv'
<1>1. ui' \in UiType /\ ui'.owned = None /\ ui'.tk = "launch" /\ gui' = None /\ stoppers' = {}
  BY FreshUiTyped DEF GuiGone
<1>2. SupervisionTypeOK'
  BY <1>1 DEF SuperviseInv, SupervisionTypeOK, EndsOnly, WorkerType, UiType
<1> QED
  BY <1>1, <1>2 DEF SuperviseInv, LaunchesCounted, UnitThreads, RoomToSpawn, NoLostWorker

LEMMA EndingSteps == ASSUME SuperviseInv, GuiCrashes \/ QuitDashboard \/ QuitMacos PROVE SuperviseInv'
<1>1. worker \in WorkerType /\ ui \in UiType /\ pidfile \in {None} \cup Pids /\ unit \in BOOLEAN
      /\ ui.owned \in {None} \cup Pids /\ ui.adopted \in {None} \cup Pids
  BY DEF SuperviseInv, SupervisionTypeOK, WorkerType, UiType
<1>2. EndsOnly(worker)
  BY <1>1 DEF EndsOnly, AtWork
<1>3. CASE GuiCrashes
  BY <1>1, <1>2, <1>3, GuiGoes DEF GuiCrashes
<1> DEFINE p == IF ui.owned # None THEN ui.owned ELSE ui.adopted
<1>4. CASE QuitDashboard
  <2>1. worker' \in IF p = None \/ Foreign(p) THEN {worker} ELSE {worker, WorkerTerminated(worker, p)}
    BY <1>4 DEF QuitDashboard
  <2>2. EndsOnly(worker')
    BY <1>1, <1>2, <2>1, TerminatedTyped
  <2> QED
    BY <1>1, <1>4, <2>2, GuiGoes DEF QuitDashboard
<1>5. CASE QuitMacos
  <2>1. \/ worker' = worker
        \/ worker' = Ended(worker, Units \cup {Listener})
        \/ p # None /\ worker' = [worker EXCEPT ![p] = "dead"]
    BY <1>5 DEF QuitMacos
  <2>2. EndsOnly(worker') /\ unit' \in BOOLEAN /\ pidfile' \in {None} \cup Pids
    BY <1>1, <1>2, <1>5, <2>1, DeadTyped, EndedTyped DEF QuitMacos
  <2> QED
    BY <1>5, <2>2, GuiGoes DEF QuitMacos
<1> QED
  BY <1>3, <1>4, <1>5

(* A new dashboard has a number that no process has.                        *)
LEMMA LaunchStep == ASSUME SuperviseInv, LaunchGui PROVE SuperviseInv'
<1>1. ui' \in UiType /\ ui'.owned = None /\ ui'.tk = "launch" /\ gui' = guis + 1 /\ guis' = guis + 1
      /\ guis < MaxGuis /\ UNCHANGED <<platform, managed, worker, origin, stoppers, pidfile, unit>>
  BY FreshUiTyped DEF LaunchGui
<1>2. guis \in Nat /\ \A p \in Pids : origin[p] \in Int /\ origin[p] <= guis
  BY SupervisionAssumption DEF SuperviseInv, SupervisionTypeOK, LaunchesCounted, TheLauncher
<1>3. SupervisionTypeOK'
  BY <1>1, <1>2, SupervisionAssumption DEF SuperviseInv, SupervisionTypeOK, UiType
<1>4. \A p \in Pids : origin[p] # gui'
  BY <1>1, <1>2
<1>5. LaunchesCounted'
  BY <1>1, <1>2 DEF LaunchesCounted
<1> QED
  BY <1>1, <1>3, <1>4, <1>5 DEF SuperviseInv, UnitThreads, RoomToSpawn, NoLostWorker

LEMMA ReconcileStep == ASSUME SuperviseInv, Reconcile PROVE SuperviseInv'
<1> DEFINE u == IF platform = "linux" /\ PortOpen THEN Adopting(ui) ELSE ui
<1>1. ui \in UiType /\ stoppers \subseteq StopperType /\ pidfile \in {None} \cup Pids /\ unit \in BOOLEAN
      /\ UnitThreads /\ ui.tk = "launch" /\ ui.owned = None
      /\ UNCHANGED <<platform, managed, worker, origin, gui, guis>>
  BY DEF Reconcile, SuperviseInv, SupervisionTypeOK, UiType, StopperType, RoomToSpawn
<1>2. u \in UiType /\ u.owned = None
  BY <1>1, AdoptingTyped
<1>3. \/ StartMacos(u) /\ UNCHANGED pidfile
      \/ AdoptOrphan(u) \/ StartAtLaunch(u)
  BY DEF Reconcile
<1> HIDE DEF u
<1>4. CASE AdoptOrphan(u)
  <2> DEFINE a == [u EXCEPT !.adopted = pidfile]
             b == [a EXCEPT !.started = TRUE]
  <2>1. ui' = Shown(b) /\ UNCHANGED <<stoppers, unit, pidfile>>
    BY <1>4 DEF AdoptOrphan
  <2>2. a \in UiType /\ a.owned = None
    BY <1>1, <1>2 DEF UiType
  <2> HIDE DEF a
  <2>3. b \in UiType /\ b.owned = None
    BY <2>2 DEF UiType
  <2> HIDE DEF b
  <2>4. ui' \in UiType /\ ui'.owned = None /\ ui'.tk = "idle"
    BY <2>1, <2>3, ShownTyped
  <2> QED
    BY <1>1, <2>1, <2>4, DashboardStep DEF UnitThreads
<1>5. CASE StartServer(u) /\ pidfile' \in {None, pidfile}
  <2>1. /\ ui' \in UiType /\ ui'.owned = u.owned /\ ui'.tk \in {"idle", "migrating"}
        /\ stoppers \subseteq stoppers' /\ stoppers' \subseteq StopperType /\ UnitThreads'
        /\ unit' \in BOOLEAN
    BY <1>2, <1>5, StartTyped
  <2>2. pidfile' \in {None} \cup Pids
    BY <1>1, <1>5
  <2> QED
    BY <1>1, <1>2, <2>1, <2>2, DashboardStep
<1> QED
  BY <1>3, <1>4, <1>5 DEF StartAtLaunch, StartServer

LEMMA StopperTyped ==
    ASSUME NEW what \in {"child", "pid", "childwait", "pidwait", "stopunit", "unitstopped", "startunit", "unitstarted"},
           NEW p \in {None} \cup Pids
    PROVE  DeskThread(what, p) \in StopperType /\ DeskThread(what, p).what = what /\ DeskThread(what, p).pid = p
  BY DEF DeskThread, StopperType

LEMMA StopChildStep ==
    ASSUME SuperviseInv, NEW STATE u, u \in UiType, StopChild(u)
    PROVE  /\ ui' = u /\ stoppers \subseteq stoppers' /\ stoppers' \subseteq StopperType /\ UnitThreads'
           /\ UNCHANGED <<worker, origin, unit>>
<1>1. stoppers \subseteq StopperType /\ UnitThreads
  BY DEF SuperviseInv, SupervisionTypeOK, StopperType
<1>2. /\ u.owned # None => DeskThread("child", u.owned) \in StopperType
                           /\ DeskThread("child", u.owned).what = "child"
                           /\ DeskThread("child", u.owned).pid = u.owned
      /\ u.adopted # None => DeskThread("pid", u.adopted) \in StopperType
                             /\ DeskThread("pid", u.adopted).what = "pid"
                             /\ DeskThread("pid", u.adopted).pid = u.adopted
  BY StopperTyped DEF UiType
<1>3. stoppers' = stoppers \cup
           (IF u.owned # None THEN {DeskThread("child", u.owned)}
            ELSE IF u.adopted # None THEN {DeskThread("pid", u.adopted)} ELSE {})
  BY DEF StopChild
<1>4. ui' = u /\ UNCHANGED <<worker, origin, unit>>
  BY DEF StopChild
<1> QED
  BY <1>1, <1>2, <1>3, <1>4 DEF UnitThreads

LEMMA ToggleStep == ASSUME SuperviseInv, Toggle PROVE SuperviseInv'
<1> DEFINE u == Looked(ui)
<1>1. ui \in UiType /\ stoppers \subseteq StopperType /\ pidfile \in {None} \cup Pids /\ unit \in BOOLEAN
      /\ UnitThreads /\ worker \in WorkerType /\ origin \in [Pids -> TheLauncher .. MaxGuis]
      /\ gui # None /\ ui.tk = "idle" /\ UNCHANGED <<platform, managed, gui, guis, pidfile>>
  BY DEF Toggle, SuperviseInv, SupervisionTypeOK, UiType, StopperType, WorkerType
<1>2. u \in UiType /\ u.owned = ui.owned /\ u.tk = "idle"
  BY <1>1, LookedTyped
<1>3. CASE ~WorkerRuns(ui)
  <2>1. StartServer(u) /\ UNCHANGED <<worker, origin>> /\ (ui.owned = None \/ ~Exists(ui.owned))
    BY <1>1, <1>3, HeldHasEnded DEF Toggle
  <2> HIDE DEF u
  <2>2. /\ ui' \in UiType /\ ui'.owned = u.owned /\ ui'.tk \in {"idle", "migrating"}
        /\ stoppers \subseteq stoppers' /\ stoppers' \subseteq StopperType /\ UnitThreads'
        /\ unit' \in BOOLEAN
    BY <1>2, <2>1, StartTyped
  <2> QED
    BY <1>1, <1>2, <2>1, <2>2, DashboardStep
<1>4. CASE WorkerRuns(ui)
  <2>1. StopServer(u)
    BY <1>4 DEF Toggle
  <2> HIDE DEF u
  <2>2. CASE StopChild(u)
    <3>1. /\ ui' = u /\ stoppers \subseteq stoppers' /\ stoppers' \subseteq StopperType /\ UnitThreads'
          /\ UNCHANGED <<worker, origin, unit>>
      BY <1>2, <2>2, StopChildStep
    <3> QED
      BY <1>1, <1>2, <3>1, DashboardStep
  <2>3. CASE StopLinux(u) /\ ~StopChild(u)
    <3>1. /\ stoppers' = stoppers \cup {DeskThread("stopunit", None)} /\ ui' = u
          /\ UNCHANGED <<worker, origin, unit>>
      BY <2>3 DEF StopLinux
    <3>2. stoppers' \subseteq StopperType /\ UnitThreads'
      BY <1>1, <3>1, StopperTyped DEF UnitThreads
    <3> QED
      BY <1>1, <1>2, <3>1, <3>2, DashboardStep
  <2>4. CASE StopMacos(u) /\ ~StopChild(u)
    <3> DEFINE halted == Ended(worker, Units \cup (IF PortOpen THEN {Listener} ELSE {}))
    <3>1. /\ unit' = FALSE /\ ui' = [u EXCEPT !.external = FALSE] /\ UNCHANGED stoppers
          /\ \/ worker' = halted /\ UNCHANGED origin
             \/ \E p \in FreshPid :
                    /\ worker' = [halted EXCEPT ![p] = "starting"]
                    /\ origin' = [origin EXCEPT ![p] = TheUnit]
      BY <2>4 DEF StopMacos
    <3>2. EndsOnly(halted)
      BY <1>1, EndedTyped
    <3> HIDE DEF halted
    <3>3. ui' \in UiType /\ ui'.owned = ui.owned /\ ui'.tk = "idle"
      BY <1>2, <3>1 DEF UiType
    <3>4. /\ worker' \in WorkerType /\ origin' \in [Pids -> TheLauncher .. MaxGuis]
          /\ \A q \in Pids : origin'[q] = origin[q] \/ origin'[q] \in {TheUnit, TheLauncher}
          /\ \A q \in Pids : AtWork(worker', q) => AtWork(worker, q) \/ origin'[q] \in {TheUnit, TheLauncher}
          /\ \A q \in Pids : worker'[q] = "none" => worker[q] = "none"
      <4>1. CASE worker' = halted /\ UNCHANGED origin
        BY <1>1, <3>2, <4>1 DEF EndsOnly
      <4>2. CASE \E p \in FreshPid :
                    /\ worker' = [halted EXCEPT ![p] = "starting"]
                    /\ origin' = [origin EXCEPT ![p] = TheUnit]
        <5>1. PICK p \in FreshPid :
                    /\ worker' = [halted EXCEPT ![p] = "starting"]
                    /\ origin' = [origin EXCEPT ![p] = TheUnit]
          BY <4>2
        <5>2. p \in Pids /\ TheUnit \in TheLauncher .. MaxGuis
          BY SupervisionAssumption DEF FreshPid, TheUnit, TheLauncher
        <5>3. worker' \in WorkerType /\ origin' \in [Pids -> TheLauncher .. MaxGuis]
              /\ worker'[p] = "starting" /\ origin'[p] = TheUnit
              /\ \A q \in Pids : q # p => worker'[q] = halted[q] /\ origin'[q] = origin[q]
          BY <1>1, <3>2, <5>1, <5>2 DEF EndsOnly, WorkerType
        <5> QED
          BY <3>2, <5>3 DEF EndsOnly, AtWork
      <4> QED
        BY <3>1, <4>1, <4>2
    <3>5. RoomToSpawn'
      BY <1>1, <3>3, <3>4 DEF SuperviseInv, RoomToSpawn, UiType
    <3> QED
      BY <1>1, <3>1, <3>3, <3>4, <3>5, SameGui DEF UnitThreads
  <2> QED
    BY <2>1, <2>2, <2>3, <2>4 DEF StopServer, StopWindows
<1> QED
  BY <1>3, <1>4

LEMMA BecomesTyped ==
    ASSUME SuperviseInv, NEW t \in stoppers,
           NEW what \in {"child", "pid", "childwait", "pidwait", "stopunit", "unitstopped", "startunit", "unitstarted"},
           what \in {"stopunit", "unitstopped", "startunit", "unitstarted"} <=> t.pid = None,
           Becomes(t, what)
    PROVE  /\ stoppers' \subseteq StopperType /\ UnitThreads'
           /\ \A r \in stoppers : r.pid # None => \E s \in stoppers' : s.pid = r.pid
<1>1. stoppers \subseteq StopperType /\ UnitThreads /\ t.pid \in {None} \cup Pids
  BY DEF SuperviseInv, SupervisionTypeOK, StopperType
<1>2. /\ DeskThread(what, t.pid) \in StopperType /\ DeskThread(what, t.pid).what = what
      /\ DeskThread(what, t.pid).pid = t.pid
  BY <1>1, StopperTyped
<1>3. stoppers' = (stoppers \ {t}) \cup {DeskThread(what, t.pid)}
  BY DEF Becomes
<1> QED
  BY <1>1, <1>2, <1>3 DEF UnitThreads

LEMMA ThreadSteps == ASSUME SuperviseInv, SignalWorker \/ KillWorker \/ CallSystemd PROVE SuperviseInv'
<1>1. stoppers \subseteq StopperType /\ worker \in WorkerType /\ unit \in BOOLEAN
      /\ UnitThreads /\ EndsOnly(worker)
  BY DEF SuperviseInv, SupervisionTypeOK, StopperType, WorkerType, EndsOnly, AtWork
<1>2. \A t \in stoppers : t.pid \in {None} \cup Pids
                          /\ (t.what \notin {"stopunit", "unitstopped", "startunit", "unitstarted"} => t.pid \in Pids)
  BY <1>1 DEF StopperType, UnitThreads
<1>3. UNCHANGED <<platform, managed, origin, gui, guis, ui, pidfile>>
  BY DEF SignalWorker, KillWorker, CallSystemd
<1>4. CASE SignalWorker
  <2>1. PICK t \in stoppers :
           /\ t.what \in {"child", "pid"}
           /\ worker' = IF Foreign(t.pid) THEN worker ELSE WorkerTerminated(worker, t.pid)
           /\ Becomes(t, IF t.what = "child" THEN "childwait" ELSE "pidwait")
    BY <1>4 DEF SignalWorker
  <2>2. t.pid \in Pids /\ t.pid # None
    BY <1>2, <2>1 DEF Pids, None
  <2>3. EndsOnly(worker')
    BY <1>1, <2>1, <2>2, TerminatedTyped
  <2>4. /\ stoppers' \subseteq StopperType /\ UnitThreads'
        /\ \A r \in stoppers : r.pid # None => \E s \in stoppers' : s.pid = r.pid
    <3> DEFINE what == IF t.what = "child" THEN "childwait" ELSE "pidwait"
    <3>1. what \in {"childwait", "pidwait"}
      OBVIOUS
    <3>2. Becomes(t, what)
      BY <2>1
    <3> HIDE DEF what
    <3> QED
      BY <2>2, <3>1, <3>2, BecomesTyped
  <2> QED
    BY <1>1, <1>3, <1>4, <2>3, <2>4, ProcessesEnd DEF SignalWorker
<1>5. CASE KillWorker
  <2>1. PICK t \in stoppers : t.what \in {"childwait", "pidwait"} /\ worker' = [worker EXCEPT ![t.pid] = "dead"]
    BY <1>5 DEF KillWorker
  <2>2. EndsOnly(worker')
    BY <1>1, <1>2, <2>1, DeadTyped
  <2> QED
    BY <1>1, <1>3, <1>5, <2>2, ProcessesEnd DEF KillWorker, UnitThreads
<1>6. CASE CallSystemd
  <2>1. PICK t \in stoppers :
           \/ /\ t.what = "stopunit"
              /\ unit' = FALSE /\ worker' = Ended(worker, Units)
              /\ Becomes(t, "unitstopped")
           \/ /\ t.what = "stopunit"
              /\ stoppers' = stoppers \ {t}
              /\ UNCHANGED <<unit, worker>>
           \/ /\ t.what = "startunit"
              /\ unit' = TRUE
              /\ Becomes(t, "unitstarted")
              /\ UNCHANGED worker
    BY <1>6 DEF CallSystemd
  <2>2. t.pid = None
    BY <1>1, <2>1 DEF UnitThreads
  <2>3. EndsOnly(worker') /\ unit' \in BOOLEAN
    BY <1>1, <2>1, EndedTyped
  <2>4. /\ stoppers' \subseteq StopperType /\ UnitThreads'
        /\ \A r \in stoppers : r.pid # None => \E s \in stoppers' : s.pid = r.pid
    <3>1. CASE stoppers' = stoppers \ {t}
      BY <1>1, <2>2, <3>1 DEF UnitThreads
    <3>2. CASE Becomes(t, "unitstopped") \/ Becomes(t, "unitstarted")
      BY <2>2, <3>2, BecomesTyped
    <3> QED
      BY <2>1, <3>1, <3>2
  <2> QED
    BY <1>3, <2>3, <2>4, ProcessesEnd
<1> QED
  BY <1>4, <1>5, <1>6

(* The thread that stopped a process goes when the process has ended, or    *)
(* when it was the service manager's.                                       *)
LEMMA CleanStep == ASSUME SuperviseInv, StopCleans PROVE SuperviseInv'
<1>1. PICK t \in stoppers :
        /\ t.what \in {"childwait", "pidwait"}
        /\ IF t.what = "childwait" THEN ~Exists(t.pid) ELSE ~PidAlive(t.pid)
        /\ ui' = [ui EXCEPT !.owned = IF t.what = "childwait" /\ @ = t.pid THEN None ELSE @,
                            !.adopted = IF t.what = "pidwait" /\ @ = t.pid THEN None ELSE @,
                            !.started = FALSE]
        /\ stoppers' = stoppers \ {t}
  BY DEF StopCleans
<1>2. ui \in UiType /\ stoppers \subseteq StopperType /\ unit' \in BOOLEAN /\ UnitThreads
      /\ worker \in WorkerType /\ origin \in [Pids -> TheLauncher .. MaxGuis] /\ pidfile' = None
      /\ UNCHANGED <<platform, managed, worker, origin, gui, guis>>
  BY DEF StopCleans, SuperviseInv, SupervisionTypeOK, UiType, StopperType, WorkerType
<1> DEFINE own == IF t.what = "childwait" /\ ui.owned = t.pid THEN None ELSE ui.owned
           adopt == IF t.what = "pidwait" /\ ui.adopted = t.pid THEN None ELSE ui.adopted
           a == [ui EXCEPT !.owned = own]
           b == [a EXCEPT !.adopted = adopt]
           c == [b EXCEPT !.started = FALSE]
<1>3. ui' = c
  BY <1>1, <1>2 DEF UiType
<1>4. own \in {None, ui.owned} /\ adopt \in {None, ui.adopted} /\ (own # ui.owned => ui.owned = t.pid)
  OBVIOUS
<1> HIDE DEF own, adopt
<1>5. a \in UiType /\ a.owned = own /\ a.tk = ui.tk
  BY <1>2, <1>4 DEF UiType
<1> HIDE DEF a
<1>6. b \in UiType /\ b.owned = own /\ b.tk = ui.tk
  BY <1>2, <1>4, <1>5 DEF UiType
<1> HIDE DEF b
<1>7. c \in UiType /\ c.owned = own /\ c.tk = ui.tk
  BY <1>6 DEF UiType
<1> HIDE DEF c
<1>8. RoomToSpawn'
  BY <1>2, <1>3, <1>4, <1>7 DEF SuperviseInv, RoomToSpawn, Exists
<1>9. \A p \in Pids : AtWork(worker, p) /\ gui # None /\ origin[p] = gui => p # t.pid
  <2> SUFFICES ASSUME NEW p \in Pids, AtWork(worker, p), gui # None, origin[p] = gui, p = t.pid PROVE FALSE
    OBVIOUS
  <2>1. origin[p] # TheUnit
    BY DEF SuperviseInv, SupervisionTypeOK, None, TheUnit
  <2>2. Exists(p) /\ PidAlive(p)
    BY <2>1 DEF AtWork, Exists, PidAlive, Foreign
  <2> QED
    BY <1>1, <2>2
<1>10. UnitThreads' /\ stoppers' \subseteq StopperType
  BY <1>1, <1>2 DEF UnitThreads
<1> QED
  BY <1>1, <1>2, <1>3, <1>4, <1>7, <1>8, <1>9, <1>10, SameGui

LEMMA AnsweredStep == ASSUME SuperviseInv, UnitAnswered PROVE SuperviseInv'
<1>1. PICK t \in stoppers :
        /\ \/ /\ t.what = "unitstopped"
              /\ ui' = [ui EXCEPT !.adopted = None, !.started = FALSE, !.external = FALSE, !.probes = FALSE]
           \/ t.what = "unitstarted" /\ PortOpen /\ ui' = Shown(Adopting(ui))
           \/ t.what = "unitstarted" /\ UNCHANGED ui
        /\ stoppers' = stoppers \ {t}
  BY DEF UnitAnswered
<1>2. ui \in UiType /\ stoppers \subseteq StopperType /\ pidfile' \in {None} \cup Pids /\ unit' \in BOOLEAN
      /\ UnitThreads /\ ui.tk = "idle"
      /\ UNCHANGED <<platform, managed, worker, origin, gui, guis>>
  BY DEF UnitAnswered, SuperviseInv, SupervisionTypeOK, UiType, StopperType
<1>3. t.pid = None
  BY <1>1, <1>2 DEF UnitThreads
<1>4. ui' \in UiType /\ ui'.owned = ui.owned /\ ui'.tk = "idle"
  <2>1. CASE ui' = [ui EXCEPT !.adopted = None, !.started = FALSE, !.external = FALSE, !.probes = FALSE]
    <3> DEFINE a == [ui EXCEPT !.adopted = None]
               b == [a EXCEPT !.started = FALSE]
               c == [b EXCEPT !.external = FALSE]
               d == [c EXCEPT !.probes = FALSE]
    <3>1. ui' = d
      BY <2>1
    <3>2. a \in UiType /\ a.owned = ui.owned /\ a.tk = "idle"
      BY <1>2 DEF UiType
    <3> HIDE DEF a
    <3>3. b \in UiType /\ b.owned = ui.owned /\ b.tk = "idle"
      BY <3>2 DEF UiType
    <3> HIDE DEF b
    <3>4. c \in UiType /\ c.owned = ui.owned /\ c.tk = "idle"
      BY <3>3 DEF UiType
    <3> HIDE DEF c
    <3>5. d \in UiType /\ d.owned = ui.owned /\ d.tk = "idle"
      BY <3>4 DEF UiType
    <3> QED
      BY <3>1, <3>5
  <2>2. CASE PortOpen /\ ui' = Shown(Adopting(ui))
    <3>1. Adopting(ui) \in UiType /\ Adopting(ui).owned = ui.owned
      BY <1>2, <2>2, AdoptingTyped
    <3> QED
      BY <2>2, <3>1, ShownTyped
  <2>3. CASE UNCHANGED ui
    BY <1>2, <2>3
  <2> QED
    BY <1>1, <2>1, <2>2, <2>3
<1> QED
  BY <1>1, <1>2, <1>3, <1>4, DashboardStep DEF UnitThreads

LEMMA RefreshStep == ASSUME SuperviseInv, Refresh PROVE SuperviseInv'
<1> DEFINE u == Looked(ui)
<1>1. ui \in UiType /\ stoppers \subseteq StopperType /\ pidfile \in {None} \cup Pids /\ unit \in BOOLEAN
      /\ UnitThreads /\ ui.tk = "idle" /\ worker \in WorkerType /\ origin \in [Pids -> TheLauncher .. MaxGuis]
      /\ UNCHANGED <<platform, managed, worker, origin, gui, guis, stoppers, unit>>
  BY DEF Refresh, SuperviseInv, SupervisionTypeOK, UiType, StopperType, WorkerType
<1>2. u \in UiType /\ u.owned = ui.owned /\ u.tk = "idle"
  BY <1>1, LookedTyped
<1>3. CASE ui' = Shown(IF ~u.external /\ PortOpen THEN Adopting(u) ELSE u) /\ UNCHANGED pidfile
  <2> HIDE DEF u
  <2> DEFINE v == IF ~u.external /\ PortOpen THEN Adopting(u) ELSE u
  <2>1. v \in UiType /\ v.owned = ui.owned
    BY <1>2, AdoptingTyped
  <2>2. ui' = Shown(v)
    BY <1>3
  <2> HIDE DEF v
  <2>3. ui' \in UiType /\ ui'.owned = ui.owned /\ ui'.tk = "idle"
    BY <2>1, <2>2, ShownTyped
  <2> QED
    BY <1>1, <1>3, <2>3, DashboardStep DEF UnitThreads
<1>4. CASE ui' = Cleared(u) /\ pidfile' \in {None, pidfile}
  <2> HIDE DEF u
  <2>1. ui' \in UiType /\ ui'.tk = "idle"
        /\ ui'.owned = IF ui.owned # None /\ ~Exists(ui.owned) THEN None ELSE ui.owned
    BY <1>2, <1>4, ClearedTyped
  <2>2. RoomToSpawn' /\ UnitThreads' /\ pidfile' \in {None} \cup Pids
    BY <1>1, <1>4, <2>1 DEF SuperviseInv, RoomToSpawn, UnitThreads
  <2>3. \A p \in Pids : AtWork(worker, p) /\ ui.owned = p => ui'.owned = p
    BY <2>1 DEF AtWork, Exists
  <2> QED
    BY <1>1, <2>1, <2>2, <2>3, SameGui
<1> QED
  BY <1>3, <1>4 DEF Refresh

LEMMA WorkerSteps ==
    ASSUME SuperviseInv, ComesUp \/ GoesDown \/ Watchdog \/ ServiceCommand PROVE SuperviseInv'
<1>1. worker \in WorkerType /\ EndsOnly(worker) /\ stoppers \subseteq StopperType /\ unit' \in BOOLEAN /\ UnitThreads
      /\ UNCHANGED <<platform, managed, origin, gui, guis, ui, stoppers, pidfile>>
  BY DEF ComesUp, GoesDown, Watchdog, ServiceCommand, SuperviseInv, SupervisionTypeOK, WorkerType, StopperType,
         EndsOnly, AtWork
<1>2. EndsOnly(worker')
  <2>1. CASE ComesUp
    BY <1>1, <2>1 DEF ComesUp, EndsOnly, WorkerType, AtWork
  <2>2. CASE GoesDown
    BY <1>1, <2>2, DeadTyped DEF GoesDown
  <2>3. CASE Watchdog
    BY <1>1, <2>3, TerminatedTyped DEF Watchdog
  <2>4. CASE ServiceCommand
    BY <1>1, <2>4, EndedTyped DEF ServiceCommand
  <2> QED
    BY <2>1, <2>2, <2>3, <2>4
<1> QED
  BY <1>1, <1>2, ProcessesEnd DEF UnitThreads

LEMMA ReuseStep == ASSUME SuperviseInv, PidIsReused PROVE SuperviseInv'
<1>1. PICK p \in Pids : worker[p] = "dead" /\ p # ui.owned /\ worker' = [worker EXCEPT ![p] = "stranger"]
  BY DEF PidIsReused
<1>2. ui \in UiType /\ stoppers \subseteq StopperType /\ pidfile \in {None} \cup Pids /\ unit \in BOOLEAN
      /\ UnitThreads /\ worker \in WorkerType /\ origin \in [Pids -> TheLauncher .. MaxGuis]
      /\ UNCHANGED <<platform, managed, origin, gui, guis, ui, stoppers, pidfile, unit>>
  BY DEF PidIsReused, SuperviseInv, SupervisionTypeOK, UiType, StopperType, WorkerType
<1>3. worker' \in WorkerType /\ \A q \in Pids : AtWork(worker', q) => AtWork(worker, q)
  BY <1>1, <1>2 DEF WorkerType, AtWork
<1>4. RoomToSpawn'
  BY <1>1, <1>2 DEF SuperviseInv, RoomToSpawn, Exists, UiType
<1> QED
  BY <1>2, <1>3, <1>4, SameGui DEF UnitThreads

LEMMA NextSuperviseInv == ASSUME SuperviseInv, [SupervisionNext]_supervisionVars PROVE SuperviseInv'
<1>1. CASE UNCHANGED supervisionVars
  BY <1>1 DEF supervisionVars, SuperviseInv, SupervisionTypeOK, LaunchesCounted, UnitThreads, RoomToSpawn,
              NoLostWorker, Exists
<1> QED
  BY <1>1, ChildSteps, SpawnStep, OtherSpawns, EndingSteps, LaunchStep, ReconcileStep, ToggleStep, ThreadSteps,
     CleanStep, AnsweredStep, RefreshStep, WorkerSteps, ReuseStep DEF SupervisionNext

(* A worker that the running dashboard spawned and that has not ended is   *)
(* held by the dashboard, or one of its threads is still bringing it down, *)
(* through toggles, failed starts, reconciliations, stops that time out and*)
(* reused process ids (gui/core.py, linux_app.py, macos.py).               *)
THEOREM NoWorkerIsLost == SupervisionSpec => []NoLostWorker
<1>1. SuperviseInv => NoLostWorker
  BY DEF SuperviseInv
<1> QED
  BY InitSuperviseInv, NextSuperviseInv, <1>1, PTL DEF SupervisionSpec

-----------------------------------------------------------------------------
(***************************************************************************)
(* PortMapping, for any ports and any lease, and either protocol.          *)
(*                                                                         *)
(* The lease counts down while the loop sleeps, asks and waits. A mapped   *)
(* port stays mapped because the loop wakes at half of the lease: the      *)
(* invariant relates what the lease has left to what the loop still waits, *)
(* and says that the bootstrap and the loop take turns until the stop.     *)
(***************************************************************************)

BootType == [pc : {"none", "thread", "back"}, port : {0} \cup Ports, lease : {Forever, Lease}, ip : 0 .. 2]
SvcType == [status : {"disabled", "discovering", "mapped", "failed", "closing"}, port : {0} \cup Ports, ip : 0 .. 2]
LoopType == [pc : {"none", "sleep", "call", "back", "pause"}, left : 0 .. Lease,
             fails : 0 .. MaxRenewalFailures - 1, got : {0} \cup Ports]

(* Before the stop the tasks take turns: the bootstrap, then the loop, each *)
(* with the one thread it waits for.                                        *)
TasksTakeTurns ==
    /\ svc.status # "closing"
    /\ boot.pc # "none" => svc.status \in {"discovering", "mapped"} /\ renewal.pc = "none"
    /\ boot.pc = "thread" => svc.status = "discovering"
    /\ renewal.pc # "none" => svc.status = "mapped"
    /\ svc.status = "mapped" => svc.port # 0
    /\ renewal.pc = "none" => renewal.fails = 0
    /\ renewal.pc = "pause" => renewal.fails # 0
    /\ threads = IF boot.pc = "thread" THEN {Thread("discover", 0)}
                 ELSE IF renewal.pc = "call" THEN {Thread("renew", svc.port)} ELSE {}
(* What the lease has left: at least half of it when a loop that has not    *)
(* failed asks again.                                                       *)
LeaseLeft ==
    /\ boot.pc = "back" =>
           /\ boot.port # 0 /\ router[boot.port] = boot.lease
           /\ IF proto = "upnp" THEN svc.status = "discovering"
              ELSE svc.status = "mapped" /\ svc.port = boot.port /\ boot.lease = Lease
    /\ svc.status = "mapped" /\ boot.pc = "none" /\ renewal.pc = "none" => router[svc.port] = Forever
    /\ renewal.pc = "sleep" /\ renewal.fails = 0 => router[svc.port] >= renewal.left + Interval
    /\ renewal.pc = "call" /\ renewal.fails = 0 => router[svc.port] >= Interval
    /\ renewal.pc = "back" /\ renewal.got # 0 =>
           router[renewal.got] = Lease /\ (proto = "upnp" => renewal.got = svc.port)

PortInv == PortTypeOK /\ (stop.pc = "no" => TasksTakeTurns /\ LeaseLeft)
-----------------------------------------------------------------------------
LEMMA LeaseHalves == Interval \in Nat /\ Interval >= 1 /\ Interval + Interval = Lease
                     /\ Lease \in Nat /\ Pause \in 0 .. Lease
  BY PortAssumption DEF Interval, Pause

LEMMA LoopRecords ==
    /\ NoLoop \in LoopType /\ NoLoop.pc = "none" /\ NoLoop.fails = 0
    /\ \A n \in 0 .. MaxRenewalFailures - 1 :
          /\ Sleeping(n) \in LoopType /\ Sleeping(n).pc = "sleep"
          /\ Sleeping(n).left = Interval /\ Sleeping(n).fails = n
  BY LeaseHalves DEF NoLoop, Sleeping, LoopType, MaxRenewalFailures

LEMMA InitPortInv == PortInit => PortInv
<1> SUFFICES ASSUME PortInit PROVE PortInv
  OBVIOUS
<1>1. router \in [Ports -> {Forever} \cup 0 .. Lease] /\ 0 \in 0 .. Lease
  BY PortAssumption DEF PortInit
<1>2. boot \in BootType /\ svc \in SvcType /\ renewal \in LoopType
  BY LoopRecords DEF PortInit, BootType, SvcType
<1>3. PortTypeOK
  BY <1>1, <1>2 DEF PortInit, PortTypeOK, BootType, SvcType, LoopType
<1> QED
  BY <1>3, LoopRecords DEF PortInit, PortInv, TasksTakeTurns, LeaseLeft

(* The bootstrap.                                                           *)
LEMMA StartStep == ASSUME PortInv, Start PROVE PortInv'
<1>1. svc' \in SvcType /\ svc'.status = "discovering" /\ svc'.port = svc.port
      /\ boot' \in BootType /\ boot'.pc = "thread"
  BY DEF Start, PortInv, PortTypeOK, SvcType, BootType
<1>2. threads' \subseteq [call : {"discover", "renew", "release"}, port : {0} \cup Ports]
  BY DEF Start, PortInv, PortTypeOK, Thread
<1>3. PortTypeOK'
  BY <1>1, <1>2 DEF Start, PortInv, PortTypeOK, SvcType, BootType
<1>4. ASSUME stop.pc = "no" PROVE TasksTakeTurns' /\ LeaseLeft'
  BY <1>1, <1>4 DEF Start, PortInv, TasksTakeTurns, LeaseLeft
<1> QED
  BY <1>3, <1>4 DEF PortInv, Start

LEMMA FailSteps == ASSUME PortInv, UpnpNoRouter \/ NatNoGateway PROVE PortInv'
<1>1. svc' \in SvcType /\ svc'.status = "failed" /\ boot' \in BootType
      /\ (boot.pc = "thread" => boot'.pc = "none")
      /\ UNCHANGED <<proto, foreign, router, wan, renewal, watch, stop>>
      /\ Thread("discover", 0) \in threads /\ threads' = threads \ {Thread("discover", 0)}
  BY DEF UpnpNoRouter, NatNoGateway, MarkFailed, PortInv, PortTypeOK, SvcType, BootType
<1>2. PortTypeOK'
  BY <1>1 DEF PortInv, PortTypeOK, SvcType, BootType
<1>3. ASSUME stop.pc = "no" PROVE TasksTakeTurns' /\ LeaseLeft'
  <2>1. boot.pc = "thread"
    BY <1>1, <1>3 DEF PortInv, TasksTakeTurns, Thread
  <2> QED
    BY <1>1, <1>3, <2>1 DEF PortInv, TasksTakeTurns, LeaseLeft
<1> QED
  BY <1>1, <1>2, <1>3 DEF PortInv

LEMMA MapSteps == ASSUME PortInv, UpnpMaps \/ NatMaps PROVE PortInv'
<1>1. PICK p \in Ladder, lease \in {Lease, Forever}, ip \in {0, wan} :
         /\ router' = [router EXCEPT ![p] = lease] /\ Found(p, lease, ip)
         /\ \/ proto = "upnp" /\ svc' = svc
            \/ proto = "natpmp" /\ lease = Lease /\ svc' = [status |-> "mapped", port |-> p, ip |-> ip]
  BY DEF UpnpMaps, NatMaps
<1>2. UNCHANGED <<proto, foreign, wan, renewal, watch, stop>> /\ Thread("discover", 0) \in threads
      /\ p \in Ports /\ p # 0 /\ ip \in 0 .. 2
      /\ router' \in [Ports -> {Forever} \cup 0 .. Lease] /\ router'[p] = lease
  <2>1. router \in [Ports -> {Forever} \cup 0 .. Lease] /\ lease \in {Forever} \cup 0 .. Lease /\ p \in Ports
    BY <1>1, LeaseHalves DEF Ladder, PortInv, PortTypeOK
  <2>2. ip \in 0 .. 2
    BY DEF PortInv, PortTypeOK
  <2>3. router' \in [Ports -> {Forever} \cup 0 .. Lease] /\ router'[p] = lease
    BY <1>1, <2>1
  <2> QED
    BY <2>1, <2>2, <2>3, PortAssumption DEF UpnpMaps, NatMaps
<1>3. svc' \in SvcType
  BY <1>1, <1>2 DEF PortInv, PortTypeOK, SvcType
<1>4. boot' \in BootType /\ threads' = threads \ {Thread("discover", 0)}
      /\ IF boot.pc = "thread" THEN boot'.pc = "back" /\ boot'.port = p /\ boot'.lease = lease ELSE boot' = boot
  BY <1>1, <1>2 DEF Found, BootType, PortInv, PortTypeOK
<1>5. PortTypeOK'
  BY <1>2, <1>3, <1>4 DEF PortInv, PortTypeOK, SvcType, BootType
<1>6. ASSUME stop.pc = "no" PROVE TasksTakeTurns' /\ LeaseLeft'
  <2>1. boot.pc = "thread" /\ svc.status = "discovering" /\ renewal.pc = "none" /\ renewal.fails = 0
        /\ threads = {Thread("discover", 0)}
    BY <1>2, <1>6 DEF PortInv, TasksTakeTurns, Thread
  <2>2. CASE proto = "upnp" /\ svc' = svc
    BY <1>2, <1>4, <2>1, <2>2 DEF TasksTakeTurns, LeaseLeft
  <2>3. CASE proto = "natpmp" /\ lease = Lease /\ svc' = [status |-> "mapped", port |-> p, ip |-> ip]
    BY <1>2, <1>4, <2>1, <2>3 DEF TasksTakeTurns, LeaseLeft
  <2> QED
    BY <1>1, <2>2, <2>3
<1> QED
  BY <1>2, <1>5, <1>6 DEF PortInv

LEMMA BootedSteps == ASSUME PortInv, UpnpBootstrapped \/ NatBootstrapped PROVE PortInv'
<1>1. UNCHANGED <<proto, foreign, router, wan, threads, stop>>
      /\ boot.pc = "back" /\ boot' \in BootType /\ boot'.pc = "none"
  BY DEF UpnpBootstrapped, NatBootstrapped, PortInv, PortTypeOK, BootType
<1>2. boot \in BootType /\ svc \in SvcType /\ renewal \in LoopType
  BY DEF PortInv, PortTypeOK, BootType, SvcType, LoopType
<1>3. svc' \in SvcType /\ renewal' \in LoopType /\ watch' \in {"none", "sleep", "call"}
  <2>1. NoLoop \in LoopType /\ Sleeping(0) \in LoopType
    BY LoopRecords DEF MaxRenewalFailures
  <2> HIDE DEF NoLoop, Sleeping
  <2>2. CASE UpnpBootstrapped
    BY <1>2, <2>1, <2>2 DEF UpnpBootstrapped, SvcType, BootType, PortInv, PortTypeOK
  <2>3. CASE NatBootstrapped
    BY <1>2, <2>1, <2>3 DEF NatBootstrapped, PortInv, PortTypeOK
  <2> QED
    BY <2>2, <2>3
<1>4. PortTypeOK'
  BY <1>1, <1>3 DEF PortInv, PortTypeOK, SvcType, BootType, LoopType
<1>5. ASSUME stop.pc = "no" PROVE TasksTakeTurns' /\ LeaseLeft'
  <2>1. threads = {} /\ renewal.pc = "none" /\ boot.port # 0 /\ router[boot.port] = boot.lease
        /\ IF proto = "upnp" THEN svc.status = "discovering"
           ELSE svc.status = "mapped" /\ svc.port = boot.port /\ boot.lease = Lease
    BY <1>1, <1>5 DEF PortInv, TasksTakeTurns, LeaseLeft
  <2>2. 0 \in 0 .. MaxRenewalFailures - 1
    BY DEF MaxRenewalFailures
  <2>3. /\ svc'.status = "mapped" /\ svc'.port = boot.port
        /\ renewal' = IF boot.lease = Forever THEN NoLoop ELSE Sleeping(0)
    <3>1. CASE UpnpBootstrapped
      BY <2>1, <3>1 DEF UpnpBootstrapped
    <3>2. CASE NatBootstrapped
      <4>1. proto = "natpmp" /\ boot.lease # Forever
        BY <2>1, <3>2, LeaseHalves DEF NatBootstrapped, Forever
      <4> QED
        BY <2>1, <3>2, <4>1 DEF NatBootstrapped
    <3> QED
      BY <3>1, <3>2
  <2>4. CASE boot.lease = Forever
    BY <1>1, <2>1, <2>3, <2>4, LoopRecords DEF TasksTakeTurns, LeaseLeft
  <2>5. CASE boot.lease # Forever
    <3>1. boot.lease = Lease /\ renewal' = Sleeping(0) /\ renewal'.pc = "sleep" /\ renewal'.left = Interval
          /\ renewal'.fails = 0
      BY <1>2, <2>2, <2>3, <2>5, LoopRecords DEF BootType
    <3> QED
      BY <1>1, <2>1, <2>3, <3>1, LeaseHalves DEF TasksTakeTurns, LeaseLeft
  <2> QED
    BY <2>4, <2>5
<1> QED
  BY <1>1, <1>4, <1>5 DEF PortInv

(* The loop.                                                                *)
LEMMA WakeStep == ASSUME PortInv, RenewalWakes PROVE PortInv'
<1>1. UNCHANGED <<proto, foreign, router, wan, svc, boot, watch, stop>>
      /\ renewal \in LoopType /\ renewal.pc = "sleep" /\ renewal.left = 0
      /\ svc.port \in {0} \cup Ports
  BY DEF RenewalWakes, PortInv, PortTypeOK, LoopType
<1>2. CASE svc.status # "mapped" \/ svc.port = 0
  <2>1. renewal' = NoLoop /\ UNCHANGED threads
    BY <1>2 DEF RenewalWakes
  <2>2. PortTypeOK'
    BY <1>1, <2>1, LoopRecords DEF PortInv, PortTypeOK, LoopType
  <2>3. stop.pc # "no"
    BY <1>1, <1>2 DEF PortInv, TasksTakeTurns
  <2> QED
    BY <1>1, <2>2, <2>3 DEF PortInv
<1>3. CASE ~(svc.status # "mapped" \/ svc.port = 0)
  <2>1. renewal' = [renewal EXCEPT !.pc = "call"] /\ threads' = threads \cup {Thread("renew", svc.port)}
    BY <1>3 DEF RenewalWakes
  <2>2. renewal' \in LoopType /\ renewal'.pc = "call" /\ renewal'.fails = renewal.fails
    BY <1>1, <2>1 DEF LoopType
  <2>3. PortTypeOK'
    BY <1>1, <2>1, <2>2 DEF PortInv, PortTypeOK, LoopType, Thread
  <2>4. ASSUME stop.pc = "no" PROVE TasksTakeTurns' /\ LeaseLeft'
    BY <1>1, <1>3, <2>1, <2>2, <2>4, LeaseHalves DEF PortInv, TasksTakeTurns, LeaseLeft
  <2> QED
    BY <1>1, <2>3, <2>4 DEF PortInv
<1> QED
  BY <1>2, <1>3

LEMMA AnswerTyped ==
    ASSUME PortInv, NEW p \in {0} \cup Ports, RenewalAnswer(p)
    PROVE  /\ renewal' \in LoopType
           /\ IF renewal.pc = "call"
              THEN renewal'.pc = "back" /\ renewal'.got = p /\ renewal'.fails = renewal.fails
              ELSE renewal' = renewal
<1> DEFINE x == [renewal EXCEPT !.pc = "back"]
<1>1. renewal \in LoopType
  BY DEF PortInv, PortTypeOK, LoopType
<1>2. CASE renewal.pc = "call"
  <2>1. renewal' = [x EXCEPT !.got = p]
    BY <1>1, <1>2 DEF RenewalAnswer, LoopType
  <2>2. x \in LoopType /\ x.pc = "back" /\ x.fails = renewal.fails
    BY <1>1 DEF LoopType
  <2> HIDE DEF x
  <2> QED
    BY <1>2, <2>1, <2>2 DEF LoopType
<1> QED
  BY <1>1, <1>2 DEF RenewalAnswer

LEMMA AnswerSteps == ASSUME PortInv, RenewalGranted \/ RenewalRefused PROVE PortInv'
<1>1. PICK t \in threads : t.call = "renew" /\ (RenewalGranted \/ RenewalRefused)
  BY DEF RenewalGranted, RenewalRefused
<1>2. UNCHANGED <<proto, foreign, wan, svc, boot, watch, stop>>
  BY DEF RenewalGranted, RenewalRefused
<1>3. router \in [Ports -> {Forever} \cup 0 .. Lease] /\ 0 \in 0 .. Lease /\ Lease \in 0 .. Lease
  BY LeaseHalves DEF PortInv, PortTypeOK
<1>4. ASSUME NEW s \in threads, s.call = "renew", stop.pc = "no"
      PROVE  boot.pc # "thread" /\ renewal.pc = "call" /\ s.port = svc.port /\ threads \ {s} = {}
  BY <1>4 DEF PortInv, TasksTakeTurns, Thread
<1>5. CASE RenewalGranted
  <2>1. PICK s \in threads, p \in Ladder :
           /\ s.call = "renew" /\ (proto = "upnp" => p = s.port)
           /\ threads' = threads \ {s}
           /\ router' = [router EXCEPT ![s.port] = 0, ![p] = Lease]
           /\ RenewalAnswer(p)
    BY <1>5 DEF RenewalGranted
  <2>2. p \in Ports /\ p # 0
    BY PortAssumption DEF Ladder
  <2> DEFINE r == [router EXCEPT ![s.port] = 0]
  <2>3. router' = [r EXCEPT ![p] = Lease] /\ r \in [Ports -> {Forever} \cup 0 .. Lease]
    BY <1>3, <2>1
  <2> HIDE DEF r
  <2>4. router' \in [Ports -> {Forever} \cup 0 .. Lease] /\ router'[p] = Lease
    BY <1>3, <2>2, <2>3
  <2>5. renewal' \in LoopType
    BY <2>1, <2>2, AnswerTyped
  <2>6. PortTypeOK'
    BY <1>2, <2>1, <2>4, <2>5 DEF PortInv, PortTypeOK, LoopType
  <2>7. ASSUME stop.pc = "no" PROVE TasksTakeTurns' /\ LeaseLeft'
    <3>1. renewal'.pc = "back" /\ renewal'.got = p
      BY <1>4, <2>1, <2>2, <2>7, AnswerTyped
    <3> QED
      BY <1>2, <1>4, <2>1, <2>4, <2>7, <3>1 DEF PortInv, TasksTakeTurns, LeaseLeft
  <2> QED
    BY <1>2, <2>6, <2>7 DEF PortInv
<1>6. CASE RenewalRefused
  <2>1. PICK s \in threads :
           s.call = "renew" /\ threads' = threads \ {s} /\ RenewalAnswer(0) /\ UNCHANGED router
    BY <1>6 DEF RenewalRefused
  <2>2. renewal' \in LoopType
    BY <2>1, AnswerTyped
  <2>3. PortTypeOK'
    BY <1>2, <2>1, <2>2 DEF PortInv, PortTypeOK, LoopType
  <2>4. ASSUME stop.pc = "no" PROVE TasksTakeTurns' /\ LeaseLeft'
    <3>1. renewal'.pc = "back" /\ renewal'.got = 0
      BY <1>4, <2>1, <2>4, AnswerTyped
    <3> QED
      BY <1>2, <1>4, <2>1, <2>4, <3>1 DEF PortInv, TasksTakeTurns, LeaseLeft
  <2> QED
    BY <1>2, <2>3, <2>4 DEF PortInv
<1> QED
  BY <1>5, <1>6

LEMMA RenewedStep == ASSUME PortInv, Renewed PROVE PortInv'
<1>1. UNCHANGED <<proto, foreign, router, wan, boot, threads, watch, stop>>
      /\ renewal.pc = "back" /\ renewal.got # 0 /\ renewal' = Sleeping(0)
  BY DEF Renewed
<1>2. svc' \in SvcType /\ svc'.status = svc.status
      /\ (proto = "natpmp" => svc'.port = renewal.got) /\ (proto = "upnp" => svc'.port = svc.port)
  <2>1. svc \in SvcType /\ renewal.got \in {0} \cup Ports
    BY DEF PortInv, PortTypeOK, SvcType
  <2>2. CASE proto = "natpmp"
    <3>1. svc' = [svc EXCEPT !.port = renewal.got]
      BY <2>2 DEF Renewed
    <3> QED
      BY <2>1, <2>2, <3>1 DEF SvcType
  <2>3. CASE proto # "natpmp"
    BY <2>1, <2>3 DEF Renewed
  <2> QED
    BY <2>2, <2>3
<1>3. renewal' \in LoopType /\ renewal'.pc = "sleep" /\ renewal'.left = Interval /\ renewal'.fails = 0
  BY <1>1, LoopRecords DEF MaxRenewalFailures
<1>4. PortTypeOK'
  BY <1>1, <1>2, <1>3 DEF PortInv, PortTypeOK, LoopType, SvcType
<1>5. ASSUME stop.pc = "no" PROVE TasksTakeTurns' /\ LeaseLeft'
  <2>1. svc'.port = renewal.got /\ router[renewal.got] = Lease
    BY <1>1, <1>2, <1>5 DEF PortInv, PortTypeOK, LeaseLeft
  <2> QED
    BY <1>1, <1>2, <1>3, <1>5, <2>1, LeaseHalves DEF PortInv, TasksTakeTurns, LeaseLeft
<1> QED
  BY <1>1, <1>4, <1>5 DEF PortInv

LEMMA NotRenewedStep == ASSUME PortInv, NotRenewed PROVE PortInv'
<1>1. UNCHANGED <<proto, foreign, router, wan, boot, threads, watch, stop>>
      /\ renewal \in LoopType /\ renewal.pc = "back" /\ renewal.got = 0 /\ svc \in SvcType
  BY DEF NotRenewed, PortInv, PortTypeOK, LoopType, SvcType
<1>2. CASE GivesUp(renewal.fails + 1)
  <2>1. svc' \in SvcType /\ svc'.status = "failed" /\ renewal' = NoLoop
    BY <1>1, <1>2 DEF NotRenewed, MarkFailed, SvcType
  <2>2. PortTypeOK'
    BY <1>1, <2>1, LoopRecords DEF PortInv, PortTypeOK, LoopType, SvcType
  <2>3. ASSUME stop.pc = "no" PROVE TasksTakeTurns' /\ LeaseLeft'
    BY <1>1, <2>1, <2>3, LoopRecords DEF PortInv, TasksTakeTurns, LeaseLeft
  <2> QED
    BY <1>1, <2>2, <2>3 DEF PortInv
<1>3. CASE ~GivesUp(renewal.fails + 1)
  <2> DEFINE x == [renewal EXCEPT !.pc = "pause"]
             y == [x EXCEPT !.left = Pause]
             fails == renewal.fails + 1
  <2>1. renewal' = [y EXCEPT !.fails = fails] /\ UNCHANGED svc
    BY <1>1, <1>3 DEF NotRenewed, LoopType
  <2>2. fails \in 0 .. MaxRenewalFailures - 1 /\ fails # 0
    BY <1>1, <1>3 DEF GivesUp, LoopType, MaxRenewalFailures
  <2> HIDE DEF fails
  <2>3. x \in LoopType /\ x.pc = "pause"
    BY <1>1 DEF LoopType
  <2> HIDE DEF x
  <2>4. y \in LoopType /\ y.pc = "pause"
    BY <2>3, LeaseHalves DEF LoopType
  <2> HIDE DEF y
  <2>5. renewal' \in LoopType /\ renewal'.pc = "pause" /\ renewal'.fails # 0
    BY <2>1, <2>2, <2>4 DEF LoopType
  <2>6. PortTypeOK'
    BY <1>1, <2>1, <2>5 DEF PortInv, PortTypeOK, LoopType, SvcType
  <2>7. ASSUME stop.pc = "no" PROVE TasksTakeTurns' /\ LeaseLeft'
    BY <1>1, <2>1, <2>5, <2>7 DEF PortInv, TasksTakeTurns, LeaseLeft
  <2> QED
    BY <1>1, <2>6, <2>7 DEF PortInv
<1> QED
  BY <1>2, <1>3

LEMMA PausedStep == ASSUME PortInv, RenewalPaused PROVE PortInv'
<1>1. UNCHANGED <<proto, foreign, router, wan, svc, boot, threads, watch, stop>>
      /\ renewal \in LoopType /\ renewal.pc = "pause" /\ renewal' = Sleeping(renewal.fails)
  BY DEF RenewalPaused, PortInv, PortTypeOK, LoopType
<1>2. renewal' \in LoopType /\ renewal'.pc = "sleep" /\ renewal'.fails = renewal.fails
  BY <1>1, LoopRecords DEF LoopType
<1>3. PortTypeOK'
  BY <1>1, <1>2 DEF PortInv, PortTypeOK, LoopType
<1>4. ASSUME stop.pc = "no" PROVE TasksTakeTurns' /\ LeaseLeft'
  BY <1>1, <1>2, <1>4 DEF PortInv, TasksTakeTurns, LeaseLeft
<1> QED
  BY <1>1, <1>3, <1>4 DEF PortInv

(* The address of the router has no part in this.                           *)
LEMMA WatchSteps == ASSUME PortInv, WatchWakes \/ WatchReads \/ WanChanges PROVE PortInv'
<1>1. UNCHANGED <<proto, foreign, router, boot, threads, renewal, stop>>
  BY DEF WatchWakes, WatchReads, WanChanges
<1>2. svc \in SvcType /\ wan \in 1 .. 2 /\ watch \in {"none", "sleep", "call"}
  BY DEF PortInv, PortTypeOK, SvcType
<1>3. /\ svc' \in SvcType /\ svc'.status = svc.status /\ svc'.port = svc.port
      /\ wan' \in 1 .. 2 /\ watch' \in {"none", "sleep", "call"}
  <2>1. CASE WatchWakes
    BY <1>2, <2>1 DEF WatchWakes
  <2>2. CASE WatchReads
    BY <1>2, <2>2 DEF WatchReads, SvcType
  <2>3. CASE WanChanges
    BY <1>2, <2>3 DEF WanChanges
  <2> QED
    BY <2>1, <2>2, <2>3
<1>4. PortTypeOK'
  BY <1>1, <1>3 DEF PortInv, PortTypeOK, SvcType
<1> QED
  BY <1>1, <1>3, <1>4 DEF PortInv, TasksTakeTurns, LeaseLeft

(* From the stop on only the types matter.                                  *)
LEMMA StopSteps == ASSUME PortInv, Stop \/ ReleaseThread \/ Stopped \/ StopTooSlow PROVE PortInv'
<1>1. UNCHANGED <<proto, foreign, wan>> /\ svc \in SvcType /\ boot \in BootType /\ renewal \in LoopType
  BY DEF Stop, ReleaseThread, Stopped, StopTooSlow, PortInv, PortTypeOK, SvcType, BootType, LoopType
<1>2. CASE Stop
  <2>1. svc' \in SvcType /\ boot' \in BootType /\ renewal' \in LoopType /\ stop'.pc = "release"
    BY <1>1, <1>2, LoopRecords DEF Stop, SvcType, BootType
  <2>2. threads' \subseteq [call : {"discover", "renew", "release"}, port : {0} \cup Ports]
    BY <1>1, <1>2 DEF Stop, PortInv, PortTypeOK, Thread, SvcType
  <2>3. stop' \in [pc : {"no", "release", "done", "late"}, port : {0} \cup Ports]
    BY <1>1, <1>2 DEF Stop, SvcType
  <2> QED
    BY <1>1, <1>2, <2>1, <2>2, <2>3 DEF Stop, PortInv, PortTypeOK, SvcType, BootType, LoopType
<1>3. CASE ReleaseThread
  <2>1. PICK t \in threads :
           t.call = "release" /\ threads' = threads \ {t} /\ router' \in {router, [router EXCEPT ![t.port] = 0]}
    BY <1>3 DEF ReleaseThread
  <2>2. router' \in [Ports -> {Forever} \cup 0 .. Lease]
    BY <2>1, LeaseHalves DEF PortInv, PortTypeOK
  <2>3. PortTypeOK'
    BY <1>1, <1>3, <2>1, <2>2 DEF ReleaseThread, PortInv, PortTypeOK
  <2>4. stop'.pc # "no"
    <3>1. stop.pc = "no" => t.call # "release"
      BY DEF PortInv, TasksTakeTurns, Thread
    <3> QED
      BY <1>3, <2>1, <3>1 DEF ReleaseThread
  <2> QED
    BY <2>3, <2>4 DEF PortInv
<1>4. CASE Stopped \/ StopTooSlow
  <2>1. svc' \in SvcType /\ stop' \in [pc : {"no", "release", "done", "late"}, port : {0} \cup Ports]
        /\ stop'.pc # "no"
    BY <1>1, <1>4 DEF Stopped, StopTooSlow, PortInv, PortTypeOK, SvcType
  <2> QED
    BY <1>1, <1>4, <2>1 DEF Stopped, StopTooSlow, PortInv, PortTypeOK, SvcType
<1> QED
  BY <1>2, <1>3, <1>4

(* Time takes from the lease and from the wait of the loop alike.           *)
LEMMA TickStep == ASSUME PortInv, PortTick PROVE PortInv'
<1>1. UNCHANGED <<proto, foreign, wan, svc, boot, threads, watch, stop>>
      /\ router \in [Ports -> {Forever} \cup 0 .. Lease] /\ renewal \in LoopType
      /\ router' = [p \in Ports |-> Left(router[p])] /\ renewal' = [renewal EXCEPT !.left = Left(renewal.left)]
  BY DEF PortTick, PortInv, PortTypeOK, LoopType
<1>2. router' \in [Ports -> {Forever} \cup 0 .. Lease]
  BY <1>1, LeaseHalves DEF Left, Forever
<1>3. Left(renewal.left) \in 0 .. Lease
  BY <1>1, LeaseHalves DEF Left, LoopType
<1>4. renewal' \in LoopType /\ renewal'.pc = renewal.pc /\ renewal'.fails = renewal.fails
      /\ renewal'.got = renewal.got /\ renewal'.left = Left(renewal.left)
  BY <1>1, <1>3 DEF LoopType
<1>5. PortTypeOK'
  BY <1>1, <1>2, <1>4 DEF PortInv, PortTypeOK, LoopType
<1>6. ASSUME stop.pc = "no" PROVE TasksTakeTurns' /\ LeaseLeft'
  <2>1. boot.pc # "back" /\ renewal.pc # "back" /\ (renewal.pc = "sleep" => renewal.left # 0)
        /\ \A t \in threads : t.call = "discover"
    BY DEF PortTick
  <2>2. TasksTakeTurns /\ LeaseLeft /\ svc.port \in {0} \cup Ports
    BY <1>6 DEF PortInv, PortTypeOK
  <2>3. TasksTakeTurns'
    BY <1>1, <1>4, <2>2 DEF TasksTakeTurns
  <2>4. renewal.pc # "call"
    BY <2>1, <2>2 DEF TasksTakeTurns, Thread
  <2>5. ASSUME renewal.pc = "none", svc.status = "mapped", boot.pc = "none"
        PROVE  router'[svc.port] = Forever
    BY <1>1, <2>2, <2>5 DEF TasksTakeTurns, LeaseLeft, Left, Forever
  <2>6. ASSUME renewal.pc = "sleep", renewal.fails = 0
        PROVE  router'[svc.port] >= renewal'.left + Interval
    <3>1. svc.port \in Ports /\ router[svc.port] >= renewal.left + Interval /\ renewal.left \in 1 .. Lease
          /\ router[svc.port] \in Int
      BY <1>1, <2>1, <2>2, <2>6, LeaseHalves DEF TasksTakeTurns, LeaseLeft, LoopType, Forever
    <3>2. router'[svc.port] = router[svc.port] - 1 /\ renewal'.left = renewal.left - 1
      BY <1>1, <1>4, <3>1, LeaseHalves DEF Left
    <3> QED
      BY <3>1, <3>2, LeaseHalves
  <2>7. LeaseLeft'
    BY <1>1, <1>4, <2>1, <2>4, <2>5, <2>6 DEF LeaseLeft
  <2> QED
    BY <2>3, <2>7
<1> QED
  BY <1>1, <1>5, <1>6 DEF PortInv

LEMMA NextPortInv == ASSUME PortInv, [PortNext]_portVars PROVE PortInv'
<1>1. CASE UNCHANGED portVars
  BY <1>1 DEF portVars, PortInv, PortTypeOK, TasksTakeTurns, LeaseLeft
<1> QED
  BY <1>1, StartStep, FailSteps, MapSteps, BootedSteps, WakeStep, AnswerSteps, RenewedStep, NotRenewedStep,
     PausedStep, WatchSteps, StopSteps, TickStep DEF PortNext

(* A service that says it is mapped, and whose last renewal did not fail,  *)
(* is mapped at the port it shows, whatever port the gateway gave and      *)
(* however often renewals failed before (the bootstrap and _renewal_loop of*)
(* upnp_service.py and natpmp_service.py).                                 *)
THEOREM MappedMeansMapped == PortSpec => []MappedIsLive
<1>1. PortInv => MappedIsLive
  <2> SUFFICES ASSUME PortInv, svc.status = "mapped", stop.pc = "no", renewal.fails = 0, renewal.pc # "back"
               PROVE  router[svc.port] # 0
    BY DEF MappedIsLive, Mapped
  <2>1. TasksTakeTurns /\ LeaseLeft /\ svc.port \in Ports /\ renewal \in LoopType /\ boot \in BootType
        /\ proto \in {"upnp", "natpmp"}
    BY DEF PortInv, PortTypeOK, TasksTakeTurns, LoopType, BootType
  <2>2. CASE boot.pc = "back"
    BY <2>1, <2>2, LeaseHalves DEF LeaseLeft
  <2>3. CASE boot.pc = "thread"
    BY <2>1, <2>3 DEF TasksTakeTurns
  <2>4. CASE boot.pc = "none" /\ renewal.pc = "none"
    BY <2>1, <2>4 DEF LeaseLeft, Forever
  <2>5. CASE renewal.pc \in {"sleep", "call"}
    <3>1. router[svc.port] >= Interval /\ router[svc.port] \in Int /\ Interval >= 1 /\ Interval \in Nat
      BY <2>1, <2>5, LeaseHalves DEF LeaseLeft, LoopType, PortInv, PortTypeOK, Forever
    <3> QED
      BY <3>1
  <2> QED
    BY <2>1, <2>2, <2>3, <2>4, <2>5 DEF TasksTakeTurns, LoopType, BootType
<1> QED
  BY InitPortInv, NextPortInv, <1>1, PTL DEF PortSpec

-----------------------------------------------------------------------------
(***************************************************************************)
(* Updates, for one updater and any number of downloads, leftovers and     *)
(* restarts.                                                               *)
(*                                                                         *)
(* Whatever a stream puts at the path of the installer, the file that is   *)
(* offered is the one the checksum was right for: while it is offered the  *)
(* app has its length, so a second click finds it and verifies it again    *)
(* instead of writing it anew; a restart, after which the length is not    *)
(* known, takes the offer back.  Two updaters share that path (README,     *)
(* section 6).                                                             *)
(***************************************************************************)

FetchType == [pc : {"none", "begin", "stream", "verify"}, file : Downloads, sized : BOOLEAN]

(* While a file is offered, it is the right one, and nothing is written.    *)
OfferStands ==
    offers # {} => /\ dest # 0 /\ body[dest] = "good"
                   /\ \A u \in Updaters : fetch[u].pc \in {"none", "verify"}
                   /\ "gui" \in offers => sized

(* The app knows the length of what it downloads, if its download does.     *)
SizeKnown == \A u \in Updaters : u = "gui" /\ fetch[u].sized => sized

InstallInv == UpdatesTypeOK /\ OfferStands /\ SizeKnown

OneUpdater == \A u, v \in Updaters : u = v
-----------------------------------------------------------------------------
LEMMA InitInstallInv == UpdatesInit => InstallInv
<1> SUFFICES ASSUME UpdatesInit PROVE InstallInv
  OBVIOUS
<1>1. NoFetch \in FetchType /\ NoFetch.sized = FALSE /\ 0 \in Releases
  BY UpdateAssumption DEF NoFetch, FetchType, Downloads, Releases
<1> HIDE DEF NoFetch
<1>2. UpdatesTypeOK
  <2>1. /\ fetch \in [Updaters -> FetchType] /\ published \in Releases /\ latest \in Releases
        /\ partial \in Downloads /\ dest \in Downloads
    BY <1>1, UpdateAssumption DEF UpdatesInit, Downloads
  <2>2. /\ checking \in [pc : {"none", "fetch", "clear", "end"}, got : Releases]
        /\ setting \in [cached : Releases, dismissed : Releases, fresh : BOOLEAN]
        /\ banner \in [shows : Releases, seen : SUBSET Releases]
    BY <1>1 DEF UpdatesInit
  <2> QED
    BY <2>1, <2>2 DEF UpdatesInit, UpdatesTypeOK, FetchType
<1> QED
  BY <1>1, <1>2 DEF UpdatesInit, InstallInv, OfferStands, SizeKnown

(* The check, the banner and the dismissal touch no download, and take no    *)
(* length away.                                                              *)
LEMMA CheckSteps ==
    ASSUME InstallInv,
           Publish \/ CheckAges \/ CheckNow \/ MaybeCheck \/ FetchLatest \/ ClearDismissal \/ CheckEnds
           \/ RefreshBanner \/ DismissCurrent
    PROVE  InstallInv'
<1>1. UNCHANGED fetchVars /\ (sized => sized')
  BY DEF Publish, CheckAges, CheckNow, MaybeCheck, FetchLatest, ClearDismissal, CheckEnds, RefreshBanner,
         DismissCurrent
<1>2. UpdatesTypeOK'
  <2> USE UpdateAssumption DEF InstallInv, UpdatesTypeOK, Releases
  <2>1. CASE Publish
    BY <1>1, <2>1 DEF Publish, fetchVars
  <2>2. CASE CheckAges
    BY <1>1, <2>2 DEF CheckAges, fetchVars
  <2>3. CASE CheckNow \/ MaybeCheck
    BY <1>1, <2>3 DEF CheckNow, MaybeCheck, fetchVars
  <2>4. CASE FetchLatest
    <3>1. CASE checking' = [pc |-> "end", got |-> 0] /\ UNCHANGED <<latest, sized, setting>>
      BY <1>1, <2>4, <3>1 DEF FetchLatest, fetchVars
    <3>2. CASE /\ latest' = published /\ sized' = TRUE
               /\ setting' = [setting EXCEPT !.cached = published, !.fresh = TRUE]
               /\ checking' = [pc |-> "clear", got |-> published]
      BY <1>1, <2>4, <3>2 DEF FetchLatest, fetchVars
    <3> QED
      BY <2>4, <3>1, <3>2 DEF FetchLatest
  <2>5. CASE ClearDismissal
    BY <1>1, <2>5 DEF ClearDismissal, fetchVars
  <2>6. CASE CheckEnds
    BY <1>1, <2>6 DEF CheckEnds, fetchVars
  <2>7. CASE RefreshBanner
    BY <1>1, <2>7 DEF RefreshBanner, fetchVars
  <2>8. CASE DismissCurrent
    BY <1>1, <2>8 DEF DismissCurrent, fetchVars
  <2> QED
    BY <2>1, <2>2, <2>3, <2>4, <2>5, <2>6, <2>7, <2>8
<1> QED
  <2>1. OfferStands' /\ SizeKnown'
    BY <1>1 DEF InstallInv, OfferStands, SizeKnown, fetchVars
  <2> QED
    BY <1>2, <2>1 DEF InstallInv

(* The app restarts: its offer is gone.                                      *)
LEMMA RestoreStep == ASSUME InstallInv, OneUpdater, RestoreCached PROVE InstallInv'
<1>1. NoFetch \in FetchType /\ NoFetch.sized = FALSE /\ NoFetch.pc = "none"
  BY UpdateAssumption DEF NoFetch, FetchType, Downloads
<1>2. /\ fetch' = [u \in Updaters |-> IF u = "gui" THEN NoFetch ELSE fetch[u]] /\ offers' = offers \ {"gui"}
      /\ UNCHANGED <<published, setting, body, partial, dest>> /\ sized' = FALSE /\ latest' = setting.cached
      /\ checking' = [pc |-> "none", got |-> 0] /\ banner' = [banner EXCEPT !.shows = 0]
  BY DEF RestoreCached
<1> HIDE DEF NoFetch
<1>3. UpdatesTypeOK'
  <2>1. fetch' \in [Updaters -> FetchType] /\ offers' \subseteq Updaters
    BY <1>1, <1>2 DEF InstallInv, UpdatesTypeOK, FetchType
  <2>2. /\ latest' \in Releases /\ checking' \in [pc : {"none", "fetch", "clear", "end"}, got : Releases]
        /\ banner' \in [shows : Releases, seen : SUBSET Releases]
    BY <1>2, UpdateAssumption DEF InstallInv, UpdatesTypeOK, Releases
  <2> QED
    BY <1>2, <2>1, <2>2 DEF InstallInv, UpdatesTypeOK, FetchType
<1>4. OfferStands' /\ SizeKnown'
  BY <1>1, <1>2 DEF InstallInv, UpdatesTypeOK, OfferStands, SizeKnown
<1> QED
  BY <1>3, <1>4 DEF InstallInv

(* A step of the downloads that leaves the app's release as it is and every  *)
(* variable of its type.                                                     *)
LEMMA FetchTypes ==
    ASSUME InstallInv, UNCHANGED checkVars,
           fetch' \in [Updaters -> FetchType], offers' \subseteq Updaters,
           body' \in [1 .. MaxDownloads -> {"none", "part", "bad", "good"}],
           partial' \in Downloads, dest' \in Downloads
    PROVE  UpdatesTypeOK'
BY DEF InstallInv, UpdatesTypeOK, FetchType, checkVars

(* What is offered is found by a second click, not written anew.             *)
LEMMA BeginStep == ASSUME InstallInv, OneUpdater, NEW u \in Updaters, BeginDownload(u) PROVE InstallInv'
<1>1. /\ fetch \in [Updaters -> FetchType] /\ UNCHANGED <<body, partial, dest, checkVars>> /\ UNCHANGED offers
      /\ offers \subseteq Updaters /\ 0 \in Downloads /\ sized \in BOOLEAN
  BY UpdateAssumption DEF InstallInv, UpdatesTypeOK, FetchType, BeginDownload, Reuse, Downloads
<1>2. PICK pc \in {"begin", "verify"}, s \in BOOLEAN :
         /\ fetch' = [fetch EXCEPT ![u] = [pc |-> pc, file |-> 0, sized |-> s]]
         /\ offers # {} => pc = "verify"
         /\ u = "gui" /\ s => sized
  <2>1. CASE (u = "gui" => sized) /\ Whole(dest) /\ Reuse(u)
    BY <2>1, <1>1 DEF Reuse
  <2>2. CASE /\ (u = "gui" => sized) => dest = 0 \/ body[dest] # "good"
             /\ fetch' = [fetch EXCEPT ![u] = [pc |-> "begin", file |-> 0, sized |-> (u = "gui" => sized)]]
    <3>1. offers # {} => u \in offers
      BY <1>1 DEF OneUpdater
    <3>2. offers = {}
      BY <2>2, <3>1 DEF InstallInv, OfferStands, BeginDownload
    <3> QED
      BY <2>2, <3>2, <1>1
  <2> QED
    BY <2>1, <2>2 DEF BeginDownload
<1>3. /\ fetch' \in [Updaters -> FetchType] /\ fetch'[u].pc = pc /\ fetch'[u].sized = s
      /\ \A v \in Updaters : v # u => fetch'[v] = fetch[v]
  BY <1>1, <1>2 DEF FetchType
<1>4. UpdatesTypeOK'
  BY <1>1, <1>3, FetchTypes DEF InstallInv, UpdatesTypeOK
<1>5. OfferStands' /\ SizeKnown'
  BY <1>1, <1>2, <1>3 DEF InstallInv, OfferStands, SizeKnown, checkVars
<1> QED
  BY <1>4, <1>5 DEF InstallInv

(* Nothing is offered while a file is opened, written or put in place.       *)
LEMMA StreamSteps ==
    ASSUME InstallInv, NEW u \in Updaters, OpenPartial(u) \/ StreamEnds(u) \/ StreamFails(u)
    PROVE  InstallInv'
<1>1. /\ fetch \in [Updaters -> FetchType] /\ offers \subseteq Updaters /\ UNCHANGED <<offers, checkVars>>
      /\ body \in [1 .. MaxDownloads -> {"none", "part", "bad", "good"}]
      /\ partial \in Downloads /\ dest \in Downloads /\ 0 \in Downloads
      /\ NoFetch \in FetchType /\ NoFetch.sized = FALSE /\ fetch[u] \in FetchType /\ fetch[u].pc \in {"begin", "stream"}
  BY UpdateAssumption DEF InstallInv, UpdatesTypeOK, FetchType, Downloads, OpenPartial, StreamEnds, StreamFails, NoFetch
<1>2. offers = {}
  BY <1>1 DEF InstallInv, OfferStands
<1>3. /\ fetch' \in [Updaters -> FetchType] /\ body' \in [1 .. MaxDownloads -> {"none", "part", "bad", "good"}]
      /\ partial' \in Downloads /\ dest' \in Downloads
      /\ \A v \in Updaters : fetch'[v].sized => fetch[v].sized
  <2>1. CASE OpenPartial(u)
    <3>1. PICK n \in 1 .. MaxDownloads :
             /\ body' = [body EXCEPT ![n] = "part"] /\ partial' = n
             /\ fetch' = [fetch EXCEPT ![u].pc = "stream", ![u].file = n]
      BY <2>1 DEF OpenPartial
    <3>2. n \in Downloads
      BY UpdateAssumption DEF Downloads
    <3> QED
      BY <2>1, <3>1, <3>2, <1>1 DEF OpenPartial, FetchType
  <2>2. CASE StreamEnds(u)
    <3>1. PICK received \in {"good", "bad", "part"}, placed \in BOOLEAN :
             /\ body' = [body EXCEPT ![fetch[u].file] = received]
             /\ dest' = IF placed THEN partial ELSE dest
             /\ fetch' = [fetch EXCEPT ![u] = IF placed THEN [@ EXCEPT !.pc = "verify", !.file = 0] ELSE NoFetch]
      BY <2>2 DEF StreamEnds
    <3>2. /\ [fetch[u] EXCEPT !.pc = "verify", !.file = 0] \in FetchType
          /\ [fetch[u] EXCEPT !.pc = "verify", !.file = 0].sized = fetch[u].sized
      BY <1>1 DEF FetchType
    <3> HIDE DEF NoFetch
    <3> QED
      BY <2>2, <3>1, <3>2, <1>1 DEF StreamEnds
  <2>3. CASE StreamFails(u)
    BY <2>3, <1>1 DEF StreamFails
  <2> QED
    BY <2>1, <2>2, <2>3
<1>4. UpdatesTypeOK'
  BY <1>1, <1>3, FetchTypes
<1> QED
  BY <1>1, <1>2, <1>3, <1>4 DEF InstallInv, OfferStands, SizeKnown, checkVars

(* Only what the checksum is right for is offered, and only what it is wrong *)
(* for removed.                                                              *)
LEMMA ChecksumStep == ASSUME InstallInv, OneUpdater, NEW u \in Updaters, VerifyDownload(u) PROVE InstallInv'
<1>1. /\ fetch \in [Updaters -> FetchType] /\ offers \subseteq Updaters /\ 0 \in Downloads /\ dest \in Downloads
      /\ NoFetch \in FetchType /\ NoFetch.pc = "none" /\ NoFetch.sized = FALSE
      /\ fetch' = [fetch EXCEPT ![u] = NoFetch] /\ UNCHANGED <<body, partial, checkVars>>
  BY UpdateAssumption DEF InstallInv, UpdatesTypeOK, FetchType, Downloads, VerifyDownload, NoFetch
<1> HIDE DEF NoFetch
<1>2. /\ fetch' \in [Updaters -> FetchType]
      /\ \A v \in Updaters : fetch'[v].pc \in {"none", "verify"} /\ fetch'[v].sized = FALSE
  BY <1>1 DEF OneUpdater
<1>3. CASE fetch[u].sized /\ dest # 0 /\ body[dest] = "good" /\ offers' = offers \cup {u} /\ UNCHANGED dest
  <2>1. UpdatesTypeOK'
    BY <1>1, <1>2, <1>3, FetchTypes DEF InstallInv, UpdatesTypeOK
  <2>2. OfferStands' /\ SizeKnown'
    BY <1>1, <1>2, <1>3 DEF InstallInv, OfferStands, SizeKnown, checkVars
  <2> QED
    BY <2>1, <2>2 DEF InstallInv
<1>4. CASE fetch[u].sized /\ dest # 0 /\ body[dest] # "good" /\ dest' = 0 /\ UNCHANGED offers
  <2>1. UpdatesTypeOK'
    BY <1>1, <1>2, <1>4, FetchTypes DEF InstallInv, UpdatesTypeOK
  <2>2. OfferStands' /\ SizeKnown'
    BY <1>1, <1>2, <1>4 DEF InstallInv, OfferStands, SizeKnown, checkVars
  <2> QED
    BY <2>1, <2>2 DEF InstallInv
<1>5. CASE UNCHANGED <<dest, offers>>
  <2>1. UpdatesTypeOK'
    BY <1>1, <1>2, <1>5, FetchTypes DEF InstallInv, UpdatesTypeOK
  <2>2. OfferStands' /\ SizeKnown'
    BY <1>1, <1>2, <1>5 DEF InstallInv, OfferStands, SizeKnown, checkVars
  <2> QED
    BY <2>1, <2>2 DEF InstallInv
<1> QED
  BY <1>3, <1>4, <1>5 DEF VerifyDownload

(* The offer is answered, or a leftover removed.                             *)
LEMMA LaunchAndCleanup ==
    ASSUME InstallInv, offers' \subseteq offers, partial' \in {0, partial},
           UNCHANGED <<body, dest, fetch, checkVars>>
    PROVE  InstallInv'
<1>1. UpdatesTypeOK'
  BY UpdateAssumption DEF InstallInv, UpdatesTypeOK, Downloads, checkVars
<1> QED
  BY <1>1 DEF InstallInv, OfferStands, SizeKnown, checkVars

LEMMA NextInstallInv ==
    ASSUME InstallInv, OneUpdater, [UpdatesNext]_updateVars PROVE InstallInv'
<1>1. CASE UNCHANGED updateVars
  BY <1>1 DEF updateVars, InstallInv, UpdatesTypeOK, OfferStands, SizeKnown
<1>2. CASE CleanupPartial
  BY <1>2, LaunchAndCleanup DEF CleanupPartial
<1>3. ASSUME NEW u \in Updaters, LaunchInstaller(u) PROVE InstallInv'
  BY <1>3, LaunchAndCleanup DEF LaunchInstaller
<1> QED
  BY <1>1, <1>2, <1>3, CheckSteps, RestoreStep, BeginStep, StreamSteps, ChecksumStep DEF UpdatesNext

(* With one updater, while the user is asked to install a file, the file of  *)
(* that name is the one whose checksum was right, through short and wrong     *)
(* downloads, checksums that cannot be had, restarts and second clicks        *)
(* (UpdateService.download, verify_sha256).                                   *)
THEOREM OfferIsVerified == OneUpdater => (UpdatesSpec => []OfferedIsVerified)
<1> SUFFICES ASSUME OneUpdater PROVE UpdatesSpec => []OfferedIsVerified
  OBVIOUS
<1>1. InstallInv => OfferedIsVerified
  BY DEF InstallInv, OfferStands, OfferedIsVerified
<1> QED
  BY <1>1, InitInstallInv, NextInstallInv, PTL DEF UpdatesSpec

-----------------------------------------------------------------------------
(***************************************************************************)
(* SettingsFile, for any choice of writers and any number of values, where *)
(* the file can be locked and read.                                        *)
(*                                                                         *)
(* What a writer read must still be in the file when it replaces it. That  *)
(* holds because only the holder of the lock is between the two.           *)
(***************************************************************************)

(* A writer that reads or replaces has the lock, and what it has read is    *)
(* what the file says.                                                      *)
HolderWrites == \A p \in Writers : writing[p].pc \in {"read", "replace"} => flocked = p
ReadIsCurrent == \A p \in Writers : writing[p].pc = "replace" => writing[p].data = json
FileInv == SettingsFileTypeOK /\ unread = {} /\ HolderWrites /\ ReadIsCurrent

(* A system with flock, and a file that everybody may read.                 *)
Lockable == SettingsEnv \subseteq {"crash"}

Jobs == [pc : {"off", "key", "populate", "up", "lock", "read", "replace"},
         updates : Settings, data : Settings, next : {"off", "populate", "up"}]
-----------------------------------------------------------------------------
LEMMA ValuesType ==
    /\ 0 \in Value /\ Default \in Value /\ Blank \in Settings /\ Off \in Jobs
    /\ \A n \in Value : n < MaxValues => n + 1 \in Value
    /\ \A s \in Settings, k \in Options, n \in Value : [s EXCEPT ![k] = n] \in Settings
BY SettingsFileAssumption DEF Value, Default, Blank, Settings, Off, Jobs

LEMMA MergedType ==
    ASSUME NEW a \in Settings, NEW b \in Settings
    PROVE  Loaded(a, b) \in Settings /\ Merged(a, b) \in Settings
BY DEF Loaded, Merged, Settings

LEMMA InitFileInv == Lockable /\ SettingsFileInit => FileInv
BY ValuesType DEF Lockable, SettingsFileInit, FileInv, SettingsFileTypeOK, HolderWrites, ReadIsCurrent,
                  Jobs, Off

(* The steps that touch neither the file nor the lock, and take their writer *)
(* anywhere but between the read and the replacement.                        *)
LEMMA OutsideStep ==
    ASSUME FileInv, NEW p \in Writers, NEW w \in Jobs, w.pc \notin {"read", "replace"},
           writing' = [writing EXCEPT ![p] = w], UNCHANGED <<json, unread, flocked>>,
           environ' \in [Writers -> Settings], valuesMade' \in Value
    PROVE  FileInv'
<1>1. SettingsFileTypeOK'
  BY DEF FileInv, SettingsFileTypeOK, Jobs
<1>2. \A q \in Writers : writing'[q] = IF q = p THEN w ELSE writing[q]
  BY DEF FileInv, SettingsFileTypeOK
<1> QED
  BY <1>1, <1>2 DEF FileInv, HolderWrites, ReadIsCurrent

LEMMA OutsideActions ==
    ASSUME Lockable, FileInv, NEW p \in Writers,
           \/ Launch(p) \/ GenerateKey(p) \/ HasKey(p) \/ PopulateDefaults(p)
           \/ GetAgain(p) \/ SaveConfig(p) \/ SwitchSetting(p) \/ SetApiKey(p)
    PROVE  FileInv'
<1>1. /\ writing[p] \in Jobs /\ environ \in [Writers -> Settings] /\ json \in Settings
      /\ valuesMade \in Value /\ writing \in [Writers -> Jobs]
  BY DEF FileInv, SettingsFileTypeOK, Jobs
<1>2. ASSUME NEW pc \in {"off", "key", "populate", "up"}
      PROVE  /\ [writing[p] EXCEPT !.pc = pc] \in Jobs
             /\ [writing[p] EXCEPT !.pc = pc].pc \notin {"read", "replace"}
             /\ [writing EXCEPT ![p].pc = pc] = [writing EXCEPT ![p] = [writing[p] EXCEPT !.pc = pc]]
  BY <1>1 DEF Jobs
<1>3. ASSUME NEW u \in Settings, NEW next \in {"populate", "up"}, UpdateFile(p, u, next),
             UNCHANGED <<json, unread, environ, flocked>>, valuesMade' \in Value
      PROVE  FileInv'
  <2> DEFINE w == [pc |-> "lock", updates |-> u, data |-> Blank, next |-> next]
  <2>1. w \in Jobs /\ w.pc = "lock"
    BY ValuesType DEF Jobs
  <2>2. writing' = [writing EXCEPT ![p] = w]
    BY <1>3 DEF UpdateFile
  <2> HIDE DEF w
  <2> QED
    BY <1>1, <1>3, <2>1, <2>2, OutsideStep
<1>4. CASE Launch(p)
  <2>1. PICK env \in Inherited(p) :
           environ' = [environ EXCEPT ![p] = IF p \in unread THEN env ELSE Loaded(env, json)]
    BY <1>4 DEF Launch
  <2>2. env \in Settings
    BY <2>1, <1>1, ValuesType DEF Inherited
  <2>3. environ' \in [Writers -> Settings]
    BY <1>1, <2>1, <2>2, MergedType
  <2> QED
    BY <1>1, <1>2, <1>4, <2>3, OutsideStep DEF Launch
<1>5. CASE HasKey(p) \/ GetAgain(p)
  BY <1>1, <1>2, <1>5, OutsideStep DEF HasKey, GetAgain
<1>6. CASE PopulateDefaults(p)
  <2>1. Missing(p) \in Settings
    BY <1>1, ValuesType DEF Missing, Settings
  <2>2. CASE Missing(p) = Blank
    BY <1>1, <1>2, <1>6, <2>2, OutsideStep DEF PopulateDefaults
  <2>3. CASE Missing(p) # Blank
    BY <1>1, <1>3, <1>6, <2>1, <2>3 DEF PopulateDefaults
  <2> QED
    BY <2>2, <2>3
<1>7. CASE GenerateKey(p)
  BY <1>1, <1>3, <1>7, ValuesType DEF GenerateKey, Options
<1>8. ASSUME NEW k \in Options, Choose(p, k) PROVE FileInv'
  BY <1>1, <1>3, <1>8, ValuesType DEF Choose
<1> QED
  BY <1>4, <1>5, <1>6, <1>7, <1>8 DEF SaveConfig, SwitchSetting, SetApiKey, Options

LEMMA FileLockStep ==
    ASSUME Lockable, FileInv, NEW p \in Writers, LockFile(p)
    PROVE  FileInv'
<1>1. flocked = "none" /\ flocked' = p /\ writing[p].pc = "lock"
  BY DEF LockFile, FileLockFree, Lockable
<1>2. "none" \notin Writers
  BY SettingsFileAssumption
<1>3. \A q \in Writers : writing[q].pc \notin {"read", "replace"}
  BY <1>1, <1>2 DEF FileInv, HolderWrites
<1> QED
  BY <1>1, <1>3 DEF LockFile, FileInv, SettingsFileTypeOK, HolderWrites, ReadIsCurrent

LEMMA ReadStep ==
    ASSUME FileInv, NEW p \in Writers, ReadFile(p)
    PROVE  FileInv'
<1>1. /\ writing' = [writing EXCEPT ![p].pc = "replace", ![p].data = json]
      /\ UNCHANGED <<json, unread, flocked, valuesMade>>
      /\ environ' = [environ EXCEPT ![p] = Merged(environ[p], writing[p].updates)]
      /\ flocked = p
  BY DEF ReadFile, FileInv, HolderWrites
<1>2. environ' \in [Writers -> Settings]
  BY <1>1, MergedType DEF FileInv, SettingsFileTypeOK
<1>3. writing \in [Writers -> Jobs] /\ json \in Settings
  BY DEF FileInv, SettingsFileTypeOK, Jobs
<1> DEFINE w == [writing[p] EXCEPT !.pc = "replace", !.data = json]
<1>4. w \in Jobs /\ w.pc = "replace" /\ w.data = json
  BY <1>3 DEF Jobs
<1>5. writing' = [writing EXCEPT ![p] = w]
  BY <1>1
<1> HIDE DEF w
<1>6. writing' \in [Writers -> Jobs] /\ \A q \in Writers : writing'[q] = IF q = p THEN w ELSE writing[q]
  BY <1>3, <1>4, <1>5
<1>7. SettingsFileTypeOK'
  BY <1>1, <1>2, <1>6 DEF FileInv, SettingsFileTypeOK, Jobs
<1> QED
  BY <1>1, <1>4, <1>6, <1>7 DEF FileInv, HolderWrites, ReadIsCurrent

LEMMA ReplaceStep ==
    ASSUME Lockable, FileInv, NEW p \in Writers, ReplaceFile(p)
    PROVE  FileInv' /\ json' = Merged(json, writing[p].updates)
<1>1. /\ writing[p].pc = "replace" /\ flocked = p /\ flocked' = "none"
      /\ json' = Merged(json, writing[p].updates) /\ unread' = {}
      /\ writing' = [writing EXCEPT ![p] = [Off EXCEPT !.pc = writing[p].next]]
      /\ UNCHANGED <<environ, valuesMade>>
  BY DEF ReplaceFile, FileInv, HolderWrites, ReadIsCurrent, Lockable
<1>2. json' \in Settings
  BY <1>1, MergedType DEF FileInv, SettingsFileTypeOK
<1>3. [Off EXCEPT !.pc = writing[p].next] \in Jobs
      /\ [Off EXCEPT !.pc = writing[p].next].pc \notin {"read", "replace"}
  BY ValuesType DEF FileInv, SettingsFileTypeOK, Jobs, Off
<1>4. \A q \in Writers : q # p => writing[q].pc \notin {"read", "replace"}
  BY <1>1 DEF FileInv, HolderWrites
<1> QED
  BY <1>1, <1>2, <1>3, <1>4 DEF FileInv, SettingsFileTypeOK, Jobs, HolderWrites, ReadIsCurrent

LEMMA QuitStep ==
    ASSUME FileInv, NEW p \in Writers, Quit(p)
    PROVE  FileInv'
<1>1. Off \in Jobs /\ Off.pc = "off" /\ Blank \in Settings
  BY ValuesType DEF Off
<1> HIDE DEF Off
<1> QED
  BY <1>1 DEF Quit, FileInv, SettingsFileTypeOK, Jobs, HolderWrites, ReadIsCurrent

LEMMA NextFileInv == Lockable /\ FileInv /\ [SettingsFileNext]_settingsVars => FileInv'
<1> SUFFICES ASSUME Lockable, FileInv, [SettingsFileNext]_settingsVars PROVE FileInv'
  OBVIOUS
<1>1. CASE UNCHANGED settingsVars
  BY <1>1 DEF settingsVars, FileInv, SettingsFileTypeOK, HolderWrites, ReadIsCurrent
<1>2. CASE SettingsFileNext
  BY <1>2, OutsideActions, FileLockStep, ReadStep, ReplaceStep, QuitStep DEF SettingsFileNext
<1> QED
  BY <1>1, <1>2

(* Where the file can be locked and read, a write of one process never       *)
(* loses what another one wrote (update_settings_file under                  *)
(* _settings_file_lock), for any number of processes and values, although    *)
(* each may die at any step and leave the lock to the system.                *)
THEOREM WritersKeepOthers ==
    ASSUME Lockable
    PROVE  SettingsFileSpec => OthersKept
<1>1. SettingsFileInit => FileInv
  BY InitFileInv
<1>2. FileInv /\ [SettingsFileNext]_settingsVars => FileInv'
  BY NextFileInv
<1>3. FileInv /\ [SettingsFileNext]_settingsVars
        => [\A p \in Writers : ReplaceFile(p) =>
              \A k \in Options : writing[p].updates[k] = 0 => json'[k] = json[k]]_settingsVars
  <2> SUFFICES ASSUME FileInv, NEW p \in Writers, ReplaceFile(p), NEW k \in Options,
                      writing[p].updates[k] = 0
               PROVE  json'[k] = json[k]
    OBVIOUS
  <2>1. json' = Merged(json, writing[p].updates)
    BY ReplaceStep
  <2> QED
    BY <2>1 DEF Merged
<1> QED
  BY <1>1, <1>2, <1>3, PTL DEF SettingsFileSpec, OthersKept

-----------------------------------------------------------------------------
(***************************************************************************)
(* Telemetry, for any number of rows, times and restarts, while the        *)
(* watermark in the database can be read.                                  *)
(*                                                                         *)
(* A row is counted once although the watermark is set after the commit    *)
(* that counts: what an aggregation has read ended after the watermark it  *)
(* read, what was counted ended no later, and the two watermarks agree     *)
(* whenever an aggregation begins.                                         *)
(***************************************************************************)

RowType == [pc : {"none", "open", "stamped", "ended", "interrupted", "lost", "deleted"}, at : Times]

(* A row that was counted has ended, no later than the watermark.          *)
CountedBelow ==
    \A r \in Rows : counted[r] # 0 => counted[r] = 1 /\ row[r].pc \in {"ended", "deleted"} /\ row[r].at <= mark.db
(* The watermark in memory is the one in the database, but between the     *)
(* commit of an aggregation and its end.                                   *)
MarksAgree ==
    /\ mark.mem <= mark.db
    /\ fold.pc # "idle" => mark.loaded
    /\ fold.pc \in {"idle", "read"} /\ mark.loaded => mark.mem = mark.db
    /\ fold.pc = "committed" => mark.db = fold.upto
(* What an aggregation has read ended after the watermark, and no later    *)
(* than the one it will set.                                               *)
ReadAbove ==
    fold.pc = "read" =>
        /\ mark.db < fold.upto
        /\ \A r \in fold.rows : row[r].pc = "ended" /\ mark.db < row[r].at /\ row[r].at <= fold.upto

CountInv == TelemetryTypeOK /\ CountedBelow /\ MarksAgree /\ ReadAbove
-----------------------------------------------------------------------------
LEMMA InitCountInv == TelemetryInit => CountInv
BY TelemetryAssumption
   DEF TelemetryInit, CountInv, TelemetryTypeOK, CountedBelow, MarksAgree, ReadAbove, Times, NoFold

(* A row changes before it has ended, or after the watermark in memory has *)
(* passed it.                                                              *)
LEMMA RowStep ==
    ASSUME CountInv, NEW r \in Rows, NEW e \in RowType, row' = [row EXCEPT ![r] = e],
           e.at = row[r].at \/ row[r].pc = "open",
           \/ row[r].pc \notin {"ended", "deleted"}
           \/ fold.pc = "idle" /\ e.pc = "deleted",
           now' \in 1 .. MaxTime + 1, UNCHANGED <<mark, fold, counted, lives>>
    PROVE  CountInv'
<1>1. row \in [Rows -> RowType] /\ row' \in [Rows -> RowType]
      /\ \A q \in Rows : row'[q] = IF q = r THEN e ELSE row[q]
  BY DEF CountInv, TelemetryTypeOK, RowType
<1>2. TelemetryTypeOK'
  BY <1>1 DEF CountInv, TelemetryTypeOK, RowType
<1>3. CountedBelow'
  BY <1>1 DEF CountInv, CountedBelow
<1>4. MarksAgree'
  BY DEF CountInv, MarksAgree
<1>5. ReadAbove'
  BY <1>1 DEF CountInv, TelemetryTypeOK, ReadAbove
<1> QED
  BY <1>2, <1>3, <1>4, <1>5 DEF CountInv

LEMMA RowActions ==
    ASSUME CountInv, NEW r \in Rows,
           RecordStart(r) \/ StampEnd(r) \/ CommitEnd(r) \/ Interrupt(r)
    PROVE  CountInv'
<1>1. row[r] \in RowType /\ row \in [Rows -> RowType] /\ now \in 1 .. MaxTime + 1
      /\ UNCHANGED <<mark, fold, counted, lives>> /\ MaxTime \in Nat
  BY TelemetryAssumption DEF CountInv, TelemetryTypeOK, RowType, RecordStart, StampEnd, CommitEnd, Interrupt
<1>2. CASE RecordStart(r)
  <2> DEFINE e == [row[r] EXCEPT !.pc = "open"]
  <2>1. e \in RowType /\ e.at = row[r].at
    BY <1>1 DEF RowType
  <2>2. row' = [row EXCEPT ![r] = e] /\ row[r].pc = "none" /\ now' = now
    BY <1>2 DEF RecordStart
  <2> QED
    BY <1>1, <2>1, <2>2, RowStep
<1>3. CASE StampEnd(r)
  <2> DEFINE e == [pc |-> "stamped", at |-> now]
  <2>1. e \in RowType /\ now' \in 1 .. MaxTime + 1
    BY <1>1, <1>3 DEF RowType, Times, StampEnd
  <2>2. row' = [row EXCEPT ![r] = e] /\ row[r].pc = "open"
    BY <1>3 DEF StampEnd
  <2> QED
    BY <1>1, <2>1, <2>2, RowStep
<1>4. CASE CommitEnd(r)
  <2>1. PICK pc \in {"ended", "lost"} : row' = [row EXCEPT ![r].pc = pc]
    BY <1>4 DEF CommitEnd
  <2> DEFINE e == [row[r] EXCEPT !.pc = pc]
  <2>2. e \in RowType /\ e.at = row[r].at
    BY <1>1 DEF RowType
  <2>3. row' = [row EXCEPT ![r] = e] /\ row[r].pc = "stamped" /\ now' = now
    BY <1>4, <2>1 DEF CommitEnd
  <2> QED
    BY <1>1, <2>2, <2>3, RowStep
<1>5. CASE Interrupt(r)
  <2> DEFINE e == [row[r] EXCEPT !.pc = "interrupted"]
  <2>1. e \in RowType /\ e.at = row[r].at
    BY <1>1 DEF RowType
  <2>2. row' = [row EXCEPT ![r] = e] /\ row[r].pc = "open" /\ now' = now
    BY <1>5 DEF Interrupt
  <2> QED
    BY <1>1, <2>1, <2>2, RowStep
<1> QED
  BY <1>2, <1>3, <1>4, <1>5

LEMMA CleanUpStep == ASSUME CountInv, CleanUp PROVE CountInv'
<1>1. PICK r \in Rows : row[r].pc = "ended" /\ row' = [row EXCEPT ![r].pc = "deleted"]
  BY DEF CleanUp
<1> DEFINE e == [row[r] EXCEPT !.pc = "deleted"]
<1>2. row[r] \in RowType
  BY DEF CountInv, TelemetryTypeOK, RowType
<1>3. e \in RowType /\ e.at = row[r].at /\ e.pc = "deleted"
  BY <1>2 DEF RowType
<1>4. row' = [row EXCEPT ![r] = e] /\ now' \in 1 .. MaxTime + 1 /\ fold.pc = "idle"
      /\ UNCHANGED <<mark, fold, counted, lives>>
  BY <1>1 DEF CleanUp, CountInv, TelemetryTypeOK
<1> QED
  BY <1>3, <1>4, RowStep

(* The watermark an aggregation will set bounds what it has read.          *)
LEMMA ReadBound ==
    ASSUME TelemetryTypeOK, Fresh # {}
    PROVE  LET upto == Max({row[r].at : r \in Fresh})
           IN  upto \in Times /\ mark.mem < upto /\ \A r \in Fresh : row[r].at <= upto
<1> DEFINE S == {row[r].at : r \in Fresh}
<1>1. S \subseteq Times /\ S # {} /\ \A n \in S : mark.mem < n
  BY DEF TelemetryTypeOK, Fresh
<1>2. IsFiniteSet(S) /\ S \subseteq Nat
  <2>1. IsFiniteSet(Times) /\ Times \subseteq Nat
    BY TelemetryAssumption, FS_Interval DEF Times
  <2> QED
    BY <1>1, <2>1, FS_Subset
<1>3. Max(S) \in S /\ \A n \in S : n <= Max(S)
  BY <1>1, <1>2, MaxProperties
<1> QED
  BY <1>1, <1>3

LEMMA AggregationSteps ==
    ASSUME CountInv, "badload" \notin TelemetryEnv,
           LoadWatermark \/ AggregateReads \/ AggregateCommits \/ AggregateDone
    PROVE  CountInv'
<1>1. CASE LoadWatermark
  <2>1. /\ mark'.mem = mark.db /\ mark'.loaded /\ mark'.db = mark.db
        /\ mark' \in [mem : Times, loaded : BOOLEAN, db : Times]
        /\ fold.pc = "idle" /\ UNCHANGED <<row, now, fold, counted, lives>>
    BY <1>1 DEF LoadWatermark, CountInv, TelemetryTypeOK
  <2>2. TelemetryTypeOK' /\ CountedBelow' /\ ReadAbove'
    BY <2>1 DEF CountInv, TelemetryTypeOK, CountedBelow, ReadAbove
  <2>3. MarksAgree'
    BY <2>1, TelemetryAssumption DEF CountInv, TelemetryTypeOK, Times, MarksAgree
  <2> QED
    BY <2>2, <2>3 DEF CountInv
<1>2. CASE AggregateReads
  <2>1. /\ fold'.upto \in Times /\ mark.mem < fold'.upto /\ fold'.rows = Fresh /\ fold'.pc = "read"
        /\ \A r \in Fresh : row[r].at <= fold'.upto
        /\ UNCHANGED <<row, now, mark, counted, lives>> /\ fold.pc = "idle" /\ mark.loaded
        /\ fold' \in [pc : {"idle", "read", "committed"}, rows : SUBSET Rows, upto : Times]
    BY <1>2, ReadBound DEF AggregateReads, CountInv, Fresh
  <2>2. TelemetryTypeOK'
    BY <2>1 DEF CountInv, TelemetryTypeOK
  <2>3. CountedBelow' /\ MarksAgree'
    BY <2>1 DEF CountInv, CountedBelow, MarksAgree
  <2>4. ReadAbove'
    BY <2>1 DEF CountInv, MarksAgree, ReadAbove, Fresh
  <2> QED
    BY <2>2, <2>3, <2>4 DEF CountInv
<1>3. CASE AggregateCommits
  <2>1. CASE fold' = NoFold /\ UNCHANGED <<counted, mark>>
    BY <1>3, <2>1, TelemetryAssumption
       DEF AggregateCommits, NoFold, Times, CountInv, TelemetryTypeOK, CountedBelow, MarksAgree, ReadAbove
  <2>2. CASE /\ counted' = [r \in Rows |-> IF r \in fold.rows THEN counted[r] + 1 ELSE counted[r]]
             /\ mark' = [mark EXCEPT !.db = fold.upto]
             /\ fold' = [fold EXCEPT !.pc = "committed"]
    <3>1. \A r \in fold.rows : counted[r] = 0
      BY <1>3 DEF AggregateCommits, CountInv, TelemetryTypeOK, CountedBelow, ReadAbove, Times
    <3>2. /\ mark'.db = fold.upto /\ mark'.mem = mark.mem /\ mark'.loaded = mark.loaded
          /\ mark' \in [mem : Times, loaded : BOOLEAN, db : Times]
          /\ fold'.pc = "committed" /\ fold'.rows = fold.rows /\ fold'.upto = fold.upto
          /\ fold' \in [pc : {"idle", "read", "committed"}, rows : SUBSET Rows, upto : Times]
          /\ UNCHANGED <<row, now, lives>> /\ fold.pc = "read" /\ mark.db < fold.upto
      BY <1>3, <2>2 DEF AggregateCommits, CountInv, TelemetryTypeOK, ReadAbove
    <3>3. TelemetryTypeOK'
      BY <2>2, <3>1, <3>2 DEF CountInv, TelemetryTypeOK
    <3>4. CountedBelow'
      <4>1. \A r \in Rows : r \in fold.rows => counted'[r] = 1
        BY <2>2, <3>1
      <4>2. \A r \in Rows : r \notin fold.rows => counted'[r] = counted[r]
        BY <2>2
      <4>3. mark.db \in Nat /\ fold.upto \in Nat /\ \A r \in Rows : row[r].at \in Nat
        BY TelemetryAssumption DEF CountInv, TelemetryTypeOK, Times
      <4> QED
        BY <3>2, <4>1, <4>2, <4>3 DEF CountInv, CountedBelow, ReadAbove
    <3>5. MarksAgree' /\ ReadAbove'
      BY <3>2 DEF CountInv, TelemetryTypeOK, Times, MarksAgree, ReadAbove
    <3> QED
      BY <3>3, <3>4, <3>5 DEF CountInv
  <2> QED
    BY <1>3, <2>1, <2>2 DEF AggregateCommits
<1>4. CASE AggregateDone
  BY <1>4, TelemetryAssumption
     DEF AggregateDone, NoFold, Times, CountInv, TelemetryTypeOK, CountedBelow, MarksAgree, ReadAbove
<1> QED
  BY <1>1, <1>2, <1>3, <1>4

LEMMA TelemetryRestarts == ASSUME CountInv, RestartTelemetry PROVE CountInv'
<1>1. /\ row \in [Rows -> RowType] /\ mark \in [mem : Times, loaded : BOOLEAN, db : Times]
      /\ lives' \in 1 .. MaxLives /\ 0 \in Times
  BY TelemetryAssumption DEF CountInv, TelemetryTypeOK, RowType, RestartTelemetry, Times
<1>2. /\ row' \in [Rows -> RowType]
      /\ \A r \in Rows : row'[r].at = row[r].at
                         /\ (row[r].pc \in {"ended", "deleted"} => row'[r].pc = row[r].pc)
  BY <1>1 DEF RestartTelemetry, RowType
<1>3. /\ mark' \in [mem : Times, loaded : BOOLEAN, db : Times]
      /\ mark'.mem = 0 /\ mark'.loaded = FALSE /\ mark'.db = mark.db
      /\ fold'.pc = "idle" /\ fold' \in [pc : {"idle", "read", "committed"}, rows : SUBSET Rows, upto : Times]
      /\ UNCHANGED <<now, counted>>
  BY <1>1 DEF RestartTelemetry, NoFold
<1>4. TelemetryTypeOK'
  BY <1>1, <1>2, <1>3 DEF CountInv, TelemetryTypeOK, RowType
<1>5. CountedBelow'
  BY <1>2, <1>3 DEF CountInv, CountedBelow
<1>6. MarksAgree' /\ ReadAbove'
  BY <1>1, <1>3, TelemetryAssumption DEF Times, MarksAgree, ReadAbove
<1> QED
  BY <1>4, <1>5, <1>6 DEF CountInv

LEMMA NextCountInv ==
    ASSUME CountInv, "badload" \notin TelemetryEnv, [TelemetryNext]_telemetryVars PROVE CountInv'
<1>1. CASE UNCHANGED telemetryVars
  BY <1>1 DEF telemetryVars, CountInv, TelemetryTypeOK, CountedBelow, MarksAgree, ReadAbove
<1> QED
  BY <1>1, RowActions, AggregationSteps, CleanUpStep, TelemetryRestarts DEF TelemetryNext

(* No turn or tool call is added to the buckets twice, and none that did   *)
(* not end, wherever the worker is killed between the read, the commit and *)
(* the watermark (_aggregate_bucket), as long as the start can read the    *)
(* watermark (_load_watermark falls back to the epoch).                    *)
THEOREM CountedAtMostOnce == "badload" \notin TelemetryEnv => (TelemetrySpec => []CountedOnce)
<1> SUFFICES ASSUME "badload" \notin TelemetryEnv PROVE TelemetrySpec => []CountedOnce
  OBVIOUS
<1>1. CountInv => CountedOnce
  BY DEF CountInv, CountedOnce, CountedBelow, MarksAgree, TelemetryTypeOK
<1> QED
  BY <1>1, InitCountInv, NextCountInv, PTL DEF TelemetrySpec

-----------------------------------------------------------------------------
(***************************************************************************)
(* All the parts together (MCServices). Each runs as it does alone: a step *)
(* of the composition is one of a part, or leaves the part where it was.   *)
(* So what was proved of each part holds of the composition, the types of  *)
(* what it keeps among it. Of a pull request they need what its bounds     *)
(* leave: the rows and the drafts are counted, and a comment is posted     *)
(* while there is room for it.                                             *)
(***************************************************************************)

PrBounds ==
    /\ posted \in [Comments -> 0 .. MaxPosts]
    /\ pr.id \in 0 .. MaxRows
    /\ ids \in [pr : 0 .. MaxRows, draft : 0 .. MaxDrafts]
    /\ branch \in {"dirty", "committed", "pushed"} /\ badge \in {"none", "open"}

LEMMA InitPrBounds == PrInit => PrBounds
BY PrAssumption DEF PrInit, PrBounds, NoRow

LEMMA UpsertBounded ==
    ASSUME PrBounds, NEW f, NEW p \in BOOLEAN, Upsert(f, p)
    PROVE  /\ pr'.id \in 0 .. MaxRows
           /\ ids' \in [pr : 0 .. MaxRows, draft : 0 .. MaxDrafts]
<1>1. ids.pr \in 0 .. MaxRows /\ pr.id \in 0 .. MaxRows
  BY DEF PrBounds
<1>2. CASE pr.id = 0
  <2>1. ids.pr < MaxRows /\ pr'.id = ids.pr + 1 /\ ids' = [ids EXCEPT !.pr = ids.pr + 1]
    BY <1>2 DEF Upsert, Upserted
  <2> QED
    BY <1>1, <2>1, PrAssumption DEF PrBounds
<1>3. CASE pr.id # 0
  <2>1. ids' = ids /\ pr' = [pr EXCEPT !.role = IF f.role = "all" THEN pr.role ELSE f.role,
                                       !.state = f.state, !.project = p]
    BY <1>3 DEF Upsert, Upserted
  <2> QED
    BY <1>1, <2>1 DEF PrBounds
<1> QED
  BY <1>2, <1>3

LEMMA NextPrBounds == ASSUME PrInv, PrBounds, [PrNext]_prVars PROVE PrBounds'
<1>1. CASE UNCHANGED <<posted, pr, ids, branch, badge>>
  BY <1>1 DEF PrBounds
<1>2. CASE UNCHANGED prVars
  BY <1>1, <1>2 DEF prVars
<1>3. CASE HubChanges \/ RestartWorker
  BY <1>1, <1>3 DEF HubChanges, RestartWorker
<1>4. ASSUME NEW r \in Requests,
             \/ SyncStart(r) \/ SyncFetch(r) \/ AddComment(r) \/ RemoveComment(r) \/ SubmitReview(r) \/ MergePr(r)
             \/ SelectDraft(r) \/ ReadDraft(r) \/ WriteDraft(r) \/ LoadDraft(r) \/ ClearDraft(r)
             \/ ResyncFetch(r) \/ CallMerge(r) \/ CreatePr(r)
      PROVE  PrBounds'
  BY <1>1, <1>4 DEF SyncStart, SyncFetch, AddComment, RemoveComment, SubmitReview, MergePr, LoadPr, SelectDraft,
                    ReadDraft, WriteDraft, LoadDraft, ClearDraft, ResyncFetch, CallMerge, CreatePr
<1>5. ASSUME NEW r \in Requests, SyncUpsert(r) \/ ResyncUpsert(r) PROVE PrBounds'
  <2>1. UNCHANGED <<posted, branch, badge>> /\ (UNCHANGED <<pr, ids>> \/ \E p \in BOOLEAN : \E f : Upsert(f, p))
    BY <1>5 DEF SyncUpsert, ResyncUpsert
  <2> QED
    BY <1>1, <2>1, UpsertBounded DEF PrBounds
<1>6. ASSUME NEW r \in Requests, SyncPrune(r) PROVE PrBounds'
  BY <1>6, PrAssumption DEF SyncPrune, NoRow, PrBounds
<1>7. ASSUME NEW r \in Requests, SyncAttach(r) \/ AttachCached(r) PROVE PrBounds'
  BY <1>7 DEF SyncAttach, AttachCached, Badged, PrBounds
<1>8. ASSUME NEW r \in Requests, InsertDraft(r) PROVE PrBounds'
  <2>1. UNCHANGED <<posted, pr, branch, badge>>
        /\ (ids' = ids \/ (ids.draft < MaxDrafts /\ ids' = [ids EXCEPT !.draft = ids.draft + 1]))
    BY <1>8 DEF InsertDraft
  <2> QED
    BY <2>1, PrAssumption DEF PrBounds
<1>9. ASSUME NEW r \in Requests, PostReview(r) PROVE PrBounds'
  <2> DEFINE more == [c \in Comments |-> IF c \in Range(req[r].draft.queue) THEN posted[c] + 1 ELSE posted[c]]
  <2>1. \A c \in Range(req[r].draft.queue) : posted[c] < MaxPosts
    BY <1>9 DEF PostReview
  <2>2. UNCHANGED <<pr, ids, branch, badge>> /\ (posted' = posted \/ posted' = more)
    BY <1>9 DEF PostReview, Called
  <2>3. more \in [Comments -> 0 .. MaxPosts]
    BY <2>1, PrAssumption DEF PrBounds
  <2> QED
    BY <2>2, <2>3 DEF PrBounds
<1>10. ASSUME NEW r \in Requests, OpenPr(r) \/ PushBranch(r) PROVE PrBounds'
  BY <1>10 DEF OpenPr, PushBranch, PrBounds
<1>11. ASSUME NEW r \in Requests, CacheOpened(r) PROVE PrBounds'
  <2>1. UNCHANGED <<posted, branch>> /\ badge' = "open" /\ \E p \in BOOLEAN : \E f : Upsert(f, p)
    BY <1>11 DEF CacheOpened, Badged
  <2> QED
    BY <2>1, UpsertBounded DEF PrBounds
<1> QED
  BY <1>2, <1>3, <1>4, <1>5, <1>6, <1>7, <1>8, <1>9, <1>10, <1>11 DEF PrNext

LEMMA PrTypes == ASSUME OneReviewer PROVE PrSpec => []PrTypeOK
<1>1. PrInv /\ PrBounds => PrTypeOK
  <2> SUFFICES ASSUME PrInv, PrBounds PROVE PrTypeOK
    OBVIOUS
  <2>1. draft.id \in 0 .. MaxDrafts
    <3>1. draft.id \in Nat /\ draft.id <= ids.draft
      BY DEF PrInv, PrTyped, DraftType
    <3>2. ids.draft \in 0 .. MaxDrafts
      BY DEF PrBounds
    <3> QED
      BY <3>1, <3>2, PrAssumption
  <2>2. Range(draft.queue) \subseteq Comments
    BY DEF PrInv, PrTyped, DraftType, Range
  <2>3. \A r \in Requests : req[r].got \subseteq PrFound
    BY DEF PrInv, PrTyped, ReqType
  <2>4. told.queued \subseteq Comments /\ told.removed \subseteq Comments
    BY DEF PrInv, PrTyped
  <2>5. pr \in [id : 0 .. MaxRows, role : {"for_me", "created", "all"}, state : {"open", "merged"},
                project : BOOLEAN]
    BY DEF PrInv, PrTyped, PrRoles, PrBounds
  <2> QED
    BY <2>1, <2>2, <2>3, <2>4, <2>5 DEF PrTypeOK, PrInv, PrTyped, PrBounds
<1> QED
  BY <1>1, InitPrInv, PrNextInv, InitPrBounds, NextPrBounds, PTL DEF PrSpec

LEMMA BoardTypes == BoardSpec => []BoardTypeOK
<1>1. BoardInv => BoardTypeOK
  BY DEF BoardInv, BoardTyped, BoardTypeOK, TaskRow, CallType, WorkType, MakerType, JudgeType
<1> QED
  BY <1>1, InitBoardInv, NextBoardInv, PTL DEF BoardSpec

LEMMA ToolTypes == ASSUME "overlap" \notin ToolEnv PROVE ToolSpec => []ToolTypeOK
<1>1. ToolInv => ToolTypeOK
  <2> SUFFICES ASSUME ToolInv PROVE ToolTypeOK
    OBVIOUS
  <2>1. lock \subseteq ToolOps /\ lock = Holding
    BY DEF ToolInv, LockHeld, LockPcs, Holding
  <2>2. Cardinality(lock) <= 1
    <3>1. CASE lock = {}
      BY <3>1, FS_EmptySet
    <3>2. CASE lock # {}
      <4>1. PICK o \in lock : TRUE
        BY <3>2
      <4>2. \A p \in lock : p = o
        BY <4>1 DEF ToolInv, LockHeld
      <4>3. lock = {o}
        BY <4>1, <4>2
      <4> QED
        BY <4>3, FS_Singleton
    <3> QED
      BY <3>1, <3>2
  <2> QED
    BY <2>1, <2>2 DEF ToolInv, ToolTyped, ToolTypeOK, ToolType, DiskType, EntryType, OpType
<1> QED
  BY <1>1, InitToolInv, NextToolInv, PTL DEF ToolSpec

LEMMA PortTypes == PortSpec => []PortTypeOK
<1>1. PortInv => PortTypeOK
  BY DEF PortInv
<1> QED
  BY <1>1, InitPortInv, NextPortInv, PTL DEF PortSpec

LEMMA TelemetryTypes == ASSUME "badload" \notin TelemetryEnv PROVE TelemetrySpec => []TelemetryTypeOK
<1>1. CountInv => TelemetryTypeOK
  BY DEF CountInv
<1> QED
  BY <1>1, InitCountInv, NextCountInv, PTL DEF TelemetrySpec

LEMMA SupervisionTypes == SupervisionSpec => []SupervisionTypeOK
<1>1. SuperviseInv => SupervisionTypeOK
  BY DEF SuperviseInv
<1> QED
  BY <1>1, InitSuperviseInv, NextSuperviseInv, PTL DEF SupervisionSpec

LEMMA PlanTypes == PlanSpec => []PlanTypeOK
<1>1. PlanInv => PlanTypeOK
  BY DEF PlanInv
<1> QED
  BY <1>1, InitPlanInv, NextPlanInv, PTL DEF PlanSpec

LEMMA LoginTypes == LoginSpec => []LoginTypeOK
<1>1. LoginInv => LoginTypeOK
  BY DEF LoginInv
<1> QED
  BY <1>1, InitLoginInv, NextLoginInv, PTL DEF LoginSpec

LEMMA TermTypes == TermSpec => []TermTypeOK
<1>1. TermInv => TermTypeOK
  BY DEF TermInv
<1> QED
  BY <1>1, InitTermInv, NextTermInv, PTL DEF TermSpec

LEMMA SettingsTypes == SettingsSpec => []SettingsTypeOK
<1>1. SettingsInv => SettingsTypeOK
  BY DEF SettingsInv
<1> QED
  BY <1>1, InitSettingsInv, NextSettingsInv, PTL DEF SettingsSpec

LEMMA CatalogTypes == CatalogSpec => []CatalogTypeOK
<1>1. CatalogInv => CatalogTypeOK
  BY DEF CatalogInv
<1> QED
  BY <1>1, InitCatalogInv, NextCatalogInv, PTL DEF CatalogSpec

LEMMA UpdatesTypes == ASSUME OneUpdater PROVE UpdatesSpec => []UpdatesTypeOK
<1>1. InstallInv => UpdatesTypeOK
  BY DEF InstallInv
<1> QED
  BY <1>1, InitInstallInv, NextInstallInv, PTL DEF UpdatesSpec

LEMMA SettingsFileTypes == ASSUME Lockable PROVE SettingsFileSpec => []SettingsFileTypeOK
<1>1. FileInv => SettingsFileTypeOK
  BY DEF FileInv
<1> QED
  BY <1>1, InitFileInv, NextFileInv, PTL DEF SettingsFileSpec

-----------------------------------------------------------------------------
(* A step of every part, which may be one that leaves it where it is.       *)
PartSteps ==
    /\ [PortNext]_portVars /\ [ToolNext]_toolVars /\ [TelemetryNext]_telemetryVars
    /\ [SupervisionNext]_supervisionVars /\ [PrNext]_prVars /\ [BoardNext]_boardVars
    /\ [PlanNext]_planVars /\ [LoginNext]_loginVars /\ [TermNext]_termVars
    /\ [SettingsNext]_cliVars /\ [CatalogNext]_catalogVars /\ [UpdatesNext]_updateVars
    /\ [SettingsFileNext]_settingsVars

LEMMA StepOfParts == ASSUME [Next]_vars PROVE PartSteps
<1>1. CASE UNCHANGED vars
  BY <1>1 DEF vars, PartSteps
<1>2. CASE Only("ports") /\ PortNext
  BY <1>2 DEF Only, Mixes, PartSteps
<1>3. CASE Only("tools") /\ ToolNext
  BY <1>3 DEF Only, Mixes, PartSteps
<1>4. CASE Only("telemetry") /\ TelemetryNext
  BY <1>4 DEF Only, Mixes, PartSteps
<1>5. CASE Only("desktop") /\ SupervisionNext
  BY <1>5 DEF Only, Mixes, PartSteps
<1>6. CASE Only("reviews") /\ PrNext
  BY <1>6 DEF Only, Mixes, PartSteps
<1>7. CASE \E s \in DOMAIN Mixes : Only(s) /\ BoardNext
  BY <1>7 DEF Only, Mixes, PartSteps
<1>8. CASE Only("plans") /\ PlanNext
  BY <1>8 DEF Only, Mixes, PartSteps
<1>9. CASE Only("login") /\ LoginNext
  BY <1>9 DEF Only, Mixes, PartSteps
<1>10. CASE Only("terminals") /\ TermNext
  BY <1>10 DEF Only, Mixes, PartSteps
<1>11. CASE Only("cli") /\ SettingsNext
  BY <1>11 DEF Only, Mixes, PartSteps
<1>12. CASE Only("catalog") /\ CatalogNext
  BY <1>12 DEF Only, Mixes, PartSteps
<1>13. CASE Only("updates") /\ UpdatesNext
  BY <1>13 DEF Only, Mixes, PartSteps
<1>14. CASE Only("settings") /\ SettingsFileNext
  BY <1>14 DEF Only, Mixes, PartSteps
<1> QED
  BY <1>1, <1>2, <1>3, <1>4, <1>5, <1>6, <1>7, <1>8, <1>9, <1>10,
     <1>11, <1>12, <1>13, <1>14 DEF Next

(* What runs of the program are, put together, are runs of each of its parts: the *)
(* dashboard, the router, the terminals and the rest share no state (each     *)
(* module of the sources keeps its own).                                      *)
THEOREM PartsRunAsAlone ==
    Spec => /\ PortSpec /\ ToolSpec /\ TelemetrySpec /\ SupervisionSpec /\ PrSpec /\ BoardSpec /\ PlanSpec
            /\ LoginSpec /\ TermSpec /\ SettingsSpec /\ CatalogSpec /\ UpdatesSpec /\ SettingsFileSpec
<1>1. Init => /\ PortInit /\ ToolInit /\ TelemetryInit /\ SupervisionInit /\ PrInit /\ BoardInit
              /\ PlanInit /\ LoginInit /\ TermInit /\ SettingsInit /\ CatalogInit /\ UpdatesInit
              /\ SettingsFileInit
  BY DEF Init
<1>2. [Next]_vars => PartSteps
  BY StepOfParts
<1>3. Spec => PortSpec
  <2>1. Init => PortInit
    BY <1>1
  <2>2. [Next]_vars => [PortNext]_portVars
    BY <1>2 DEF PartSteps
  <2> QED
    BY <2>1, <2>2, PTL DEF Spec, PortSpec
<1>4. Spec => ToolSpec
  <2>1. Init => ToolInit
    BY <1>1
  <2>2. [Next]_vars => [ToolNext]_toolVars
    BY <1>2 DEF PartSteps
  <2> QED
    BY <2>1, <2>2, PTL DEF Spec, ToolSpec
<1>5. Spec => TelemetrySpec
  <2>1. Init => TelemetryInit
    BY <1>1
  <2>2. [Next]_vars => [TelemetryNext]_telemetryVars
    BY <1>2 DEF PartSteps
  <2> QED
    BY <2>1, <2>2, PTL DEF Spec, TelemetrySpec
<1>6. Spec => SupervisionSpec
  <2>1. Init => SupervisionInit
    BY <1>1
  <2>2. [Next]_vars => [SupervisionNext]_supervisionVars
    BY <1>2 DEF PartSteps
  <2> QED
    BY <2>1, <2>2, PTL DEF Spec, SupervisionSpec
<1>7. Spec => PrSpec
  <2>1. Init => PrInit
    BY <1>1
  <2>2. [Next]_vars => [PrNext]_prVars
    BY <1>2 DEF PartSteps
  <2> QED
    BY <2>1, <2>2, PTL DEF Spec, PrSpec
<1>8. Spec => BoardSpec
  <2>1. Init => BoardInit
    BY <1>1
  <2>2. [Next]_vars => [BoardNext]_boardVars
    BY <1>2 DEF PartSteps
  <2> QED
    BY <2>1, <2>2, PTL DEF Spec, BoardSpec
<1>9. Spec => PlanSpec
  <2>1. Init => PlanInit
    BY <1>1
  <2>2. [Next]_vars => [PlanNext]_planVars
    BY <1>2 DEF PartSteps
  <2> QED
    BY <2>1, <2>2, PTL DEF Spec, PlanSpec
<1>10. Spec => LoginSpec
  <2>1. Init => LoginInit
    BY <1>1
  <2>2. [Next]_vars => [LoginNext]_loginVars
    BY <1>2 DEF PartSteps
  <2> QED
    BY <2>1, <2>2, PTL DEF Spec, LoginSpec
<1>11. Spec => TermSpec
  <2>1. Init => TermInit
    BY <1>1
  <2>2. [Next]_vars => [TermNext]_termVars
    BY <1>2 DEF PartSteps
  <2> QED
    BY <2>1, <2>2, PTL DEF Spec, TermSpec
<1>12. Spec => SettingsSpec
  <2>1. Init => SettingsInit
    BY <1>1
  <2>2. [Next]_vars => [SettingsNext]_cliVars
    BY <1>2 DEF PartSteps
  <2> QED
    BY <2>1, <2>2, PTL DEF Spec, SettingsSpec
<1>13. Spec => CatalogSpec
  <2>1. Init => CatalogInit
    BY <1>1
  <2>2. [Next]_vars => [CatalogNext]_catalogVars
    BY <1>2 DEF PartSteps
  <2> QED
    BY <2>1, <2>2, PTL DEF Spec, CatalogSpec
<1>14. Spec => UpdatesSpec
  <2>1. Init => UpdatesInit
    BY <1>1
  <2>2. [Next]_vars => [UpdatesNext]_updateVars
    BY <1>2 DEF PartSteps
  <2> QED
    BY <2>1, <2>2, PTL DEF Spec, UpdatesSpec
<1>15. Spec => SettingsFileSpec
  <2>1. Init => SettingsFileInit
    BY <1>1
  <2>2. [Next]_vars => [SettingsFileNext]_settingsVars
    BY <1>2 DEF PartSteps
  <2> QED
    BY <2>1, <2>2, PTL DEF Spec, SettingsFileSpec
<1> QED
  BY <1>3, <1>4, <1>5, <1>6, <1>7, <1>8, <1>9, <1>10, <1>11, <1>12, <1>13, <1>14, <1>15

(* What the theorems of the parts assume: no uninstall overlaps an install, *)
(* the start reads the watermark, one reviewer and one updater run at once,  *)
(* and the settings file can be locked and read.                             *)
PartsAssumed ==
    /\ "overlap" \notin ToolEnv /\ "badload" \notin TelemetryEnv
    /\ OneReviewer /\ OneUpdater /\ Lockable

(* Of all the parts that share no state, whichever runs, what it keeps has  *)
(* its type: the records of the router, of the tools, of the dashboards, of  *)
(* the board, of the reviews, of the terminals and of the others.            *)
THEOREM PartsKeepTypes == ASSUME PartsAssumed PROVE Spec => []TypesOK
<1>1. PortTypeOK /\ ToolTypeOK /\ TelemetryTypeOK /\ SupervisionTypeOK /\ PrTypeOK /\ BoardTypeOK
      /\ PlanTypeOK /\ LoginTypeOK /\ TermTypeOK /\ SettingsTypeOK /\ CatalogTypeOK /\ UpdatesTypeOK
      /\ SettingsFileTypeOK
      => TypesOK
  BY DEF TypesOK
<1>2. ToolSpec => []ToolTypeOK
  BY ToolTypes DEF PartsAssumed
<1>3. TelemetrySpec => []TelemetryTypeOK
  BY TelemetryTypes DEF PartsAssumed
<1>4. PrSpec => []PrTypeOK
  BY PrTypes DEF PartsAssumed
<1>5. UpdatesSpec => []UpdatesTypeOK
  BY UpdatesTypes DEF PartsAssumed
<1>6. SettingsFileSpec => []SettingsFileTypeOK
  BY SettingsFileTypes DEF PartsAssumed
<1> QED
  BY <1>1, <1>2, <1>3, <1>4, <1>5, <1>6, PartsRunAsAlone, PortTypes, SupervisionTypes, BoardTypes, PlanTypes,
     LoginTypes, TermTypes, SettingsTypes, CatalogTypes, PTL

(* The properties proved of each part alone hold of the program where all of *)
(* them run: what one part does (a dashboard, a download, a terminal) breaks  *)
(* no promise of another.                                                     *)
THEOREM PartsKeepPromises ==
    ASSUME PartsAssumed
    PROVE  Spec => /\ [](/\ MappedIsLive /\ EntryOnDisk /\ CountedOnce /\ NoLostWorker /\ CommentKept
                        /\ NoDangling /\ LoginProcessEnds /\ NoOrphan /\ AgentHasKey /\ OfferedIsVerified)
                   /\ PlanLinked /\ Deduplicated /\ OthersKept
<1>1. ToolSpec => []EntryOnDisk
  BY EntryIsOnDisk DEF PartsAssumed
<1>2. TelemetrySpec => []CountedOnce
  BY CountedAtMostOnce DEF PartsAssumed
<1>3. PrSpec => []CommentKept
  BY CommentIsKept DEF PartsAssumed
<1>4. UpdatesSpec => []OfferedIsVerified
  BY OfferIsVerified DEF PartsAssumed
<1>5. SettingsFileSpec => OthersKept
  BY WritersKeepOthers DEF PartsAssumed
<1> QED
  BY <1>1, <1>2, <1>3, <1>4, <1>5, PartsRunAsAlone, MappedMeansMapped, NoWorkerIsLost, LinksHaveTasks, TaskGetsItsPlan,
     NoLoginIsLeft, NothingOrphaned, AgentGetsItsKey, FetchedOnce, PTL
=============================================================================
