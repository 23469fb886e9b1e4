---------------------------- MODULE Supervision ----------------------------
(***************************************************************************)
(* The desktop app over the worker process: a dashboard that spawns a      *)
(* worker or adopts one it did not spawn, the pidfile through which a      *)
(* relaunched dashboard finds the worker of a crashed one, the threads     *)
(* that stop a worker, the watchdog by which a worker follows a dead       *)
(* dashboard, and the service manager (systemd, launchd) that may own the  *)
(* worker instead.                                                         *)
(*                                                                         *)
(* Source: src/src/gui/core.py, _dashboard_ctk.py, linux_app.py, macos.py, *)
(* src/src/services/worker_service/macos.py, src/src/__main__.py.          *)
(*                                                                         *)
(* A process is a number.  A worker listens on the one configured port     *)
(* while it serves; one that was told to end has closed it.  The Tk thread *)
(* does one thing at a time (ui.tk); the other threads run beside it.      *)
(***************************************************************************)
EXTENDS Integers, FiniteSets

CONSTANTS
    MaxPids,        \* processes that are ever started
    MaxGuis,        \* launches of the dashboard
    SupervisionEnv  \* "crash", "die", "recycle", "service", "race"

ASSUME SupervisionAssumption ==
    /\ MaxPids \in Nat /\ MaxGuis \in Nat
    /\ SupervisionEnv \subseteq {"crash", "die", "recycle", "service", "race"}

Pids == 1 .. MaxPids
None == 0
TheUnit == -1
TheLauncher == -2

VARIABLES
    platform,  \* "windows", "linux" or "macos"
    managed,   \* a service of the worker is installed
    worker,    \* what became of each process
    origin,    \* who started it: a dashboard (its number), TheUnit or TheLauncher
    gui,       \* the number of the dashboard that runs, or None
    guis,      \* dashboards launched so far
    ui,        \* what the dashboard holds
    stoppers,  \* its background threads
    pidfile,   \* the process named in .worker.pid
    unit       \* the service manager keeps the worker up

supervisionVars == <<platform, managed, worker, origin, gui, guis, ui, stoppers, pidfile, unit>>

FreshUi == [owned |-> None, adopted |-> None, external |-> FALSE, probes |-> platform = "linux",
            shown |-> "Start", started |-> FALSE, tk |-> "launch"]
DeskThread(what, p) == [what |-> what, pid |-> p]

SupervisionTypeOK ==
    /\ platform \in {"windows", "linux", "macos"} /\ managed \in BOOLEAN
    /\ worker \in [Pids -> {"none", "starting", "serving", "ending", "dead", "stranger"}]
    /\ origin \in [Pids -> TheLauncher .. MaxGuis]
    /\ gui \in {None} \cup (1 .. MaxGuis) /\ guis \in 0 .. MaxGuis
    /\ ui \in [owned : {None} \cup Pids, adopted : {None} \cup Pids, external : BOOLEAN,
               probes : BOOLEAN, shown : {"Start", "Stop"}, started : BOOLEAN,
               tk : {"launch", "idle", "migrating", "spawned"}]
    /\ stoppers \subseteq [what : {"child", "pid", "childwait", "pidwait", "stopunit", "unitstopped",
                                   "startunit", "unitstarted"}, pid : {None} \cup Pids]
    /\ pidfile \in {None} \cup Pids
    /\ unit \in BOOLEAN

SupervisionInit ==
    /\ platform \in {"windows", "linux", "macos"}
    /\ managed \in IF platform = "windows" THEN {FALSE} ELSE BOOLEAN
    /\ worker = [p \in Pids |-> "none"]
    /\ origin = [p \in Pids |-> None]
    /\ gui = None /\ guis = 0
    /\ ui = FreshUi
    /\ stoppers = {}
    /\ pidfile = None
    /\ unit = FALSE

----------------------------------------------------------------------------
(* What the dashboard can see.                                              *)

Exists(p) == worker[p] \notin {"none", "dead"}
\* A loopback connection to the port succeeds.
PortOpen == \E p \in Pids : worker[p] = "serving"
Listener == CHOOSE p \in Pids : worker[p] = "serving"
\* os.kill(p, 0), which is refused for the systemd worker: it runs as another user.
Foreign(p) == platform = "linux" /\ origin[p] = TheUnit
PidAlive(p) == Exists(p) /\ ~Foreign(p)

\* ServerManager.is_running; the child's exit is seen by poll, an adopted pid by a signal.
ManagerRuns(u) ==
    IF u.owned # None THEN Exists(u.owned) ELSE u.adopted # None /\ PidAlive(u.adopted)
\* is_running drops the reference to an adopted process that is gone.
Looked(u) ==
    IF u.owned = None /\ u.adopted # None /\ ~PidAlive(u.adopted)
        THEN [u EXCEPT !.adopted = None, !.started = FALSE] ELSE u
\* The dashboard's own test: with the loopback probe on Linux, and on macOS once
\* a service was adopted.
WorkerRuns(u) ==
    \/ ManagerRuns(u)
    \/ platform = "linux" /\ u.probes /\ PortOpen
    \/ platform = "macos" /\ u.external /\ PortOpen

\* SIGTERM ends a worker at once until it has installed its handlers.
WorkerTerminated(w, p) ==
    [w EXCEPT ![p] = CASE @ = "serving" -> "ending" [] @ = "starting" -> "dead"
                       [] @ = "stranger" -> "dead" [] OTHER -> @]
Ended(w, S) ==
    [p \in Pids |-> IF p \in S THEN WorkerTerminated(w, p)[p] ELSE w[p]]
Units == {p \in Pids : origin[p] = TheUnit}
FreshPid == {p \in Pids : worker[p] = "none" /\ \A q \in 1 .. p - 1 : worker[q] # "none"}
Spawn(p, who) ==
    /\ worker' = [worker EXCEPT ![p] = "starting"]
    /\ origin' = [origin EXCEPT ![p] = who]

----------------------------------------------------------------------------
(* Starting a worker from the dashboard.                                    *)

\* _maybe_adopt_external_worker: the pid is found only where /proc shows it.
Adopting(u) ==
    [u EXCEPT !.adopted = IF Foreign(Listener) THEN None ELSE Listener,
              !.external = TRUE, !.probes = TRUE, !.started = TRUE]
Shown(u) == [u EXCEPT !.shown = "Stop", !.tk = "idle"]

\* The preflight bind of ServerManager.start, and its migrations, on the Tk thread.
StartChild(u) ==
    /\ ui' = [u EXCEPT !.tk = IF PortOpen THEN "idle" ELSE "migrating"]
    /\ UNCHANGED <<stoppers, unit>>

StartWindows(u) == platform = "windows" /\ StartChild(u)
\* LinuxGUI._start_server: an external worker that was ever adopted is taken to be up.
StartLinux(u) ==
    /\ platform = "linux"
    /\ \/ /\ u.external \/ PortOpen
          /\ ui' = Shown(IF u.external THEN u ELSE Adopting(u))
          /\ UNCHANGED <<stoppers, unit>>
       \/ /\ ~u.external /\ ~PortOpen /\ managed
          /\ stoppers' = stoppers \cup {DeskThread("startunit", None)}
          /\ ui' = [u EXCEPT !.tk = "idle"]
          /\ UNCHANGED unit
       \/ ~u.external /\ ~PortOpen /\ ~managed /\ StartChild(u)
\* RCFlowMacOSGUI._start_server: a listener is adopted, an installed service started.
StartMacos(u) ==
    /\ platform = "macos"
    /\ \/ /\ PortOpen \/ managed
          /\ ui' = Shown([u EXCEPT !.external = TRUE])
          /\ unit' = IF PortOpen THEN unit ELSE TRUE
          /\ UNCHANGED stoppers
       \/ ~PortOpen /\ ~managed /\ StartChild(u)
StartServer(u) == StartWindows(u) \/ StartLinux(u) \/ StartMacos(u)

\* Popen; the child's watchdog is given this dashboard's pid.
SpawnChild ==
    /\ gui # None /\ ui.tk = "migrating"
    /\ \E p \in FreshPid :
        /\ Spawn(p, gui)
        /\ ui' = [ui EXCEPT !.owned = p, !.adopted = None, !.started = TRUE, !.tk = "spawned"]
    /\ UNCHANGED <<platform, managed, gui, guis, stoppers, pidfile, unit>>

SpawnFails ==
    /\ gui # None /\ ui.tk = "migrating"
    /\ ui' = [ui EXCEPT !.tk = "idle"]
    /\ UNCHANGED <<platform, managed, worker, origin, gui, guis, stoppers, pidfile, unit>>

WritePidfile ==
    /\ gui # None /\ ui.tk = "spawned"
    /\ pidfile' = ui.owned
    /\ ui' = Shown(ui)
    /\ UNCHANGED <<platform, managed, worker, origin, gui, guis, stoppers, unit>>

----------------------------------------------------------------------------
(* Launch, crash and quit.                                                  *)

\* rcflow gui on Linux first sees to it that some worker serves, without a parent.
LauncherSpawns ==
    /\ platform = "linux" /\ gui = None /\ guis < MaxGuis
    /\ ~PortOpen /\ \A p \in Pids : ~(origin[p] = TheLauncher /\ Exists(p))
    /\ \E p \in FreshPid : Spawn(p, TheLauncher)
    /\ UNCHANGED <<platform, managed, gui, guis, ui, stoppers, pidfile, unit>>

\* The singleton lock is free: the dashboard comes up.
LaunchGui ==
    /\ gui = None /\ guis < MaxGuis
    /\ platform = "linux" => PortOpen
    /\ gui' = guis + 1 /\ guis' = guis + 1
    /\ ui' = FreshUi
    /\ UNCHANGED <<platform, managed, worker, origin, stoppers, pidfile, unit>>

\* adopt_if_running: the pid of the file, if it is alive, whoever it is by now.
AdoptOrphan(u) ==
    /\ u.adopted = None /\ pidfile # None /\ PidAlive(pidfile)
    /\ ui' = Shown([u EXCEPT !.adopted = pidfile, !.started = TRUE])
    /\ UNCHANGED <<stoppers, unit, pidfile>>
StartAtLaunch(u) ==
    /\ ~(u.adopted = None /\ pidfile # None /\ PidAlive(pidfile))
    /\ pidfile' = IF u.adopted = None THEN None ELSE pidfile
    /\ StartServer(u)
\* run(): reconcile with a service, adopt an orphan, or start.
Reconcile ==
    /\ gui # None /\ ui.tk = "launch"
    /\ LET u == IF platform = "linux" /\ PortOpen THEN Adopting(ui) ELSE ui IN
       IF platform = "macos" /\ (PortOpen \/ managed)
           THEN StartMacos(u) /\ UNCHANGED pidfile
           ELSE AdoptOrphan(u) \/ StartAtLaunch(u)
    /\ UNCHANGED <<platform, managed, worker, origin, gui, guis>>

GuiGone == gui' = None /\ ui' = FreshUi /\ stoppers' = {}
GuiCrashes ==
    /\ "crash" \in SupervisionEnv /\ gui # None
    /\ GuiGone
    /\ UNCHANGED <<platform, managed, worker, origin, guis, pidfile, unit>>

\* The base dashboard's quit starts a stopping thread and destroys the window:
\* how far the daemon thread comes before the interpreter exits is open.
QuitDashboard ==
    /\ gui # None /\ ui.tk = "idle" /\ platform # "macos"
    /\ LET p == IF ui.owned # None THEN ui.owned ELSE ui.adopted IN
       worker' \in IF p = None \/ Foreign(p) THEN {worker} ELSE {worker, WorkerTerminated(worker, p)}
    /\ GuiGone
    /\ UNCHANGED <<platform, managed, origin, guis, pidfile, unit>>

\* A running service is left or stopped, as the user says; a child is reaped.
QuitMacos ==
    /\ gui # None /\ ui.tk = "idle" /\ platform = "macos"
    /\ \/ /\ managed /\ PortOpen
          /\ \/ UNCHANGED <<worker, unit>>
             \/ worker' = Ended(worker, Units \cup {Listener}) /\ unit' = FALSE
          /\ UNCHANGED pidfile
       \/ managed /\ ~PortOpen /\ UNCHANGED <<worker, unit, pidfile>>
       \/ /\ ~managed
          /\ LET p == IF ui.owned # None THEN ui.owned ELSE ui.adopted IN
             /\ worker' = IF p = None THEN worker ELSE [worker EXCEPT ![p] = "dead"]
             /\ pidfile' = IF p = None THEN pidfile ELSE None
          /\ UNCHANGED unit
    /\ GuiGone
    /\ UNCHANGED <<platform, managed, origin, guis>>

----------------------------------------------------------------------------
(* The toggle and the two stops.                                            *)

\* ServerManager.stop: the process is told to end by a thread of its own.
StopChild(u) ==
    /\ stoppers' = stoppers \cup
           (IF u.owned # None THEN {DeskThread("child", u.owned)}
            ELSE IF u.adopted # None THEN {DeskThread("pid", u.adopted)} ELSE {})
    /\ ui' = u
    /\ UNCHANGED <<worker, origin, unit>>
StopWindows(u) == platform = "windows" /\ StopChild(u)
StopLinux(u) ==
    /\ platform = "linux"
    /\ \/ /\ u.external
          /\ stoppers' = stoppers \cup {DeskThread("stopunit", None)}
          /\ ui' = u
          /\ UNCHANGED <<worker, origin, unit>>
       \/ ~u.external /\ StopChild(u)
\* MacOSWorkerService.stop: bootout, then whoever still listens is killed.  launchd
\* may respawn an instance during the bootout; the loop ends when nobody listens.
StopMacos(u) ==
    /\ platform = "macos"
    /\ \/ /\ u.external \/ PortOpen
          /\ unit' = FALSE
          /\ ui' = [u EXCEPT !.external = FALSE]
          /\ LET told == Ended(worker, Units \cup (IF PortOpen THEN {Listener} ELSE {})) IN
             \/ worker' = told /\ UNCHANGED origin
             \/ /\ "race" \in SupervisionEnv /\ unit
                /\ \E p \in FreshPid :
                    /\ worker' = [told EXCEPT ![p] = "starting"]
                    /\ origin' = [origin EXCEPT ![p] = TheUnit]
          /\ UNCHANGED stoppers
       \/ ~u.external /\ ~PortOpen /\ StopChild(u)
StopServer(u) == StopWindows(u) \/ StopLinux(u) \/ StopMacos(u)

Toggle ==
    /\ gui # None /\ ui.tk = "idle"
    /\ IF WorkerRuns(ui) THEN StopServer(Looked(ui))
                   ELSE StartServer(Looked(ui)) /\ UNCHANGED <<worker, origin>>
    /\ UNCHANGED <<platform, managed, gui, guis, pidfile>>

Becomes(t, what) == stoppers' = (stoppers \ {t}) \cup {DeskThread(what, t.pid)}
SignalWorker ==
    /\ \E t \in stoppers :
        /\ t.what \in {"child", "pid"}
        /\ worker' = IF Foreign(t.pid) THEN worker ELSE WorkerTerminated(worker, t.pid)
        /\ Becomes(t, IF t.what = "child" THEN "childwait" ELSE "pidwait")
    /\ UNCHANGED <<platform, managed, origin, gui, guis, ui, pidfile, unit>>

\* Ten seconds passed without an end: SIGKILL.
KillWorker ==
    /\ \E t \in stoppers :
        /\ t.what \in {"childwait", "pidwait"} /\ PidAlive(t.pid)
        /\ worker' = [worker EXCEPT ![t.pid] = "dead"]
    /\ UNCHANGED <<platform, managed, origin, gui, guis, ui, stoppers, pidfile, unit>>

\* Mutant: the thread does not wait for the end of the process.
StopCleansAtOnce ==
    /\ \E t \in stoppers :
        /\ t.what \in {"childwait", "pidwait"}
        /\ ui' = [ui EXCEPT !.owned = IF t.what = "childwait" /\ @ = t.pid THEN None ELSE @,
                            !.adopted = IF t.what = "pidwait" /\ @ = t.pid THEN None ELSE @,
                            !.started = FALSE]
        /\ pidfile' = None
        /\ stoppers' = stoppers \ {t}
    /\ UNCHANGED <<platform, managed, worker, origin, gui, guis, unit>>
\* The stopped process is dropped if it is still the one held; the start time and the
\* pidfile go in any case.
StopCleans ==
    /\ \E t \in stoppers :
        /\ t.what \in {"childwait", "pidwait"}
        /\ IF t.what = "childwait" THEN ~Exists(t.pid) ELSE ~PidAlive(t.pid)
        /\ ui' = [ui EXCEPT !.owned = IF t.what = "childwait" /\ @ = t.pid THEN None ELSE @,
                            !.adopted = IF t.what = "pidwait" /\ @ = t.pid THEN None ELSE @,
                            !.started = FALSE]
        /\ pidfile' = None
        /\ stoppers' = stoppers \ {t}
    /\ UNCHANGED <<platform, managed, worker, origin, gui, guis, unit>>

\* systemd answers a stop or a start at once; without the unit it answers with an error.
CallSystemd ==
    /\ \E t \in stoppers :
        \/ /\ t.what = "stopunit" /\ managed
           /\ unit' = FALSE /\ worker' = Ended(worker, Units)
           /\ Becomes(t, "unitstopped")
        \/ /\ t.what = "stopunit" /\ ~managed
           /\ stoppers' = stoppers \ {t}
           /\ UNCHANGED <<unit, worker>>
        \/ /\ t.what = "startunit"
           /\ unit' = TRUE
           /\ Becomes(t, "unitstarted")
           /\ UNCHANGED worker
    /\ UNCHANGED <<platform, managed, origin, gui, guis, ui, pidfile>>

\* What those threads hand to the Tk thread; the wait for the port may also end in vain.
UnitAnswered ==
    /\ gui # None /\ ui.tk = "idle"
    /\ \E t \in stoppers :
        /\ \/ /\ t.what = "unitstopped"
              /\ ui' = [ui EXCEPT !.adopted = None, !.started = FALSE, !.external = FALSE,
                                  !.probes = FALSE]
           \/ t.what = "unitstarted" /\ PortOpen /\ ui' = Shown(Adopting(ui))
           \/ t.what = "unitstarted" /\ UNCHANGED ui
        /\ stoppers' = stoppers \ {t}
    /\ UNCHANGED <<platform, managed, worker, origin, gui, guis, pidfile, unit>>

\* ServerManager.clear: what ended is forgotten, and the pidfile with it.
Cleared(u) ==
    [u EXCEPT !.owned = IF @ # None /\ ~Exists(@) THEN None ELSE @,
              !.adopted = IF @ # None /\ ~PidAlive(@) THEN None ELSE @,
              !.started = FALSE, !.shown = "Start",
              !.external = IF platform = "macos" THEN FALSE ELSE @]
\* The refresh, every 300 ms.
Refresh ==
    /\ gui # None /\ ui.tk = "idle"
    /\ LET u == Looked(ui) IN
       \/ /\ platform = "linux" /\ WorkerRuns(ui) /\ u.shown = "Start"
          /\ ui' = Shown(IF ~u.external /\ PortOpen THEN Adopting(u) ELSE u)
          /\ UNCHANGED pidfile
       \/ /\ ~WorkerRuns(ui) /\ u.shown = "Stop"
          /\ ui' = Cleared(u)
          /\ pidfile' = IF <<Cleared(u).owned, Cleared(u).adopted>> # <<u.owned, u.adopted>>
                            THEN None ELSE pidfile
    /\ UNCHANGED <<platform, managed, worker, origin, gui, guis, stoppers, unit>>

----------------------------------------------------------------------------
(* The worker processes and the service manager.                            *)

\* The worker installs its watchdog, migrates, checks the port and listens.
ComesUp ==
    /\ \E p \in Pids :
        /\ worker[p] = "starting"
        /\ worker' = [worker EXCEPT ![p] = IF PortOpen THEN "dead" ELSE "serving"]
    /\ UNCHANGED <<platform, managed, origin, gui, guis, ui, stoppers, pidfile, unit>>

GoesDown ==
    /\ \E p \in Pids :
        /\ \/ worker[p] = "ending"
           \/ worker[p] \in {"starting", "serving"} /\ "die" \in SupervisionEnv
        /\ worker' = [worker EXCEPT ![p] = "dead"]
    /\ UNCHANGED <<platform, managed, origin, gui, guis, ui, stoppers, pidfile, unit>>

\* The parent-death watchdog: every two seconds, is the dashboard that spawned us alive?
Orphaned(p) == origin[p] \in 1 .. MaxGuis /\ origin[p] # gui
Watchdog ==
    /\ \E p \in Pids :
        /\ worker[p] \in {"starting", "serving"} /\ Orphaned(p)
        /\ worker' = WorkerTerminated(worker, p)
    /\ UNCHANGED <<platform, managed, origin, gui, guis, ui, stoppers, pidfile, unit>>

\* A process that has ended, and that nobody waits for, leaves its pid to another.
PidIsReused ==
    /\ "recycle" \in SupervisionEnv
    /\ \E p \in Pids :
        /\ worker[p] = "dead" /\ p # ui.owned /\ DeskThread("childwait", p) \notin stoppers
        /\ worker' = [worker EXCEPT ![p] = "stranger"]
    /\ UNCHANGED <<platform, managed, origin, gui, guis, ui, stoppers, pidfile, unit>>

\* The service manager starts the worker while the unit is up, after a crash too.
UnitSpawns ==
    /\ unit /\ \A p \in Units : ~Exists(p)
    /\ \E p \in FreshPid : Spawn(p, TheUnit)
    /\ UNCHANGED <<platform, managed, gui, guis, ui, stoppers, pidfile, unit>>

\* The command line or the login starts or stops the service.
ServiceCommand ==
    /\ "service" \in SupervisionEnv /\ managed
    /\ unit' = ~unit
    /\ worker' = IF unit THEN Ended(worker, Units) ELSE worker
    /\ UNCHANGED <<platform, managed, origin, gui, guis, ui, stoppers, pidfile>>

SupervisionNext ==
    \/ SpawnChild \/ SpawnFails \/ WritePidfile
    \/ LauncherSpawns \/ LaunchGui \/ Reconcile \/ GuiCrashes \/ QuitDashboard \/ QuitMacos
    \/ Toggle \/ SignalWorker \/ KillWorker \/ StopCleans
    \/ CallSystemd \/ UnitAnswered \/ Refresh
    \/ ComesUp \/ GoesDown \/ Watchdog \/ PidIsReused \/ UnitSpawns \/ ServiceCommand

SupervisionSpec == SupervisionInit /\ [][SupervisionNext]_supervisionVars

----------------------------------------------------------------------------
(* Properties.                                                              *)

\* A live worker that the running dashboard spawned is never lost: the dashboard
\* holds it, or one of its threads is still bringing it down.
NoLostWorker ==
    \A p \in Pids :
        Exists(p) /\ worker[p] # "stranger" /\ gui # None /\ origin[p] = gui =>
            \/ ui.owned = p
            \/ \E t \in stoppers : t.pid = p

(* Claims the code does not keep (README, section 6).                       *)

\* A worker the dashboard holds is the one the pidfile names, so that a relaunched
\* dashboard can adopt it.
PidfileFollows ==
    ui.owned # None /\ Exists(ui.owned) /\ ui.tk = "idle" => pidfile = ui.owned

\* The orphan a launched dashboard adopts, and may stop later, is a worker.
AdoptsWorkers ==
    [][ui.tk = "launch" /\ ui'.adopted # None => worker[ui'.adopted] # "stranger"]_supervisionVars

\* A dashboard that shows Start, with nothing under way and nothing for the refresh
\* to correct, has no worker that serves.
StartMeansStopped ==
    /\ gui # None /\ ui.tk = "idle" /\ ui.shown = "Start" /\ stoppers = {}
    /\ ~(platform = "linux" /\ WorkerRuns(ui))
    => ~PortOpen

\* Pressing Start while nothing serves starts something.
StartStarts ==
    [][/\ gui # None /\ gui' = gui /\ ui.tk = "idle" /\ ui'.tk = "idle"
       /\ ~PortOpen /\ ui.shown = "Start" /\ ui'.shown = "Stop"
       => unit']_supervisionVars

\* A stop of the service is final: no worker of a unit that is down comes up.
StopFinal ==
    [][\A p \in Units : ~unit /\ worker[p] = "starting" => worker'[p] # "serving"]_supervisionVars

=============================================================================
