----------------------------- MODULE Terminals ------------------------------
(***************************************************************************)
(* The interactive terminals: connections create, use and close sessions   *)
(* by an id they choose, a global manager maps ids to sessions, and each   *)
(* session has a shell, a reader task and the thread it waits in.          *)
(*                                                                         *)
(* Source: src/src/api/ws/terminal.py, terminal/manager.py,                *)
(* terminal/session.py.                                                    *)
(*                                                                         *)
(* Sessions are numbered as they are created; 0 is none.  The code of the  *)
(* event loop between two awaits is one action.                            *)
(***************************************************************************)
EXTENDS Naturals, FiniteSets

CONSTANTS
    TermIds,         \* terminal ids; a client may reuse one after a reconnect
    TermConns,       \* connections to /ws/terminal
    MaxTerminals,    \* MAX_TERMINALS_PER_CONNECTION
    MaxSessions      \* bound: sessions ever created

ASSUME TerminalAssumption ==
    /\ MaxTerminals \in Nat \ {0} /\ MaxSessions \in Nat \ {0}
    /\ TermIds # {} /\ TermConns # {}

TermSessions == 1 .. MaxSessions

VARIABLES
    windows,     \* the platform: ConPTY, or a fork
    session,     \* per session: its id, its connection, _closed, whether it holds its file (on
                 \* Windows: its ConPTY), the reader and the shell
    born,        \* sessions created so far
    registry,    \* TerminalManager._sessions
    owned,       \* connection_terminals of each connection
    client       \* each connection: its step, the ids left to close, the session it waits for

termVars == <<windows, session, born, registry, owned, client>>

NoSession == [id |-> CHOOSE t \in TermIds : TRUE, by |-> CHOOSE c \in TermConns : TRUE,
              closed |-> FALSE, fd |-> FALSE, reader |-> "none", shell |-> "none"]
Absent == [pc |-> "absent", todo |-> {}, on |-> 0]

TermTypeOK ==
    /\ windows \in BOOLEAN /\ born \in 0 .. MaxSessions
    /\ session \in [TermSessions -> [id : TermIds, by : TermConns, closed : BOOLEAN, fd : BOOLEAN,
                                     reader : {"none", "read", "wait", "done"},
                                     shell : {"none", "run", "exited", "reaped"}]]
    /\ registry \in [TermIds -> 0 .. MaxSessions]
    /\ owned \in [TermConns -> SUBSET TermIds]
    /\ client \in [TermConns -> [pc : {"absent", "open", "closing", "leaving"}, todo : SUBSET TermIds,
                                 on : 0 .. MaxSessions]]

TermInit ==
    /\ windows \in BOOLEAN
    /\ session = [s \in TermSessions |-> NoSession] /\ born = 0
    /\ registry = [t \in TermIds |-> 0]
    /\ owned = [c \in TermConns |-> {}]
    /\ client = [c \in TermConns |-> Absent]

-----------------------------------------------------------------------------
(* A session.                                                              *)

\* The shell exits: the user leaves it, or it dies of the hang-up.
ShellExits(s) ==
    /\ session[s].shell = "run"
    /\ session' = [session EXCEPT ![s].shell = "exited"]
    /\ UNCHANGED <<windows, born, registry, owned, client>>

\* _read_output_unix: the master is at its end, or fails; the reader waits for the shell.
ReadEnds(s) ==
    /\ ~windows /\ session[s].reader = "read" /\ ~session[s].closed
    /\ session' = [session EXCEPT ![s].reader = "wait"]
    /\ UNCHANGED <<windows, born, registry, owned, client>>

\* waitpid, in a thread of the executor, whatever became of the task that awaits it.
ReapShell(s) ==
    /\ ~windows /\ session[s].reader \in {"wait", "done"} /\ session[s].shell = "exited"
    /\ session' = [session EXCEPT ![s].shell = "reaped"]
    /\ UNCHANGED <<windows, born, registry, owned, client>>

\* Mutant: handle_exit also for a session that was closed.
TellsAlways(s) == TRUE
\* A session that was closed does not tell its connection.
TellsExit(s) == ~session[s].closed

\* handle_exit, called in the task of the reader: the id leaves both maps.
HandleExit(s) ==
    /\ owned' = [owned EXCEPT ![session[s].by] = @ \ {session[s].id}]
    /\ registry' = [registry EXCEPT ![session[s].id] = 0]

\* The finally clause of the reader: the exit is told; the file is closed, a ConPTY is kept.
ReaderDone(s) ==
    /\ session' = [session EXCEPT ![s].reader = "done", ![s].fd = @ /\ windows]
    /\ IF TellsExit(s) THEN HandleExit(s) ELSE UNCHANGED <<registry, owned>>
    /\ UNCHANGED <<windows, born, client>>
ReaderEnds(s) ==
    /\ ~windows /\ session[s].reader = "wait" /\ session[s].shell = "reaped"
    /\ ReaderDone(s)
\* _read_output_windows: the shell has exited, or a read failed; nothing is waited for.
WindowsReaderEnds(s) ==
    /\ windows /\ session[s].reader = "read" /\ ~session[s].closed
    /\ ReaderDone(s)

\* _close_unix: a hang-up, the file, and the cancelled reader: one that reads goes on to
\* wait for the shell, one that waits ends.
HungUp(s) ==
    [session[s] EXCEPT !.closed = TRUE, !.fd = FALSE,
                       !.reader = IF @ = "read" THEN "wait" ELSE "done"]
\* _close_windows: the process is asked to terminate, and nothing waited for.
Terminated(s) == [session[s] EXCEPT !.closed = TRUE, !.fd = FALSE, !.reader = "done"]
\* PTYSession.close, once.
Closing(s) ==
    IF session[s].closed THEN session[s] ELSE IF windows THEN Terminated(s) ELSE HungUp(s)

\* TerminalManager.close_session, up to its await: the entry of the id, whosever it is.
CloseSession(t) ==
    /\ registry' = [registry EXCEPT ![t] = 0]
    /\ session' = IF registry[t] = 0 THEN session
                  ELSE [session EXCEPT ![registry[t]] = Closing(registry[t])]

-----------------------------------------------------------------------------
(* A connection.                                                           *)
TermConnect(c) ==
    /\ client[c].pc = "absent"
    /\ client' = [client EXCEPT ![c].pc = "open"]
    /\ UNCHANGED <<windows, session, born, registry, owned>>

\* A session, with its shell and its reader started.
StartedSession(c, t) ==
    [id |-> t, by |-> c, closed |-> FALSE, fd |-> TRUE, reader |-> "read", shell |-> "run"]

\* "create": at most MaxTerminals a connection, and an id that no session has; a shell or a
\* directory that is not valid, or a fork that fails, changes nothing.
CreateTerminal(c, t) ==
    /\ client[c].pc = "open" /\ Cardinality(owned[c]) < MaxTerminals
    /\ registry[t] = 0 /\ born < MaxSessions
    /\ born' = born + 1
    /\ session' = [session EXCEPT ![born + 1] = StartedSession(c, t)]
    /\ registry' = [registry EXCEPT ![t] = born + 1]
    /\ owned' = [owned EXCEPT ![c] = @ \cup {t}]
    /\ UNCHANGED <<windows, client>>

\* "close": the id leaves the connection's set, and the connection waits for the reader.
CloseTerminal(c, t) ==
    /\ client[c].pc = "open" /\ t \in owned[c]
    /\ owned' = [owned EXCEPT ![c] = @ \ {t}]
    /\ CloseSession(t)
    /\ client' = [client EXCEPT ![c] = [pc |-> "closing", todo |-> {}, on |-> registry[t]]]
    /\ UNCHANGED <<windows, born>>
Waited(c) == client[c].on # 0 => session[client[c].on].reader = "done"
TerminalClosed(c) ==
    /\ client[c].pc = "closing" /\ Waited(c)
    /\ client' = [client EXCEPT ![c] = [pc |-> "open", todo |-> {}, on |-> 0]]
    /\ UNCHANGED <<windows, session, born, registry, owned>>

\* The connection ends: the finally clause closes, one after the other, the ids it had then.
TermLeave(c) ==
    /\ client[c].pc = "open"
    /\ client' = [client EXCEPT ![c] = [pc |-> "leaving", todo |-> owned[c], on |-> 0]]
    /\ UNCHANGED <<windows, session, born, registry, owned>>
LeaveNext(c) ==
    /\ client[c].pc = "leaving" /\ Waited(c)
    /\ \E t \in client[c].todo :
         /\ CloseSession(t)
         /\ client' = [client EXCEPT ![c].todo = @ \ {t}, ![c].on = registry[t]]
    /\ UNCHANGED <<windows, born, owned>>
TermLeft(c) ==
    /\ client[c].pc = "leaving" /\ Waited(c) /\ client[c].todo = {}
    /\ owned' = [owned EXCEPT ![c] = {}]
    /\ client' = [client EXCEPT ![c] = Absent]
    /\ UNCHANGED <<windows, session, born, registry>>

TermNext ==
    \/ \E s \in TermSessions : ShellExits(s) \/ ReadEnds(s) \/ ReapShell(s)
                                   \/ ReaderEnds(s) \/ WindowsReaderEnds(s)
    \/ \E c \in TermConns : TermConnect(c) \/ TerminalClosed(c) \/ TermLeave(c) \/ LeaveNext(c) \/ TermLeft(c)
    \/ \E c \in TermConns, t \in TermIds : CreateTerminal(c, t) \/ CloseTerminal(c, t)

TermSpec == TermInit /\ [][TermNext]_termVars
\* Tasks and threads that can go on do; a shell need not exit.
FairTermSpec ==
    /\ TermSpec
    /\ \A c \in TermConns : WF_termVars(TerminalClosed(c) \/ LeaveNext(c) \/ TermLeft(c))
    /\ \A s \in TermSessions : WF_termVars(ReapShell(s) \/ ReaderEnds(s))

(***************************************************************************)
(* Properties                                                              *)
(***************************************************************************)
\* A session that is still read and was not closed can be closed: the manager has it under
\* its id, and its connection owns the id (on_exit and close remove entries by id alone).  On
\* Unix one whose reader ended has left no file open, and no shell that was neither hung up
\* nor waited for.
NoOrphan ==
    \A s \in TermSessions :
        /\ session[s].reader \in {"read", "wait"} /\ ~session[s].closed
              => registry[session[s].id] = s /\ session[s].id \in owned[session[s].by]
        /\ ~windows /\ session[s].reader = "done"
              => ~session[s].fd /\ (session[s].closed \/ session[s].shell = "reaped")

(***************************************************************************)
(* Claims of the repository that the code does not keep (README, section 6).*)
(***************************************************************************)
\* "Only act on terminals this connection owns" (terminal.py:167): the ids a connection
\* closes when it ends were read before; one may be a terminal of another connection by then.
OthersStay ==
    [][\A c \in TermConns, s \in TermSessions :
         client[c].on # s /\ client'[c].on = s => session[s].by = c]_termVars

\* The comment on the end of the reader says of the file, which on_exit does not close:
\* "without this the fd leaks for every self-terminated terminal" (session.py:225).  On
\* Windows the ConPTY stays, and after a failed read so does the shell, in no map.
HandlesFreed ==
    \A s \in TermSessions :
        session[s].reader = "done" => ~session[s].fd /\ (session[s].closed \/ session[s].shell # "run")

\* "Close the PTY session and kill the shell" (session.py:355): a shell that ignores the
\* hang-up is waited for without end, and the next terminals are not closed.
LeavingEnds == \A c \in TermConns : client[c].pc = "leaving" ~> client[c].pc = "absent"
=============================================================================
