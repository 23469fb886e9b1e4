------------------------- MODULE SessionPersistence -------------------------
(***************************************************************************)
(* One session between memory and database: the periodic flush, the        *)
(* archive task of a session that ended, restore_session, the save at      *)
(* shutdown and the reload at startup.                                     *)
(*                                                                         *)
(* Source: src/src/core/session.py (SessionManager), buffer.py,            *)
(* background_tasks.py, session_lifecycle.py, main.py.                     *)
(*                                                                         *)
(* A message is its sequence number.  A transaction takes SQLite's write   *)
(* lock with its first statement and keeps it to the commit; a task        *)
(* returns from its commit in a later step than the commit itself.  The    *)
(* sessions row exists from the first prompt on (_ensure_session_row_in_db *)
(* awaits it), so Init has it.                                             *)
(***************************************************************************)
EXTENDS Naturals, FiniteSets

CONSTANTS
    Archivers,  \* archive tasks that may run at a time
    Restorers,  \* clients that may ask for a restore at a time
    Cap,        \* maxlen of the buffer's deque (_MAX_BUFFER_MESSAGES)
    Env,        \* which of Disturbances this instance has
    MaxSeq,     \* bound: sequence numbers of one session object
    MaxObjs,    \* bound: session objects made for this id in one run
    MaxStarts   \* bound: restarts of the worker

Disturbances == {"late", "again", "fail", "crash", "shutdown", "restore"}

ASSUME PersistenceAssumption ==
    /\ Archivers \cap {"free", "flush"} = {}
    /\ Cap \in Nat \ {0}
    /\ Env \subseteq Disturbances
    /\ MaxSeq \in Nat
    /\ MaxObjs \in Nat \ {0}
    /\ MaxStarts \in Nat

VARIABLES
    db,     \* the rows: status of the session, sequence numbers stored
    lock,   \* the task that holds the write lock
    obj,    \* the ActiveSession objects made for this session id
    made,   \* how many of them there are
    mem,    \* the object in SessionManager._sessions, 0 for none
    flush,  \* the flush loop
    arch,   \* the archive tasks
    fired,  \* archive tasks created that have not run yet
    rest,   \* the restores in progress
    starts

vars == <<db, lock, obj, made, mem, flush, arch, fired, rest, starts>>

Objs == 1 .. MaxObjs
Seqs == 1 .. MaxSeq
Live == {"active", "paused"}
Free == "free"
Blank == [status |-> "active", seq |-> 0, texts |-> {}, mark |-> 0,
          dirty |-> FALSE, atEnd |-> {}]
IdleFlush == [pc |-> "idle", o |-> 0, new |-> FALSE, write |-> "same", msgs |-> {}]
IdleArch == [pc |-> "idle", o |-> 0, write |-> "same", msgs |-> {}]

Write == Live \cup {"done", "same"}

TypeOK ==
    /\ db \in [status : Live \cup {"done", "none"}, msgs : SUBSET Seqs]
    /\ lock \in {Free, "flush"} \cup Archivers
    /\ obj \in [Objs -> [status : Live \cup {"done"}, seq : 0 .. MaxSeq,
                         texts : SUBSET Seqs, mark : 0 .. MaxSeq,
                         dirty : BOOLEAN, atEnd : SUBSET Seqs]]
    /\ made \in 0 .. MaxObjs /\ mem \in 0 .. made
    /\ flush \in [pc : {"idle", "reading", "waiting", "writing", "committed"},
                  o : 0 .. made, new : BOOLEAN, write : Write, msgs : SUBSET Seqs]
    /\ arch \in [Archivers -> [pc : {"idle", "waiting", "writing", "committed"},
                               o : 0 .. made, write : Write, msgs : SUBSET Seqs]]
    /\ fired \in 0 .. MaxSeq * MaxObjs
    /\ rest \in [Restorers -> {"idle", "reading", "loading"}]
    /\ starts \in 0 .. MaxStarts

\* The deque keeps the newest Cap messages.
Newest(S) == {s \in S : Cardinality({t \in S : t >= s}) <= Cap}
Buffer(o) == Newest(obj[o].texts)

Init ==
    /\ db = [status |-> "active", msgs |-> {}]
    /\ lock = Free
    /\ obj = [o \in Objs |-> Blank]
    /\ made = 1 /\ mem = 1
    /\ flush = IdleFlush
    /\ arch = [a \in Archivers |-> IdleArch]
    /\ fired = 0
    /\ rest = [r \in Restorers |-> "idle"]
    /\ starts = 0

(***************************************************************************)
(* The session at work.                                                    *)
(***************************************************************************)
Pushed(o) == [obj[o] EXCEPT !.seq = @ + 1, !.texts = @ \cup {obj[o].seq + 1}]

\* push_text.  A background task (a summary) may still push to a session that
\* has ended; on an object nobody holds any more that changes nothing.
Push(o) ==
    /\ o \in 1 .. made /\ obj[o].seq < MaxSeq
    /\ \/ o = mem /\ obj[o].status = "active"
       \/ "late" \in Env /\ o \in {mem, flush.o} /\ obj[o].status = "done"
    /\ obj' = [obj EXCEPT ![o] = Pushed(o)]
    /\ UNCHANGED <<db, lock, made, mem, flush, arch, fired, rest, starts>>

\* push_ephemeral takes a sequence number and is neither kept nor stored.
PushEphemeral ==
    /\ mem # 0 /\ obj[mem].status = "active" /\ obj[mem].seq < MaxSeq
    /\ obj' = [obj EXCEPT ![mem].seq = @ + 1]
    /\ UNCHANGED <<db, lock, made, mem, flush, arch, fired, rest, starts>>

PauseOrResume ==
    /\ mem # 0 /\ obj[mem].status \in Live
    /\ obj' = [obj EXCEPT ![mem].status = IF @ = "active" THEN "paused" ELSE "active",
                          ![mem].dirty = TRUE]
    /\ UNCHANGED <<db, lock, made, mem, flush, arch, fired, rest, starts>>

\* SESSION_END is pushed, the status becomes terminal, an archive task is fired.
End ==
    /\ mem # 0 /\ obj[mem].status \in Live /\ obj[mem].seq < MaxSeq
    /\ obj' = [obj EXCEPT ![mem] = [Pushed(mem) EXCEPT !.status = "done", !.dirty = TRUE,
                                        !.atEnd = Newest(Pushed(mem).texts)]]
    /\ fired' = fired + 1
    /\ UNCHANGED <<db, lock, made, mem, flush, arch, rest, starts>>

\* A second end that passed the guard on the status before the first was done.
EndAgain ==
    /\ "again" \in Env
    /\ mem # 0 /\ obj[mem].status = "done" /\ obj[mem].seq < MaxSeq
    /\ obj' = [obj EXCEPT ![mem] = [Pushed(mem) EXCEPT !.dirty = TRUE]]
    /\ fired' = fired + 1
    /\ UNCHANGED <<db, lock, made, mem, flush, arch, rest, starts>>

(***************************************************************************)
(* flush_dirty_sessions, one session of it.                                *)
(***************************************************************************)
FlushBegin ==
    /\ flush.pc = "idle" /\ mem # 0
    /\ obj[mem].dirty \/ obj[mem].seq > obj[mem].mark
    /\ flush' = [IdleFlush EXCEPT !.pc = "reading", !.o = mem,
                                  !.new = obj[mem].seq > obj[mem].mark]
    /\ UNCHANGED <<db, lock, obj, made, mem, arch, fired, rest, starts>>

\* The status column is written when it differs from the row that was read.
Column(o) == IF obj[o].status = db.status THEN "same" ELSE obj[o].status
Set(write) == IF write = "same" THEN db.status ELSE write

FlushApply ==
    /\ flush.pc = "reading"
    /\ flush' = [flush EXCEPT !.pc = "waiting", !.write = Column(flush.o)]
    /\ UNCHANGED <<db, lock, obj, made, mem, arch, fired, rest, starts>>

Unflushed(o) == {s \in Buffer(o) : s > obj[o].mark}

FlushWrite ==
    /\ flush.pc = "waiting" /\ lock = Free
    /\ lock' = "flush"
    /\ flush' = [flush EXCEPT !.pc = "writing",
                              !.msgs = IF flush.new THEN Unflushed(flush.o) ELSE {}]
    /\ UNCHANGED <<db, obj, made, mem, arch, fired, rest, starts>>

\* UniqueConstraint("session_id", "sequence") rolls back the whole transaction.
Collides == flush.msgs \cap db.msgs # {}

FlushCommit ==
    /\ flush.pc = "writing" /\ ~ Collides
    /\ db' = [status |-> Set(flush.write), msgs |-> db.msgs \cup flush.msgs]
    /\ lock' = Free
    /\ flush' = [flush EXCEPT !.pc = "committed"]
    /\ UNCHANGED <<obj, made, mem, arch, fired, rest, starts>>

FlushFails ==
    /\ flush.pc = "writing" /\ (Collides \/ "fail" \in Env)
    /\ lock' = Free
    /\ flush' = IdleFlush
    /\ UNCHANGED <<db, obj, made, mem, arch, fired, rest, starts>>

\* Mutant: the watermark is the next sequence number.
MarkedNext(o) == [obj[o] EXCEPT !.mark = obj[o].seq + 1, !.dirty = FALSE]

\* The watermark is the sequence number reached by now, not the one written.
Marked(o) == [obj[o] EXCEPT !.mark = obj[o].seq, !.dirty = FALSE]

FlushDone ==
    /\ flush.pc = "committed"
    /\ obj' = [obj EXCEPT ![flush.o] = Marked(flush.o)]
    /\ flush' = IdleFlush
    /\ UNCHANGED <<db, lock, made, mem, arch, fired, rest, starts>>

(***************************************************************************)
(* archive_session.                                                        *)
(***************************************************************************)
\* Mutant: the archive leaves a dirty session to the flush.
ArchiveStartClean(a) ==
    /\ arch[a].pc = "idle" /\ fired > 0
    /\ fired' = fired - 1
    /\ arch' = IF mem = 0 \/ obj[mem].status # "done" \/ obj[mem].dirty THEN arch
               ELSE [arch EXCEPT ![a] = [IdleArch EXCEPT !.pc = "waiting", !.o = mem,
                                                         !.write = Column(mem)]]
    /\ UNCHANGED <<db, lock, obj, made, mem, flush, rest, starts>>

ArchiveStart(a) ==
    /\ arch[a].pc = "idle" /\ fired > 0
    /\ fired' = fired - 1
    /\ arch' = IF mem = 0 \/ obj[mem].status # "done" THEN arch
               ELSE [arch EXCEPT ![a] = [IdleArch EXCEPT !.pc = "waiting", !.o = mem,
                                                         !.write = Column(mem)]]
    /\ UNCHANGED <<db, lock, obj, made, mem, flush, rest, starts>>

\* Mutant: the archive adds what the flush has not stored.
KeptUnflushed(o) == Unflushed(o)
\* The rows of the session are deleted and the buffer is written.
Kept(o) == Buffer(o)

ArchiveWrite(a) ==
    /\ arch[a].pc = "waiting" /\ lock = Free
    /\ lock' = a
    /\ arch' = [arch EXCEPT ![a].pc = "writing", ![a].msgs = Kept(arch[a].o)]
    /\ UNCHANGED <<db, obj, made, mem, flush, fired, rest, starts>>

ArchiveCommit(a) ==
    /\ arch[a].pc = "writing"
    /\ db' = [status |-> Set(arch[a].write), msgs |-> arch[a].msgs]
    /\ lock' = Free
    /\ arch' = [arch EXCEPT ![a].pc = "committed"]
    /\ UNCHANGED <<obj, made, mem, flush, fired, rest, starts>>

\* _archive_session logs the exception; nothing tries again.
ArchiveFails(a) ==
    /\ "fail" \in Env /\ arch[a].pc = "writing"
    /\ lock' = Free
    /\ arch' = [arch EXCEPT ![a] = IdleArch]
    /\ UNCHANGED <<db, obj, made, mem, flush, fired, rest, starts>>

ArchiveDone(a) ==
    /\ arch[a].pc = "committed"
    /\ mem' = 0
    /\ arch' = [arch EXCEPT ![a] = IdleArch]
    /\ UNCHANGED <<db, lock, obj, made, flush, fired, rest, starts>>

(***************************************************************************)
(* Objects read from the database.                                         *)
(***************************************************************************)
Top(S) == IF S = {} THEN 0 ELSE CHOOSE s \in S : \A t \in S : t <= s

\* Mutant: the watermark starts at zero again.
LoadedUnmarked(d, status) ==
    [Blank EXCEPT !.status = status, !.texts = d.msgs, !.seq = Top(d.msgs)]

Loaded(d, status) ==
    [Blank EXCEPT !.status = status, !.texts = d.msgs, !.seq = Top(d.msgs),
                  !.mark = Top(d.msgs)]

RestoreCheck(r) ==
    /\ "restore" \in Env /\ rest[r] = "idle" /\ mem = 0 /\ made < MaxObjs
    /\ rest' = [rest EXCEPT ![r] = "reading"]
    /\ UNCHANGED <<db, lock, obj, made, mem, flush, arch, fired, starts>>

RestoreRow(r) ==
    /\ rest[r] = "reading"
    /\ rest' = [rest EXCEPT ![r] = IF db.status = "done" THEN "loading" ELSE "idle"]
    /\ UNCHANGED <<db, lock, obj, made, mem, flush, arch, fired, starts>>

\* Registered without another look at _sessions; nothing marks it dirty.
RestoreRegister(r) ==
    /\ rest[r] = "loading" /\ made < MaxObjs
    /\ made' = made + 1
    /\ mem' = made + 1
    /\ obj' = [obj EXCEPT ![made + 1] = Loaded(db, "active")]
    /\ rest' = [rest EXCEPT ![r] = "idle"]
    /\ UNCHANGED <<db, lock, flush, arch, fired, starts>>

\* reload_stale_sessions on the rows d.  A row without any content (stub) is
\* deleted.
Reload(d) ==
    /\ lock' = Free
    /\ flush' = IdleFlush
    /\ arch' = [a \in Archivers |-> IdleArch]
    /\ fired' = 0
    /\ starts < MaxStarts /\ starts' = starts + 1
    /\ rest' = [r \in Restorers |-> "idle"]
    /\ \E stub \in BOOLEAN :
         /\ stub => d.msgs = {}
         /\ IF d.status \in Live /\ ~ stub
            THEN /\ made' = 1
                 /\ mem' = 1
                 /\ obj' = [o \in Objs |-> IF o = 1 THEN Loaded(d, d.status) ELSE Blank]
                 /\ db' = d
            ELSE /\ made' = 0
                 /\ mem' = 0
                 /\ obj' = [o \in Objs |-> Blank]
                 /\ db' = IF d.status \in Live THEN [status |-> "none", msgs |-> {}] ELSE d

Crash ==
    /\ "crash" \in Env
    /\ Reload(db)

\* Shutdown: the loop and the tasks are cancelled; a commit on its way lands or
\* is rolled back.  An archive cancelled in its commit, or after it, takes the
\* session out of memory first; save_all_sessions writes what is left there.
Landed ==
    {db}
    \cup {[status |-> Set(arch[a].write), msgs |-> arch[a].msgs] :
            a \in {b \in Archivers : arch[b].pc = "writing"}}
    \cup {[status |-> Set(f.write), msgs |-> db.msgs \cup f.msgs] :
            f \in {g \in {flush} : g.pc = "writing" /\ ~ Collides}}

Saved(d, popped) ==
    IF mem = 0 \/ popped THEN d ELSE [status |-> obj[mem].status, msgs |-> Buffer(mem)]

Shutdown ==
    /\ "shutdown" \in Env
    /\ \E d \in Landed, popped \in BOOLEAN :
         /\ popped => \E a \in Archivers : arch[a].pc \in {"writing", "committed"}
         /\ (\E a \in Archivers : arch[a].pc = "committed") => popped
         /\ Reload(Saved(d, popped))

Next ==
    \/ \E o \in Objs : Push(o)
    \/ PushEphemeral \/ PauseOrResume \/ End \/ EndAgain
    \/ FlushBegin \/ FlushApply \/ FlushWrite \/ FlushCommit \/ FlushFails \/ FlushDone
    \/ \E a \in Archivers : ArchiveStart(a) \/ ArchiveWrite(a) \/ ArchiveCommit(a)
                            \/ ArchiveFails(a) \/ ArchiveDone(a)
    \/ \E r \in Restorers : RestoreCheck(r) \/ RestoreRow(r) \/ RestoreRegister(r)
    \/ Crash \/ Shutdown

Spec == Init /\ [][Next]_vars

\* Tasks run, statements return, and the flush loop ticks.
FairSpec ==
    /\ Spec
    /\ WF_vars(FlushBegin \/ FlushApply) /\ SF_vars(FlushWrite)
    /\ WF_vars(FlushCommit) /\ WF_vars(FlushFails) /\ WF_vars(FlushDone)
    /\ \A a \in Archivers :
         WF_vars(ArchiveStart(a)) /\ SF_vars(ArchiveWrite(a))
         /\ WF_vars(ArchiveCommit(a)) /\ WF_vars(ArchiveDone(a))

(***************************************************************************)
(* Properties.                                                             *)
(***************************************************************************)
\* What a flush is about to insert is not stored yet, whatever mix of flushes,
\* reloads and restores came before; only an archive of the same session that
\* has just committed may collide with it.  A collision rolls back the title
\* and the status as well, on this and on every later tick.  session.py:1192 of
\* the restored session: "keep session and message rows in DB for incremental
\* flush continuity".
FlushFits ==
    flush.pc = "writing" /\ flush.o = mem
        /\ (\A a \in Archivers : arch[a].pc # "committed") => ~ Collides

\* A stored message stays stored: the archive and the shutdown, which delete
\* the rows and write the buffer, lose nothing of what earlier flushes and
\* earlier lives of the session have stored.
StoredStays == [][ db.msgs \subseteq db'.msgs ]_vars

\* A session leaves memory only when everything its buffer held when it ended is
\* stored, also when its archive races a flush or late pushes.
ArchivedWhole ==
    [][ \A a \in Archivers : ArchiveDone(a) => obj[arch[a].o].atEnd \subseteq db.msgs ]_vars

\* A session that has ended leaves memory: its archive is not lost to a flush.
EndedLeaves == (mem # 0 /\ obj[mem].status = "done") ~> (mem = 0 \/ obj[mem].status # "done")

\* Claims of the repository that the code does not keep (README, section 6).

\* sessions.md:147 of the flush: "This guarantees that title, ... and chat
\* messages survive an ungraceful crash or SIGKILL".  A session that no flush
\* will visit again (not dirty, nothing above the watermark) is in the database.
FlushedIsSaved ==
    mem # 0 /\ obj[mem].status \in Live
        /\ flush.pc = "idle" /\ ~ obj[mem].dirty /\ obj[mem].mark = obj[mem].seq
        => obj[mem].texts \subseteq db.msgs

\* background_tasks.py:119-121: the archive "updates all fields on completion, so
\* the stub row is always superseded by the final values."  The row of a session
\* that was archived is not turned back by an older write.
ClosedStaysClosed ==
    [][ mem = 0 /\ db.status = "done" => db'.status = "done" ]_vars

\* session.py:1122 of restore_session: "RuntimeError: If the session is already
\* in memory".  A restore does not replace an object that is there.
RestoreOnce == [][ \A r \in Restorers : RestoreRegister(r) => mem = 0 ]_vars

\* sessions.md:150 of the graceful shutdown: "state is preserved cleanly".  What
\* the buffer of a session in memory holds is stored.
ShutdownKeeps == [][ Shutdown /\ mem # 0 => Buffer(mem) \subseteq db'.msgs ]_vars
=============================================================================
