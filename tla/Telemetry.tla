----------------------------- MODULE Telemetry -----------------------------
(***************************************************************************)
(* The rows of LLM turns and tool calls, and their aggregation into        *)
(* minutely buckets up to a watermark that is kept in memory and in the    *)
(* database.                                                               *)
(*                                                                         *)
(* Source: src/src/services/telemetry_service.py, main.py (its loop).      *)
(*                                                                         *)
(* A turn and a tool call differ only in that a turn may be interrupted.   *)
(* Times are numbers that grow; a row is stamped before it is committed.   *)
(***************************************************************************)
EXTENDS Integers, FiniteSetsExt

CONSTANTS
    Rows,          \* turns and tool calls
    MaxTime,       \* bound: ends that are stamped
    MaxLives,      \* bound: starts of the worker
    TelemetryEnv   \* a subset of {"crash", "badload", "late"}: the worker is killed, the
                   \* watermark cannot be read, a commit is overtaken by a later end

ASSUME TelemetryAssumption ==
    /\ MaxTime \in Nat \ {0} /\ MaxLives \in Nat \ {0}
    /\ TelemetryEnv \subseteq {"crash", "badload", "late"}

VARIABLES
    row,        \* each row in the database, and the end its handle has stamped
    now,        \* the next time to be stamped
    mark,       \* the watermark: in memory, loaded or not, and in telemetry_state
    fold,       \* the aggregation: the rows it has read, the watermark it will set
    counted,    \* how often each row has been added to the buckets
    lives       \* starts of the worker

telemetryVars == <<row, now, mark, fold, counted, lives>>

Times == 0 .. MaxTime
NoFold == [pc |-> "idle", rows |-> {}, upto |-> 0]

TelemetryTypeOK ==
    /\ row \in [Rows -> [pc : {"none", "open", "stamped", "ended", "interrupted", "lost", "deleted"}, at : Times]]
    /\ now \in 1 .. MaxTime + 1
    /\ mark \in [mem : Times, loaded : BOOLEAN, db : Times]
    /\ fold \in [pc : {"idle", "read", "committed"}, rows : SUBSET Rows, upto : Times]
    /\ counted \in [Rows -> 0 .. 2]
    /\ lives \in 1 .. MaxLives

TelemetryInit ==
    /\ row = [r \in Rows |-> [pc |-> "none", at |-> 0]]
    /\ now = 1
    /\ mark = [mem |-> 0, loaded |-> FALSE, db |-> 0]
    /\ fold = NoFold
    /\ counted = [r \in Rows |-> 0]
    /\ lives = 1

\* record_turn_start, record_tool_start: the stub of the session, then the row.
RecordStart(r) ==
    /\ row[r].pc = "none"
    /\ row' = [row EXCEPT ![r].pc = "open"]
    /\ UNCHANGED <<now, mark, fold, counted, lives>>

\* record_turn_end, record_tool_end: the time is taken, then awaits follow.
StampEnd(r) ==
    /\ row[r].pc = "open" /\ now <= MaxTime
    /\ "late" \in TelemetryEnv \/ \A q \in Rows : row[q].pc # "stamped"
    /\ row' = [row EXCEPT ![r] = [pc |-> "stamped", at |-> now]]
    /\ now' = now + 1
    /\ UNCHANGED <<mark, fold, counted, lives>>

\* The commit, or its failure: then the row never gets an end.
CommitEnd(r) ==
    /\ row[r].pc = "stamped"
    /\ row' \in {[row EXCEPT ![r].pc = "ended"], [row EXCEPT ![r].pc = "lost"]}
    /\ UNCHANGED <<now, mark, fold, counted, lives>>

\* mark_turn_interrupted.
Interrupt(r) ==
    /\ row[r].pc = "open"
    /\ row' = [row EXCEPT ![r].pc = "interrupted"]
    /\ UNCHANGED <<now, mark, fold, counted, lives>>

\* _load_watermark, once: a failure to read counts as loaded.
LoadWatermark ==
    /\ fold.pc = "idle" /\ ~ mark.loaded
    /\ \/ mark' = [mark EXCEPT !.mem = mark.db, !.loaded = TRUE]
       \/ "badload" \in TelemetryEnv /\ mark' = [mark EXCEPT !.loaded = TRUE]
    /\ UNCHANGED <<row, now, fold, counted, lives>>

Fresh == {r \in Rows : row[r].pc = "ended" /\ row[r].at > mark.mem}

\* _run_aggregation up to the commit: one snapshot of the ended rows.
AggregateReads ==
    /\ fold.pc = "idle" /\ mark.loaded /\ Fresh # {}
    /\ fold' = [pc |-> "read", rows |-> Fresh, upto |-> Max({row[r].at : r \in Fresh})]
    /\ UNCHANGED <<row, now, mark, counted, lives>>

\* The buckets and the watermark are one transaction; it may fail as a whole.
\* Mutant: the watermark is only kept in memory.
AggregateCommitsBucketsOnly ==
    /\ fold.pc = "read"
    /\ \/ /\ counted' = [r \in Rows |-> IF r \in fold.rows THEN counted[r] + 1 ELSE counted[r]]
          /\ fold' = [fold EXCEPT !.pc = "committed"]
          /\ mark' = mark
       \/ fold' = NoFold /\ UNCHANGED <<counted, mark>>
    /\ UNCHANGED <<row, now, lives>>
AggregateCommits ==
    /\ fold.pc = "read"
    /\ \/ /\ counted' = [r \in Rows |-> IF r \in fold.rows THEN counted[r] + 1 ELSE counted[r]]
          /\ mark' = [mark EXCEPT !.db = fold.upto]
          /\ fold' = [fold EXCEPT !.pc = "committed"]
       \/ fold' = NoFold /\ UNCHANGED <<counted, mark>>
    /\ UNCHANGED <<row, now, lives>>

AggregateDone ==
    /\ fold.pc = "committed"
    /\ mark' = [mark EXCEPT !.mem = fold.upto]
    /\ fold' = NoFold
    /\ UNCHANGED <<row, now, counted, lives>>

\* cleanup_old_records, between two aggregations: rows that are old enough to be counted.
CleanUp ==
    /\ fold.pc = "idle"
    /\ \E r \in Rows : row[r].pc = "ended" /\ row[r].at <= mark.mem
                       /\ row' = [row EXCEPT ![r].pc = "deleted"]
    /\ UNCHANGED <<now, mark, fold, counted, lives>>

\* The handles of the open rows are lost.
RestartTelemetry ==
    /\ "crash" \in TelemetryEnv /\ lives < MaxLives
    /\ lives' = lives + 1
    /\ row' = [r \in Rows |-> IF row[r].pc \in {"open", "stamped"} THEN [row[r] EXCEPT !.pc = "lost"]
                                                               ELSE row[r]]
    /\ mark' = [mark EXCEPT !.mem = 0, !.loaded = FALSE]
    /\ fold' = NoFold
    /\ UNCHANGED <<now, counted>>

TelemetryNext ==
    \/ \E r \in Rows : RecordStart(r) \/ StampEnd(r) \/ CommitEnd(r) \/ Interrupt(r)
    \/ LoadWatermark \/ AggregateReads \/ AggregateCommits \/ AggregateDone
    \/ CleanUp \/ RestartTelemetry

TelemetrySpec == TelemetryInit /\ [][TelemetryNext]_telemetryVars

(***************************************************************************)
(* Properties                                                              *)
(***************************************************************************)
\* No row is added to the buckets twice, wherever a worker is killed between the read,
\* the commit and the watermark, and none that did not end; and the watermark in memory
\* never passes the one that a restart would read.
CountedOnce ==
    /\ \A r \in Rows : counted[r] <= 1 /\ (counted[r] = 1 => row[r].pc \in {"ended", "deleted"})
    /\ mark.mem <= mark.db

(***************************************************************************)
(* Claims of the repository that the code does not keep (README, section 6).*)
(***************************************************************************)
\* "must still be counted exactly once" (telemetry_service.py:331): a row that is stamped
\* first may be committed last.
NeverMissed == \A r \in Rows : row[r].pc = "ended" /\ row[r].at <= mark.db => counted[r] = 1

\* "a restart never re-folds already-counted rows" (telemetry_service.py:65), also with "badload".
NeverRefolded == \A r \in Rows : counted[r] <= 1
=============================================================================
