---------------------------- MODULE OutputStream ----------------------------
(***************************************************************************)
(* What clients of /ws/output/text see of one session: the replay of its   *)
(* history and the live messages after it, and the updates and lists of    *)
(* sessions and rows (tasks, artifacts, issues, pull requests).            *)
(*                                                                         *)
(* Source: src/src/api/ws/output_text.py, core/buffer.py, core/session.py  *)
(* (subscriptions, broadcasts, lists), api/deps.py.                        *)
(*                                                                         *)
(* A connection has a reader of its commands, a task for the updates, and  *)
(* a stream task per session.  A cancelled stream task unwinds before the  *)
(* task created after it starts: the two are one step here.                *)
(***************************************************************************)
EXTENDS Integers, SequencesExt

CONSTANTS
    Viewers,     \* connections
    HistoryCap,  \* messages a buffer keeps
    MaxPushes,   \* bound: messages of the session
    MaxObjects,  \* bound: objects of the session in memory, one after the other
    MaxNews      \* bound: changes of what lists show; a queue holds one update more

ASSUME OutputAssumption ==
    /\ HistoryCap \in Nat \ {0} /\ MaxPushes \in Nat /\ MaxNews \in Nat
    /\ MaxObjects \in Nat \ {0}

VARIABLES
    buffers,    \* each object's messages, sequence number, and whether it is closed
    current,    \* the registered object, 0 once the session is archived
    listening,  \* the subscribers of each buffer
    online,     \* the connections that are open
    stream,     \* each connection's stream task of the session
    got,        \* history: what the stream has sent
    version,    \* the state lists show of sessions and of rows, and what was broadcast of it
    updates,    \* the queue of a connection's update task
    listing,    \* a list command in progress: what it has read
    shown       \* what a client shows

outVars == <<buffers, current, listening, online, stream, got, version, updates, listing, shown>>
streamVars == <<buffers, current, listening, stream, got>>
viewVars == <<version, updates, listing, shown>>

Objects == 1 .. MaxObjects
Topics == {"sessions", "rows"}
End == [seq |-> 0, kept |-> FALSE]
NoStream == [pc |-> "none", obj |-> 0, left |-> 0, since |-> 0, queue |-> <<>>, marked |-> FALSE]
NoList == [topic |-> "none", val |-> 0]

OutTypeOK ==
    LET Message == [seq : 0 .. MaxPushes, kept : BOOLEAN]
        Sent == [what : {"replay", "live", "marker"}, seq : 0 .. MaxPushes, kept : BOOLEAN]
    IN /\ \A o \in Objects :
            /\ buffers[o].log \in Seq(1 .. MaxPushes)
            /\ buffers[o].seq \in 0 .. MaxPushes /\ buffers[o].closed \in BOOLEAN
       /\ current \in {0} \cup Objects
       /\ listening \in [Objects -> SUBSET Viewers]
       /\ online \subseteq Viewers
       /\ \A v \in Viewers :
            /\ stream[v].pc \in {"none", "start", "marker", "run", "done"}
            /\ stream[v].obj \in {0} \cup Objects /\ stream[v].left \in 0 .. MaxPushes
            /\ stream[v].queue \in Seq(Message)
            /\ got[v] \in Seq(Sent)
            /\ updates[v] \in Seq(Topics \X (0 .. MaxNews))
            /\ listing[v].topic \in {"none"} \cup Topics /\ listing[v].val \in 0 .. MaxNews
            /\ shown[v] \in [Topics -> 0 .. MaxNews]
       /\ version \in [Topics -> [now : 0 .. MaxNews, told : 0 .. MaxNews]]

OutInit ==
    /\ buffers = [o \in Objects |-> [log |-> <<>>, seq |-> 0, closed |-> FALSE]]
    /\ current = 1
    /\ listening = [o \in Objects |-> {}]
    /\ online = {}
    /\ stream = [v \in Viewers |-> NoStream]
    /\ got = [v \in Viewers |-> <<>>]
    /\ version = [t \in Topics |-> [now |-> 0, told |-> 0]]
    /\ updates = [v \in Viewers |-> <<>>]
    /\ listing = [v \in Viewers |-> NoList]
    /\ shown = [v \in Viewers |-> [t \in Topics |-> 0]]

(***************************************************************************)
(* The buffer                                                              *)
(***************************************************************************)
\* The deque: the last HistoryCap messages that were pushed to stay.
TextHistory(o) ==
    LET log == buffers[o].log
        n == Len(log)
    IN SubSeq(log, IF n > HistoryCap THEN n - HistoryCap + 1 ELSE 1, n)

Offered(o, msg) ==
    stream' = [v \in Viewers |->
                 IF v \in listening[o] THEN [stream[v] EXCEPT !.queue = Append(@, msg)]
                                       ELSE stream[v]]

PushText(o) ==
    /\ buffers[o].seq < MaxPushes
    /\ buffers' = [buffers EXCEPT ![o].seq = @ + 1, ![o].log = Append(@, buffers[o].seq + 1)]
    /\ Offered(o, [seq |-> buffers[o].seq + 1, kept |-> TRUE])
    /\ UNCHANGED <<current, listening, online, got>> /\ UNCHANGED viewVars

PushEphemeral(o) ==
    /\ buffers[o].seq < MaxPushes
    /\ buffers' = [buffers EXCEPT ![o].seq = @ + 1]
    /\ Offered(o, [seq |-> buffers[o].seq + 1, kept |-> FALSE])
    /\ UNCHANGED <<current, listening, online, got>> /\ UNCHANGED viewVars

\* complete, fail and cancel close the buffer.
Close(o) ==
    /\ ~ buffers[o].closed
    /\ buffers' = [buffers EXCEPT ![o].closed = TRUE]
    /\ Offered(o, End)
    /\ listening' = [listening EXCEPT ![o] = {}]
    /\ UNCHANGED <<current, online, got>> /\ UNCHANGED viewVars

Archive ==
    /\ current # 0 /\ buffers[current].closed
    /\ current' = 0
    /\ UNCHANGED <<buffers, listening, online, stream, got>> /\ UNCHANGED viewVars

\* A new object, with the messages that were stored.
Restore ==
    /\ current = 0
    /\ \E o \in Objects \ {1} :
          /\ buffers[o].seq = 0 /\ buffers[o - 1].seq > 0
          /\ buffers' = [buffers EXCEPT ![o] = [buffers[o - 1] EXCEPT !.closed = FALSE]]
          /\ current' = o
    /\ UNCHANGED <<listening, online, stream, got>> /\ UNCHANGED viewVars

(***************************************************************************)
(* Stream tasks                                                            *)
(***************************************************************************)
\* Mutant: every number that was given counts as history.
SequenceCount(o) == buffers[o].seq
HistoryCount(o) == Len(TextHistory(o))

\* The reader ends the old task of the session: its subscription goes with it.
Dropped(v) == [o \in Objects |-> listening[o] \ {v}]

Told(t, val, vs) ==
    updates' = [v \in Viewers |-> IF v \in vs THEN Append(updates[v], <<t, val>>) ELSE updates[v]]
Changes == version["sessions"].now + version["rows"].now
HasRoom == \A v \in online : Len(updates[v]) <= MaxNews

\* A new stream, and the current state of the session for everybody.
Subscribe(v) ==
    /\ v \in online /\ listing[v] = NoList /\ HasRoom
    /\ listening' = Dropped(v)
    /\ stream' = [stream EXCEPT ![v] = [NoStream EXCEPT !.pc = "start"]]
    /\ got' = [got EXCEPT ![v] = <<>>]
    /\ IF current # 0 THEN Told("sessions", version["sessions"].now, online) ELSE UNCHANGED updates
    /\ UNCHANGED <<buffers, current, online, version, listing, shown>>

Unsubscribe(v) ==
    /\ v \in online /\ listing[v] = NoList /\ stream[v].pc # "none"
    /\ listening' = Dropped(v)
    /\ stream' = [stream EXCEPT ![v] = NoStream]
    /\ got' = [got EXCEPT ![v] = <<>>]
    /\ UNCHANGED <<buffers, current, online>> /\ UNCHANGED viewVars

\* A session the connection has ever had a stream of is passed over.
SubscribeAll(v) ==
    /\ v \in online /\ listing[v] = NoList
    /\ stream[v].pc = "none" /\ current # 0 /\ ~ buffers[current].closed
    /\ stream' = [stream EXCEPT ![v].pc = "start"]
    /\ UNCHANGED <<buffers, current, listening, online, got>> /\ UNCHANGED viewVars

\* Counting, the copy of the history into the queue, the subscription: no await between.
StreamStart(v) ==
    /\ stream[v].pc = "start"
    /\ IF current = 0
       THEN stream' = [stream EXCEPT ![v].pc = "done"] /\ UNCHANGED listening
       ELSE LET n == HistoryCount(current)
                replay == [i \in DOMAIN TextHistory(current) |->
                             [seq |-> TextHistory(current)[i], kept |-> TRUE]]
                closed == buffers[current].closed
            IN /\ stream' = [stream EXCEPT ![v] =
                     [pc |-> IF n = 0 THEN "marker" ELSE "run", obj |-> current, left |-> n,
                      since |-> buffers[current].seq,
                      queue |-> IF closed THEN Append(replay, End) ELSE replay, marked |-> FALSE]]
               /\ listening' = IF closed THEN listening
                               ELSE [listening EXCEPT ![current] = @ \cup {v}]
    /\ UNCHANGED <<buffers, current, online, got>> /\ UNCHANGED viewVars

StreamSend(v) ==
    /\ stream[v].pc = "run" /\ stream[v].queue # <<>>
    /\ LET msg == Head(stream[v].queue)
           left == IF stream[v].left > 0 THEN stream[v].left - 1 ELSE 0
       IN IF msg = End
          THEN /\ stream' = [stream EXCEPT ![v].pc = "done", ![v].queue = <<>>]
               /\ listening' = [listening EXCEPT ![stream[v].obj] = @ \ {v}]
               /\ UNCHANGED got
          ELSE /\ stream' = [stream EXCEPT
                     ![v].pc = IF left = 0 /\ ~ stream[v].marked THEN "marker" ELSE "run",
                     ![v].left = left, ![v].queue = Tail(@)]
               /\ got' = [got EXCEPT ![v] = Append(@,
                     [what |-> IF stream[v].left > 0 THEN "replay" ELSE "live",
                      seq |-> msg.seq, kept |-> msg.kept])]
               /\ UNCHANGED listening
    /\ UNCHANGED <<buffers, current, online>> /\ UNCHANGED viewVars

SendHistoryReplayed(v) ==
    /\ stream[v].pc = "marker"
    /\ stream' = [stream EXCEPT ![v].pc = "run", ![v].marked = TRUE]
    /\ got' = [got EXCEPT ![v] = Append(@, [what |-> "marker", seq |-> 0, kept |-> FALSE])]
    /\ UNCHANGED <<buffers, current, listening, online>> /\ UNCHANGED viewVars

(***************************************************************************)
(* Connections, updates and lists                                          *)
(***************************************************************************)
\* Once the key is checked; a client begins with the two lists.
Connect(v) ==
    /\ v \notin online
    /\ online' = online \cup {v}
    /\ updates' = [updates EXCEPT ![v] = <<>>]
    /\ shown' = [shown EXCEPT ![v] = [t \in Topics |-> version[t].now]]
    /\ UNCHANGED <<version, listing>> /\ UNCHANGED streamVars

Disconnect(v) ==
    /\ v \in online
    /\ online' = online \ {v}
    /\ updates' = [updates EXCEPT ![v] = <<>>]
    /\ listening' = Dropped(v)
    /\ stream' = [stream EXCEPT ![v] = NoStream]
    /\ got' = [got EXCEPT ![v] = <<>>]
    /\ listing' = [listing EXCEPT ![v] = NoList]
    /\ UNCHANGED <<buffers, current, version, shown>>

\* A change of a session is broadcast at once, one of a row after its commit.
SessionChanges ==
    /\ Changes < MaxNews /\ HasRoom
    /\ version' = [version EXCEPT !["sessions"] = [now |-> @.now + 1, told |-> @.now + 1]]
    /\ Told("sessions", version["sessions"].now + 1, online)
    /\ UNCHANGED <<online, listing, shown>> /\ UNCHANGED streamVars

RowCommitted ==
    /\ Changes < MaxNews
    /\ version' = [version EXCEPT !["rows"].now = @ + 1]
    /\ UNCHANGED <<online, updates, listing, shown>> /\ UNCHANGED streamVars

RowBroadcast ==
    /\ version["rows"].told < version["rows"].now /\ HasRoom
    /\ version' = [version EXCEPT !["rows"].told = version["rows"].now]
    /\ Told("rows", version["rows"].now, online)
    /\ UNCHANGED <<online, listing, shown>> /\ UNCHANGED streamVars

UpdateSent(v) ==
    /\ v \in online /\ updates[v] # <<>>
    /\ updates' = [updates EXCEPT ![v] = Tail(@)]
    /\ shown' = [shown EXCEPT ![v][Head(updates[v])[1]] = Head(updates[v])[2]]
    /\ UNCHANGED <<online, version, listing>> /\ UNCHANGED streamVars

\* The sessions in memory are read before the rows of the archived ones are awaited.
ListSessions(v) ==
    /\ v \in online /\ listing[v] = NoList
    /\ listing' = [listing EXCEPT ![v] = [topic |-> "sessions", val |-> version["sessions"].now]]
    /\ UNCHANGED <<online, version, updates, shown>> /\ UNCHANGED streamVars

ListRows(v) ==
    /\ v \in online /\ listing[v] = NoList
    /\ listing' = [listing EXCEPT ![v] = [topic |-> "rows", val |-> version["rows"].now]]
    /\ UNCHANGED <<online, version, updates, shown>> /\ UNCHANGED streamVars

ListSent(v) ==
    /\ listing[v] # NoList
    /\ shown' = [shown EXCEPT ![v][listing[v].topic] = listing[v].val]
    /\ listing' = [listing EXCEPT ![v] = NoList]
    /\ UNCHANGED <<online, version, updates>> /\ UNCHANGED streamVars

OutNext ==
    \/ \E o \in Objects :
          /\ buffers[o].seq > 0 \/ o = current
          /\ PushText(o) \/ PushEphemeral(o) \/ Close(o)
    \/ Archive \/ Restore \/ SessionChanges \/ RowCommitted \/ RowBroadcast
    \/ \E v \in Viewers :
          \/ Connect(v) \/ Disconnect(v) \/ Subscribe(v) \/ Unsubscribe(v) \/ SubscribeAll(v)
          \/ StreamStart(v) \/ StreamSend(v) \/ SendHistoryReplayed(v)
          \/ UpdateSent(v) \/ ListSessions(v) \/ ListRows(v) \/ ListSent(v)

OutSpec == OutInit /\ [][OutNext]_outVars

(***************************************************************************)
(* Properties                                                              *)
(***************************************************************************)
Kept(q) == {q[i].seq : i \in {j \in DOMAIN q : q[j].kept}}
Ascending(q) == \A i, j \in DOMAIN q : i < j /\ q[i].kept /\ q[j].kept => q[i].seq < q[j].seq

\* What a stream has sent of the session: the replay, the marker, the rest.
Split(g, since) ==
    /\ \A i \in DOMAIN g :
          /\ g[i].what = "replay" => g[i].seq <= since
          /\ g[i].what = "live" => g[i].seq > since
          /\ g[i].what = "marker" => /\ \A j \in 1 .. i - 1 : g[j].what = "replay"
                                     /\ \A j \in i + 1 .. Len(g) : g[j].what = "live"
    /\ (\E i \in DOMAIN g : g[i].what = "live") => \E i \in DOMAIN g : g[i].what = "marker"

\* The history's messages of a stream, sent or queued: each once and in order, and
\* none left out between two of them.
Contiguous(g, q, log) ==
    /\ Ascending(g) /\ Ascending(q) /\ \A x \in Kept(g), y \in Kept(q) : x < y
    /\ Kept(g) \cup Kept(q) \subseteq Range(log)
    /\ \A x, y \in Kept(g) \cup Kept(q), m \in Range(log) :
          x <= m /\ m <= y => m \in Kept(g) \cup Kept(q)

\* "Sent right after the last replayed message and before the first live one"
\* (output_text.py:104): whatever is pushed, evicted or closed around a subscription,
\* what was there before it comes as replay, then the marker, then the rest; nothing
\* that stays in the history is left out or sent twice, up to the newest message while
\* the buffer is open.
MarkerSplits ==
    \A v \in Viewers : stream[v].pc \in {"marker", "run", "done"} /\ stream[v].obj # 0 =>
        LET queue == stream[v].queue
            log == buffers[stream[v].obj].log
        IN /\ Split(got[v], stream[v].since)
           /\ Contiguous(got[v], queue, log)
           /\ v \in listening[stream[v].obj] /\ log # <<>>
                => log[Len(log)] \in Kept(got[v]) \cup Kept(queue)

(***************************************************************************)
(* Claims of the repository that the code does not keep (README, section 6).*)
(***************************************************************************)
\* "Session metadata updates ... enables real-time updates of the session list"
\* (docs/design/websocket-api.md:673): when everything is sent, a client shows what is.
ViewConverges ==
    \A v \in online, t \in Topics :
        updates[v] = <<>> /\ listing[v] = NoList /\ version[t].told = version[t].now
        => shown[v][t] = version[t].now
=============================================================================
