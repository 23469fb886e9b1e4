---------------------------- MODULE RecordsProofs -----------------------------
(***************************************************************************)
(* Proofs about what the worker stores while it goes on: the messages of a *)
(* session (SessionPersistence), for every value of its constants.         *)
(***************************************************************************)
EXTENDS SessionPersistence, ListLemmas

-----------------------------------------------------------------------------
(***************************************************************************)
(* SessionPersistence, for any number of messages, failures, late pushes,  *)
(* archivers and crashes, of a session that no client restores and whose   *)
(* buffer holds all its messages. With a smaller buffer the archive drops  *)
(* what was flushed before it left the buffer, and a restore may fill a    *)
(* buffer from rows that an archive still replaces (README, section 6).    *)
(*                                                                         *)
(* A flush reads the buffer before it takes the lock and an archive        *)
(* replaces every row: nothing stored is lost because the object always    *)
(* holds what the rows hold, and each writer writes, under the lock, what  *)
(* it read from that object.                                               *)
(***************************************************************************)

ObjType == [status : Live \cup {"done"}, seq : 0 .. MaxSeq, texts : SUBSET Seqs, mark : 0 .. MaxSeq,
            dirty : BOOLEAN, atEnd : SUBSET Seqs]
RowsType == [status : Live \cup {"done", "none"}, msgs : SUBSET Seqs]
FlushType == [pc : {"idle", "reading", "waiting", "writing", "committed"}, o : {0, 1}, new : BOOLEAN,
              write : Write, msgs : SUBSET Seqs]
ArchType == [pc : {"idle", "waiting", "writing", "committed"}, o : {0, 1}, write : Write, msgs : SUBSET Seqs]

(* A session that no client restores, in a buffer that holds all of it.     *)
Whole == MaxSeq <= Cap /\ "restore" \notin Env

PersistTyped ==
    /\ db \in RowsType /\ obj \in [Objs -> ObjType]
    /\ made \in {0, 1} /\ mem \in {0, made}
    /\ flush \in FlushType /\ arch \in [Archivers -> ArchType]
    /\ fired \in Nat
    /\ \A r \in Restorers : rest[r] = "idle"

(* The object holds what is stored, and what it had when it ended.          *)
ObjectHolds == made = 1 => db.msgs \cup obj[1].atEnd \subseteq obj[1].texts
(* The flush writes what the object holds, under the lock.                  *)
FlushHolds ==
    /\ flush.pc # "idle" => made = 1 /\ flush.o = 1
    /\ flush.pc = "writing" => lock = "flush" /\ flush.msgs \subseteq obj[1].texts
(* An archive is of the session that has ended.  It writes, under the lock, *)
(* no less than is stored and no less than the session had when it ended.   *)
ArchiveHolds ==
    \A a \in Archivers :
        /\ arch[a].pc # "idle" => made = 1 /\ arch[a].o = 1 /\ obj[1].status = "done"
        /\ arch[a].pc = "writing" => /\ lock = a
                                     /\ db.msgs \cup obj[1].atEnd \subseteq arch[a].msgs
                                     /\ arch[a].msgs \subseteq obj[1].texts
        /\ arch[a].pc = "committed" => obj[1].atEnd \subseteq db.msgs

PersistInv == PersistTyped /\ ObjectHolds /\ FlushHolds /\ ArchiveHolds
-----------------------------------------------------------------------------
LEMMA ObjOne == 1 \in Objs /\ MaxObjs \in Nat /\ MaxSeq \in Nat /\ 0 \in 0 .. MaxSeq
BY PersistenceAssumption DEF Objs

LEMMA NewestAll == ASSUME MaxSeq <= Cap, NEW S \in SUBSET Seqs PROVE Newest(S) = S
<1>1. IsFiniteSet(Seqs) /\ Cardinality(Seqs) = MaxSeq
  BY PersistenceAssumption, FS_Interval DEF Seqs
<1>2. ASSUME NEW s \in S PROVE Cardinality({t \in S : t >= s}) <= Cap
  <2>1. Cardinality({t \in S : t >= s}) <= MaxSeq /\ Cardinality({t \in S : t >= s}) \in Nat
    BY <1>1, FS_Subset, FS_CardinalityType
  <2> QED
    BY <2>1, PersistenceAssumption
<1> QED
  BY <1>2 DEF Newest

LEMMA TopType == ASSUME NEW S \in SUBSET Seqs PROVE Top(S) \in 0 .. MaxSeq
<1>1. CASE S = {}
  BY <1>1, ObjOne DEF Top
<1>2. CASE S # {}
  <2>1. IsFiniteSet(S) /\ S \in SUBSET Nat
    <3>1. IsFiniteSet(Seqs) /\ Seqs \subseteq Nat
      BY PersistenceAssumption, FS_Interval DEF Seqs
    <3> QED
      BY <3>1, FS_Subset
  <2>2. \E s \in S : \A t \in S : t <= s
    BY <1>2, <2>1, MaxProperties
  <2>3. Top(S) \in S
    BY <1>2, <2>2 DEF Top
  <2>4. Top(S) \in Seqs
    BY <2>3
  <2> QED
    BY <2>4, ObjOne DEF Seqs
<1> QED
  BY <1>1, <1>2

LEMMA PushedFields ==
    ASSUME NEW o \in Objs, obj[o] \in ObjType, obj[o].seq < MaxSeq
    PROVE  /\ Pushed(o) \in ObjType /\ Pushed(o).status = obj[o].status /\ Pushed(o).atEnd = obj[o].atEnd
           /\ obj[o].texts \subseteq Pushed(o).texts
<1> DEFINE x == [obj[o] EXCEPT !.seq = @ + 1]
           y == [x EXCEPT !.texts = @ \cup {obj[o].seq + 1}]
<1>1. x \in ObjType /\ x.status = obj[o].status /\ x.atEnd = obj[o].atEnd /\ x.texts = obj[o].texts
  BY ObjOne DEF ObjType
<1>2. obj[o].seq + 1 \in Seqs
  BY ObjOne DEF ObjType, Seqs
<1>3. Pushed(o) = y
  BY DEF Pushed
<1> HIDE DEF x
<1>4. y \in ObjType /\ y.status = x.status /\ y.atEnd = x.atEnd /\ x.texts \subseteq y.texts
  BY <1>1, <1>2 DEF ObjType
<1> HIDE DEF y
<1> QED
  BY <1>1, <1>3, <1>4

LEMMA LoadedFields ==
    ASSUME NEW d \in RowsType, NEW status \in Live
    PROVE  /\ Loaded(d, status) \in ObjType /\ Loaded(d, status).texts = d.msgs
           /\ Loaded(d, status).atEnd = {}
<1> DEFINE x == [Blank EXCEPT !.status = status]
           y == [x EXCEPT !.texts = d.msgs]
           z == [y EXCEPT !.seq = Top(d.msgs)]
           w == [z EXCEPT !.mark = Top(d.msgs)]
<1>1. x \in ObjType /\ x.atEnd = {}
  BY ObjOne DEF ObjType, Blank, Live
<1>2. d.msgs \in SUBSET Seqs /\ Top(d.msgs) \in 0 .. MaxSeq
  BY TopType DEF RowsType
<1>3. Loaded(d, status) = w
  BY DEF Loaded
<1> HIDE DEF x
<1>4. y \in ObjType /\ y.atEnd = {} /\ y.texts = d.msgs
  BY <1>1, <1>2 DEF ObjType
<1> HIDE DEF y
<1>5. z \in ObjType /\ z.atEnd = {} /\ z.texts = d.msgs
  BY <1>2, <1>4 DEF ObjType
<1> HIDE DEF z
<1>6. w \in ObjType /\ w.atEnd = {} /\ w.texts = d.msgs
  BY <1>2, <1>5 DEF ObjType
<1> HIDE DEF w
<1> QED
  BY <1>3, <1>6

LEMMA BlankTypes == Blank \in ObjType /\ IdleFlush \in FlushType /\ IdleArch \in ArchType
                    /\ Blank.atEnd = {} /\ IdleFlush.pc = "idle" /\ IdleArch.pc = "idle"
<1>1. Blank \in ObjType /\ Blank.atEnd = {}
  BY ObjOne DEF Blank, ObjType, Live
<1>2. IdleFlush \in FlushType /\ IdleFlush.pc = "idle"
  BY DEF IdleFlush, FlushType, Write
<1>3. IdleArch \in ArchType /\ IdleArch.pc = "idle"
  BY DEF IdleArch, ArchType, Write
<1> QED
  BY <1>1, <1>2, <1>3

LEMMA InitPersistInv == Init => PersistInv
<1> SUFFICES ASSUME Init PROVE PersistInv
  OBVIOUS
<1>1. db \in RowsType /\ db.msgs = {}
  BY DEF Init, RowsType, Live
<1>2. obj \in [Objs -> ObjType] /\ obj[1].atEnd = {}
  BY BlankTypes, ObjOne DEF Init
<1> QED
  BY <1>1, <1>2, BlankTypes DEF Init, PersistInv, PersistTyped, ObjectHolds, FlushHolds, ArchiveHolds
-----------------------------------------------------------------------------
(* The object gains messages, or ends with those it holds.                  *)
LEMMA ObjectStep ==
    ASSUME PersistInv, made = 1, NEW e \in ObjType, obj' = [obj EXCEPT ![1] = e],
           obj[1].texts \subseteq e.texts, e.atEnd \subseteq e.texts,
           obj[1].status = "done" => e.status = "done" /\ e.atEnd = obj[1].atEnd,
           fired' \in Nat, flush' \in {flush, IdleFlush},
           UNCHANGED <<db, lock, made, mem, arch, rest>>
    PROVE  PersistInv'
<1>1. obj' \in [Objs -> ObjType] /\ obj'[1] = e
  BY ObjOne DEF PersistInv, PersistTyped
<1>2. flush' \in FlushType /\ (flush' = flush \/ flush'.pc = "idle")
  BY BlankTypes DEF PersistInv, PersistTyped
<1>3. PersistTyped'
  BY <1>1, <1>2 DEF PersistInv, PersistTyped
<1>4. ObjectHolds'
  BY <1>1 DEF PersistInv, ObjectHolds
<1>5. FlushHolds'
  BY <1>1, <1>2 DEF PersistInv, FlushHolds
<1>6. ArchiveHolds'
  BY <1>1 DEF PersistInv, ArchiveHolds
<1> QED
  BY <1>3, <1>4, <1>5, <1>6 DEF PersistInv

LEMMA ObjectActions ==
    ASSUME PersistInv, Whole,
           (\E o \in Objs : Push(o)) \/ PushEphemeral \/ PauseOrResume \/ End \/ EndAgain \/ FlushDone
    PROVE  PersistInv'
<1>1. /\ obj \in [Objs -> ObjType] /\ obj[1] \in ObjType /\ made \in {0, 1} /\ mem \in {0, made}
      /\ fired \in Nat /\ flush \in FlushType
  BY ObjOne DEF PersistInv, PersistTyped
<1>2. made = 1 => obj[1].atEnd \subseteq obj[1].texts
  BY DEF PersistInv, ObjectHolds
<1>3. ASSUME NEW o \in Objs, Push(o) PROVE PersistInv'
  <2>1. o = 1 /\ made = 1 /\ obj[1].seq < MaxSeq
    BY <1>1, <1>3 DEF Push
  <2>2. Pushed(1) \in ObjType /\ Pushed(1).status = obj[1].status /\ Pushed(1).atEnd = obj[1].atEnd
        /\ obj[1].texts \subseteq Pushed(1).texts
    BY <1>1, <2>1, ObjOne, PushedFields
  <2>3. obj' = [obj EXCEPT ![1] = Pushed(1)] /\ UNCHANGED <<db, lock, made, mem, flush, arch, fired, rest>>
    BY <1>3, <2>1 DEF Push
  <2> QED
    BY <1>1, <1>2, <2>1, <2>2, <2>3, ObjectStep
<1>4. CASE PushEphemeral
  <2> DEFINE e == [obj[1] EXCEPT !.seq = @ + 1]
  <2>1. mem = 1 /\ made = 1 /\ obj[1].seq < MaxSeq
    BY <1>1, <1>4 DEF PushEphemeral
  <2>2. e \in ObjType /\ e.status = obj[1].status /\ e.atEnd = obj[1].atEnd /\ e.texts = obj[1].texts
    BY <1>1, <2>1, ObjOne DEF ObjType
  <2>3. obj' = [obj EXCEPT ![1] = e] /\ UNCHANGED <<db, lock, made, mem, flush, arch, fired, rest>>
    BY <1>4, <2>1 DEF PushEphemeral
  <2> HIDE DEF e
  <2> QED
    BY <1>1, <1>2, <2>1, <2>2, <2>3, ObjectStep
<1>5. CASE PauseOrResume
  <2> DEFINE s == IF obj[1].status = "active" THEN "paused" ELSE "active"
             x == [obj[1] EXCEPT !.status = s]
             e == [x EXCEPT !.dirty = TRUE]
             p == [obj EXCEPT ![1].status = s]
  <2>1. mem = 1 /\ made = 1 /\ obj[1].status # "done"
    BY <1>1, <1>5 DEF PauseOrResume, Live
  <2>2. x \in ObjType /\ x.atEnd = obj[1].atEnd /\ x.texts = obj[1].texts
    BY <1>1 DEF ObjType, Live
  <2>3. p = [obj EXCEPT ![1] = x] /\ p \in [Objs -> ObjType] /\ p[1] = x
    BY <1>1, <2>2, ObjOne
  <2>4. obj' = [p EXCEPT ![1].dirty = TRUE]
    BY <1>5, <2>1 DEF PauseOrResume
  <2>5. UNCHANGED <<db, lock, made, mem, flush, arch, fired, rest>>
    BY <1>5 DEF PauseOrResume
  <2> HIDE DEF p, x
  <2>6. obj' = [obj EXCEPT ![1] = e]
    BY <2>3, <2>4, <1>1
  <2>7. e \in ObjType /\ e.atEnd = obj[1].atEnd /\ e.texts = obj[1].texts
    BY <2>2 DEF ObjType
  <2> HIDE DEF e
  <2> QED
    BY <1>1, <1>2, <2>1, <2>5, <2>6, <2>7, ObjectStep
<1>6. CASE End
  <2> DEFINE x == [Pushed(1) EXCEPT !.status = "done"]
             y == [x EXCEPT !.dirty = TRUE]
             e == [y EXCEPT !.atEnd = Newest(Pushed(1).texts)]
  <2>1. mem = 1 /\ made = 1 /\ obj[1].seq < MaxSeq /\ obj[1].status # "done"
    BY <1>1, <1>6 DEF End, Live
  <2>2. Pushed(1) \in ObjType /\ obj[1].texts \subseteq Pushed(1).texts
    BY <1>1, <2>1, ObjOne, PushedFields
  <2>3. Newest(Pushed(1).texts) = Pushed(1).texts
    BY <2>2, NewestAll DEF Whole, ObjType
  <2>4. obj' = [obj EXCEPT ![1] = e] /\ fired' = fired + 1 /\ UNCHANGED <<db, lock, made, mem, flush, arch, rest>>
    BY <1>6, <2>1 DEF End
  <2>5. x \in ObjType /\ x.texts = Pushed(1).texts
    BY <2>2 DEF ObjType
  <2> HIDE DEF x
  <2>6. y \in ObjType /\ y.texts = x.texts
    BY <2>5 DEF ObjType
  <2> HIDE DEF y
  <2>7. e \in ObjType /\ e.texts = y.texts /\ e.atEnd = Pushed(1).texts
    BY <2>2, <2>3, <2>6 DEF ObjType
  <2> HIDE DEF e
  <2>8. fired' \in Nat /\ flush' \in {flush, IdleFlush}
    BY <1>1, <2>4
  <2>9. obj[1].texts \subseteq e.texts /\ e.atEnd \subseteq e.texts
    BY <2>2, <2>5, <2>6, <2>7
  <2> QED
    BY <2>1, <2>4, <2>7, <2>8, <2>9, ObjectStep
<1>7. CASE EndAgain
  <2> DEFINE e == [Pushed(1) EXCEPT !.dirty = TRUE]
  <2>1. mem = 1 /\ made = 1 /\ obj[1].seq < MaxSeq
    BY <1>1, <1>7 DEF EndAgain
  <2>2. Pushed(1) \in ObjType /\ Pushed(1).status = obj[1].status /\ Pushed(1).atEnd = obj[1].atEnd
        /\ obj[1].texts \subseteq Pushed(1).texts
    BY <1>1, <2>1, ObjOne, PushedFields
  <2>3. obj' = [obj EXCEPT ![1] = e] /\ fired' = fired + 1 /\ UNCHANGED <<db, lock, made, mem, flush, arch, rest>>
    BY <1>7, <2>1 DEF EndAgain
  <2>4. e \in ObjType /\ e.status = Pushed(1).status /\ e.atEnd = Pushed(1).atEnd /\ e.texts = Pushed(1).texts
    BY <2>2 DEF ObjType
  <2> HIDE DEF e
  <2>5. fired' \in Nat /\ flush' \in {flush, IdleFlush}
    BY <1>1, <2>3
  <2> QED
    BY <1>2, <2>1, <2>2, <2>3, <2>4, <2>5, ObjectStep
<1>8. CASE FlushDone
  <2> DEFINE x == [obj[1] EXCEPT !.mark = obj[1].seq]
             e == [x EXCEPT !.dirty = FALSE]
  <2>1. flush.o = 1 /\ made = 1
    BY <1>8 DEF FlushDone, PersistInv, FlushHolds
  <2>2. obj' = [obj EXCEPT ![1] = e] /\ flush' = IdleFlush /\ UNCHANGED <<db, lock, made, mem, arch, fired, rest>>
    BY <1>8, <2>1 DEF FlushDone, Marked
  <2>3. x \in ObjType /\ x.status = obj[1].status /\ x.atEnd = obj[1].atEnd /\ x.texts = obj[1].texts
    BY <1>1 DEF ObjType
  <2> HIDE DEF x
  <2>4. e \in ObjType /\ e.status = x.status /\ e.atEnd = x.atEnd /\ e.texts = x.texts
    BY <2>3 DEF ObjType
  <2> HIDE DEF e
  <2> QED
    BY <1>1, <1>2, <2>1, <2>2, <2>3, <2>4, ObjectStep
<1> QED
  BY <1>3, <1>4, <1>5, <1>6, <1>7, <1>8

(* A step of the flush that leaves the rows.                                *)
LEMMA FlushActions ==
    ASSUME PersistInv, Whole,
           FlushBegin \/ FlushApply \/ FlushWrite \/ FlushCommit \/ FlushFails
    PROVE  PersistInv' /\ db.msgs \subseteq db'.msgs
<1>1. /\ made \in {0, 1} /\ mem \in {0, made} /\ flush \in FlushType /\ obj[1] \in ObjType /\ db \in RowsType
      /\ IdleFlush \in FlushType /\ IdleFlush.pc = "idle"
  BY ObjOne, BlankTypes DEF PersistInv, PersistTyped
<1> HIDE DEF IdleFlush
<1>2. ASSUME flush' \in FlushType, flush'.pc \in {"idle", "reading", "waiting", "committed"},
             flush'.pc # "idle" => made = 1 /\ flush'.o = 1,
             UNCHANGED <<db, obj, made, mem, arch, fired, rest>>,
             lock' = lock \/ flush.pc = "writing"
      PROVE  PersistInv'
  <2>1. PersistTyped'
    BY <1>2 DEF PersistInv, PersistTyped
  <2>2. ObjectHolds' /\ FlushHolds'
    BY <1>2 DEF PersistInv, ObjectHolds, FlushHolds
  <2>3. ArchiveHolds'
    BY <1>2, PersistenceAssumption DEF PersistInv, FlushHolds, ArchiveHolds
  <2> QED
    BY <2>1, <2>2, <2>3 DEF PersistInv
<1>3. CASE FlushBegin
  <2> DEFINE x == [IdleFlush EXCEPT !.pc = "reading"]
             y == [x EXCEPT !.o = mem]
             z == [y EXCEPT !.new = obj[mem].seq > obj[mem].mark]
  <2>1. mem = 1 /\ made = 1 /\ flush' = z /\ UNCHANGED <<db, lock, obj, made, mem, arch, fired, rest>>
    BY <1>1, <1>3 DEF FlushBegin
  <2>2. x \in FlushType /\ x.pc = "reading"
    BY <1>1 DEF FlushType
  <2> HIDE DEF x
  <2>3. y \in FlushType /\ y.pc = "reading" /\ y.o = 1
    BY <2>1, <2>2 DEF FlushType
  <2> HIDE DEF y
  <2>4. z \in FlushType /\ z.pc = "reading" /\ z.o = 1
    <3>1. (obj[mem].seq > obj[mem].mark) \in BOOLEAN
      OBVIOUS
    <3> QED
      BY <2>3, <3>1 DEF FlushType
  <2> HIDE DEF z
  <2> QED
    BY <1>2, <2>1, <2>4
<1>4. CASE FlushApply
  <2> DEFINE x == [flush EXCEPT !.pc = "waiting"]
             y == [x EXCEPT !.write = Column(flush.o)]
  <2>1. flush.o = 1 /\ made = 1 /\ flush' = y /\ UNCHANGED <<db, lock, obj, made, mem, arch, fired, rest>>
    BY <1>4 DEF FlushApply, PersistInv, FlushHolds
  <2>2. Column(flush.o) \in Write
    BY <1>1, <2>1 DEF Column, Write, ObjType
  <2>3. x \in FlushType /\ x.pc = "waiting" /\ x.o = 1
    BY <1>1, <2>1 DEF FlushType
  <2> HIDE DEF x
  <2>4. y \in FlushType /\ y.pc = "waiting" /\ y.o = 1
    BY <2>2, <2>3 DEF FlushType
  <2> HIDE DEF y
  <2> QED
    BY <1>2, <2>1, <2>4
<1>5. CASE FlushWrite
  <2> DEFINE m == IF flush.new THEN Unflushed(flush.o) ELSE {}
             x == [flush EXCEPT !.pc = "writing"]
             y == [x EXCEPT !.msgs = m]
  <2>1. flush.o = 1 /\ made = 1 /\ flush' = y /\ lock = Free /\ lock' = "flush"
        /\ UNCHANGED <<db, obj, made, mem, arch, fired, rest>>
    BY <1>5 DEF FlushWrite, PersistInv, FlushHolds
  <2>2. m \subseteq obj[1].texts /\ obj[1].texts \in SUBSET Seqs
    BY <1>1, <2>1, NewestAll DEF Unflushed, Buffer, ObjType, Whole
  <2> HIDE DEF m
  <2>3. x \in FlushType /\ x.pc = "writing" /\ x.o = 1
    BY <1>1, <2>1 DEF FlushType
  <2> HIDE DEF x
  <2>4. y \in FlushType /\ y.pc = "writing" /\ y.o = 1 /\ y.msgs = m
    BY <2>2, <2>3 DEF FlushType
  <2> HIDE DEF y
  <2>5. PersistTyped' /\ ObjectHolds' /\ FlushHolds'
    BY <2>1, <2>2, <2>4 DEF PersistInv, PersistTyped, ObjectHolds, FlushHolds
  <2>6. ArchiveHolds'
    BY <2>1, PersistenceAssumption DEF PersistInv, ArchiveHolds, Free
  <2> QED
    BY <2>1, <2>5, <2>6 DEF PersistInv
<1>6. CASE FlushCommit
  <2> DEFINE x == [flush EXCEPT !.pc = "committed"]
  <2>1. flush.o = 1 /\ made = 1 /\ flush' = x /\ lock = "flush" /\ flush.msgs \subseteq obj[1].texts
        /\ db' = [status |-> Set(flush.write), msgs |-> db.msgs \cup flush.msgs]
        /\ UNCHANGED <<obj, made, mem, arch, fired, rest>>
    BY <1>6 DEF FlushCommit, PersistInv, FlushHolds
  <2>2. x \in FlushType /\ x.pc = "committed" /\ x.o = 1
    BY <1>1, <2>1 DEF FlushType
  <2>3. Set(flush.write) \in Live \cup {"done", "none"}
    BY <1>1 DEF FlushType, Write, Set, RowsType
  <2>4. db' \in RowsType /\ db'.msgs = db.msgs \cup flush.msgs
    BY <1>1, <2>1, <2>3 DEF RowsType, FlushType
  <2> HIDE DEF x
  <2>5. PersistTyped' /\ ObjectHolds' /\ FlushHolds'
    BY <2>1, <2>2, <2>4 DEF PersistInv, PersistTyped, ObjectHolds, FlushHolds
  <2>6. ArchiveHolds'
    BY <2>1, <2>4, PersistenceAssumption DEF PersistInv, ArchiveHolds
  <2> QED
    BY <2>4, <2>5, <2>6 DEF PersistInv
<1>7. CASE FlushFails
  BY <1>1, <1>2, <1>7 DEF FlushFails
<1> QED
  BY <1>2, <1>3, <1>4, <1>5, <1>6, <1>7 DEF FlushBegin, FlushApply, FlushWrite, FlushFails

(* An archive holds the lock from when it takes the buffer to its commit.   *)
LEMMA ArchiveActions ==
    ASSUME PersistInv, Whole, NEW a \in Archivers,
           ArchiveStart(a) \/ ArchiveWrite(a) \/ ArchiveCommit(a) \/ ArchiveFails(a) \/ ArchiveDone(a)
    PROVE  PersistInv' /\ db.msgs \subseteq db'.msgs
<1>1. /\ made \in {0, 1} /\ mem \in {0, made} /\ arch \in [Archivers -> ArchType] /\ arch[a] \in ArchType
      /\ obj[1] \in ObjType /\ db \in RowsType /\ fired \in Nat
      /\ IdleArch \in ArchType /\ IdleArch.pc = "idle"
  BY ObjOne, BlankTypes DEF PersistInv, PersistTyped
<1> HIDE DEF IdleArch
<1>2. ASSUME NEW e \in ArchType, arch' = [arch EXCEPT ![a] = e],
             e.pc # "idle" => made = 1 /\ e.o = 1 /\ obj[1].status = "done",
             e.pc = "waiting" \/ e.pc = "idle",
             fired' \in Nat, mem' \in {mem, 0}, UNCHANGED <<db, obj, made, flush, rest>>,
             lock' = lock \/ arch[a].pc = "writing"
      PROVE  PersistInv'
  <2>1. arch' \in [Archivers -> ArchType] /\ \A b \in Archivers : arch'[b] = IF b = a THEN e ELSE arch[b]
    BY <1>1, <1>2
  <2>2. PersistTyped'
    BY <1>2, <2>1 DEF PersistInv, PersistTyped
  <2>3. ObjectHolds'
    BY <1>2 DEF PersistInv, ObjectHolds
  <2>4. FlushHolds'
    BY <1>2, PersistenceAssumption DEF PersistInv, FlushHolds, ArchiveHolds
  <2>5. ArchiveHolds'
    BY <1>2, <2>1 DEF PersistInv, ArchiveHolds
  <2> QED
    BY <2>2, <2>3, <2>4, <2>5 DEF PersistInv
<1>3. CASE ArchiveStart(a)
  <2> DEFINE x == [IdleArch EXCEPT !.pc = "waiting"]
             y == [x EXCEPT !.o = mem]
             z == [y EXCEPT !.write = Column(mem)]
  <2>1. fired' \in Nat /\ UNCHANGED <<db, lock, obj, made, mem, flush, rest>>
    BY <1>1, <1>3 DEF ArchiveStart
  <2>2. CASE mem = 0 \/ obj[mem].status # "done"
    <3>1. arch' = arch
      BY <1>3, <2>2 DEF ArchiveStart
    <3>2. PersistTyped' /\ ObjectHolds' /\ FlushHolds' /\ ArchiveHolds'
      BY <2>1, <3>1 DEF PersistInv, PersistTyped, ObjectHolds, FlushHolds, ArchiveHolds
    <3> QED
      BY <2>1, <3>2 DEF PersistInv
  <2>3. CASE ~(mem = 0 \/ obj[mem].status # "done")
    <3>1. arch' = [arch EXCEPT ![a] = z] /\ mem = 1 /\ made = 1 /\ obj[1].status = "done"
      BY <1>1, <1>3, <2>3 DEF ArchiveStart
    <3>2. x \in ArchType /\ x.pc = "waiting"
      BY <1>1 DEF ArchType
    <3> HIDE DEF x
    <3>3. y \in ArchType /\ y.pc = "waiting" /\ y.o = 1
      BY <3>1, <3>2 DEF ArchType
    <3> HIDE DEF y
    <3>4. Column(mem) \in Write
      BY <1>1, <3>1 DEF Column, Write, ObjType
    <3>5. z \in ArchType /\ z.pc = "waiting" /\ z.o = 1
      BY <3>3, <3>4 DEF ArchType
    <3> HIDE DEF z
    <3> QED
      BY <1>2, <2>1, <3>1, <3>5
  <2> QED
    BY <2>2, <2>3
<1>4. CASE ArchiveWrite(a)
  <2> DEFINE x == [arch[a] EXCEPT !.pc = "writing"]
             e == [x EXCEPT !.msgs = Kept(arch[a].o)]
             p == [arch EXCEPT ![a].pc = "writing"]
  <2>1. arch[a].pc = "waiting" /\ lock = Free /\ lock' = a /\ UNCHANGED <<db, obj, made, mem, flush, fired, rest>>
    BY <1>4 DEF ArchiveWrite
  <2>2. arch[a].o = 1 /\ made = 1 /\ obj[1].status = "done" /\ Kept(arch[a].o) = obj[1].texts
        /\ obj[1].texts \in SUBSET Seqs
    BY <1>1, <2>1, NewestAll DEF PersistInv, ArchiveHolds, Kept, Buffer, ObjType, Whole
  <2>3. x \in ArchType /\ x.pc = "writing" /\ x.o = 1
    BY <1>1, <2>2 DEF ArchType
  <2>4. p = [arch EXCEPT ![a] = x] /\ p \in [Archivers -> ArchType] /\ p[a] = x
    BY <1>1, <2>3
  <2>5. arch' = [p EXCEPT ![a].msgs = Kept(arch[a].o)]
    BY <1>4 DEF ArchiveWrite
  <2> HIDE DEF p, x
  <2>6. arch' = [arch EXCEPT ![a] = e]
    BY <1>1, <2>4, <2>5
  <2>7. e \in ArchType /\ e.pc = "writing" /\ e.o = 1 /\ e.msgs = obj[1].texts
    BY <2>2, <2>3 DEF ArchType
  <2> HIDE DEF e
  <2>8. arch' \in [Archivers -> ArchType] /\ \A b \in Archivers : arch'[b] = IF b = a THEN e ELSE arch[b]
    BY <1>1, <2>6, <2>7
  <2>9. PersistTyped' /\ ObjectHolds'
    BY <2>1, <2>8 DEF PersistInv, PersistTyped, ObjectHolds
  <2>10. FlushHolds'
    BY <2>1, PersistenceAssumption DEF PersistInv, FlushHolds, Free
  <2>11. ArchiveHolds'
    BY <2>1, <2>2, <2>7, <2>8, PersistenceAssumption DEF PersistInv, ObjectHolds, ArchiveHolds, Free
  <2> QED
    BY <2>1, <2>9, <2>10, <2>11 DEF PersistInv
<1>5. CASE ArchiveCommit(a)
  <2> DEFINE e == [arch[a] EXCEPT !.pc = "committed"]
  <2>1. arch[a].pc = "writing" /\ arch' = [arch EXCEPT ![a] = e] /\ UNCHANGED <<obj, made, mem, flush, fired, rest>>
        /\ db' = [status |-> Set(arch[a].write), msgs |-> arch[a].msgs]
    BY <1>5 DEF ArchiveCommit
  <2>2. /\ made = 1 /\ arch[a].o = 1 /\ obj[1].status = "done" /\ lock = a
        /\ db.msgs \cup obj[1].atEnd \subseteq arch[a].msgs /\ arch[a].msgs \subseteq obj[1].texts
    BY <2>1 DEF PersistInv, ArchiveHolds
  <2>3. e \in ArchType /\ e.pc = "committed" /\ e.o = 1
    BY <1>1, <2>2 DEF ArchType
  <2>4. Set(arch[a].write) \in Live \cup {"done", "none"}
    BY <1>1 DEF ArchType, Write, Set, RowsType
  <2>5. db' \in RowsType /\ db'.msgs = arch[a].msgs
    BY <1>1, <2>1, <2>4 DEF RowsType, ArchType
  <2> HIDE DEF e
  <2>6. arch' \in [Archivers -> ArchType] /\ \A b \in Archivers : arch'[b] = IF b = a THEN e ELSE arch[b]
    BY <1>1, <2>1, <2>3
  <2>7. PersistTyped'
    BY <2>1, <2>5, <2>6 DEF PersistInv, PersistTyped
  <2>8. ObjectHolds'
    BY <2>1, <2>2, <2>5 DEF PersistInv, ObjectHolds
  <2>9. FlushHolds'
    BY <2>1, <2>2, PersistenceAssumption DEF PersistInv, FlushHolds
  <2>10. ArchiveHolds'
    BY <2>1, <2>2, <2>3, <2>5, <2>6 DEF PersistInv, ArchiveHolds
  <2> QED
    BY <2>2, <2>5, <2>7, <2>8, <2>9, <2>10 DEF PersistInv
<1>6. CASE ArchiveFails(a)
  BY <1>1, <1>2, <1>6 DEF ArchiveFails
<1>7. CASE ArchiveDone(a)
  BY <1>1, <1>2, <1>7 DEF ArchiveDone
<1> QED
  BY <1>3, <1>4, <1>5, <1>6, <1>7 DEF ArchiveFails, ArchiveDone

(* A start of the worker reads what is stored.                              *)
LEMMA ReloadStep ==
    ASSUME NEW d \in RowsType, Reload(d)
    PROVE  PersistInv' /\ db'.msgs = d.msgs
<1>1. /\ flush' = IdleFlush /\ fired' = 0 /\ arch' = [a \in Archivers |-> IdleArch]
      /\ \A r \in Restorers : rest'[r] = "idle"
  BY DEF Reload
<1>2. /\ flush' \in FlushType /\ flush'.pc = "idle" /\ arch' \in [Archivers -> ArchType]
      /\ \A a \in Archivers : arch'[a].pc = "idle"
  BY <1>1, BlankTypes
<1>3. PICK stub \in BOOLEAN :
         /\ stub => d.msgs = {}
         /\ IF d.status \in Live /\ ~ stub
            THEN /\ made' = 1
                 /\ mem' = 1
                 /\ obj' = [o \in Objs |-> IF o = 1 THEN Loaded(d, d.status) ELSE Blank]
                 /\ db' = d
            ELSE /\ made' = 0
                 /\ mem' = 0
                 /\ obj' = [o \in Objs |-> Blank]
                 /\ db' = IF d.status \in Live THEN [status |-> "none", msgs |-> {}] ELSE d
  BY DEF Reload
<1>4. CASE d.status \in Live /\ ~ stub
  <2>1. obj' \in [Objs -> ObjType] /\ obj'[1].texts = d.msgs /\ obj'[1].atEnd = {}
    BY <1>3, <1>4, LoadedFields, BlankTypes, ObjOne
  <2>2. made' = 1 /\ mem' = 1 /\ db' = d
    BY <1>3, <1>4
  <2> QED
    BY <1>1, <1>2, <2>1, <2>2 DEF PersistInv, PersistTyped, ObjectHolds, FlushHolds, ArchiveHolds
<1>5. CASE ~(d.status \in Live /\ ~ stub)
  <2>1. obj' \in [Objs -> ObjType] /\ made' = 0 /\ mem' = 0
    BY <1>3, <1>5, BlankTypes
  <2>2. db' \in RowsType /\ db'.msgs = d.msgs
    <3>1. CASE d.status \in Live
      <4>1. db' = [status |-> "none", msgs |-> {}] /\ d.msgs = {}
        BY <1>3, <1>5, <3>1
      <4> QED
        BY <4>1 DEF RowsType
    <3>2. CASE d.status \notin Live
      BY <1>3, <1>5, <3>2
    <3> QED
      BY <3>1, <3>2
  <2> QED
    BY <1>1, <1>2, <2>1, <2>2 DEF PersistInv, PersistTyped, ObjectHolds, FlushHolds, ArchiveHolds
<1> QED
  BY <1>4, <1>5

LEMMA RestartActions ==
    ASSUME PersistInv, Whole, Crash \/ Shutdown
    PROVE  PersistInv' /\ db.msgs \subseteq db'.msgs
<1>1. /\ made \in {0, 1} /\ mem \in {0, made} /\ arch \in [Archivers -> ArchType] /\ flush \in FlushType
      /\ obj[1] \in ObjType /\ db \in RowsType
  BY ObjOne DEF PersistInv, PersistTyped
<1>2. CASE Crash
  BY <1>1, <1>2, ReloadStep DEF Crash
<1>3. CASE Shutdown
  <2>1. PICK d \in Landed, popped \in BOOLEAN : Reload(Saved(d, popped))
    BY <1>3 DEF Shutdown
  <2>2. d \in RowsType /\ db.msgs \subseteq d.msgs
    <3>1. \A w \in Write : Set(w) \in Live \cup {"done", "none"}
      BY <1>1 DEF Write, Set, RowsType
    <3>2. CASE d = db
      BY <1>1, <3>2
    <3>3. ASSUME NEW a \in Archivers, arch[a].pc = "writing", d = [status |-> Set(arch[a].write), msgs |-> arch[a].msgs]
          PROVE  d \in RowsType /\ db.msgs \subseteq d.msgs
      <4>1. arch[a].write \in Write /\ arch[a].msgs \in SUBSET Seqs /\ db.msgs \subseteq arch[a].msgs
        BY <1>1, <3>3 DEF ArchType, PersistInv, ArchiveHolds
      <4> QED
        BY <3>1, <3>3, <4>1 DEF RowsType
    <3>4. CASE d = [status |-> Set(flush.write), msgs |-> db.msgs \cup flush.msgs]
      <4>1. flush.write \in Write /\ flush.msgs \in SUBSET Seqs /\ db.msgs \in SUBSET Seqs
        BY <1>1 DEF FlushType, RowsType
      <4> QED
        BY <3>1, <3>4, <4>1 DEF RowsType
    <3> QED
      BY <2>1, <3>2, <3>3, <3>4 DEF Landed
  <2>3. Saved(d, popped) \in RowsType /\ db.msgs \subseteq Saved(d, popped).msgs
    <3>1. CASE mem = 0 \/ popped
      BY <2>2, <3>1 DEF Saved
    <3>2. CASE ~(mem = 0 \/ popped)
      <4>1. mem = 1 /\ made = 1 /\ Saved(d, popped) = [status |-> obj[1].status, msgs |-> Buffer(1)]
        BY <1>1, <3>2 DEF Saved
      <4>2. Buffer(1) = obj[1].texts /\ obj[1].texts \in SUBSET Seqs /\ db.msgs \subseteq obj[1].texts
        BY <1>1, <4>1, NewestAll DEF Buffer, ObjType, Whole, PersistInv, ObjectHolds
      <4> QED
        BY <1>1, <4>1, <4>2 DEF RowsType, ObjType
    <3> QED
      BY <3>1, <3>2
  <2> QED
    BY <2>1, <2>3, ReloadStep
<1> QED
  BY <1>2, <1>3

LEMMA NextPersistInv ==
    ASSUME PersistInv, Whole, [Next]_vars
    PROVE  PersistInv' /\ db.msgs \subseteq db'.msgs
<1>1. CASE UNCHANGED vars
  BY <1>1 DEF vars, PersistInv, PersistTyped, ObjectHolds, FlushHolds, ArchiveHolds
<1>2. CASE (\E o \in Objs : Push(o)) \/ PushEphemeral \/ PauseOrResume \/ End \/ EndAgain \/ FlushDone
  <2>1. UNCHANGED db
    BY <1>2 DEF Push, PushEphemeral, PauseOrResume, End, EndAgain, FlushDone
  <2> QED
    BY <1>2, <2>1, ObjectActions
<1>3. ASSUME NEW r \in Restorers, RestoreCheck(r) \/ RestoreRow(r) \/ RestoreRegister(r)
      PROVE  FALSE
  BY <1>3 DEF RestoreCheck, RestoreRow, RestoreRegister, Whole, PersistInv, PersistTyped
<1> QED
  BY <1>1, <1>2, <1>3, FlushActions, ArchiveActions, RestartActions DEF Next

(* A stored message stays stored, through any number of flushes, archives   *)
(* and late pushes, failures, crashes and shutdowns (StoredStays).          *)
THEOREM NothingUnstored == Whole => (Spec => StoredStays)
<1> SUFFICES ASSUME Whole PROVE Spec => StoredStays
  OBVIOUS
<1>1. PersistInv /\ [Next]_vars => [db.msgs \subseteq db'.msgs]_vars
  BY NextPersistInv
<1> QED
  BY <1>1, InitPersistInv, NextPersistInv, PTL DEF Spec, StoredStays

(* A session leaves memory only when all it held when it ended is stored    *)
(* (ArchivedWhole).                                                         *)
THEOREM ArchivedIsStored == Whole => (Spec => ArchivedWhole)
<1> SUFFICES ASSUME Whole PROVE Spec => ArchivedWhole
  OBVIOUS
<1>1. PersistInv => \A a \in Archivers : ArchiveDone(a) => obj[arch[a].o].atEnd \subseteq db.msgs
  BY DEF PersistInv, ArchiveHolds, ArchiveDone
<1>2. PersistInv /\ [Next]_vars
      => [\A a \in Archivers : ArchiveDone(a) => obj[arch[a].o].atEnd \subseteq db.msgs]_vars
  BY <1>1
<1> QED
  BY <1>2, InitPersistInv, NextPersistInv, PTL DEF Spec, ArchivedWhole
=============================================================================
