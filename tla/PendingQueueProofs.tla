------------------------- MODULE PendingQueueProofs -------------------------
(***************************************************************************)
(* Proofs about PendingQueue, for any sets of prompts and senders, any      *)
(* MaxGen and any choice of disturbances.                                   *)
(*                                                                         *)
(* The properties are not inductive: they hold because a prompt has exactly *)
(* one holder.  That is the fate of the prompt: "offered" and "claimed"     *)
(* prompts are in the hands of one task, "queued" ones have their row, and  *)
(* every other fate is final.  Owner states it from the prompts' side, the  *)
(* tasks' side and the table's side.                                        *)
(*                                                                         *)
(* The last part proves what the mirror is good for.  Its invariant         *)
(* MirrorInv names, for every difference between the table and the mirror,  *)
(* the task that is about to settle it, and rests on the order of the ids   *)
(* of a prompt: an id that enters the queue is new to everybody.            *)
(***************************************************************************)
EXTENDS PendingQueue, ListLemmas

(* The program counters at which a task holds a prompt with no row.          *)
Holding == {"offer", "prepare", "insert"}

(* A task that is in the middle of an operation works on a row.              *)
JobsSet == \A p \in Procs : pc[p] \notin {"idle", "resume", "loop", "finished"} => job[p] \in Rows

(* Row and fate say the same about who holds a prompt.                       *)
RowsQueued == \A r \in db : fate[r.msg[1]] = "queued"
QueuedHasRow == \A x \in Prompts : fate[x] = "queued" => \E r \in db : r.msg[1] = x
OneRow == \A r1, r2 \in db : r1.msg[1] = r2.msg[1] => r1.msg = r2.msg

(* A sender holds an offered prompt, the drain a claimed one, and no two     *)
(* tasks hold the same.                                                      *)
SendersOffer == \A s \in Senders : pc[s] \in Holding => fate[Prompt(s)] = "offered"
DrainerClaims == pc[Drainer] \in Holding \cup {"take"} => fate[Prompt(Drainer)] = "claimed"
ClaimedHeld == \A x \in Prompts : fate[x] = "claimed" =>
                  job[Drainer] \in Rows /\ pc[Drainer] \in Holding \cup {"take"} /\ Prompt(Drainer) = x
Apart == \A s, t \in Senders : (s # t /\ pc[s] \in Holding /\ pc[t] \in Holding)
                                 => Prompt(s) # Prompt(t)

(* A prompt has run exactly when its fate says so.                           *)
RunsCounted == \A x \in Prompts :
                  runs[x] = IF fate[x] \in {"delivered", "misrouted"} THEN 1 ELSE 0

(* A cancel that is or will be acknowledged has settled the prompt.          *)
CancelSettled ==
    /\ \A s \in Senders : pc[s] = "cancelMirror" => fate[Prompt(s)] = "cancelled"
    /\ \A x \in Prompts : <<x, "cancelled">> \in replies => fate[x] = "cancelled"

(* The attachments are there before the row and after it.                    *)
EndedFirst == ender \in {"clear", "mirror"} => status = "ended"
Spilled == status # "ended" =>
              /\ \A r \in db : r.msg \in files
              /\ \A p \in Procs : pc[p] = "insert" => job[p].msg \in files

(* The drain's done-callback is due at most once, and only after the drain    *)
(* has returned: nobody frees the slot of a drain that still runs.           *)
SlotOnce == \A i, j \in 1 .. Len(soon) :
               soon[i] = "gone" /\ soon[j] = "gone" => i = j /\ pc[Drainer] = "finished"

Owner == /\ JobsSet /\ RowsQueued /\ QueuedHasRow /\ OneRow
         /\ SendersOffer /\ DrainerClaims /\ ClaimedHeld /\ Apart
         /\ RunsCounted /\ CancelSettled /\ EndedFirst /\ Spilled /\ SlotOnce

(* Nothing runs while the worker is down.                                    *)
DownIdle == status = "down" => \A p \in Procs : pc[p] = "idle"

IInv == TypeOK /\ IsFiniteSet(db) /\ DownIdle /\ Owner
-----------------------------------------------------------------------------
(* The operators *)

LEMMA RowsType ==
    /\ \A r \in Rows : r.msg \in Msgs /\ r.msg[1] \in Prompts /\ r.msg[2] \in 1 .. MaxGen
                      /\ r.pos \in Nat /\ r.edited \in BOOLEAN
    /\ \A r \in Rows, n \in Nat : [r EXCEPT !.pos = n] \in Rows /\ [r EXCEPT !.pos = n].msg = r.msg
    /\ \A r \in Rows : [r EXCEPT !.edited = TRUE] \in Rows /\ [r EXCEPT !.edited = TRUE].msg = r.msg
BY DEF Rows, Msgs

(* Renumbering a list of rows keeps its length and every queued_id.          *)
LEMMA RenumberedType ==
    ASSUME NEW s \in Seq(Rows)
    PROVE  /\ Renumbered(s) \in Seq(Rows)
           /\ Len(Renumbered(s)) = Len(s)
           /\ \A i \in 1 .. Len(s) : Renumbered(s)[i].msg = s[i].msg
<1>1. Len(s) \in Nat /\ \A i \in 1 .. Len(s) : s[i] \in Rows /\ i - 1 \in Nat
  BY LenProperties, ElementOfSeq
<1>2. \A i \in 1 .. Len(s) : [s[i] EXCEPT !.pos = i - 1] \in Rows
                          /\ [s[i] EXCEPT !.pos = i - 1].msg = s[i].msg
  BY <1>1, RowsType
<1> DEFINE t == [i \in 1 .. Len(s) |-> [s[i] EXCEPT !.pos = i - 1]]
<1>3. t \in [1 .. Len(s) -> Rows] /\ \A i \in 1 .. Len(s) : t[i].msg = s[i].msg
  BY <1>2
<1>4. Renumbered(s) = t
  BY DEF Renumbered
<1> HIDE DEF t
<1>5. t \in Seq(Rows) /\ Len(t) = Len(s)
  BY <1>1, <1>3
<1> QED
  BY <1>3, <1>4, <1>5

(* A listing of a finite set of rows is a sequence of rows.                  *)
LEMMA ByPositionType ==
    ASSUME NEW R \in SUBSET Rows, IsFiniteSet(R), NEW s \in ByPosition(R)
    PROVE  /\ s \in Seq(Rows) /\ Len(s) = Cardinality(R)
           /\ \A i \in 1 .. Len(s) : s[i] \in R
           /\ \A r \in R : \E i \in 1 .. Len(s) : s[i] = r
<1>1. Cardinality(R) \in Nat
  BY FS_CardinalityType
<1>2. s \in [1 .. Cardinality(R) -> R] /\ Range(s) = R
  BY DEF ByPosition
<1>3. s \in [1 .. Cardinality(R) -> Rows]
  BY <1>2
<1>4. s \in Seq(Rows) /\ Len(s) = Cardinality(R)
  BY <1>1, <1>3
<1> QED
  BY <1>2, <1>4 DEF Range

(* The commit of _delete_one: the row of m is gone, every other message      *)
(* still has one.                                                            *)
LEMMA DeleteRowEffect ==
    ASSUME NEW m, db \subseteq Rows, IsFiniteSet(db), DeleteRow(m)
    PROVE  /\ db' \subseteq Rows /\ IsFiniteSet(db')
           /\ \A r \in db' : r.msg # m /\ \E q \in db : q.msg = r.msg
           /\ \A q \in db : q.msg # m => \E r \in db' : r.msg = q.msg
<1> DEFINE R == {r \in db : r.msg # m}
<1>1. R \in SUBSET Rows /\ IsFiniteSet(R)
  BY FS_Subset
<1>2. PICK s \in ByPosition(R) : db' = Range(Renumbered(s))
  BY DEF DeleteRow
<1>3. /\ s \in Seq(Rows)
      /\ \A i \in 1 .. Len(s) : s[i] \in R
      /\ \A r \in R : \E i \in 1 .. Len(s) : s[i] = r
  BY <1>1, <1>2, ByPositionType
<1> DEFINE t == Renumbered(s)
<1>4. /\ t \in Seq(Rows) /\ Len(t) = Len(s)
      /\ \A i \in 1 .. Len(s) : t[i].msg = s[i].msg
  BY <1>3, RenumberedType
<1> HIDE DEF t
<1>5. db' = {t[i] : i \in 1 .. Len(s)}
  BY <1>2, <1>4, LenProperties DEF Range, t
<1>6. IsFiniteSet(db')
  <2>1. Len(s) \in Nat
    BY <1>3, LenProperties
  <2>2. IsFiniteSet(1 .. Len(s))
    BY <2>1, FS_Interval
  <2>3. t \in Surjection(1 .. Len(s), db')
    BY <1>4, <1>5, LenProperties DEF Surjection
  <2> QED
    BY <2>2, <2>3, FS_Surjection
<1>7. db' \subseteq Rows
  BY <1>4, <1>5, ElementOfSeq
<1>8. ASSUME NEW r \in db' PROVE r.msg # m /\ \E q \in db : q.msg = r.msg
  BY <1>3, <1>4, <1>5
<1>9. ASSUME NEW q \in db, q.msg # m PROVE \E r \in db' : r.msg = q.msg
  BY <1>3, <1>4, <1>5, <1>9
<1> QED
  BY <1>6, <1>7, <1>8, <1>9

LEMMA NextPositionType ==
    ASSUME db \subseteq Rows, IsFiniteSet(db)
    PROVE  NextPosition \in Nat
<1> DEFINE S == {r.pos : r \in db}
<1>1. CASE db = {}
  BY <1>1 DEF NextPosition
<1>2. CASE db # {}
  <2>1. S \in SUBSET Nat /\ S # {}
    BY <1>2, RowsType
  <2>2. IsFiniteSet(S)
    <3> DEFINE f == [r \in db |-> r.pos]
    <3>1. f \in Surjection(db, S)
      BY DEF Surjection
    <3> HIDE DEF S, f
    <3> QED
      BY <3>1, FS_Surjection
  <2>3. Max(S) \in Nat
    <3> HIDE DEF S
    <3> QED
      BY <2>1, <2>2, MaxProperties
  <2> QED
    BY <1>2, <2>3 DEF NextPosition
<1> QED
  BY <1>1, <1>2

(* SessionPendingState keeps a list of rows.                                 *)
LEMMA MirrorAddType ==
    ASSUME NEW s \in Seq(Rows), NEW r \in Rows
    PROVE  MirrorAdd(s, r) \in Seq(Rows)
<1> DEFINE later == {i \in 1 .. Len(s) : s[i].pos > r.pos}
<1>1. CASE later = {}
  BY <1>1, AppendProperties DEF MirrorAdd
<1>2. CASE later # {}
  <2>1. later \in SUBSET Nat
    BY LenProperties
  <2>2. Min(later) \in 1 .. Len(s)
    BY <1>2, <2>1, MinProperties
  <2> QED
    BY <1>2, <2>2, InsertAtType DEF MirrorAdd
<1> QED
  BY <1>1, <1>2

LEMMA MirrorAtType ==
    ASSUME NEW m, MirrorHas(m)
    PROVE  MirrorAt(m) \in 1 .. Len(mirror) /\ mirror[MirrorAt(m)].msg = m
BY DEF MirrorHas, MirrorAt

LEMMA MirrorRemoveType ==
    ASSUME NEW m, mirror \in Seq(Rows), MirrorRemove(m)
    PROVE  mirror' \in Seq(Rows)
<1>1. CASE MirrorHas(m)
  BY <1>1, MirrorAtType, RemoveAtType, RenumberedType DEF MirrorRemove
<1>2. CASE ~ MirrorHas(m)
  BY <1>2 DEF MirrorRemove
<1> QED
  BY <1>1, <1>2

LEMMA MirrorUpdateType ==
    ASSUME NEW m, mirror \in Seq(Rows), MirrorUpdate(m)
    PROVE  mirror' \in Seq(Rows)
<1>1. CASE MirrorHas(m)
  <2> DEFINE i == MirrorAt(m)
             e == [mirror[i] EXCEPT !.edited = TRUE]
  <2>1. i \in 1 .. Len(mirror)
    BY <1>1, MirrorAtType
  <2>2. mirror[i] \in Rows
    BY <2>1, ElementOfSeq
  <2>3. e \in Rows
    BY <2>2, RowsType
  <2>4. mirror' = [mirror EXCEPT ![i] = e]
    BY <1>1 DEF MirrorUpdate
  <2> HIDE DEF i, e
  <2> QED
    BY <2>1, <2>3, <2>4, ExceptSeq
<1>2. CASE ~ MirrorHas(m)
  BY <1>2 DEF MirrorUpdate
<1> QED
  BY <1>1, <1>2

-----------------------------------------------------------------------------
(* Type correctness *)

LEMMA ScheduledType ==
    ASSUME NEW c \in [Procs -> PCs], NEW st
    PROVE  Scheduled(c, st) \in [Procs -> PCs]
BY DEF Scheduled, Procs, PCs

LEMMA JobType ==
    ASSUME TypeOK, NEW p \in Procs, job[p] \in Rows
    PROVE  /\ job[p].msg \in Msgs /\ Prompt(p) \in Prompts
           /\ job[p].msg = <<Prompt(p), job[p].msg[2]>>
           /\ job[p].msg[2] \in 1 .. MaxGen
BY DEF Prompt, Rows, Msgs

LEMMA FinishDrainType ==
    ASSUME TypeOK, FinishDrain
    PROVE  /\ pc' \in [Procs -> PCs] /\ job' \in [Procs -> Rows \cup {NoJob}]
           /\ soon' \in Seq({"hook", "gone"})
<1>1. soon' \in Seq({"hook", "gone"})
  BY AppendProperties DEF FinishDrain, TypeOK
<1> QED
  BY <1>1 DEF FinishDrain, TypeOK, Goto, Work, PCs, Procs

LEMMA EnqueueType ==
    ASSUME TypeOK, IsFiniteSet(db), JobsSet, NEW p \in Procs, Enqueue(p)
    PROVE  TypeOK' /\ IsFiniteSet(db')
<1>1. CASE EnqueuePrepare(p)
  <2>1. job[p] \in Rows /\ job[p].msg \in Msgs
    BY <1>1, JobType DEF EnqueuePrepare, JobsSet
  <2>2. [job[p] EXCEPT !.pos = NextPosition] \in Rows
    BY <2>1, NextPositionType, RowsType DEF TypeOK
  <2> QED
    BY <1>1, <2>1, <2>2 DEF EnqueuePrepare, TypeOK, Goto, Work, PCs, life
<1>2. CASE EnqueueCommit(p)
  <2>1. job[p] \in Rows /\ Prompt(p) \in Prompts
    BY <1>2, JobType DEF EnqueueCommit, JobsSet
  <2>2. IsFiniteSet(db')
    BY <1>2, FS_AddElement DEF EnqueueCommit
  <2> QED
    BY <1>2, <2>1, <2>2 DEF EnqueueCommit, TypeOK, Goto, Settle, PCs, Fates, life
<1>3. CASE EnqueueMirror(p)
  <2>1. job[p] \in Rows
    BY <1>3 DEF EnqueueMirror, JobsSet
  <2>2. mirror' \in Seq(Rows)
    BY <1>3, <2>1, MirrorAddType DEF EnqueueMirror, TypeOK
  <2> QED
    BY <1>3, <2>2 DEF EnqueueMirror, TypeOK, Goto, Work, PCs, life
<1>4. CASE ResumeAfterEnqueue(p)
  <2> DEFINE back == [pc EXCEPT ![p] = Return(p)]
  <2>1. back \in [Procs -> PCs]
    BY DEF TypeOK, PCs, Return
  <2>2. pc' \in [Procs -> PCs] /\ status' \in {status, "active"} /\ owed' \in {owed, "now"}
    BY <1>4, <2>1, ScheduledType DEF ResumeAfterEnqueue, ResumeSession
  <2> QED
    BY <1>4, <2>2 DEF ResumeAfterEnqueue, TypeOK
<1> QED
  BY <1>1, <1>2, <1>3, <1>4 DEF Enqueue

LEMMA OfferType ==
    ASSUME TypeOK, IsFiniteSet(db), JobsSet, NEW p \in Procs, Offer(p)
    PROVE  TypeOK' /\ IsFiniteSet(db')
<1>1. job[p] \in Rows /\ Prompt(p) \in Prompts
  BY JobType DEF Offer, OfferPaused, OfferBusy, OfferRun, OfferEnded, OfferFails, JobsSet
<1>2. CASE OfferPaused(p)
  <2>1. job' \in [Procs -> Rows \cup {NoJob}]
    <3>1. CASE p = Drainer
      <4>1. job[p].msg[2] < MaxGen /\ job' = [job EXCEPT ![p] = [job[p] EXCEPT !.msg[2] = @ + 1]]
        BY <1>2, <3>1 DEF OfferPaused, Work
      <4>2. job[p].msg[2] + 1 \in 1 .. MaxGen
        BY <1>1, <4>1, JobType, MaxGenAssumption
      <4>3. [job[p] EXCEPT !.msg[2] = @ + 1] \in Rows
        BY <1>1, <4>2 DEF Rows, Msgs
      <4> QED
        BY <4>1, <4>3 DEF TypeOK
    <3>2. CASE p # Drainer
      BY <1>2, <3>2 DEF OfferPaused, TypeOK
    <3> QED
      BY <3>1, <3>2
  <2> QED
    BY <1>2, <2>1 DEF OfferPaused, TypeOK, Goto, PCs, life
<1>3. CASE OfferBusy(p)
  BY <1>3 DEF OfferBusy, TypeOK, Goto, PCs, life
<1>4. CASE OfferRun(p)
  BY <1>1, <1>4 DEF OfferRun, HandOver, TypeOK, Goto, Work, Settle, PCs, Fates, Return
<1>5. CASE OfferEnded(p)
  BY <1>1, <1>5 DEF OfferEnded, TypeOK, Goto, Work, Settle, PCs, Fates, Return, life
<1>6. CASE OfferFails(p)
  <2>1. fate' \in [Prompts -> Fates]
    BY <1>1, <1>6 DEF OfferFails, TypeOK, Settle, Fates
  <2>2. CASE FinishDrain
    BY <1>6, <2>1, <2>2, FinishDrainType DEF OfferFails, TypeOK
  <2>3. CASE Goto(p, Return(p)) /\ Work(p, NoJob) /\ UNCHANGED soon
    BY <1>6, <2>1, <2>3 DEF OfferFails, TypeOK, Goto, Work, PCs, Return
  <2> QED
    BY <1>6, <2>2, <2>3 DEF OfferFails
<1> QED
  BY <1>2, <1>3, <1>4, <1>5, <1>6 DEF Offer

LEMMA DrainType ==
    ASSUME TypeOK, IsFiniteSet(db), JobsSet, Drain
    PROVE  TypeOK' /\ IsFiniteSet(db')
<1> USE DEF Procs
<1>1. CASE DrainLoop
  <2>1. mirror # << >> => Head(mirror) \in Rows
    BY HeadTailProperties DEF TypeOK
  <2>2. CASE FinishDrain
    BY <1>1, <2>2, FinishDrainType DEF DrainLoop, TypeOK
  <2>3. CASE ~ FinishDrain
    BY <1>1, <2>1, <2>3 DEF DrainLoop, TypeOK, Goto, Work, PCs
  <2> QED
    BY <2>2, <2>3
<1>2. CASE DrainClaim
  <2>1. job[Drainer] \in Rows /\ Prompt(Drainer) \in Prompts
    BY <1>2, JobType DEF DrainClaim, JobsSet
  <2>2. db' \subseteq Rows /\ IsFiniteSet(db')
    BY <1>2, DeleteRowEffect DEF DrainClaim, TypeOK
  <2> QED
    BY <1>2, <2>1, <2>2 DEF DrainClaim, TypeOK, Goto, Settle, PCs, Fates, life
<1>3. CASE DrainMiss
  BY <1>3, FinishDrainType DEF DrainMiss, TypeOK
<1>4. CASE DrainTake
  <2>1. job[Drainer] \in Rows /\ Prompt(Drainer) \in Prompts
    BY <1>4, JobType DEF DrainTake, JobsSet
  <2>2. mirror' \in Seq(Rows)
    BY <1>4, MirrorRemoveType DEF DrainTake, TypeOK
  <2>3. MirrorHas(job[Drainer].msg) => mirror[MirrorAt(job[Drainer].msg)] \in Rows
    BY MirrorAtType, ElementOfSeq DEF TypeOK
  <2>4. fate' \in [Prompts -> Fates]
    BY <1>4, <2>1 DEF DrainTake, TypeOK, Settle, Fates
  <2>5. CASE FinishDrain
    BY <1>4, <2>2, <2>4, <2>5, FinishDrainType DEF DrainTake, TypeOK
  <2>6. CASE ~ FinishDrain
    BY <1>4, <2>2, <2>3, <2>4, <2>6 DEF DrainTake, TypeOK, Goto, Work, PCs
  <2> QED
    BY <2>5, <2>6
<1>5. CASE DrainGone
  BY <1>5, HeadTailProperties DEF DrainGone, TypeOK, Goto, PCs
<1> QED
  BY <1>1, <1>2, <1>3, <1>4, <1>5 DEF Drain

LEMMA StoreType ==
    ASSUME TypeOK, IsFiniteSet(db), JobsSet, NEW s \in Senders, Store(s)
    PROVE  TypeOK' /\ IsFiniteSet(db')
<1>1. s \in Procs
  BY DEF Procs
<1>2. CASE CancelAsk(s) \/ EditAsk(s)
  <2>1. \A i \in 1 .. Len(mirror) : mirror[i] \in Rows
    BY ElementOfSeq DEF TypeOK
  <2>2. CASE CancelAsk(s)
    BY <1>1, <2>1, <2>2 DEF CancelAsk, Ask, TypeOK, Goto, Work, PCs, life
  <2>3. CASE EditAsk(s)
    BY <1>1, <2>1, <2>3 DEF EditAsk, Ask, TypeOK, Goto, Work, PCs, life
  <2> QED
    BY <1>2, <2>2, <2>3
<1>3. CASE StoreMiss(s)
  BY <1>1, <1>3 DEF StoreMiss, TypeOK, Goto, Work, PCs, life
<1>4. CASE CancelCommit(s)
  <2>1. job[s] \in Rows /\ Prompt(s) \in Prompts
    BY <1>1, <1>4, JobType DEF CancelCommit, JobsSet
  <2>2. db' \subseteq Rows /\ IsFiniteSet(db')
    BY <1>4, DeleteRowEffect DEF CancelCommit, TypeOK
  <2> QED
    BY <1>1, <1>4, <2>1, <2>2 DEF CancelCommit, TypeOK, Goto, Settle, PCs, Fates, life
<1>5. CASE CancelMirror(s)
  <2>1. job[s] \in Rows /\ Prompt(s) \in Prompts
    BY <1>1, <1>5, JobType DEF CancelMirror, JobsSet
  <2>2. mirror' \in Seq(Rows)
    BY <1>5, MirrorRemoveType DEF CancelMirror, TypeOK
  <2> QED
    BY <1>1, <1>5, <2>1, <2>2 DEF CancelMirror, Reply, TypeOK, Goto, Work, PCs, life
<1>6. CASE EditCommit(s)
  <2> DEFINE e(r) == IF r.msg = job[s].msg THEN [r EXCEPT !.edited = TRUE] ELSE r
  <2>1. db' = {e(r) : r \in db}
    BY <1>6 DEF EditCommit
  <2>2. \A r \in db : e(r) \in Rows
    BY RowsType DEF TypeOK
  <2>3. IsFiniteSet(db')
    <3> DEFINE f == [r \in db |-> e(r)]
    <3>1. f \in Surjection(db, db')
      BY <2>1 DEF Surjection
    <3> QED
      BY <3>1, FS_Surjection
  <2> QED
    BY <1>1, <1>6, <2>1, <2>2, <2>3 DEF EditCommit, TypeOK, Goto, PCs, life
<1>7. CASE EditMirror(s)
  <2>1. job[s] \in Rows /\ Prompt(s) \in Prompts
    BY <1>1, <1>7, JobType DEF EditMirror, JobsSet
  <2>2. mirror' \in Seq(Rows)
    BY <1>7, MirrorUpdateType DEF EditMirror, TypeOK
  <2> QED
    BY <1>1, <1>7, <2>1, <2>2 DEF EditMirror, Reply, TypeOK, Goto, Work, PCs, life
<1> QED
  BY <1>2, <1>3, <1>4, <1>5, <1>6, <1>7 DEF Store

LEMMA TurnType ==
    ASSUME TypeOK, Turn
    PROVE  TypeOK'
<1>1. CASE TurnEnd
  BY <1>1, AppendProperties DEF TurnEnd, TypeOK
<1>2. CASE TurnHook
  BY <1>2, HeadTailProperties, ScheduledType DEF TurnHook, TypeOK
<1>3. CASE TurnExit \/ TurnRaises \/ TurnCompletes
  BY <1>3 DEF TurnExit, TurnRaises, TurnCompletes, TypeOK
<1> QED
  BY <1>1, <1>2, <1>3 DEF Turn

LEMMA LifecycleType ==
    ASSUME TypeOK, IsFiniteSet(db), Lifecycle
    PROVE  TypeOK' /\ IsFiniteSet(db')
<1>1. CASE PauseBegin \/ PauseTeardown \/ EndBegin \/ EndComplete
  BY <1>1 DEF PauseBegin, PauseTeardown, EndBegin, EndComplete, TypeOK
<1>2. CASE PauseFinish \/ Resume
  <2>1. pc' \in [Procs -> PCs] /\ status' \in {status, "active"} /\ owed' \in {owed, "now"}
    BY <1>2, ScheduledType DEF PauseFinish, Resume, ResumeSession, TypeOK
  <2> QED
    BY <1>2, <2>1 DEF PauseFinish, Resume, TypeOK
<1>3. CASE EndClear
  BY <1>3, FS_EmptySet DEF EndClear, TypeOK, Fates
<1>4. CASE EndMirror
  BY <1>4 DEF EndMirror, TypeOK
<1> QED
  BY <1>1, <1>2, <1>3, <1>4 DEF Lifecycle

LEMMA CrashType ==
    ASSUME TypeOK, IsFiniteSet(db), Crash \/ Restart
    PROVE  TypeOK' /\ IsFiniteSet(db')
<1>1. CASE Crash
  <2>1. fate' \in [Prompts -> Fates]
    BY <1>1 DEF Crash, TypeOK, AfterCrash, Fates
  <2>2. mirror' \in Seq(Rows) /\ soon' \in Seq({"hook", "gone"})
    BY <1>1, EmptySeq DEF Crash
  <2>3. pc' \in [Procs -> PCs] /\ job' \in [Procs -> Rows \cup {NoJob}]
    BY <1>1 DEF Crash, PCs
  <2> QED
    BY <1>1, <2>1, <2>2, <2>3 DEF Crash, TypeOK
<1>2. CASE Restart
  <2>1. mirror' \in Seq(Rows)
    BY <1>2, ByPositionType DEF Restart, TypeOK
  <2> QED
    BY <1>2, <2>1 DEF Restart, Reloaded, TypeOK
<1> QED
  BY <1>1, <1>2

-----------------------------------------------------------------------------
(* The slot of the drain *)

LEMMA SlotKept ==
    ASSUME TypeOK, SlotOnce, soon' = soon, pc[Drainer] = "finished" => pc'[Drainer] = "finished"
    PROVE  SlotOnce'
BY DEF SlotOnce

LEMMA SlotFinish ==
    ASSUME TypeOK, SlotOnce, pc[Drainer] # "finished", FinishDrain
    PROVE  SlotOnce'
<1>1. soon' = Append(soon, "gone") /\ pc'[Drainer] = "finished"
  BY DEF FinishDrain, Goto, TypeOK, Procs
<1>2. \A i \in 1 .. Len(soon) : soon[i] # "gone"
  BY DEF SlotOnce
<1>3. /\ Len(soon') = Len(soon) + 1
      /\ \A i \in 1 .. Len(soon) : soon'[i] = soon[i]
  BY <1>1, AppendProperties DEF TypeOK
<1>4. Len(soon) \in Nat
  BY LenProperties DEF TypeOK
<1>5. \A i \in 1 .. Len(soon') : soon'[i] = "gone" => i = Len(soon) + 1
  BY <1>2, <1>3, <1>4
<1> QED
  BY <1>1, <1>5 DEF SlotOnce

LEMMA SlotTail ==
    ASSUME TypeOK, SlotOnce, soon # << >>, soon' = Tail(soon),
           pc'[Drainer] = IF Head(soon) = "gone" THEN "idle" ELSE pc[Drainer]
    PROVE  SlotOnce'
<1>1. /\ Len(soon') = Len(soon) - 1 /\ Len(soon) \in Nat \ {0}
      /\ \A i \in 1 .. Len(soon') : soon'[i] = soon[i + 1]
  BY HeadTailProperties, EmptySeq DEF TypeOK
<1>2. Head(soon) = soon[1]
  BY DEF TypeOK
<1>3. \A i \in 1 .. Len(soon') : i + 1 \in 1 .. Len(soon) /\ i + 1 # 1
  BY <1>1
<1>4. CASE Head(soon) = "gone"
  <2>1. \A i \in 1 .. Len(soon') : soon'[i] # "gone"
    BY <1>1, <1>2, <1>3, <1>4 DEF SlotOnce
  <2> QED
    BY <2>1 DEF SlotOnce
<1>5. CASE Head(soon) # "gone"
  <2> SUFFICES ASSUME NEW i \in 1 .. Len(soon'), NEW j \in 1 .. Len(soon'),
                      soon'[i] = "gone", soon'[j] = "gone"
               PROVE  i = j /\ pc'[Drainer] = "finished"
    BY DEF SlotOnce
  <2>1. i + 1 = j + 1 /\ pc[Drainer] = "finished"
    BY <1>1, <1>3 DEF SlotOnce
  <2> QED
    BY <1>5, <2>1
<1> QED
  BY <1>4, <1>5

LEMMA SlotStep ==
    ASSUME TypeOK, SlotOnce, Next
    PROVE  SlotOnce'
<1> USE DrainerAssumption DEF Procs
<1>1. CASE \E s \in Senders, x \in Prompts : Send(s, x) \/ Wake(s, x)
  BY <1>1, SlotKept DEF Send, Wake, Submit, Goto, life, TypeOK
<1>2. ASSUME NEW p \in Procs, Enqueue(p) PROVE SlotOnce'
  <2>1. CASE EnqueuePrepare(p) \/ EnqueueCommit(p) \/ EnqueueMirror(p)
    BY <2>1, SlotKept DEF EnqueuePrepare, EnqueueCommit, EnqueueMirror, Goto, life, TypeOK
  <2>2. CASE ResumeAfterEnqueue(p)
    BY <2>2, SlotKept DEF ResumeAfterEnqueue, ResumeSession, Scheduled, Return, TypeOK
  <2> QED
    BY <1>2, <2>1, <2>2 DEF Enqueue
<1>3. ASSUME NEW p \in Procs, Offer(p) PROVE SlotOnce'
  <2>1. pc[p] = "offer"
    BY <1>3 DEF Offer, OfferPaused, OfferBusy, OfferRun, OfferEnded, OfferFails
  <2>2. CASE UNCHANGED soon /\ \E l : Goto(p, l)
    BY <2>1, <2>2, SlotKept DEF Goto, TypeOK
  <2>3. CASE p = Drainer /\ FinishDrain
    BY <2>1, <2>3, SlotFinish
  <2> QED
    BY <1>3, <2>2, <2>3 DEF Offer, OfferPaused, OfferBusy, OfferRun, OfferEnded, OfferFails, HandOver, life
<1>4. CASE \E s \in Senders : Store(s)
  BY <1>4, SlotKept DEF Store, CancelAsk, EditAsk, Ask, StoreMiss, CancelCommit, CancelMirror,
                        EditCommit, EditMirror, Goto, life, TypeOK
<1>5. CASE Drain
  <2>1. CASE pc[Drainer] # "finished" /\ FinishDrain
    BY <2>1, SlotFinish
  <2>2. CASE pc[Drainer] # "finished" /\ UNCHANGED soon
    BY <2>2, SlotKept
  <2>3. CASE DrainGone
    BY <2>3, SlotTail DEF DrainGone, Goto, TypeOK
  <2> QED
    BY <1>5, <2>1, <2>2, <2>3 DEF Drain, DrainLoop, DrainClaim, DrainMiss, DrainTake, life
<1>6. CASE Turn
  <2>1. CASE TurnHook
    <3>1. pc'[Drainer] = pc[Drainer] \/ pc[Drainer] = "idle"
      BY <2>1 DEF TurnHook, Scheduled, TypeOK
    <3>2. CASE pc'[Drainer] = pc[Drainer]
      BY <2>1, <3>2, SlotTail DEF TurnHook
    <3>3. CASE pc[Drainer] = "idle"
      <4>1. \A i \in 1 .. Len(soon) : soon[i] # "gone"
        BY <3>3 DEF SlotOnce
      <4>2. \A i \in 1 .. Len(soon') : soon'[i] # "gone"
        BY <2>1, <4>1, HeadTailProperties, EmptySeq DEF TurnHook, TypeOK
      <4> QED
        BY <4>2 DEF SlotOnce
    <3> QED
      BY <3>1, <3>2, <3>3
  <2>2. CASE TurnEnd /\ status = "active"
    <3>1. soon' = Append(soon, "hook") /\ pc' = pc
      BY <2>2 DEF TurnEnd
    <3>2. Len(soon) \in Nat /\ Len(soon') = Len(soon) + 1 /\ soon'[Len(soon) + 1] = "hook"
          /\ \A i \in 1 .. Len(soon) : soon'[i] = soon[i]
      BY <3>1, AppendProperties, LenProperties DEF TypeOK
    <3>3. \A i \in 1 .. Len(soon') : soon'[i] = "gone" => i \in 1 .. Len(soon) /\ soon[i] = "gone"
      BY <3>2
    <3> QED
      BY <3>1, <3>3 DEF SlotOnce
  <2>3. CASE UNCHANGED <<soon, pc>>
    BY <2>3, SlotKept
  <2> QED
    BY <1>6, <2>1, <2>2, <2>3 DEF Turn, TurnEnd, TurnExit, TurnRaises, TurnCompletes
<1>7. CASE Lifecycle
  BY <1>7, SlotKept DEF Lifecycle, PauseBegin, PauseTeardown, PauseFinish, Resume, ResumeSession,
                        Scheduled, EndBegin, EndComplete, EndClear, EndMirror, TypeOK
<1>8. CASE Crash
  BY <1>8, EmptySeq DEF Crash, SlotOnce
<1>9. CASE Restart
  BY <1>9, SlotKept DEF Restart
<1> QED
  BY <1>1, <1>2, <1>3, <1>4, <1>5, <1>6, <1>7, <1>8, <1>9 DEF Next

-----------------------------------------------------------------------------
(* Steps that leave every prompt with its holder *)

Parked == {"idle", "resume", "loop", "finished"}

(* Task p goes on as it was, or was and stays without a prompt in hand, or   *)
(* keeps the prompt it holds.                                                *)
Keeps(p) ==
    \/ pc'[p] = pc[p] /\ job'[p] = job[p]
    \/ /\ pc[p] \notin Holding \cup {"take"}
       /\ pc'[p] \notin Holding \cup {"take", "cancelMirror"}
       /\ pc'[p] \notin Parked => job'[p] \in Rows
    \/ /\ pc[p] \in Holding /\ pc'[p] \in Holding
       /\ job'[p] \in Rows /\ Prompt(p)' = Prompt(p)
       /\ pc'[p] = "insert" => job'[p].msg \in files'

(* The table lists the same messages, in another order or with other texts.  *)
SameMessages ==
    /\ \A r \in db' : \E q \in db : q.msg = r.msg
    /\ \A q \in db : \E r \in db' : r.msg = q.msg

LEMMA OwnerKept ==
    ASSUME IInv, TypeOK', fate' = fate, runs' = runs, SameMessages, files \subseteq files',
           replies' \subseteq replies \cup (Prompts \X {"edited"}),
           EndedFirst', SlotOnce', status' # "ended" => status # "ended",
           \A p \in Procs : Keeps(p)
    PROVE  Owner'
<1> USE DEF IInv, Owner
<1>1. Drainer \in Procs /\ \A s \in Senders : s \in Procs
  BY DEF Procs
<1>2. JobsSet'
  BY DEF JobsSet, Keeps, Parked, Holding
<1>3. RowsQueued' /\ QueuedHasRow' /\ OneRow'
  BY DEF RowsQueued, QueuedHasRow, OneRow, SameMessages
<1>4. SendersOffer'
  BY <1>1 DEF SendersOffer, Keeps, Holding, Prompt
<1>5. DrainerClaims'
  BY <1>1 DEF DrainerClaims, Keeps, Holding, Prompt
<1>6. ClaimedHeld'
  BY <1>1 DEF ClaimedHeld, Keeps, Holding, Prompt
<1>7. Apart'
  <2> SUFFICES ASSUME NEW s \in Senders, NEW t \in Senders,
                      s # t, pc'[s] \in Holding, pc'[t] \in Holding
               PROVE  Prompt(s)' # Prompt(t)'
    BY DEF Apart
  <2>1. \A p \in Senders : pc'[p] \in Holding => pc[p] \in Holding /\ Prompt(p)' = Prompt(p)
    BY <1>1 DEF Keeps, Holding, Prompt
  <2> QED
    BY <2>1 DEF Apart
<1>8. RunsCounted'
  BY DEF RunsCounted
<1>9. CancelSettled'
  <2>1. \A s \in Senders : pc'[s] = "cancelMirror" => pc[s] = pc'[s] /\ job'[s] = job[s]
    BY <1>1 DEF Keeps, Holding
  <2>2. \A x \in Prompts : <<x, "cancelled">> \in replies' => <<x, "cancelled">> \in replies
    OBVIOUS
  <2> QED
    BY <2>1, <2>2 DEF CancelSettled, Prompt
<1>10. Spilled'
  BY DEF Spilled, Keeps, SameMessages, Holding
<1> QED
  BY <1>2, <1>3, <1>4, <1>5, <1>6, <1>7, <1>8, <1>9, <1>10

(* schedule_pending_drain moves the drain from idle to its loop.             *)
LEMMA ScheduledKeeps ==
    ASSUME TypeOK, NEW c \in [Procs -> PCs], NEW st, pc' = Scheduled(c, st), job' = job,
           NEW p \in Procs
    PROVE  pc'[p] = c[p] \/ (p = Drainer /\ c[p] = "idle" /\ pc'[p] = "loop")
BY DEF Scheduled, Procs

(* The turn, the lifecycle calls before the queue is dropped, and the drain  *)
(* when it takes nothing.                                                    *)
LEMMA QuietStepOwner ==
    ASSUME IInv, TypeOK', SlotOnce',
           \/ Turn \/ PauseBegin \/ PauseTeardown \/ PauseFinish \/ Resume
           \/ EndBegin \/ EndComplete \/ DrainGone
    PROVE  Owner'
<1> USE DEF IInv, TypeOK
<1>1. UNCHANGED <<db, fate, runs, replies, files, job>>
  BY DEF Turn, TurnEnd, TurnHook, TurnExit, TurnRaises, TurnCompletes, PauseBegin,
         PauseTeardown, PauseFinish, Resume, EndBegin, EndComplete, DrainGone
<1>2. EndedFirst' /\ (status' # "ended" => status # "ended")
  BY DEF EndedFirst, Owner, ResumeSession, Turn, TurnEnd, TurnHook, TurnExit, TurnRaises,
         TurnCompletes, PauseBegin, PauseTeardown, PauseFinish, Resume, EndBegin, EndComplete, DrainGone
<1>3. ASSUME NEW p \in Procs
      PROVE  pc'[p] = pc[p] \/ (p = Drainer /\ pc[p] \in Parked /\ pc'[p] \in Parked)
  <2>1. CASE pc' = pc \/ \E st : pc' = Scheduled(pc, st)
    BY <1>1, <2>1, ScheduledKeeps DEF Parked
  <2>2. CASE DrainGone
    <3>1. Head(soon) = soon[1] /\ 1 \in 1 .. Len(soon)
      BY <2>2, EmptySeq DEF DrainGone
    <3>2. pc[Drainer] = "finished"
      BY <2>2, <3>1 DEF DrainGone, Owner, SlotOnce
    <3> QED
      BY <2>2, <3>2 DEF DrainGone, Goto, Parked
  <2>3. DrainGone \/ pc' = pc \/ \E st : pc' = Scheduled(pc, st)
    BY DEF ResumeSession, Turn, TurnEnd, TurnHook, TurnExit, TurnRaises, TurnCompletes,
           PauseBegin, PauseTeardown, PauseFinish, Resume, EndBegin, EndComplete
  <2> QED
    BY <2>1, <2>2, <2>3
<1>4. \A p \in Procs : Keeps(p)
  BY <1>1, <1>3 DEF Keeps, Parked, Holding
<1>5. SameMessages
  BY <1>1 DEF SameMessages
<1> QED
  BY <1>1, <1>2, <1>4, <1>5, OwnerKept

(* A task that gives up its job, starts one, or moves its prompt along.      *)
LEMMA EnqueueOwner ==
    ASSUME IInv, TypeOK', SlotOnce', NEW p \in Procs,
           EnqueuePrepare(p) \/ EnqueueMirror(p) \/ ResumeAfterEnqueue(p)
    PROVE  Owner'
<1> USE DEF IInv
<1>1. /\ UNCHANGED <<db, fate, runs, replies, ender>> /\ files \subseteq files'
      /\ status' # "ended" => status # "ended"
      /\ status = "ended" => status' = "ended"
  BY DEF EnqueuePrepare, EnqueueMirror, ResumeAfterEnqueue, ResumeSession, life
<1>2. ASSUME NEW q \in Procs PROVE Keeps(q)
  <2>1. CASE EnqueuePrepare(p)
    <3>1. /\ pc[p] = "prepare" /\ job[p] \in Rows
          /\ job' = [job EXCEPT ![p] = [job[p] EXCEPT !.pos = NextPosition]]
          /\ pc' = [pc EXCEPT ![p] = "insert"] /\ files' = files \cup {job[p].msg}
      BY <2>1 DEF EnqueuePrepare, Owner, JobsSet, Goto, Work
    <3>2. [job[p] EXCEPT !.pos = NextPosition] \in Rows
          /\ [job[p] EXCEPT !.pos = NextPosition].msg = job[p].msg
      BY <3>1, NextPositionType, RowsType DEF TypeOK
    <3> QED
      BY <3>1, <3>2 DEF Keeps, Holding, Prompt, TypeOK
  <2>2. CASE EnqueueMirror(p)
    BY <2>2 DEF EnqueueMirror, Goto, Work, Keeps, Parked, Holding, TypeOK
  <2>3. CASE ResumeAfterEnqueue(p)
    <3> DEFINE back == [pc EXCEPT ![p] = Return(p)]
    <3>1. pc[p] = "resume" /\ job' = job /\ (pc' = back \/ pc' = Scheduled(back, "active"))
      BY <2>3 DEF ResumeAfterEnqueue, ResumeSession
    <3>2. back \in [Procs -> PCs]
      BY DEF TypeOK, Return, PCs
    <3>3. pc'[q] = back[q] \/ (q = Drainer /\ back[q] = "idle" /\ pc'[q] = "loop")
      BY <3>1, <3>2, ScheduledKeeps
    <3>4. back[q] = IF q = p THEN Return(p) ELSE pc[q]
      BY DEF TypeOK
    <3> QED
      BY <3>1, <3>3, <3>4 DEF Keeps, Parked, Holding, Return
  <2> QED
    BY <2>1, <2>2, <2>3
<1>3. SameMessages
  BY <1>1 DEF SameMessages
<1>4. EndedFirst'
  BY <1>1 DEF Owner, EndedFirst
<1> QED
  BY <1>1, <1>2, <1>3, <1>4, OwnerKept

LEMMA RequeueOwner ==
    ASSUME IInv, TypeOK', SlotOnce', NEW p \in Procs, OfferPaused(p) \/ OfferBusy(p)
    PROVE  Owner'
<1> USE DEF IInv
<1>1. UNCHANGED <<db, fate, runs, replies, ender, files, status>>
  BY DEF OfferPaused, OfferBusy, life
<1>2. pc[p] = "offer" /\ pc' = [pc EXCEPT ![p] = "prepare"] /\ job[p] \in Rows
  BY DEF OfferPaused, OfferBusy, Goto, Owner, JobsSet
<1>3. /\ \A q \in Procs : q # p => job'[q] = job[q]
      /\ job'[p] \in Rows /\ Prompt(p)' = Prompt(p)
  <2>1. CASE job' = job
    BY <1>2, <2>1 DEF Prompt
  <2>2. CASE job[p].msg[2] < MaxGen /\ job' = [job EXCEPT ![p] = [job[p] EXCEPT !.msg[2] = @ + 1]]
    <3>1. job[p].msg[2] + 1 \in 1 .. MaxGen
      BY <1>2, <2>2, JobType, MaxGenAssumption
    <3>2. [job[p] EXCEPT !.msg[2] = @ + 1] \in Rows
      BY <1>2, <3>1 DEF Rows, Msgs
    <3>3. [job[p] EXCEPT !.msg[2] = @ + 1].msg[1] = job[p].msg[1]
      BY <1>2 DEF Rows, Msgs
    <3> QED
      BY <2>2, <3>2, <3>3 DEF Prompt, TypeOK
  <2> QED
    BY <2>1, <2>2 DEF OfferPaused, OfferBusy, Work
<1>4. \A q \in Procs : Keeps(q)
  BY <1>2, <1>3 DEF Keeps, Holding, TypeOK
<1>5. SameMessages /\ EndedFirst'
  BY <1>1 DEF SameMessages, Owner, EndedFirst
<1> QED
  BY <1>1, <1>4, <1>5, OwnerKept

LEMMA IdleStoreOwner ==
    ASSUME IInv, TypeOK', SlotOnce',
           \/ DrainLoop \/ DrainMiss
           \/ \E s \in Senders : CancelAsk(s) \/ EditAsk(s) \/ StoreMiss(s) \/ EditMirror(s)
    PROVE  Owner'
<1> USE DEF IInv, Procs
<1>1. /\ UNCHANGED <<db, fate, runs, ender, files, status>>
      /\ replies' \subseteq replies \cup (Prompts \X {"edited"})
  <2>1. CASE DrainLoop \/ DrainMiss
    BY <2>1 DEF DrainLoop, DrainMiss
  <2>2. CASE \E s \in Senders : CancelAsk(s) \/ EditAsk(s) \/ StoreMiss(s)
    BY <2>2 DEF CancelAsk, EditAsk, Ask, StoreMiss, life
  <2>3. ASSUME NEW s \in Senders, EditMirror(s)
        PROVE  /\ UNCHANGED <<db, fate, runs, ender, files, status>>
               /\ replies' \subseteq replies \cup (Prompts \X {"edited"})
    <3>1. Prompt(s) \in Prompts
      BY <2>3, JobType DEF EditMirror, Owner, JobsSet
    <3> QED
      BY <2>3, <3>1 DEF EditMirror, Reply, life
  <2> QED
    BY <2>1, <2>2, <2>3
<1>2. ASSUME NEW q \in Procs PROVE Keeps(q)
  <2>1. CASE DrainLoop
    <3>1. mirror # << >> => Head(mirror) \in Rows
      BY HeadTailProperties DEF TypeOK
    <3> QED
      BY <2>1, <3>1 DEF DrainLoop, FinishDrain, Goto, Work, Keeps, Parked, Holding, TypeOK
  <2>2. CASE DrainMiss
    BY <2>2 DEF DrainMiss, FinishDrain, Goto, Work, Keeps, Parked, Holding, TypeOK
  <2>3. ASSUME NEW s \in Senders, CancelAsk(s) \/ EditAsk(s) PROVE Keeps(q)
    <3>1. \A i \in 1 .. Len(mirror) : mirror[i] \in Rows
      BY ElementOfSeq DEF TypeOK
    <3> QED
      BY <2>3, <3>1 DEF CancelAsk, EditAsk, Ask, Goto, Work, Keeps, Parked, Holding, TypeOK
  <2>4. ASSUME NEW s \in Senders, StoreMiss(s) \/ EditMirror(s) PROVE Keeps(q)
    BY <2>4 DEF StoreMiss, EditMirror, Goto, Work, Keeps, Parked, Holding, TypeOK
  <2> QED
    BY <2>1, <2>2, <2>3, <2>4
<1>3. SameMessages /\ EndedFirst'
  BY <1>1 DEF SameMessages, Owner, EndedFirst
<1> QED
  BY <1>1, <1>2, <1>3, OwnerKept

LEMMA EditCommitOwner ==
    ASSUME IInv, TypeOK', SlotOnce', NEW s \in Senders, EditCommit(s)
    PROVE  Owner'
<1> USE DEF IInv, Procs
<1>1. UNCHANGED <<fate, runs, replies, ender, files, status>>
  BY DEF EditCommit, life
<1>2. SameMessages
  <2> DEFINE e(r) == IF r.msg = job[s].msg THEN [r EXCEPT !.edited = TRUE] ELSE r
  <2>1. db' = {e(r) : r \in db}
    BY DEF EditCommit
  <2>2. \A r \in db : e(r).msg = r.msg
    BY RowsType DEF TypeOK
  <2> QED
    BY <2>1, <2>2 DEF SameMessages
<1>3. \A q \in Procs : Keeps(q)
  BY DEF EditCommit, Goto, Keeps, Parked, Holding, TypeOK, Owner, JobsSet
<1>4. EndedFirst'
  BY <1>1 DEF Owner, EndedFirst
<1> QED
  BY <1>1, <1>2, <1>3, <1>4, OwnerKept

-----------------------------------------------------------------------------
(* Steps that give a prompt another holder *)

(* What all of them need: nobody else holds the prompt of p.                 *)
LEMMA SoleHolder ==
    ASSUME TypeOK, Owner, NEW p \in Procs, NEW q \in Procs, p # q,
           pc[p] \in Holding \/ (p = Drainer /\ pc[p] = "take"),
           pc[q] \in Holding \/ (q = Drainer /\ pc[q] = "take")
    PROVE  Prompt(p) # Prompt(q)
BY DrainerAssumption DEF Owner, SendersOffer, DrainerClaims, Apart, Procs

LEMMA SubmitOwner ==
    ASSUME IInv, TypeOK', SlotOnce', NEW s \in Senders, NEW x \in Prompts, NEW next \in {"prepare", "offer"},
           Submit(s, x, next)
    PROVE  Owner'
<1> USE DrainerAssumption DEF IInv, Procs
<1> DEFINE r == [msg |-> <<x, 1>>, pos |-> 0, edited |-> FALSE]
<1>1. /\ pc[s] = "idle" /\ fate[x] = "unsent"
      /\ pc' = [pc EXCEPT ![s] = next] /\ job' = [job EXCEPT ![s] = r]
      /\ fate' = [fate EXCEPT ![x] = "offered"]
      /\ UNCHANGED <<db, files, status, ender, runs, replies>>
  BY DEF Submit, Settle, Work, Goto, life
<1>2. r \in Rows /\ r.msg[1] = x
  BY MaxGenAssumption DEF Rows, Msgs
<1> HIDE DEF r
<1>3. /\ pc'[s] = next /\ Prompt(s)' = x /\ job'[s] \in Rows
      /\ \A p \in Procs : p # s => pc'[p] = pc[p] /\ job'[p] = job[p]
      /\ fate'[x] = "offered" /\ \A y \in Prompts : y # x => fate'[y] = fate[y]
  BY <1>1, <1>2 DEF TypeOK, Prompt
<1>4. JobsSet'
  BY <1>3 DEF Owner, JobsSet
<1>5. RowsQueued' /\ QueuedHasRow' /\ OneRow'
  BY <1>1, <1>3, RowsType DEF Owner, RowsQueued, QueuedHasRow, OneRow, TypeOK
<1>6. \A p \in Procs : pc[p] \in Holding \/ (p = Drainer /\ pc[p] = "take")
                       => p # s /\ Prompt(p) \in Prompts /\ Prompt(p) # x
  BY <1>1, JobType DEF Owner, JobsSet, SendersOffer, DrainerClaims, Holding
<1>7. SendersOffer'
  BY <1>3, <1>6 DEF Owner, SendersOffer, Prompt
<1>8. DrainerClaims' /\ ClaimedHeld'
  BY <1>3, <1>6 DEF Owner, DrainerClaims, ClaimedHeld, Prompt, Holding
<1>9. Apart'
  BY <1>3, <1>6 DEF Owner, Apart, Prompt
<1>10. RunsCounted'
  BY <1>1, <1>3 DEF Owner, RunsCounted
<1>11. CancelSettled'
  <2>1. \A t \in Senders : pc'[t] = "cancelMirror" =>
           t # s /\ pc[t] = "cancelMirror" /\ Prompt(t) \in Prompts /\ job'[t] = job[t]
    BY <1>3, JobType DEF Owner, JobsSet
  <2> QED
    BY <1>1, <1>3, <2>1 DEF Owner, CancelSettled, Prompt
<1>12. EndedFirst' /\ Spilled'
  BY <1>1, <1>3 DEF Owner, EndedFirst, Spilled
<1> QED
  BY <1>4, <1>5, <1>7, <1>8, <1>9, <1>10, <1>11, <1>12 DEF Owner

LEMMA EnqueueCommitOwner ==
    ASSUME IInv, TypeOK', SlotOnce', NEW p \in Procs, EnqueueCommit(p)
    PROVE  Owner'
<1> USE DrainerAssumption DEF IInv
<1>1. /\ pc[p] = "insert" /\ job[p] \in Rows /\ Prompt(p) \in Prompts
      /\ pc' = [pc EXCEPT ![p] = "mirror"] /\ db' = db \cup {job[p]}
      /\ fate' = [fate EXCEPT ![Prompt(p)] = "queued"]
      /\ UNCHANGED <<job, files, status, ender, runs, replies>>
  BY JobType DEF EnqueueCommit, Settle, Goto, life, Owner, JobsSet
<1> DEFINE x == Prompt(p)
<1>2. /\ pc'[p] = "mirror"
      /\ \A q \in Procs : q # p => pc'[q] = pc[q]
      /\ \A q \in Procs : Prompt(q)' = Prompt(q)
      /\ fate'[x] = "queued" /\ \A y \in Prompts : y # x => fate'[y] = fate[y]
  BY <1>1 DEF TypeOK, Prompt
<1>3. fate[x] \in {"offered", "claimed"} /\ (p # Drainer => fate[x] = "offered")
      /\ (p = Drainer => fate[x] = "claimed")
  BY <1>1 DEF Owner, SendersOffer, DrainerClaims, Holding, Procs
<1>4. \A q \in Procs : q # p /\ (pc[q] \in Holding \/ (q = Drainer /\ pc[q] = "take"))
                       => Prompt(q) \in Prompts /\ Prompt(q) # x
  BY <1>1, SoleHolder, JobType DEF Owner, JobsSet, Holding
<1>5. \A r \in db : r.msg[1] \in Prompts /\ r.msg[1] # x
  BY <1>3, RowsType DEF TypeOK, Owner, RowsQueued
<1>6. JobsSet'
  BY <1>1, <1>2 DEF Owner, JobsSet
<1>7. RowsQueued' /\ QueuedHasRow' /\ OneRow'
  BY <1>1, <1>2, <1>5 DEF Owner, RowsQueued, QueuedHasRow, OneRow, Prompt
<1>8. SendersOffer' /\ DrainerClaims'
  BY <1>1, <1>2, <1>4 DEF Owner, SendersOffer, DrainerClaims, Procs, Holding
<1>9. ClaimedHeld'
  BY <1>1, <1>2, <1>3 DEF Owner, ClaimedHeld, Procs, Holding
<1>10. Apart'
  BY <1>1, <1>2 DEF Owner, Apart, Procs, Holding
<1>11. RunsCounted'
  BY <1>1, <1>2, <1>3 DEF Owner, RunsCounted
<1>12. CancelSettled'
  BY <1>1, <1>2, <1>3 DEF Owner, CancelSettled, Procs
<1>13. EndedFirst' /\ Spilled'
  BY <1>1, <1>2 DEF Owner, EndedFirst, Spilled
<1> QED
  BY <1>6, <1>7, <1>8, <1>9, <1>10, <1>11, <1>12, <1>13 DEF Owner

(* A delivery settles the prompt for good: it ran once or not at all.        *)
LEMMA DeliveryOwner ==
    ASSUME IInv, TypeOK', SlotOnce', NEW p \in Procs, OfferRun(p) \/ OfferEnded(p) \/ OfferFails(p)
    PROVE  Owner'
<1> USE DrainerAssumption DEF IInv
<1> DEFINE x == Prompt(p)
<1>1. pc[p] = "offer" /\ job[p] \in Rows /\ x \in Prompts
  BY JobType DEF OfferRun, OfferEnded, OfferFails, Owner, JobsSet
<1>2. /\ pc'[p] \in Parked /\ UNCHANGED <<db, files, status, ender, replies>>
      /\ \A q \in Procs : q # p => pc'[q] = pc[q] /\ job'[q] = job[q]
  BY DEF OfferRun, HandOver, OfferEnded, OfferFails, FinishDrain, Goto, Work, Return, Parked, TypeOK, life
<1>3. /\ fate'[x] \in {"delivered", "misrouted", "failed"}
      /\ runs'[x] = IF fate'[x] = "failed" THEN runs[x] ELSE runs[x] + 1
      /\ \A y \in Prompts : y # x => fate'[y] = fate[y] /\ runs'[y] = runs[y]
  BY <1>1 DEF OfferRun, HandOver, OfferEnded, OfferFails, Settle, TypeOK
<1> HIDE DEF x
<1>4. (p # Drainer => fate[x] = "offered") /\ (p = Drainer => fate[x] = "claimed")
  BY <1>1 DEF Owner, SendersOffer, DrainerClaims, Holding, Procs, x
<1>5. \A q \in Procs : q # p /\ (pc[q] \in Holding \/ (q = Drainer /\ pc[q] = "take"))
                       => Prompt(q) \in Prompts /\ Prompt(q) # x
  BY <1>1, SoleHolder, JobType DEF Owner, JobsSet, Holding, x
<1>6. \A q \in Procs : q # p => Prompt(q)' = Prompt(q)
  BY <1>2 DEF Prompt
<1>7. JobsSet'
  BY <1>2 DEF Owner, JobsSet, Parked
<1>8. RowsQueued' /\ QueuedHasRow' /\ OneRow'
  <2>1. \A r \in db : r.msg[1] \in Prompts /\ r.msg[1] # x
    BY <1>4, RowsType DEF TypeOK, Owner, RowsQueued
  <2> QED
    BY <1>2, <1>3, <1>4, <2>1 DEF Owner, RowsQueued, QueuedHasRow, OneRow
<1>9. SendersOffer' /\ DrainerClaims'
  BY <1>2, <1>3, <1>5, <1>6 DEF Owner, SendersOffer, DrainerClaims, Procs, Holding, Parked
<1>10. ClaimedHeld'
  BY <1>1, <1>2, <1>3, <1>4, <1>6 DEF Owner, ClaimedHeld, Procs, x
<1>11. Apart'
  BY <1>2, <1>6 DEF Owner, Apart, Procs, Holding, Parked
<1>12. RunsCounted'
  BY <1>1, <1>3, <1>4 DEF Owner, RunsCounted
<1>13. CancelSettled'
  <2>1. \A t \in Senders : pc'[t] = "cancelMirror" =>
           t # p /\ pc[t] = "cancelMirror" /\ Prompt(t) \in Prompts
    BY <1>2, JobType DEF Owner, JobsSet, Parked, Procs
  <2> QED
    BY <1>2, <1>3, <1>4, <1>6, <2>1 DEF Owner, CancelSettled, Procs
<1>14. EndedFirst' /\ Spilled'
  BY <1>2 DEF Owner, EndedFirst, Spilled, Parked
<1> QED
  BY <1>7, <1>8, <1>9, <1>10, <1>11, <1>12, <1>13, <1>14 DEF Owner

(* The commit of a DELETE, by the drain or by a cancel: the row's prompt was *)
(* queued, so nobody held it.                                                *)
LEMMA DeleteOwner ==
    ASSUME IInv, TypeOK', SlotOnce',
           NEW p \in Procs, NEW label, NEW f, pc[p] \in {"delete", "cancelDelete"},
           HasRow(job[p].msg), DeleteRow(job[p].msg), Settle(Prompt(p), f), Goto(p, label),
           UNCHANGED <<files, status, ender, job, runs, replies>>,
           \/ p = Drainer /\ pc[p] = "delete" /\ label = "take" /\ f = "claimed"
           \/ p \in Senders /\ pc[p] = "cancelDelete" /\ label = "cancelMirror" /\ f = "cancelled"
    PROVE  Owner'
<1> USE DrainerAssumption DEF IInv
<1> DEFINE x == Prompt(p)
           m == job[p].msg
<1>1. job[p] \in Rows /\ x \in Prompts /\ m[1] = x
  BY JobType DEF Owner, JobsSet, Prompt
<1>2. /\ pc'[p] = label /\ \A q \in Procs : q # p => pc'[q] = pc[q]
      /\ \A q \in Procs : Prompt(q)' = Prompt(q)
      /\ fate'[x] = f /\ \A y \in Prompts : y # x => fate'[y] = fate[y]
  BY <1>1 DEF Goto, Settle, TypeOK, Prompt
<1>3. /\ \A r \in db' : r.msg # m /\ \E q \in db : q.msg = r.msg
      /\ \A q \in db : q.msg # m => \E r \in db' : r.msg = q.msg
  BY DeleteRowEffect DEF TypeOK
<1>4. fate[x] = "queued"
  BY <1>1 DEF HasRow, Owner, RowsQueued
<1>5. \A r \in db : r.msg[1] \in Prompts /\ (r.msg[1] = x => r.msg = m)
  BY <1>1, RowsType DEF HasRow, Owner, OneRow, TypeOK
<1>6. \A r \in db' : r.msg[1] # x
  BY <1>3, <1>5
<1> HIDE DEF x, m
<1>7. \A q \in Procs : q # p /\ (pc[q] \in Holding \/ (q = Drainer /\ pc[q] = "take"))
                       => Prompt(q) \in Prompts /\ Prompt(q) # x
  BY <1>4, JobType DEF Owner, JobsSet, Holding, SendersOffer, DrainerClaims, Procs
<1>8. JobsSet'
  BY <1>1, <1>2 DEF Owner, JobsSet
<1>9. RowsQueued' /\ OneRow'
  BY <1>2, <1>3, <1>5, <1>6 DEF Owner, RowsQueued, OneRow
<1>10. QueuedHasRow'
  <2> SUFFICES ASSUME NEW y \in Prompts, fate'[y] = "queued" PROVE \E r \in db' : r.msg[1] = y
    BY DEF QueuedHasRow
  <2>1. y # x /\ fate[y] = "queued"
    BY <1>2
  <2>2. PICK r \in db : r.msg[1] = y
    BY <2>1 DEF Owner, QueuedHasRow
  <2>3. r.msg # m
    BY <1>1, <2>1, <2>2 DEF m, x, Prompt
  <2> QED
    BY <1>3, <2>2, <2>3
<1>11. SendersOffer' /\ DrainerClaims'
  BY <1>2, <1>7 DEF Owner, SendersOffer, DrainerClaims, Procs, Holding, x
<1>12. ClaimedHeld'
  <2> SUFFICES ASSUME NEW y \in Prompts, fate'[y] = "claimed"
               PROVE  job'[Drainer] \in Rows /\ pc'[Drainer] \in Holding \cup {"take"} /\ Prompt(Drainer)' = y
    BY DEF ClaimedHeld
  <2>1. CASE y = x
    BY <1>1, <1>2, <2>1 DEF x
  <2>2. CASE y # x
    <3>1. fate[y] = "claimed"
      BY <1>2, <2>2
    <3>2. job[Drainer] \in Rows /\ pc[Drainer] \in Holding \cup {"take"} /\ Prompt(Drainer) = y
      BY <3>1 DEF Owner, ClaimedHeld
    <3>3. p # Drainer
      BY <3>2 DEF Holding
    <3> QED
      BY <1>2, <3>2, <3>3 DEF Procs
  <2> QED
    BY <2>1, <2>2
<1>13. Apart'
  BY <1>2 DEF Owner, Apart, Procs, Holding
<1>14. RunsCounted'
  BY <1>1, <1>2, <1>4 DEF Owner, RunsCounted
<1>15. CancelSettled'
  <2>1. \A t \in Senders : t # p /\ pc'[t] = "cancelMirror" =>
           pc[t] = "cancelMirror" /\ Prompt(t) \in Prompts
    BY <1>2, JobType DEF Owner, JobsSet, Procs
  <2> QED
    BY <1>2, <1>4, <2>1 DEF Owner, CancelSettled, Procs, x
<1>16. EndedFirst' /\ Spilled'
  BY <1>2, <1>3 DEF Owner, EndedFirst, Spilled
<1> QED
  BY <1>8, <1>9, <1>10, <1>11, <1>12, <1>13, <1>14, <1>15, <1>16 DEF Owner

(* The drain's return to the event loop: the mirror entry becomes its job,   *)
(* or there is none any more and the message is dropped.                     *)
LEMMA DrainTakeOwner ==
    ASSUME IInv, TypeOK', SlotOnce', DrainTake
    PROVE  Owner'
<1> USE DrainerAssumption DEF IInv, Procs
<1> DEFINE x == Prompt(Drainer)
           m == job[Drainer].msg
<1>1. /\ pc[Drainer] = "take" /\ job[Drainer] \in Rows /\ x \in Prompts /\ m[1] = x
      /\ fate[x] = "claimed" /\ files' = files \ {m}
      /\ UNCHANGED <<db, status, ender, runs, replies>>
  BY JobType DEF DrainTake, Owner, JobsSet, DrainerClaims, Prompt
<1>2. \A q \in Senders : pc'[q] = pc[q] /\ job'[q] = job[q] /\ Prompt(q)' = Prompt(q)
  BY DEF DrainTake, FinishDrain, Goto, Work, TypeOK, Prompt
<1>3. \/ /\ pc'[Drainer] = "offer" /\ job'[Drainer] \in Rows /\ Prompt(Drainer)' = x /\ fate' = fate
      \/ /\ pc'[Drainer] = "finished" /\ fate' = [fate EXCEPT ![x] = "dropped"]
  <2>1. CASE MirrorHas(m)
    <3>1. /\ mirror[MirrorAt(m)] \in Rows /\ mirror[MirrorAt(m)].msg = m
      BY <2>1, MirrorAtType, ElementOfSeq DEF TypeOK
    <3> QED
      BY <1>1, <2>1, <3>1 DEF DrainTake, Goto, Work, TypeOK, Prompt
  <2>2. CASE ~ MirrorHas(m)
    BY <2>2 DEF DrainTake, FinishDrain, Goto, Work, Settle, TypeOK
  <2> QED
    BY <2>1, <2>2
<1> HIDE DEF x
<1>4. \A s \in Senders : pc[s] \in Holding => Prompt(s) \in Prompts /\ Prompt(s) # x /\ job[s].msg # m
  BY <1>1, JobType DEF Owner, SendersOffer, JobsSet, Holding, Prompt
<1>5. \A r \in db : r.msg[1] \in Prompts /\ r.msg[1] # x /\ r.msg # m
  BY <1>1, RowsType DEF TypeOK, Owner, RowsQueued
<1> HIDE DEF m
<1>6. \A y \in Prompts : y # x => fate'[y] = fate[y]
  BY <1>3 DEF TypeOK
<1>7. fate'[x] \in {"claimed", "dropped"} /\ (fate'[x] = "claimed" => pc'[Drainer] = "offer")
  BY <1>1, <1>3 DEF TypeOK
<1>8. JobsSet'
  BY <1>2, <1>3 DEF Owner, JobsSet
<1>9. RowsQueued' /\ QueuedHasRow' /\ OneRow'
  BY <1>1, <1>5, <1>6, <1>7 DEF Owner, RowsQueued, QueuedHasRow, OneRow
<1>10. SendersOffer' /\ Apart'
  BY <1>2, <1>4, <1>6 DEF Owner, SendersOffer, Apart
<1>11. DrainerClaims'
  BY <1>1, <1>3 DEF DrainerClaims, Holding
<1>12. ClaimedHeld'
  BY <1>1, <1>3, <1>6, <1>7 DEF Owner, ClaimedHeld, Holding, x
<1>13. RunsCounted'
  BY <1>1, <1>6, <1>7 DEF Owner, RunsCounted
<1>14. CancelSettled'
  <2>1. \A t \in Senders : pc'[t] = "cancelMirror" => pc[t] = "cancelMirror" /\ Prompt(t) \in Prompts
    BY <1>2, JobType DEF Owner, JobsSet
  <2> QED
    BY <1>1, <1>2, <1>6, <2>1 DEF Owner, CancelSettled
<1>15. EndedFirst' /\ Spilled'
  BY <1>1, <1>2, <1>3, <1>4, <1>5 DEF Owner, EndedFirst, Spilled, Holding
<1> QED
  BY <1>8, <1>9, <1>10, <1>11, <1>12, <1>13, <1>14, <1>15 DEF Owner

(* The acknowledgement of a cancel.                                          *)
LEMMA CancelMirrorOwner ==
    ASSUME IInv, TypeOK', SlotOnce', NEW s \in Senders, CancelMirror(s)
    PROVE  Owner'
<1> USE DrainerAssumption DEF IInv, Procs
<1> DEFINE x == Prompt(s)
           m == job[s].msg
<1>1. /\ pc[s] = "cancelMirror" /\ job[s] \in Rows /\ x \in Prompts /\ m[1] = x
      /\ fate[x] = "cancelled" /\ files' = files \ {m}
      /\ replies' \subseteq replies \cup {<<x, "cancelled">>}
      /\ UNCHANGED <<db, status, ender, runs, fate>>
  BY JobType DEF CancelMirror, Reply, Owner, JobsSet, CancelSettled, Prompt, life
<1>2. /\ pc'[s] = "idle"
      /\ \A q \in Procs : q # s => pc'[q] = pc[q] /\ job'[q] = job[q] /\ Prompt(q)' = Prompt(q)
  BY DEF CancelMirror, Goto, Work, TypeOK, Prompt
<1>3. \A q \in Procs : pc[q] \in Holding => job[q].msg # m
  BY <1>1 DEF Owner, SendersOffer, DrainerClaims, Holding, Prompt
<1>4. \A r \in db : r.msg # m
  BY <1>1 DEF Owner, RowsQueued
<1> HIDE DEF x, m
<1>5. JobsSet'
  BY <1>2 DEF Owner, JobsSet
<1>6. RowsQueued' /\ QueuedHasRow' /\ OneRow' /\ RunsCounted'
  BY <1>1 DEF Owner, RowsQueued, QueuedHasRow, OneRow, RunsCounted
<1>7. SendersOffer' /\ DrainerClaims' /\ ClaimedHeld' /\ Apart'
  BY <1>1, <1>2 DEF Owner, SendersOffer, DrainerClaims, ClaimedHeld, Apart, Holding
<1>8. CancelSettled'
  BY <1>1, <1>2 DEF Owner, CancelSettled
<1>9. EndedFirst' /\ Spilled'
  BY <1>1, <1>2, <1>3, <1>4 DEF Owner, EndedFirst, Spilled, Holding
<1> QED
  BY <1>5, <1>6, <1>7, <1>8, <1>9 DEF Owner

(* The session's end drops the rows, then the mirror and the directories.    *)
LEMMA EndOwner ==
    ASSUME IInv, TypeOK', SlotOnce', EndClear \/ EndMirror
    PROVE  Owner'
<1> USE DEF IInv
<1>1. /\ UNCHANGED <<pc, job, status, runs, replies>> /\ status = "ended"
  BY DEF EndClear, EndMirror, Owner, EndedFirst
<1>2. \A x \in Prompts : fate'[x] = fate[x] \/ (fate[x] = "queued" /\ fate'[x] = "dropped")
  BY DEF EndClear, EndMirror, Owner, RowsQueued
<1>3. \A p \in Procs : pc[p] \notin Parked => Prompt(p) \in Prompts /\ Prompt(p)' = Prompt(p)
  BY <1>1, JobType DEF Owner, JobsSet, Parked, Prompt
<1>4. RowsQueued' /\ QueuedHasRow' /\ OneRow'
  <2>1. CASE EndClear
    BY <2>1 DEF EndClear, Owner, RowsQueued, QueuedHasRow, OneRow, RowsQueued
  <2>2. CASE EndMirror
    BY <2>2 DEF EndMirror, Owner, RowsQueued, QueuedHasRow, OneRow
  <2> QED
    BY <2>1, <2>2
<1>5. JobsSet'
  BY <1>1 DEF Owner, JobsSet
<1>6. SendersOffer' /\ DrainerClaims' /\ ClaimedHeld' /\ Apart'
  BY <1>1, <1>2, <1>3 DEF Owner, SendersOffer, DrainerClaims, ClaimedHeld, Apart, Holding, Parked, Procs
<1>7. RunsCounted' /\ CancelSettled'
  BY <1>1, <1>2, <1>3 DEF Owner, RunsCounted, CancelSettled, Parked, Procs
<1>8. EndedFirst' /\ Spilled'
  BY <1>1 DEF EndedFirst, Spilled
<1> QED
  BY <1>4, <1>5, <1>6, <1>7, <1>8 DEF Owner

(* A crash lets go of every prompt in hand, a restart gives the rows back to *)
(* the mirror.                                                               *)
LEMMA CrashOwner ==
    ASSUME IInv, TypeOK', SlotOnce', Crash
    PROVE  Owner'
<1> USE DEF IInv
<1>1. /\ UNCHANGED <<db, files, runs, replies>> /\ status' = "down" /\ status # "ended" /\ ender' = "no"
      /\ pc' = [p \in Procs |-> "idle"]
  BY DEF Crash, Up
<1>2. \A x \in Prompts : fate'[x] = AfterCrash(fate[x])
  BY DEF Crash
<1>3. RowsQueued' /\ QueuedHasRow' /\ OneRow'
  BY <1>1, <1>2, RowsType DEF Owner, RowsQueued, QueuedHasRow, OneRow, AfterCrash, TypeOK
<1>4. JobsSet' /\ SendersOffer' /\ DrainerClaims' /\ Apart'
  BY <1>1 DEF JobsSet, SendersOffer, DrainerClaims, Apart, Holding, Procs
<1>5. ClaimedHeld' /\ RunsCounted'
  BY <1>1, <1>2 DEF Owner, ClaimedHeld, RunsCounted, AfterCrash
<1>6. CancelSettled'
  BY <1>1, <1>2 DEF Owner, CancelSettled, AfterCrash, Procs
<1>7. EndedFirst' /\ Spilled'
  BY <1>1 DEF Owner, EndedFirst, Spilled
<1> QED
  BY <1>3, <1>4, <1>5, <1>6, <1>7 DEF Owner

LEMMA RestartOwner ==
    ASSUME IInv, TypeOK', SlotOnce', Restart
    PROVE  Owner'
<1> USE DEF IInv
<1>1. /\ UNCHANGED <<db, pc, job, fate, runs, replies, ender>>
      /\ files' = files \cap {r.msg : r \in db} /\ status = "down" /\ status' # "ended"
  BY DEF Restart, Reloaded
<1>2. Spilled'
  <2>1. \A p \in Procs : pc[p] # "insert"
    BY <1>1 DEF DownIdle
  <2> QED
    BY <1>1, <2>1 DEF Owner, Spilled
<1>3. EndedFirst'
  BY <1>1 DEF Owner, EndedFirst
<1> QED
  BY <1>1, <1>2, <1>3 DEF Owner, JobsSet, RowsQueued, QueuedHasRow, OneRow, SendersOffer,
     DrainerClaims, ClaimedHeld, Apart, RunsCounted, CancelSettled, Prompt

-----------------------------------------------------------------------------
(* The theorems *)

LEMMA DownIdleStep ==
    ASSUME TypeOK, DownIdle, Next
    PROVE  DownIdle'
<1> SUFFICES ASSUME status' = "down" PROVE \A p \in Procs : pc'[p] = "idle"
  BY DEF DownIdle
<1> USE DEF Procs, Up
<1>1. CASE Crash
  BY <1>1 DEF Crash
<1>2. CASE ~ Crash
  <2>1. status = "down" /\ status' = status
    BY <1>2 DEF Next, Send, Wake, Submit, Enqueue, EnqueuePrepare, EnqueueCommit, EnqueueMirror,
       ResumeAfterEnqueue, ResumeSession, Offer, OfferPaused, OfferBusy, OfferRun, HandOver, OfferEnded,
       OfferFails, Store, CancelAsk, EditAsk, Ask, StoreMiss, CancelCommit, CancelMirror, EditCommit,
       EditMirror, Drain, DrainLoop, DrainClaim, DrainMiss, DrainTake, DrainGone, Turn, TurnEnd, TurnHook,
       TurnExit, TurnRaises, TurnCompletes, Lifecycle, PauseBegin, PauseTeardown, PauseFinish, Resume,
       EndBegin, EndComplete, EndClear, EndMirror, Restart, life
  <2>2. \A p \in Procs : pc[p] = "idle"
    BY <2>1 DEF DownIdle
  <2>3. UNCHANGED pc \/ DrainGone
    BY <1>2, <2>1, <2>2 DEF Next, Send, Wake, Submit, Enqueue, EnqueuePrepare, EnqueueCommit, EnqueueMirror,
       ResumeAfterEnqueue, Offer, OfferPaused, OfferBusy, OfferRun, OfferEnded, OfferFails,
       Store, CancelAsk, EditAsk, Ask, StoreMiss, CancelCommit, CancelMirror, EditCommit, EditMirror,
       Drain, DrainLoop, DrainClaim, DrainMiss, DrainTake, Turn, TurnEnd, TurnHook, Scheduled,
       TurnExit, TurnRaises, TurnCompletes, Lifecycle, PauseBegin, PauseTeardown, PauseFinish, Resume,
       EndBegin, EndComplete, EndClear, EndMirror, Restart
  <2> QED
    BY <2>2, <2>3 DEF DrainGone, Goto, TypeOK
<1> QED
  BY <1>1, <1>2

LEMMA InitIInv == Init => IInv
<1> SUFFICES ASSUME Init PROVE IInv
  OBVIOUS
<1>1. /\ db = {} /\ files = {} /\ mirror = << >> /\ soon = << >> /\ ender = "no"
      /\ status = "active" /\ pc = [p \in Procs |-> "idle"] /\ job = [p \in Procs |-> NoJob]
      /\ fate = [x \in Prompts |-> "unsent"] /\ runs = [x \in Prompts |-> 0] /\ replies = {}
  BY DEF Init
<1>2. TypeOK
  BY <1>1, EmptySeq DEF Init, TypeOK, PCs, Fates
<1>3. IsFiniteSet(db) /\ DownIdle
  BY <1>1, FS_EmptySet DEF DownIdle
<1>4. SlotOnce
  BY <1>1, EmptySeq DEF SlotOnce
<1>5. Owner
  BY <1>1, <1>4 DEF Owner, JobsSet, RowsQueued, QueuedHasRow, OneRow, SendersOffer, DrainerClaims,
     ClaimedHeld, Apart, RunsCounted, CancelSettled, EndedFirst, Spilled, Holding, Procs
<1> QED
  BY <1>2, <1>3, <1>5 DEF IInv

LEMMA NextIInv == IInv /\ [Next]_vars => IInv'
<1> SUFFICES ASSUME IInv, [Next]_vars PROVE IInv'
  OBVIOUS
<1>1. CASE UNCHANGED vars
  BY <1>1 DEF vars, IInv, TypeOK, DownIdle, Owner, JobsSet, RowsQueued, QueuedHasRow, OneRow, SendersOffer,
     DrainerClaims, ClaimedHeld, Apart, RunsCounted, CancelSettled, EndedFirst, Spilled, SlotOnce, Prompt
<1>2. CASE Next
  <2> USE DEF IInv
  <2>1. DownIdle' /\ SlotOnce'
    BY <1>2, DownIdleStep, SlotStep DEF Owner
  <2>2. TypeOK' /\ IsFiniteSet(db')
    <3>1. ASSUME NEW s \in Senders, NEW x \in Prompts, NEW next \in {"prepare", "offer"}, Submit(s, x, next)
          PROVE  TypeOK' /\ IsFiniteSet(db')
      <4>1. [msg |-> <<x, 1>>, pos |-> 0, edited |-> FALSE] \in Rows
        BY MaxGenAssumption DEF Rows, Msgs
      <4> QED
        BY <3>1, <4>1 DEF Submit, Settle, Work, Goto, life, TypeOK, PCs, Fates, Procs
    <3>2. CASE \E s \in Senders, x \in Prompts : Send(s, x) \/ Wake(s, x)
      BY <3>1, <3>2 DEF Send, Wake
    <3>3. CASE Turn
      BY <3>3, TurnType DEF Turn, TurnEnd, TurnHook, TurnExit, TurnRaises, TurnCompletes
    <3> QED
      BY <1>2, <3>2, <3>3, EnqueueType, OfferType, DrainType, StoreType, LifecycleType, CrashType
         DEF Next, Owner
  <2>3. Owner'
    <3>1. CASE \E s \in Senders, x \in Prompts : Send(s, x) \/ Wake(s, x)
      BY <2>1, <2>2, <3>1, SubmitOwner DEF Send, Wake
    <3>2. ASSUME NEW p \in Procs, Enqueue(p) PROVE Owner'
      BY <2>1, <2>2, <3>2, EnqueueOwner, EnqueueCommitOwner DEF Enqueue
    <3>3. ASSUME NEW p \in Procs, Offer(p) PROVE Owner'
      BY <2>1, <2>2, <3>3, RequeueOwner, DeliveryOwner DEF Offer
    <3>4. ASSUME NEW s \in Senders, Store(s) PROVE Owner'
      <4>1. CASE CancelCommit(s)
        BY <2>1, <2>2, <4>1, DeleteOwner DEF CancelCommit, life, Procs
      <4> QED
        BY <2>1, <2>2, <3>4, <4>1, IdleStoreOwner, CancelMirrorOwner, EditCommitOwner DEF Store
    <3>5. CASE Drain
      <4>1. CASE DrainClaim
        BY <2>1, <2>2, <4>1, DeleteOwner DEF DrainClaim, life, Procs
      <4> QED
        BY <2>1, <2>2, <3>5, <4>1, IdleStoreOwner, DrainTakeOwner, QuietStepOwner DEF Drain
    <3>6. CASE Turn \/ Lifecycle
      BY <2>1, <2>2, <3>6, QuietStepOwner, EndOwner DEF Lifecycle
    <3>7. CASE Crash \/ Restart
      BY <2>1, <2>2, <3>7, CrashOwner, RestartOwner
    <3> QED
      BY <1>2, <3>1, <3>2, <3>3, <3>4, <3>5, <3>6, <3>7 DEF Next
  <2> QED
    BY <2>1, <2>2, <2>3
<1> QED
  BY <1>1, <1>2

(* The strengthened invariant holds in every reachable state of the queue.   *)
THEOREM Invariance == Spec => []IInv
<1> QED
  BY InitIInv, NextIInv, PTL DEF Spec

(* Every variable keeps its type.                                            *)
THEOREM TypeCorrect == Spec => []TypeOK
<1>1. IInv => TypeOK
  BY DEF IInv
<1> QED
  BY <1>1, Invariance, PTL

(* _drain_one, handle_prompt, cancels, pauses, ends and crashes together     *)
(* never run a prompt twice.                                                 *)
THEOREM RunsAtMostOnce == Spec => []AtMostOnce
<1>1. IInv => AtMostOnce
  BY DEF IInv, Owner, RunsCounted, AtMostOnce
<1> QED
  BY <1>1, Invariance, PTL

(* A queued prompt has its row and a row belongs to a queued prompt, a       *)
(* claimed one is in the hands of the drain.                                 *)
THEOREM NothingLost == Spec => []NoSilentLoss
<1>1. IInv => NoSilentLoss
  BY NoJobAssumption DEF IInv, Owner, QueuedHasRow, RowsQueued, ClaimedHeld, NoSilentLoss
<1> QED
  BY <1>1, Invariance, PTL

(* An acknowledged cancel is final.                                          *)
THEOREM CancelIsFinal == Spec => []CancelHonoured
<1>1. IInv => CancelHonoured
  <2> SUFFICES ASSUME IInv, NEW x \in Prompts, <<x, "cancelled">> \in replies
               PROVE  /\ runs[x] = 0
                      /\ \A r \in db : r.msg[1] # x
                      /\ \A p \in Procs : pc[p] \in {"offer", "prepare", "insert"} => Prompt(p) # x
    BY DEF CancelHonoured
  <2>1. fate[x] = "cancelled"
    BY DEF IInv, Owner, CancelSettled
  <2> QED
    BY <2>1 DEF IInv, Owner, RunsCounted, RowsQueued, SendersOffer, DrainerClaims, Holding, Procs
<1> QED
  BY <1>1, Invariance, PTL

(* The attachments of a row are there as long as the row of a live session.  *)
THEOREM RowsKeepFiles == Spec => []RowHasFiles
<1>1. IInv => RowHasFiles
  BY DEF IInv, Owner, Spilled, RowHasFiles
<1> QED
  BY <1>1, Invariance, PTL

-----------------------------------------------------------------------------
(* The queue implements QueueContract *)

(* Under IInv the place of a prompt in the contract is decided by its fate.  *)
PlaceOf(f) ==
    CASE f \in {"unsent", "offered"} -> "out"
      [] f \in {"queued", "claimed"} -> "waiting"
      [] f \in {"delivered", "misrouted"} -> "given"
      [] f = "cancelled" -> "withdrawn"
      [] OTHER -> "gone"

Places == [x \in Prompts |-> Place(x)]
PlacesByFate == [x \in Prompts |-> PlaceOf(fate[x])]

LEMMA PlaceByFate == IInv => Places = PlacesByFate
<1> SUFFICES ASSUME IInv, NEW x \in Prompts PROVE Place(x) = PlaceOf(fate[x])
  BY DEF Places, PlacesByFate
<1>1. fate[x] \in Fates
  BY DEF IInv, TypeOK
<1>2. runs[x] = IF fate[x] \in {"delivered", "misrouted"} THEN 1 ELSE 0
  BY DEF IInv, Owner, RunsCounted
<1>3. Held(x) => fate[x] = "claimed"
  BY DEF Held, IInv, Owner, DrainerClaims, Holding
<1>4. fate[x] = "claimed" => Held(x)
  BY NoJobAssumption DEF Held, IInv, Owner, ClaimedHeld, Holding
<1>5. (\E r \in db : r.msg[1] = x) <=> fate[x] = "queued"
  BY DEF IInv, Owner, RowsQueued, QueuedHasRow
<1> QED
  BY <1>1, <1>2, <1>3, <1>4, <1>5 DEF Place, PlaceOf, Fates

(* What one step of the queue does to the fates and to the runs.             *)
Settles(x, f) == x \in Prompts /\ fate' = [fate EXCEPT ![x] = f] /\ runs' = runs
Runs(x) ==
    /\ x \in Prompts /\ fate[x] \in {"offered", "claimed"}
    /\ runs' = [runs EXCEPT ![x] = @ + 1]
    /\ \E f \in {"delivered", "misrouted"} : fate' = [fate EXCEPT ![x] = f]
Transitions ==
    ({"unsent"} \X {"offered"}) \cup ({"offered"} \X {"queued", "failed"})
      \cup ({"queued"} \X {"claimed", "cancelled"}) \cup ({"claimed"} \X {"queued", "failed", "dropped"})

FateStep ==
    \/ UNCHANGED <<fate, runs>>
    \/ \E x \in Prompts, f \in Fates : Settles(x, f) /\ <<fate[x], f>> \in Transitions
    \/ \E x \in Prompts : Runs(x)
    \/ /\ runs' = runs
       /\ fate' = [x \in Prompts |-> IF fate[x] = "queued" THEN "dropped" ELSE fate[x]]
    \/ /\ runs' = runs
       /\ fate' = [x \in Prompts |-> AfterCrash(fate[x])]

LEMMA StepFates ==
    ASSUME IInv, Next
    PROVE  FateStep
<1> USE DEF IInv
<1>0. \A p \in Procs : pc[p] \notin Parked => Prompt(p) \in Prompts /\ Prompt(p) = job[p].msg[1]
  BY JobType DEF Owner, JobsSet, Parked, Prompt
<1>1. CASE \E s \in Senders, x \in Prompts : Send(s, x) \/ Wake(s, x)
  BY <1>1 DEF Send, Wake, Submit, Settle, FateStep, Settles, Transitions, Fates
<1>2. ASSUME NEW p \in Procs, Enqueue(p) PROVE FateStep
  <2>1. CASE EnqueueCommit(p)
    <3>1. Prompt(p) \in Prompts /\ fate[Prompt(p)] \in {"offered", "claimed"}
      BY <1>0, <2>1 DEF EnqueueCommit, Parked, Owner, SendersOffer, DrainerClaims, Holding, Procs
    <3> QED
      BY <2>1, <3>1 DEF EnqueueCommit, Settle, FateStep, Settles, Transitions, Fates
  <2> QED
    BY <1>2, <2>1 DEF Enqueue, EnqueuePrepare, EnqueueMirror, ResumeAfterEnqueue, FateStep
<1>3. ASSUME NEW p \in Procs, Offer(p) PROVE FateStep
  <2>1. Prompt(p) \in Prompts /\ fate[Prompt(p)] \in {"offered", "claimed"}
    BY <1>0, <1>3 DEF Offer, OfferPaused, OfferBusy, OfferRun, OfferEnded, OfferFails, Parked,
                      Owner, SendersOffer, DrainerClaims, Holding, Procs
  <2>2. CASE OfferPaused(p) \/ OfferBusy(p)
    BY <2>2 DEF OfferPaused, OfferBusy, FateStep
  <2>3. CASE OfferRun(p) \/ OfferEnded(p)
    BY <2>1, <2>3 DEF OfferRun, HandOver, OfferEnded, Settle, FateStep, Runs
  <2>4. CASE OfferFails(p)
    BY <2>1, <2>4 DEF OfferFails, Settle, FateStep, Settles, Transitions, Fates
  <2> QED
    BY <1>3, <2>2, <2>3, <2>4 DEF Offer
<1>4. ASSUME NEW p \in Procs, HasRow(job[p].msg), pc[p] \notin Parked
      PROVE  Prompt(p) \in Prompts /\ fate[Prompt(p)] = "queued"
  BY <1>0, <1>4 DEF HasRow, Owner, RowsQueued
<1>5. ASSUME NEW s \in Senders, Store(s) PROVE FateStep
  <2>1. CASE CancelCommit(s)
    BY <1>4, <2>1 DEF CancelCommit, Settle, FateStep, Settles, Transitions, Fates, Procs, Parked
  <2> QED
    BY <1>5, <2>1 DEF Store, CancelAsk, EditAsk, Ask, StoreMiss, CancelMirror, EditCommit, EditMirror, FateStep
<1>6. CASE Drain
  <2>1. CASE DrainClaim
    BY <1>4, <2>1 DEF DrainClaim, Settle, FateStep, Settles, Transitions, Fates, Procs, Parked
  <2>2. CASE DrainTake
    <3>1. Prompt(Drainer) \in Prompts /\ fate[Prompt(Drainer)] = "claimed"
      BY <1>0, <2>2 DEF DrainTake, Parked, Owner, DrainerClaims, Procs
    <3> QED
      BY <2>2, <3>1 DEF DrainTake, Settle, FateStep, Settles, Transitions, Fates
  <2> QED
    BY <1>6, <2>1, <2>2 DEF Drain, DrainLoop, DrainMiss, DrainGone, FateStep
<1>7. CASE EndClear
  <2>1. \A x \in Prompts : (\E r \in db : r.msg[1] = x) <=> fate[x] = "queued"
    BY DEF Owner, RowsQueued, QueuedHasRow
  <2>2. fate' = [x \in Prompts |-> IF fate[x] = "queued" THEN "dropped" ELSE fate[x]]
    BY <1>7, <2>1 DEF EndClear
  <2> QED
    BY <1>7, <2>2 DEF EndClear, FateStep
<1>8. CASE Crash
  BY <1>8 DEF Crash, FateStep
<1> QED
  BY <1>1, <1>2, <1>3, <1>5, <1>6, <1>7, <1>8 DEF Next, Turn, TurnEnd, TurnHook, TurnExit, TurnRaises,
     TurnCompletes, Lifecycle, PauseBegin, PauseTeardown, PauseFinish, Resume, EndBegin, EndComplete,
     EndMirror, Restart, FateStep

LEMMA PlaceByFateNext == (IInv => Places = PlacesByFate)'
  BY PlaceByFate, PTL

(* Each of them is a step of the contract or leaves it alone.                *)
LEMMA FateStepRefines ==
    ASSUME IInv, IInv', FateStep
    PROVE  [Contract!Next]_<<Places, runs>>
<1> DEFINE P == [x \in Prompts |-> PlaceOf(fate[x])]
           Q == [x \in Prompts |-> PlaceOf(fate'[x])]
<1>1. Places = P /\ Places' = Q
  BY PlaceByFate, PlaceByFateNext DEF PlacesByFate
<1>2. fate \in [Prompts -> Fates]
  BY DEF IInv, TypeOK
<1>3. runs \in [Prompts -> Nat]
  BY DEF IInv, TypeOK
<1>4. CASE UNCHANGED <<fate, runs>>
  <2>1. Q = P
    BY <1>4
  <2> QED
    BY <1>1, <1>4, <2>1
<1>5. ASSUME NEW x \in Prompts, NEW f \in Fates, Settles(x, f), <<fate[x], f>> \in Transitions
      PROVE  [Contract!Next]_<<Places, runs>>
  <2>1. Q = [P EXCEPT ![x] = PlaceOf(f)]
    BY <1>2, <1>5 DEF Settles
  <2>2. P[x] = PlaceOf(fate[x])
    OBVIOUS
  <2>3. CASE PlaceOf(f) = PlaceOf(fate[x])
    <3>1. Q = P
      BY <2>1, <2>3
    <3> QED
      BY <1>1, <1>5, <3>1 DEF Settles
  <2>4. CASE fate[x] = "offered" /\ f = "queued"
    <3>1. P[x] = "out" /\ Q = [P EXCEPT ![x] = "waiting"]
      BY <2>1, <2>2, <2>4 DEF PlaceOf
    <3> QED
      BY <1>1, <1>5, <3>1 DEF Settles, Contract!Next, Contract!Accept, Contract!Move, Places
  <2>5. CASE fate[x] = "queued" /\ f = "cancelled"
    <3>1. P[x] = "waiting" /\ Q = [P EXCEPT ![x] = "withdrawn"]
      BY <2>1, <2>2, <2>5 DEF PlaceOf
    <3> QED
      BY <1>1, <1>5, <3>1 DEF Settles, Contract!Next, Contract!Withdraw, Contract!Move, Places
  <2>6. CASE fate[x] \in {"offered", "claimed"} /\ f \in {"failed", "dropped"}
    <3>1. P[x] \in {"out", "waiting"}
      BY <2>2, <2>6 DEF PlaceOf
    <3>2. Q = [y \in Prompts |-> IF y \in {x} THEN "gone" ELSE P[y]]
      BY <2>1, <2>6 DEF PlaceOf
    <3>3. Contract!GiveUp({x})
      BY <1>1, <1>5, <3>1, <3>2 DEF Settles, Contract!GiveUp, Places
    <3> QED
      BY <1>5, <3>3 DEF Contract!Next
  <2> QED
    BY <1>5, <2>3, <2>4, <2>5, <2>6 DEF Transitions, PlaceOf
<1>6. ASSUME NEW x \in Prompts, Runs(x)
      PROVE  [Contract!Next]_<<Places, runs>>
  <2>1. PICK f \in {"delivered", "misrouted"} : fate' = [fate EXCEPT ![x] = f]
    BY <1>6 DEF Runs
  <2>2. P[x] \in {"out", "waiting"}
    BY <1>6 DEF Runs, PlaceOf
  <2>3. Q = [P EXCEPT ![x] = "given"]
    BY <1>2, <2>1 DEF PlaceOf
  <2>4. Contract!Give(x)
    BY <1>1, <1>6, <2>2, <2>3 DEF Runs, Contract!Give, Contract!Move, Places
  <2> QED
    BY <1>6, <2>4 DEF Contract!Next
<1>7. CASE /\ runs' = runs
           /\ fate' = [x \in Prompts |-> IF fate[x] = "queued" THEN "dropped" ELSE fate[x]]
  <2> DEFINE X == {x \in Prompts : fate[x] = "queued"}
  <2>1. \A x \in X : P[x] = "waiting"
    BY DEF PlaceOf
  <2>2. Q = [x \in Prompts |-> IF x \in X THEN "gone" ELSE P[x]]
    BY <1>7 DEF PlaceOf
  <2>3. Contract!GiveUp(X)
    BY <1>1, <1>7, <2>1, <2>2 DEF Contract!GiveUp, Places
  <2> QED
    BY <2>3 DEF Contract!Next
<1>8. CASE /\ runs' = runs
           /\ fate' = [x \in Prompts |-> AfterCrash(fate[x])]
  <2> DEFINE X == {x \in Prompts : fate[x] \in {"offered", "claimed"}}
  <2>1. \A x \in X : P[x] \in {"out", "waiting"}
    BY DEF PlaceOf
  <2>2. Q = [x \in Prompts |-> IF x \in X THEN "gone" ELSE P[x]]
    BY <1>8 DEF PlaceOf, AfterCrash
  <2>3. Contract!GiveUp(X)
    BY <1>1, <1>8, <2>1, <2>2 DEF Contract!GiveUp, Places
  <2> QED
    BY <2>3 DEF Contract!Next
<1> QED
  BY <1>4, <1>5, <1>6, <1>7, <1>8 DEF FateStep

(* The queue implements its contract: whatever the tasks of the worker do,   *)
(* a prompt enters the queue once and leaves it once.                        *)
THEOREM Implements == Spec => ImplementsContract
<1>1. Init => Contract!Init
  <2> SUFFICES ASSUME Init PROVE Contract!Init
    OBVIOUS
  <2>1. ASSUME NEW x \in Prompts PROVE Place(x) = "out"
    <3>1. ~ (runs[x] > 0) /\ fate[x] = "unsent"
      BY DEF Init
    <3>2. ~ Held(x) /\ ~ \E r \in db : r.msg[1] = x
      BY DEF Init, Held, Procs
    <3> QED
      BY <3>1, <3>2 DEF Place
  <2> QED
    BY <2>1 DEF Init, Contract!Init, Places
<1>2. IInv /\ IInv' /\ [Next]_vars => [Contract!Next]_<<Places, runs>>
  <2>1. ASSUME IInv, IInv', Next PROVE [Contract!Next]_<<Places, runs>>
    BY <2>1, StepFates, FateStepRefines
  <2>2. ASSUME IInv, IInv', UNCHANGED vars PROVE [Contract!Next]_<<Places, runs>>
    BY <2>2, FateStepRefines DEF vars, FateStep
  <2> QED
    BY <2>1, <2>2
<1> QED
  BY <1>1, <1>2, Invariance, PTL DEF Spec, ImplementsContract, Contract!Spec, Places

-----------------------------------------------------------------------------
(* The mirror                                                                *)

(* What is compared of an entry and of a row: its queued_id and its text.    *)
Mirrored == {<<mirror[i].msg, mirror[i].edited>> : i \in 1 .. Len(mirror)}
Stored == {<<r.msg, r.edited>> : r \in db}
Text(p) == <<job[p].msg, job[p].edited>>

RowsOnce == \A r1, r2 \in db : r1.msg[1] = r2.msg[1] => r1 = r2
EntriesOnce == \A i, j \in 1 .. Len(mirror) : mirror[i].msg[1] = mirror[j].msg[1] => i = j

(* The counters at which a task brings an id into the queue, and those at    *)
(* which it works on one that it found in the mirror.                        *)
Entering == {"prepare", "insert", "mirror"}
Late == {"cancelDelete", "cancelMirror", "editUpdate", "editMirror", "delete", "take"}

(* An id that enters the queue is new to the mirror and to everybody who     *)
(* works on an earlier id of the prompt.                                     *)
NotShown == \A p \in Procs : pc[p] \in Holding \cup {"mirror"} => \A t \in Mirrored : t[1][1] # Prompt(p)
NewId == \A p, q \in Procs : pc[p] \in Entering /\ pc[q] \in Late /\ Prompt(q) = Prompt(p)
                                => job[q].msg[2] < job[p].msg[2]
OwnId == \A q \in Procs : pc[Drainer] = "offer" /\ pc[q] \in Late /\ Prompt(q) = Prompt(Drainer)
                                => job[q].msg[2] <= job[Drainer].msg[2]
OldIds == \A q \in Procs, t \in Mirrored \cup Stored :
             pc[q] \in Late /\ Prompt(q) = t[1][1] => job[q].msg[2] <= t[1][2]
LateSeen == \A q \in Procs : pc[q] \in Late => fate[Prompt(q)] \notin {"unsent", "offered"}
ShownFate == \A t \in Mirrored : fate[t[1][1]] \in {"queued", "cancelled", "dropped", "claimed"}

(* The mirror and the table never hold two ids of a prompt.                  *)
SameId == \A t \in Mirrored, u \in Stored : t[1][1] = u[1][1] => t[1] = u[1]
TakenId == pc[Drainer] = "take" => \A t \in Mirrored : t[1][1] = Prompt(Drainer) => t[1] = job[Drainer].msg

(* What a task has committed and not mirrored yet stands.                    *)
Committed ==
    /\ \A p \in Procs : pc[p] = "mirror" => fate[Prompt(p)] \in {"queued", "dropped"}
    /\ \A p, q \in Procs : pc[p] = "mirror" /\ pc[q] = "mirror" /\ Prompt(p) = Prompt(q) => p = q
    /\ \A p \in Procs, u \in Stored : pc[p] = "mirror" /\ u[1][1] = Prompt(p) => u = Text(p)
Deleted == \A q \in Procs, u \in Stored : pc[q] \in {"cancelMirror", "take"} => u[1] # job[q].msg
EditedRow == \A q \in Procs, u \in Stored : pc[q] = "editMirror" /\ u[1] = job[q].msg => u[2]

Ids == /\ NotShown /\ NewId /\ OwnId /\ OldIds /\ LateSeen /\ ShownFate
       /\ SameId /\ TakenId /\ Committed /\ Deleted /\ EditedRow

(* Where the mirror of a live session and the table differ, a task is        *)
(* between the two.                                                          *)
RowsExplained == \A u \in Stored : \/ \E t \in Mirrored : t[1] = u[1]
                                   \/ \E p \in Procs : pc[p] = "mirror" /\ job[p].msg = u[1]
EntriesExplained ==
    \A t \in Mirrored : \/ \E u \in Stored : u[1] = t[1]
                        \/ \E q \in Procs : pc[q] \in {"cancelMirror", "take"} /\ job[q].msg = t[1]
TextsExplained ==
    \A t \in Mirrored, u \in Stored :
        t[1] = u[1] => t = u \/ \E q \in Procs : pc[q] = "editMirror" /\ job[q].msg = t[1]
CommitStands == \A p \in Procs : pc[p] = "mirror" => Text(p) \in Stored
Explained == Up => RowsExplained /\ EntriesExplained /\ TextsExplained /\ CommitStands

(* An acknowledged edit is wherever the prompt is.                           *)
EditsKept ==
    \A x \in Prompts : <<x, "edited">> \in replies =>
        /\ fate[x] # "unsent"
        /\ \A t \in Mirrored \cup Stored : t[1][1] = x => t[2]
        /\ \A p \in Procs : pc[p] \in Holding \cup {"mirror"} /\ Prompt(p) = x => job[p].edited

MirrorInv == RowsOnce /\ EntriesOnce /\ Ids /\ Explained /\ EditsKept
-----------------------------------------------------------------------------
(* What the store operations do to the two sets of texts.                    *)
LEMMA TextTypes ==
    ASSUME mirror \in Seq(Rows), db \subseteq Rows
    PROVE  /\ Mirrored \subseteq Msgs \X BOOLEAN /\ Stored \subseteq Msgs \X BOOLEAN
           /\ \A t \in Msgs \X BOOLEAN : t = <<t[1], t[2]>> /\ t[1] = <<t[1][1], t[1][2]>>
                                         /\ t[1][1] \in Prompts /\ t[1][2] \in Nat /\ t[2] \in BOOLEAN
<1>1. \A i \in 1 .. Len(mirror) : mirror[i] \in Rows
  BY ElementOfSeq
<1>2. Mirrored \subseteq Msgs \X BOOLEAN
  BY <1>1, RowsType DEF Mirrored
<1>3. Stored \subseteq Msgs \X BOOLEAN
  BY RowsType DEF Stored
<1>4. \A m \in Msgs : m = <<m[1], m[2]>> /\ m[1] \in Prompts /\ m[2] \in Nat
  BY MaxGenAssumption DEF Msgs
<1> QED
  BY <1>2, <1>3, <1>4

LEMMA MirrorAddEffect ==
    ASSUME mirror \in Seq(Rows), EntriesOnce, NEW r \in Rows,
           \A t \in Mirrored : t[1][1] # r.msg[1],
           mirror' = MirrorAdd(mirror, r)
    PROVE  EntriesOnce' /\ Mirrored' = Mirrored \cup {<<r.msg, r.edited>>}
<1> DEFINE n == Len(mirror)
           later == {i \in 1 .. n : mirror[i].pos > r.pos}
<1>1. n \in Nat /\ \A i \in 1 .. n : mirror[i] \in Rows /\ mirror[i].msg[1] # r.msg[1]
  <2>1. n \in Nat /\ \A i \in 1 .. n : mirror[i] \in Rows
    BY LenProperties, ElementOfSeq
  <2>2. ASSUME NEW i \in 1 .. n PROVE mirror[i].msg[1] # r.msg[1]
    <3>1. <<mirror[i].msg, mirror[i].edited>> \in Mirrored
      BY DEF Mirrored
    <3> QED
      BY <3>1
  <2> QED
    BY <2>1, <2>2
<1>2. \E k \in 1 .. n + 1 :
         /\ Len(mirror') = n + 1
         /\ \A j \in 1 .. n + 1 : mirror'[j] = IF j < k THEN mirror[j] ELSE IF j = k THEN r ELSE mirror[j - 1]
  <2>1. CASE later = {}
    <3>1. mirror' = Append(mirror, r)
      BY <2>1 DEF MirrorAdd
    <3>2. Len(mirror') = n + 1 /\ \A j \in 1 .. n + 1 : mirror'[j] = IF j <= n THEN mirror[j] ELSE r
      BY <3>1, <1>1, AppendProperties
    <3>3. \A j \in 1 .. n + 1 : mirror'[j] = IF j < n + 1 THEN mirror[j] ELSE IF j = n + 1 THEN r ELSE mirror[j - 1]
      BY <3>2, <1>1
    <3>4. n + 1 \in 1 .. n + 1
      BY <1>1
    <3> HIDE DEF n
    <3> QED
      BY <3>2, <3>3, <3>4
  <2>2. CASE later # {}
    <3>1. Min(later) \in 1 .. n
      BY <2>2, MinProperties, <1>1
    <3>2. mirror' = InsertAt(mirror, Min(later), r)
      BY <2>2 DEF MirrorAdd
    <3> DEFINE k == Min(later)
    <3> HIDE DEF k
    <3>3. k \in 1 .. n /\ mirror' = InsertAt(mirror, k, r)
      BY <3>1, <3>2 DEF k
    <3>4. /\ Len(mirror') = n + 1
          /\ \A j \in 1 .. n + 1 : mirror'[j] = CASE j < k -> mirror[j] [] j = k -> r [] OTHER -> mirror[j - 1]
      BY <3>3, InsertAtType
    <3>5. k \in 1 .. n + 1
      BY <3>3, <1>1
    <3> QED
      BY <3>4, <3>5
  <2> QED
    BY <2>1, <2>2
<1>3. PICK k \in 1 .. n + 1 :
         /\ Len(mirror') = n + 1
         /\ \A j \in 1 .. n + 1 : mirror'[j] = IF j < k THEN mirror[j] ELSE IF j = k THEN r ELSE mirror[j - 1]
  BY <1>2
<1> HIDE DEF n, later
<1>4. EntriesOnce'
  <2> SUFFICES ASSUME NEW i \in 1 .. n + 1, NEW j \in 1 .. n + 1, mirror'[i].msg[1] = mirror'[j].msg[1]
               PROVE  i = j
    BY <1>3 DEF EntriesOnce
  <2> DEFINE from(a) == IF a < k THEN a ELSE a - 1
  <2>1. \A a \in 1 .. n + 1 : a # k => from(a) \in 1 .. n /\ mirror'[a] = mirror[from(a)]
    BY <1>1, <1>3
  <2>2. mirror'[k] = r
    BY <1>3, <1>1
  <2>3. (i = k) = (j = k)
    BY <2>1, <2>2, <1>1
  <2>4. CASE i # k
    <3>1. from(i) = from(j)
      <4>1. /\ from(i) \in 1 .. n /\ mirror'[i] = mirror[from(i)]
            /\ from(j) \in 1 .. n /\ mirror'[j] = mirror[from(j)]
        BY <2>1, <2>3, <2>4
      <4> HIDE DEF from
      <4>2. mirror[from(i)].msg[1] = mirror[from(j)].msg[1]
        BY <4>1
      <4> QED
        BY <4>1, <4>2 DEF EntriesOnce, n
    <3> QED
      BY <3>1, <2>3, <2>4, <1>1, <1>3
  <2> QED
    BY <2>3, <2>4
<1>5. ASSUME NEW i \in 1 .. n PROVE \E j \in 1 .. n + 1 : mirror'[j] = mirror[i]
  <2>1. CASE i < k
    BY <2>1, <1>1, <1>3
  <2>2. CASE ~ (i < k)
    <3>1. i + 1 \in 1 .. n + 1 /\ ~ (i + 1 < k) /\ i + 1 # k /\ (i + 1) - 1 = i
      BY <2>2, <1>1, <1>3
    <3> QED
      BY <3>1, <1>3
  <2> QED
    BY <2>1, <2>2
<1>6. ASSUME NEW j \in 1 .. n + 1 PROVE mirror'[j] = r \/ \E i \in 1 .. n : mirror'[j] = mirror[i]
  <2>1. CASE j < k
    BY <2>1, <1>1, <1>3
  <2>2. CASE j = k
    BY <2>2, <1>3
  <2>3. CASE j > k
    <3>1. j - 1 \in 1 .. n
      BY <2>3, <1>1, <1>3
    <3> QED
      BY <3>1, <2>3, <1>1, <1>3
  <2> QED
    BY <2>1, <2>2, <2>3, <1>1, <1>3
<1>7. mirror'[k] = r /\ k \in 1 .. n + 1
  BY <1>1, <1>3
<1>8. Mirrored' = Mirrored \cup {<<r.msg, r.edited>>}
  <2>1. Mirrored' \subseteq Mirrored \cup {<<r.msg, r.edited>>}
    BY <1>3, <1>6 DEF Mirrored, n
  <2>2. <<r.msg, r.edited>> \in Mirrored'
    BY <1>3, <1>7 DEF Mirrored
  <2>3. Mirrored \subseteq Mirrored'
    <3> SUFFICES ASSUME NEW i \in 1 .. n PROVE <<mirror[i].msg, mirror[i].edited>> \in Mirrored'
      BY DEF Mirrored, n
    <3>1. PICK j \in 1 .. n + 1 : mirror'[j] = mirror[i]
      BY <1>5
    <3> QED
      BY <3>1, <1>3 DEF Mirrored
  <2> QED
    BY <2>1, <2>2, <2>3
<1> QED
  BY <1>4, <1>8

LEMMA MirrorRemoveEffect ==
    ASSUME mirror \in Seq(Rows), EntriesOnce, NEW m, MirrorRemove(m)
    PROVE  EntriesOnce' /\ Mirrored' = {t \in Mirrored : t[1] # m}
<1>1. CASE ~ MirrorHas(m)
  BY <1>1 DEF MirrorRemove, MirrorHas, Mirrored, EntriesOnce
<1>2. CASE MirrorHas(m)
  <2> DEFINE n == Len(mirror)
             k == MirrorAt(m)
             s == RemoveAt(mirror, k)
  <2>1. k \in 1 .. n /\ mirror[k].msg = m
    BY <1>2, MirrorAtType
  <2>2. n \in Nat /\ \A i \in 1 .. n : mirror[i] \in Rows
    BY LenProperties, ElementOfSeq
  <2> HIDE DEF k
  <2>3. /\ s \in Seq(Rows) /\ Len(s) = n - 1
        /\ \A j \in 1 .. n - 1 : s[j] = IF j < k THEN mirror[j] ELSE mirror[j + 1]
    BY <2>1, RemoveAtType
  <2>4. mirror' = Renumbered(s)
    BY <1>2 DEF MirrorRemove, k
  <2> HIDE DEF s
  <2>5. n - 1 \in Nat
    BY <2>1, <2>2
  <2>6. /\ Len(mirror') = n - 1
        /\ \A i \in 1 .. n - 1 : mirror'[i].msg = s[i].msg
    BY <2>3, <2>4, RenumberedType
  <2>7. \A i \in 1 .. n - 1 : mirror'[i].edited = s[i].edited
    <3> DEFINE t == [i \in 1 .. Len(s) |-> [s[i] EXCEPT !.pos = i - 1]]
    <3>1. mirror' = t
      BY <2>4 DEF Renumbered
    <3>2. \A i \in 1 .. n - 1 : s[i] \in Rows
      BY <2>3, <2>5, ElementOfSeq
    <3>3. \A i \in 1 .. n - 1 : t[i] = [s[i] EXCEPT !.pos = i - 1]
      BY <2>3
    <3>4. \A r \in Rows, p \in Nat : [r EXCEPT !.pos = p].edited = r.edited
      BY DEF Rows
    <3>5. \A i \in 1 .. n - 1 : i - 1 \in Nat
      BY <2>5
    <3>6. ASSUME NEW i \in 1 .. n - 1 PROVE t[i].edited = s[i].edited
      <4>1. t[i] = [s[i] EXCEPT !.pos = i - 1] /\ s[i] \in Rows /\ i - 1 \in Nat
        BY <3>2, <3>3, <3>5
      <4> HIDE DEF t
      <4>2. [s[i] EXCEPT !.pos = i - 1].edited = s[i].edited
        BY <4>1 DEF Rows
      <4> QED
        BY <4>1, <4>2
    <3> HIDE DEF t
    <3> QED
      BY <3>1, <3>6
  <2> DEFINE from(j) == IF j < k THEN j ELSE j + 1
  <2>8. \A j \in 1 .. n - 1 : /\ from(j) \in 1 .. n /\ from(j) # k
                              /\ mirror'[j].msg = mirror[from(j)].msg
                              /\ mirror'[j].edited = mirror[from(j)].edited
    <3> SUFFICES ASSUME NEW j \in 1 .. n - 1
                 PROVE  /\ from(j) \in 1 .. n /\ from(j) # k
                        /\ mirror'[j].msg = mirror[from(j)].msg
                        /\ mirror'[j].edited = mirror[from(j)].edited
      OBVIOUS
    <3>1. from(j) \in 1 .. n /\ from(j) # k
      BY <2>1, <2>2
    <3>2. s[j] = mirror[from(j)]
      BY <2>1, <2>2, <2>3
    <3> HIDE DEF from
    <3> QED
      BY <2>6, <2>7, <3>1, <3>2
  <2>9. \A i \in 1 .. n : i # k => \E j \in 1 .. n - 1 : from(j) = i
    <3> SUFFICES ASSUME NEW i \in 1 .. n, i # k PROVE \E j \in 1 .. n - 1 : from(j) = i
      OBVIOUS
    <3>1. CASE i < k
      BY <3>1, <2>1, <2>2
    <3>2. CASE i > k
      <4>1. i - 1 \in 1 .. n - 1 /\ ~ (i - 1 < k) /\ (i - 1) + 1 = i
        BY <3>2, <2>1, <2>2
      <4> QED
        BY <4>1
    <3> QED
      BY <3>1, <3>2, <2>1, <2>2
  <2>10. \A i \in 1 .. n : i # k => mirror[i].msg # m
    BY <2>1 DEF EntriesOnce
  <2>11. EntriesOnce'
    <3> SUFFICES ASSUME NEW i \in 1 .. n - 1, NEW j \in 1 .. n - 1, mirror'[i].msg[1] = mirror'[j].msg[1]
                 PROVE  i = j
      BY <2>6 DEF EntriesOnce
    <3>1. /\ from(i) \in 1 .. n /\ from(j) \in 1 .. n
          /\ mirror[from(i)].msg[1] = mirror[from(j)].msg[1]
      BY <2>8
    <3> HIDE DEF from
    <3>2. from(i) = from(j)
      BY <3>1 DEF EntriesOnce
    <3> USE DEF from
    <3> QED
      BY <3>2, <2>1, <2>2
  <2> HIDE DEF from
  <2>12. Mirrored' = {<<mirror'[i].msg, mirror'[i].edited>> : i \in 1 .. n - 1}
    BY <2>6 DEF Mirrored
  <2>13. Mirrored' \subseteq {t \in Mirrored : t[1] # m}
    <3> SUFFICES ASSUME NEW i \in 1 .. n - 1
                 PROVE  <<mirror'[i].msg, mirror'[i].edited>> \in {t \in Mirrored : t[1] # m}
      BY <2>12
    <3>1. PICK j \in 1 .. n : j = from(i)
      BY <2>8
    <3>2. j # k /\ mirror'[i].msg = mirror[j].msg /\ mirror'[i].edited = mirror[j].edited
      BY <2>8, <3>1
    <3>3. <<mirror[j].msg, mirror[j].edited>> \in Mirrored
      BY DEF Mirrored
    <3> QED
      BY <3>2, <3>3, <2>10
  <2>14. {t \in Mirrored : t[1] # m} \subseteq Mirrored'
    <3> SUFFICES ASSUME NEW i \in 1 .. n, mirror[i].msg # m
                 PROVE  <<mirror[i].msg, mirror[i].edited>> \in Mirrored'
      BY DEF Mirrored
    <3>1. i # k
      BY <2>1
    <3>2. PICK j \in 1 .. n - 1 : from(j) = i
      BY <3>1, <2>9
    <3> QED
      BY <3>2, <2>8, <2>12
  <2> QED
    BY <2>11, <2>13, <2>14
<1> QED
  BY <1>1, <1>2

LEMMA MirrorUpdateEffect ==
    ASSUME mirror \in Seq(Rows), EntriesOnce, NEW m, MirrorUpdate(m)
    PROVE  /\ EntriesOnce'
           /\ \A t \in Mirrored' : (t \in Mirrored /\ t[1] # m) \/ (t = <<m, TRUE>> /\ \E v \in Mirrored : v[1] = m)
           /\ \A t \in Mirrored : (t[1] = m => <<m, TRUE>> \in Mirrored') /\ (t[1] # m => t \in Mirrored')
<1>1. CASE ~ MirrorHas(m)
  <2>1. mirror' = mirror
    BY <1>1 DEF MirrorUpdate
  <2>2. EntriesOnce' /\ Mirrored' = Mirrored
    BY <2>1 DEF Mirrored, EntriesOnce
  <2>3. \A t \in Mirrored : t[1] # m
    BY <1>1 DEF MirrorHas, Mirrored
  <2>4. \A t \in Mirrored' : t \in Mirrored /\ t[1] # m
    BY <2>2, <2>3
  <2>5. ASSUME NEW t \in Mirrored PROVE (t[1] = m => <<m, TRUE>> \in Mirrored') /\ (t[1] # m => t \in Mirrored')
    BY <2>2, <2>3
  <2> QED
    BY <2>2, <2>4, <2>5
<1>2. CASE MirrorHas(m)
  <2> DEFINE n == Len(mirror)
             k == MirrorAt(m)
             e == [mirror[k] EXCEPT !.edited = TRUE]
  <2>1. k \in 1 .. n /\ mirror[k].msg = m
    BY <1>2, MirrorAtType
  <2>2. n \in Nat /\ \A i \in 1 .. n : mirror[i] \in Rows
    BY LenProperties, ElementOfSeq
  <2>3. e \in Rows /\ e.msg = m /\ e.edited = TRUE
    BY <2>1, <2>2, RowsType DEF Rows
  <2>4. mirror' = [mirror EXCEPT ![k] = e]
    BY <1>2 DEF MirrorUpdate
  <2> HIDE DEF k, e
  <2>5. Len(mirror') = n /\ \A i \in 1 .. n : mirror'[i] = IF i = k THEN e ELSE mirror[i]
    BY <2>1, <2>3, <2>4, ExceptSeq
  <2>6. \A i \in 1 .. n : i # k => mirror[i].msg # m
    BY <2>1 DEF EntriesOnce
  <2>7. \A i \in 1 .. n : mirror'[i].msg = mirror[i].msg
    BY <2>1, <2>3, <2>5
  <2>8. EntriesOnce'
    BY <2>5, <2>7 DEF EntriesOnce
  <2>9. Mirrored' = {<<mirror'[i].msg, mirror'[i].edited>> : i \in 1 .. n}
    BY <2>5 DEF Mirrored
  <2>10. ASSUME NEW t \in Mirrored'
         PROVE  (t \in Mirrored /\ t[1] # m) \/ (t = <<m, TRUE>> /\ \E v \in Mirrored : v[1] = m)
    <3>1. PICK i \in 1 .. n : t = <<mirror'[i].msg, mirror'[i].edited>>
      BY <2>9, <2>10
    <3>2. <<mirror[i].msg, mirror[i].edited>> \in Mirrored
      BY DEF Mirrored
    <3>3. CASE i = k
      <4>1. t = <<m, TRUE>>
        BY <3>1, <3>3, <2>3, <2>5
      <4>2. <<mirror[i].msg, mirror[i].edited>>[1] = m
        BY <3>3, <2>1
      <4> QED
        BY <4>1, <4>2, <3>2
    <3>4. CASE i # k
      <4>1. mirror'[i] = mirror[i] /\ mirror[i].msg # m
        BY <3>4, <2>5, <2>6
      <4>2. t = <<mirror[i].msg, mirror[i].edited>>
        BY <4>1, <3>1
      <4>3. t[1] # m
        BY <4>1, <4>2
      <4> QED
        BY <4>2, <4>3, <3>2
    <3> QED
      BY <3>3, <3>4
  <2>11. ASSUME NEW t \in Mirrored
         PROVE  (t[1] = m => <<m, TRUE>> \in Mirrored') /\ (t[1] # m => t \in Mirrored')
    <3>1. PICK i \in 1 .. n : t = <<mirror[i].msg, mirror[i].edited>>
      BY <2>11 DEF Mirrored
    <3>2. <<mirror'[i].msg, mirror'[i].edited>> \in Mirrored'
      BY <2>9
    <3> QED
      BY <3>1, <3>2, <2>1, <2>3, <2>5, <2>6
  <2> QED
    BY <2>8, <2>10, <2>11
<1> QED
  BY <1>1, <1>2

(* A listing names each row once.                                            *)
LEMMA ListingOnce ==
    ASSUME NEW R \in SUBSET Rows, IsFiniteSet(R), NEW s \in ByPosition(R)
    PROVE  \A i, j \in 1 .. Len(s) : s[i] = s[j] => i = j
<1>1. Cardinality(R) \in Nat /\ Len(s) = Cardinality(R)
  BY FS_CardinalityType, ByPositionType
<1>2. IsFiniteSet(1 .. Len(s)) /\ Cardinality(1 .. Len(s)) = Cardinality(R)
  BY <1>1, FS_Interval
<1>3. s \in [1 .. Len(s) -> R] /\ \A r \in R : \E i \in 1 .. Len(s) : s[i] = r
  BY <1>1, ByPositionType DEF ByPosition
<1>4. s \in Surjection(1 .. Len(s), R)
  BY <1>3 DEF Surjection
<1>5. s \in Injection(1 .. Len(s), R)
  BY <1>2, <1>4, FS_SurjSameCardinalityImpliesInj
<1>6. \A i, j \in 1 .. Len(s) : s[i] = s[j] => i = j
  BY <1>5 DEF Injection, IsInjective
<1> QED
  BY <1>6

LEMMA DeleteRowTexts ==
    ASSUME NEW m, db \subseteq Rows, IsFiniteSet(db), RowsOnce, DeleteRow(m)
    PROVE  RowsOnce' /\ Stored' = {u \in Stored : u[1] # m}
<1> DEFINE R == {r \in db : r.msg # m}
<1>1. R \in SUBSET Rows /\ IsFiniteSet(R)
  BY FS_Subset
<1>2. PICK s \in ByPosition(R) : db' = Range(Renumbered(s))
  BY DEF DeleteRow
<1>3. /\ s \in Seq(Rows) /\ Len(s) \in Nat
      /\ \A i \in 1 .. Len(s) : s[i] \in R
      /\ \A r \in R : \E i \in 1 .. Len(s) : s[i] = r
      /\ \A i, j \in 1 .. Len(s) : s[i] = s[j] => i = j
  BY <1>1, <1>2, ByPositionType, ListingOnce, LenProperties
<1> DEFINE t == Renumbered(s)
<1>4. /\ t \in Seq(Rows) /\ Len(t) = Len(s)
      /\ \A i \in 1 .. Len(s) : t[i].msg = s[i].msg
  BY <1>3, RenumberedType
<1>5. \A i \in 1 .. Len(s) : t[i].edited = s[i].edited
  BY <1>3, RowsType DEF Renumbered, Rows
<1> HIDE DEF t
<1>6. db' = {t[i] : i \in 1 .. Len(s)}
  BY <1>2, <1>4, LenProperties DEF Range, t
<1>7. RowsOnce'
  BY <1>3, <1>4, <1>6 DEF RowsOnce
<1>8. Stored' \subseteq {u \in Stored : u[1] # m}
  BY <1>3, <1>4, <1>5, <1>6 DEF Stored
<1>9. {u \in Stored : u[1] # m} \subseteq Stored'
  <2> SUFFICES ASSUME NEW r \in db, r.msg # m PROVE <<r.msg, r.edited>> \in Stored'
    BY DEF Stored
  <2>1. PICK i \in 1 .. Len(s) : s[i] = r
    BY <1>3
  <2> QED
    BY <2>1, <1>4, <1>5, <1>6 DEF Stored
<1> QED
  BY <1>7, <1>8, <1>9

LEMMA ReloadTexts ==
    ASSUME db \subseteq Rows, IsFiniteSet(db), RowsOnce, mirror' \in ByPosition(db)
    PROVE  EntriesOnce' /\ Mirrored' = Stored
<1>1. /\ \A i \in 1 .. Len(mirror') : mirror'[i] \in db
      /\ \A r \in db : \E i \in 1 .. Len(mirror') : mirror'[i] = r
      /\ \A i, j \in 1 .. Len(mirror') : mirror'[i] = mirror'[j] => i = j
  BY ByPositionType, ListingOnce
<1>2. EntriesOnce'
  BY <1>1 DEF EntriesOnce, RowsOnce
<1>3. Mirrored' = Stored
  BY <1>1 DEF Mirrored, Stored
<1> QED
  BY <1>2, <1>3

-----------------------------------------------------------------------------
(* What the steps do to the mirror's invariant                               *)

LEMMA MirrorFacts ==
    ASSUME IInv
    PROVE  /\ \A t \in Mirrored \cup Stored : /\ t = <<t[1], t[2]>> /\ t[1] = <<t[1][1], t[1][2]>>
                                              /\ t[1][1] \in Prompts /\ t[1][2] \in Nat /\ t[2] \in BOOLEAN
           /\ \A u \in Stored : fate[u[1][1]] = "queued"
           /\ \A p \in Procs : pc[p] \notin Parked =>
                 /\ job[p] \in Rows /\ Prompt(p) \in Prompts /\ Prompt(p) = job[p].msg[1]
                 /\ job[p].msg = <<Prompt(p), job[p].msg[2]>> /\ job[p].msg[2] \in Nat
                 /\ job[p].edited \in BOOLEAN
           /\ \A p \in Procs : pc[p] \in Holding => fate[Prompt(p)] \in {"offered", "claimed"}
           /\ pc[Drainer] = "take" => fate[Prompt(Drainer)] = "claimed"
<1> USE DEF IInv
<1>1. \A t \in Mirrored \cup Stored : /\ t = <<t[1], t[2]>> /\ t[1] = <<t[1][1], t[1][2]>>
                                      /\ t[1][1] \in Prompts /\ t[1][2] \in Nat /\ t[2] \in BOOLEAN
  BY TextTypes DEF TypeOK
<1>2. \A u \in Stored : fate[u[1][1]] = "queued"
  BY DEF Stored, Owner, RowsQueued
<1>3. ASSUME NEW p \in Procs, pc[p] \notin Parked
      PROVE  /\ job[p] \in Rows /\ Prompt(p) \in Prompts /\ Prompt(p) = job[p].msg[1]
             /\ job[p].msg = <<Prompt(p), job[p].msg[2]>> /\ job[p].msg[2] \in Nat
             /\ job[p].edited \in BOOLEAN
  <2>1. job[p] \in Rows
    BY <1>3 DEF Owner, JobsSet, Parked
  <2> QED
    BY <2>1, JobType, MaxGenAssumption, RowsType DEF Prompt
<1>4. \A p \in Procs : pc[p] \in Holding => fate[Prompt(p)] \in {"offered", "claimed"}
  BY DEF Owner, SendersOffer, DrainerClaims, Procs
<1>5. pc[Drainer] = "take" => fate[Prompt(Drainer)] = "claimed"
  BY DEF Owner, DrainerClaims
<1> QED
  BY <1>1, <1>2, <1>3, <1>4, <1>5

(* The other tasks stay where they are.                                      *)
Others(p) == \A q \in Procs : q # p => pc'[q] = pc[q] /\ job'[q] = job[q] /\ Prompt(q)' = Prompt(q)

(* Nothing is written to the table or the mirror, and a task that moves is    *)
(* not between a commit and its mirror, and has nothing in hand after it.    *)
LEMMA QuietMirror ==
    ASSUME IInv, MirrorInv, mirror' = mirror, db' = db, replies' = replies, Up' => Up,
           \A p \in Procs : \/ pc'[p] = pc[p] /\ job'[p] = job[p]
                            \/ /\ pc'[p] \in Parked
                               /\ pc[p] \notin {"mirror", "cancelMirror", "editMirror", "take"},
           \A x \in Prompts : \/ fate'[x] = fate[x]
                              \/ /\ fate[x] \in {"offered", "claimed"}
                                 /\ fate'[x] \in {"delivered", "misrouted", "failed"}
                                 /\ \A t \in Mirrored : t[1][1] # x
    PROVE  MirrorInv'
<1> USE DEF MirrorInv
<1>1. Mirrored' = Mirrored /\ Stored' = Stored
  BY DEF Mirrored, Stored
<1>2. RowsOnce' /\ EntriesOnce'
  BY DEF RowsOnce, EntriesOnce
<1>3. \A p \in Procs : pc'[p] \notin Parked => pc'[p] = pc[p] /\ job'[p] = job[p] /\ Prompt(p)' = Prompt(p)
  BY DEF Prompt
<1>4. \A p \in Procs : pc[p] \in {"mirror", "cancelMirror", "editMirror", "take"} =>
                          pc'[p] = pc[p] /\ job'[p] = job[p] /\ Prompt(p)' = Prompt(p)
  BY DEF Prompt
<1>5. Holding \cap Parked = {} /\ Late \cap Parked = {} /\ Entering \cap Parked = {}
      /\ Drainer \in Procs
  BY DEF Holding, Late, Entering, Parked, Procs
<1>6. NotShown' /\ NewId' /\ OwnId' /\ OldIds'
  <2>1. NotShown'
    BY <1>1, <1>3, <1>5 DEF Ids, NotShown, Parked
  <2>2. NewId'
    BY <1>3, <1>5 DEF Ids, NewId
  <2>3. OwnId'
    BY <1>3, <1>5 DEF Ids, OwnId, Parked
  <2>4. OldIds'
    BY <1>1, <1>3, <1>5 DEF Ids, OldIds
  <2> QED
    BY <2>1, <2>2, <2>3, <2>4
<1>7. LateSeen'
  BY <1>3, <1>5, MirrorFacts DEF Ids, LateSeen
<1>8. ShownFate'
  BY <1>1, MirrorFacts DEF Ids, ShownFate
<1>9. SameId' /\ TakenId'
  BY <1>1, <1>3, <1>5 DEF Ids, SameId, TakenId, Parked
<1>10. Committed'
  <2>1. \A p \in Procs : pc'[p] = "mirror" => pc[p] = "mirror" /\ Text(p)' = Text(p) /\ Prompt(p)' = Prompt(p)
                                              /\ Prompt(p) \in Prompts
    BY <1>3, MirrorFacts DEF Text, Parked
  <2> QED
    BY <1>1, <2>1 DEF Ids, Committed
<1>11. Deleted' /\ EditedRow'
  BY <1>1, <1>3 DEF Ids, Deleted, EditedRow, Parked
<1>12. Explained'
  <2>1. \A p \in Procs : pc'[p] = "mirror" => pc[p] = "mirror" /\ Text(p)' = Text(p)
    BY <1>3 DEF Text, Parked
  <2> QED
    BY <1>1, <1>4, <2>1 DEF Explained, RowsExplained, EntriesExplained, TextsExplained, CommitStands
<1>13. EditsKept'
  BY <1>1, <1>3 DEF EditsKept, Holding, Parked
<1> QED
  BY <1>2, <1>6, <1>7, <1>8, <1>9, <1>10, <1>11, <1>12, <1>13 DEF Ids

(* A prompt that was never seen is in nobody's way.                          *)
LEMMA SubmitMirror ==
    ASSUME IInv, MirrorInv, NEW s \in Senders, NEW x \in Prompts,
           NEW next \in {"prepare", "offer"}, Submit(s, x, next)
    PROVE  MirrorInv'
<1> USE DEF MirrorInv
<1>1. /\ mirror' = mirror /\ db' = db /\ replies' = replies /\ Up' = Up
      /\ pc[s] = "idle" /\ fate[x] = "unsent"
  BY DEF Submit, life, Up
<1>2. /\ s \in Procs /\ s # Drainer /\ Drainer \in Procs
  BY DrainerAssumption DEF Procs
<1>3. /\ pc'[s] = next /\ Prompt(s)' = x /\ job'[s].edited = FALSE
      /\ Others(s)
  BY <1>2 DEF Submit, Goto, Work, Others, Prompt, IInv, TypeOK
<1>4. fate' = [fate EXCEPT ![x] = "offered"] /\ fate \in [Prompts -> Fates]
  BY DEF Submit, Settle, IInv, TypeOK
<1>5. \A y \in Prompts : fate'[y] = (IF y = x THEN "offered" ELSE fate[y])
  BY <1>4
<1>6. Mirrored' = Mirrored /\ Stored' = Stored
  BY <1>1 DEF Mirrored, Stored
<1>7. RowsOnce' /\ EntriesOnce'
  BY <1>1 DEF RowsOnce, EntriesOnce
<1>8. \A t \in Mirrored : t[1][1] # x
  BY <1>1 DEF Ids, ShownFate
<1>9. \A q \in Procs : pc[q] \in Late => Prompt(q) # x /\ q # s
  BY <1>1 DEF Ids, LateSeen, Late
<1>10. NotShown'
  BY <1>3, <1>6, <1>8 DEF Ids, NotShown, Others
<1>11. NewId'
  BY <1>2, <1>3, <1>9 DEF Ids, NewId, Others, Late
<1>12. OwnId' /\ OldIds'
  BY <1>2, <1>3, <1>6, <1>9 DEF Ids, OwnId, OldIds, Others, Late
<1>13. LateSeen'
  BY <1>2, <1>3, <1>5, <1>9, MirrorFacts DEF Ids, LateSeen, Others, Late, Parked
<1>14. ShownFate'
  BY <1>5, <1>6, <1>8, MirrorFacts DEF Ids, ShownFate
<1>15. SameId' /\ TakenId'
  BY <1>2, <1>3, <1>6 DEF Ids, SameId, TakenId, Others
<1>16. Committed'
  <2>1. \A p \in Procs : pc'[p] = "mirror" => /\ pc[p] = "mirror" /\ Text(p)' = Text(p) /\ Prompt(p)' = Prompt(p)
                                              /\ Prompt(p) \in Prompts /\ Prompt(p) # x
    BY <1>1, <1>3, MirrorFacts DEF Text, Parked, Others, Ids, Committed
  <2> QED
    BY <1>5, <1>6, <2>1 DEF Ids, Committed
<1>17. Deleted' /\ EditedRow'
  BY <1>3, <1>6 DEF Ids, Deleted, EditedRow, Others
<1>18. Explained'
  <2>1. \A p \in Procs : pc'[p] = "mirror" => pc[p] = "mirror" /\ Text(p)' = Text(p)
    BY <1>3 DEF Text, Others
  <2>2. \A p \in Procs : pc[p] \in {"mirror", "cancelMirror", "editMirror", "take"} =>
                            pc'[p] = pc[p] /\ job'[p] = job[p]
    BY <1>1, <1>3 DEF Others
  <2> QED
    BY <1>1, <1>6, <2>1, <2>2 DEF Explained, RowsExplained, EntriesExplained, TextsExplained, CommitStands
<1>19. EditsKept'
  BY <1>1, <1>3, <1>5, <1>6 DEF EditsKept, Others
<1> QED
  BY <1>7, <1>10, <1>11, <1>12, <1>13, <1>14, <1>15, <1>16, <1>17, <1>18, <1>19 DEF Ids

(* On the way into the queue: from offer to prepare, and to the INSERT, with *)
(* the same id or, for the drain, with a later one.                          *)
LEMMA EnteringMirror ==
    ASSUME IInv, MirrorInv, NEW p \in Procs, mirror' = mirror, db' = db, replies' = replies, fate' = fate,
           Up' = Up, Others(p), Prompt(p)' = Prompt(p), job'[p].edited = job[p].edited,
           \/ pc[p] = "offer" /\ pc'[p] = "prepare"
           \/ pc[p] = "prepare" /\ pc'[p] = "insert" /\ job'[p].msg = job[p].msg,
           \/ p # Drainer /\ job'[p].msg = job[p].msg
           \/ p = Drainer /\ pc[p] = "offer" /\ job'[p].msg[2] = job[p].msg[2] + 1
           \/ p = Drainer /\ pc[p] = "prepare"
    PROVE  MirrorInv'
<1> USE DEF MirrorInv
<1>1. Drainer \in Procs
  BY DEF Procs
<1>2. Mirrored' = Mirrored /\ Stored' = Stored
  BY DEF Mirrored, Stored
<1>3. RowsOnce' /\ EntriesOnce'
  BY DEF RowsOnce, EntriesOnce
<1>4. NotShown'
  BY <1>2 DEF Ids, NotShown, Others, Holding
<1>5. \A q \in Procs : pc'[q] \in Late \cup {"mirror", "offer"} =>
                          q # p /\ pc'[q] = pc[q] /\ job'[q] = job[q] /\ Prompt(q)' = Prompt(q) /\ Text(q)' = Text(q)
  BY DEF Others, Late, Text
<1>6. NewId'
  <2> SUFFICES ASSUME NEW e \in Procs, NEW q \in Procs,
                      pc'[e] \in Entering, pc'[q] \in Late, Prompt(q)' = Prompt(e)'
               PROVE  job'[q].msg[2] < job'[e].msg[2]
    BY DEF NewId
  <2>1. q # p /\ pc[q] \in Late /\ job'[q] = job[q] /\ Prompt(q)' = Prompt(q) /\ job[q].msg[2] \in Nat
    BY <1>5, MirrorFacts DEF Late, Parked
  <2>2. CASE e # p
    BY <2>1, <2>2 DEF Ids, NewId, Others
  <2>3. CASE e = p /\ pc[p] = "prepare"
    BY <2>1, <2>3 DEF Ids, NewId, Entering
  <2>4. CASE e = p /\ pc[p] = "offer" /\ p # Drainer
    <3>1. fate[Prompt(p)] = "offered"
      BY <2>4 DEF IInv, Owner, SendersOffer, Holding, Procs
    <3> QED
      BY <2>1, <2>4, <3>1 DEF Ids, LateSeen
  <2>5. CASE e = p /\ pc[p] = "offer" /\ p = Drainer
    <3>1. job[q].msg[2] <= job[p].msg[2] /\ job[p].msg[2] \in Nat
      BY <2>1, <2>5, MirrorFacts DEF Ids, OwnId, Parked
    <3> QED
      BY <2>1, <2>5, <3>1
  <2> QED
    BY <2>2, <2>3, <2>4, <2>5
<1>7. OwnId' /\ OldIds'
  BY <1>1, <1>2, <1>5 DEF Ids, OwnId, OldIds
<1>8. LateSeen' /\ ShownFate'
  BY <1>2, <1>5 DEF Ids, LateSeen, ShownFate
<1>9. SameId' /\ TakenId'
  BY <1>1, <1>2, <1>5 DEF Ids, SameId, TakenId, Late
<1>10. Committed'
  BY <1>2, <1>5 DEF Ids, Committed
<1>11. Deleted' /\ EditedRow'
  BY <1>2, <1>5 DEF Ids, Deleted, EditedRow, Late
<1>12. Explained'
  <2>1. \A q \in Procs : pc[q] \in {"mirror", "cancelMirror", "editMirror", "take"} =>
                            pc'[q] = pc[q] /\ job'[q] = job[q]
    BY DEF Others
  <2> QED
    BY <1>2, <1>5, <2>1 DEF Explained, RowsExplained, EntriesExplained, TextsExplained, CommitStands
<1>13. EditsKept'
  BY <1>2 DEF EditsKept, Others, Holding
<1> QED
  BY <1>3, <1>4, <1>6, <1>7, <1>8, <1>9, <1>10, <1>11, <1>12, <1>13 DEF Ids

LEMMA EnqueueCommitMirror ==
    ASSUME IInv, MirrorInv, NEW p \in Procs, EnqueueCommit(p)
    PROVE  MirrorInv'
<1> USE DEF MirrorInv
<1> DEFINE x == Prompt(p)
<1>1. /\ mirror' = mirror /\ db' = db \cup {job[p]} /\ replies' = replies /\ Up' = Up
      /\ job' = job /\ pc[p] = "insert" /\ pc'[p] = "mirror" /\ Others(p)
  BY DEF EnqueueCommit, life, Up, Goto, Others, Prompt, IInv, TypeOK
<1>2. /\ \A q \in Procs : Prompt(q)' = Prompt(q) /\ Text(q)' = Text(q)
      /\ Drainer \in Procs
  BY <1>1 DEF Prompt, Text, Procs
<1>3. /\ job[p] \in Rows /\ x \in Prompts /\ x = job[p].msg[1]
      /\ fate[x] \in {"offered", "claimed"}
  BY <1>1, MirrorFacts DEF Parked, Holding
<1>4. \A y \in Prompts : fate'[y] = (IF y = x THEN "queued" ELSE fate[y])
  BY <1>3 DEF EnqueueCommit, Settle, IInv, TypeOK
<1>5. Mirrored' = Mirrored /\ Stored' = Stored \cup {Text(p)} /\ Text(p)[1] = job[p].msg /\ Text(p)[1][1] = x
      /\ Text(p)[2] = job[p].edited
  BY <1>1, <1>3 DEF Mirrored, Stored, Text
<1>6. \A t \in Mirrored \cup Stored : t[1][1] # x
  BY <1>1, <1>3, MirrorFacts DEF Ids, NotShown, Holding
<1>7. \A q \in Procs : pc[q] \in Late /\ Prompt(q) = x => job[q].msg[2] < job[p].msg[2]
  BY <1>1 DEF Ids, NewId, Entering
<1>8. \A q \in Procs : pc'[q] \in Late \cup {"offer"} => q # p /\ pc[q] = pc'[q] /\ job'[q] = job[q]
  BY <1>1 DEF Others, Late
<1>9. \A q \in Procs : pc[q] = "mirror" => q # p /\ Prompt(q) # x /\ Prompt(q) \in Prompts
  BY <1>1, <1>3, MirrorFacts DEF Ids, Committed, Parked
<1>10. RowsOnce'
  <2>1. \A r \in db : r.msg[1] # x
    BY <1>3 DEF IInv, Owner, RowsQueued
  <2> QED
    BY <1>1, <1>3, <2>1 DEF RowsOnce
<1>11. EntriesOnce'
  BY <1>1 DEF EntriesOnce
<1>12. NotShown'
  BY <1>1, <1>2, <1>5, <1>6 DEF Ids, NotShown, Others
<1>13. NewId' /\ OwnId'
  <2>1. \A q \in Procs : pc'[q] \in Entering => pc[q] \in Entering
    BY <1>1 DEF Entering, Others
  <2> QED
    BY <1>1, <1>2, <1>8, <2>1 DEF Ids, NewId, OwnId
<1>14. OldIds'
  <2> SUFFICES ASSUME NEW q \in Procs, NEW t \in Mirrored \cup Stored \cup {Text(p)},
                      pc'[q] \in Late, Prompt(q) = t[1][1]
               PROVE  job[q].msg[2] <= t[1][2]
    BY <1>1, <1>2, <1>5 DEF OldIds
  <2>1. pc[q] \in Late /\ job[q].msg[2] \in Nat /\ job[p].msg[2] \in Nat
    BY <1>1, <1>8, MirrorFacts DEF Late, Parked
  <2>2. CASE t = Text(p)
    BY <2>1, <2>2, <1>5, <1>7
  <2>3. CASE t # Text(p)
    BY <2>1, <2>3 DEF Ids, OldIds
  <2> QED
    BY <2>2, <2>3
<1>15. LateSeen'
  BY <1>2, <1>4, <1>8, MirrorFacts DEF Ids, LateSeen, Late, Parked
<1>16. ShownFate'
  BY <1>4, <1>5, <1>6, MirrorFacts DEF Ids, ShownFate
<1>17. SameId' /\ TakenId'
  BY <1>1, <1>2, <1>5, <1>6, <1>8 DEF Ids, SameId, TakenId, Late
<1>18. Committed'
  <2>1. \A q \in Procs : pc'[q] = "mirror" => q = p \/ pc[q] = "mirror"
    BY <1>1 DEF Others
  <2>2. \A q \in Procs : pc'[q] = "mirror" => fate'[Prompt(q)] \in {"queued", "dropped"}
    BY <1>3, <1>4, <1>9, <2>1 DEF Ids, Committed
  <2>3. \A q, r \in Procs : pc'[q] = "mirror" /\ pc'[r] = "mirror" /\ Prompt(q) = Prompt(r) => q = r
    BY <1>9, <2>1 DEF Ids, Committed
  <2>4. \A q \in Procs, u \in Stored' : pc'[q] = "mirror" /\ u[1][1] = Prompt(q) => u = Text(q)
    BY <1>5, <1>6, <1>9, <2>1 DEF Ids, Committed
  <2> QED
    BY <1>2, <2>2, <2>3, <2>4 DEF Committed
<1>19. Deleted' /\ EditedRow'
  <2>1. ASSUME NEW q \in Procs, pc'[q] \in Late PROVE Text(p)[1] # job'[q].msg
    <3>1. pc[q] \in Late /\ job'[q] = job[q] /\ job[q].msg[1] = Prompt(q)
          /\ job[q].msg[2] \in Nat /\ job[p].msg[2] \in Nat
      BY <1>1, <1>8, <2>1, MirrorFacts DEF Late, Parked
    <3> QED
      BY <3>1, <1>3, <1>5, <1>7
  <2> QED
    BY <1>5, <1>8, <2>1 DEF Ids, Deleted, EditedRow, Late
<1>20. Explained'
  <2>1. \A q \in Procs : pc'[q] = "mirror" => q = p \/ pc[q] = "mirror"
    BY <1>1 DEF Others
  <2>2. \A q \in Procs : pc[q] \in {"mirror", "cancelMirror", "editMirror", "take"} =>
                            pc'[q] = pc[q] /\ job'[q] = job[q]
    BY <1>1 DEF Others
  <2>3. RowsExplained => RowsExplained'
    BY <1>1, <1>5, <2>2 DEF RowsExplained
  <2>4. EntriesExplained => EntriesExplained'
    BY <1>5, <2>2 DEF EntriesExplained
  <2>5. TextsExplained => TextsExplained'
    BY <1>5, <1>6, <2>2 DEF TextsExplained
  <2>6. CommitStands => CommitStands'
    BY <1>2, <1>5, <2>1 DEF CommitStands
  <2> QED
    BY <1>1, <2>3, <2>4, <2>5, <2>6 DEF Explained
<1>21. EditsKept'
  <2>1. \A q \in Procs : pc'[q] \in Holding \cup {"mirror"} => pc[q] \in Holding \cup {"mirror"}
    BY <1>1 DEF Others, Holding
  <2>2. pc[p] \in Holding
    BY <1>1 DEF Holding
  <2> QED
    BY <1>1, <1>2, <1>4, <1>5, <2>1, <2>2 DEF EditsKept
<1> QED
  BY <1>10, <1>11, <1>12, <1>13, <1>14, <1>15, <1>16, <1>17, <1>18, <1>19, <1>20, <1>21 DEF Ids

LEMMA EnqueueMirrorMirror ==
    ASSUME IInv, MirrorInv, NEW p \in Procs, EnqueueMirror(p)
    PROVE  MirrorInv'
<1> USE DEF MirrorInv
<1> DEFINE x == Prompt(p)
<1>1. /\ mirror' = MirrorAdd(mirror, job[p]) /\ db' = db /\ replies' = replies /\ Up' = Up
      /\ fate' = fate /\ pc[p] = "mirror" /\ pc'[p] = "resume" /\ Others(p)
  BY DEF EnqueueMirror, life, Up, Goto, Work, Others, Prompt, IInv, TypeOK
<1>2. Drainer \in Procs
  BY DEF Procs
<1>3. /\ job[p] \in Rows /\ x \in Prompts /\ x = job[p].msg[1] /\ job[p].msg[2] \in Nat
      /\ fate[x] \in {"queued", "dropped"}
  BY <1>1, MirrorFacts DEF Parked, Ids, Committed
<1>4. \A t \in Mirrored : t[1][1] # x
  BY <1>1 DEF Ids, NotShown
<1>5. EntriesOnce' /\ Mirrored' = Mirrored \cup {Text(p)}
  BY <1>1, <1>3, <1>4, MirrorAddEffect DEF IInv, TypeOK, Text
<1>6. Stored' = Stored /\ Text(p)[1] = job[p].msg /\ Text(p)[1][1] = x /\ Text(p)[2] = job[p].edited
  BY <1>1, <1>3 DEF Stored, Text
<1>7. \A q \in Procs : pc'[q] # "resume" =>
          pc'[q] = pc[q] /\ job'[q] = job[q] /\ Prompt(q)' = Prompt(q) /\ Text(q)' = Text(q) /\ q # p
  BY <1>1 DEF Others, Text
<1>8. \A u \in Stored : u[1][1] = x => u = Text(p)
  BY <1>1 DEF Ids, Committed
<1>9. RowsOnce'
  BY <1>1 DEF RowsOnce
<1>10. NotShown'
  <2>1. \A q \in Procs : q # p /\ pc[q] \in Holding \cup {"mirror"} => Prompt(q) # x
    BY <1>1, <1>3, MirrorFacts DEF Ids, Committed
  <2> QED
    BY <1>5, <1>6, <1>7, <2>1 DEF Ids, NotShown, Holding
<1>11. NewId' /\ OwnId'
  BY <1>2, <1>7 DEF Ids, NewId, OwnId, Entering, Late
<1>12. OldIds'
  <2> SUFFICES ASSUME NEW q \in Procs, NEW t \in Mirrored \cup Stored \cup {Text(p)},
                      pc'[q] \in Late, Prompt(q)' = t[1][1]
               PROVE  job'[q].msg[2] <= t[1][2]
    BY <1>5, <1>6 DEF OldIds
  <2>1. pc[q] \in Late /\ job'[q] = job[q] /\ Prompt(q)' = Prompt(q) /\ job[q].msg[2] \in Nat
    BY <1>7, MirrorFacts DEF Late, Parked
  <2>2. CASE t = Text(p)
    <3>1. job[q].msg[2] < job[p].msg[2]
      BY <1>1, <1>6, <2>1, <2>2 DEF Ids, NewId, Entering
    <3> QED
      BY <1>3, <1>6, <2>1, <2>2, <3>1
  <2>3. CASE t # Text(p)
    BY <2>1, <2>3 DEF Ids, OldIds
  <2> QED
    BY <2>2, <2>3
<1>13. LateSeen'
  BY <1>1, <1>7 DEF Ids, LateSeen, Late
<1>14. ShownFate'
  BY <1>1, <1>3, <1>5, <1>6 DEF Ids, ShownFate
<1>15. SameId'
  BY <1>5, <1>6, <1>8 DEF Ids, SameId
<1>16. TakenId'
  <2>1. pc[Drainer] = "take" => Prompt(Drainer) # x
    BY <1>3, MirrorFacts
  <2> QED
    BY <1>2, <1>5, <1>6, <1>7, <2>1 DEF Ids, TakenId
<1>17. Committed'
  BY <1>1, <1>6, <1>7 DEF Ids, Committed
<1>18. Deleted' /\ EditedRow'
  BY <1>6, <1>7 DEF Ids, Deleted, EditedRow
<1>19. Explained'
  <2>1. RowsExplained => RowsExplained'
    <3> SUFFICES ASSUME RowsExplained, NEW u \in Stored
                 PROVE  \/ \E t \in Mirrored \cup {Text(p)} : t[1] = u[1]
                        \/ \E q \in Procs : pc'[q] = "mirror" /\ job'[q].msg = u[1]
      BY <1>5, <1>6 DEF RowsExplained
    <3>1. CASE \E t \in Mirrored : t[1] = u[1]
      BY <3>1
    <3>2. CASE \E q \in Procs : pc[q] = "mirror" /\ job[q].msg = u[1]
      <4>1. PICK q \in Procs : pc[q] = "mirror" /\ job[q].msg = u[1]
        BY <3>2
      <4> QED
        BY <1>1, <1>6, <4>1 DEF Others
    <3> QED
      BY <3>1, <3>2 DEF RowsExplained
  <2>2. \A q \in Procs : pc[q] \in {"cancelMirror", "take", "editMirror"} => pc'[q] = pc[q] /\ job'[q] = job[q]
    BY <1>1 DEF Others
  <2>3. EntriesExplained /\ CommitStands => EntriesExplained'
    BY <1>1, <1>5, <1>6, <2>2 DEF EntriesExplained, CommitStands
  <2>4. TextsExplained => TextsExplained'
    BY <1>5, <1>6, <1>8, <2>2 DEF TextsExplained
  <2>5. CommitStands => CommitStands'
    BY <1>6, <1>7 DEF CommitStands
  <2> QED
    BY <1>1, <2>1, <2>3, <2>4, <2>5 DEF Explained
<1>20. EditsKept'
  BY <1>1, <1>5, <1>6, <1>7 DEF EditsKept, Holding
<1> QED
  BY <1>5, <1>9, <1>10, <1>11, <1>12, <1>13, <1>14, <1>15, <1>16, <1>17, <1>18, <1>19, <1>20 DEF Ids

(* A task that takes up an entry of the mirror: a cancel, an edit, the drain. *)
LEMMA ShownMirror ==
    ASSUME IInv, MirrorInv, NEW p \in Procs, NEW e \in 1 .. Len(mirror),
           mirror' = mirror, db' = db, replies' = replies, fate' = fate, Up' = Up,
           pc[p] \in {"idle", "loop"}, pc'[p] \in {"cancelDelete", "editUpdate", "delete"},
           job'[p] = mirror[e], Others(p)
    PROVE  MirrorInv'
<1> USE DEF MirrorInv
<1> DEFINE w == <<mirror[e].msg, mirror[e].edited>>
           x == mirror[e].msg[1]
<1>1. Mirrored' = Mirrored /\ Stored' = Stored /\ Drainer \in Procs
  BY DEF Mirrored, Stored, Procs
<1>2. w \in Mirrored /\ w[1] = mirror[e].msg /\ w[1][1] = x /\ Prompt(p)' = x
  BY DEF Mirrored, Prompt
<1>3. x \in Prompts /\ w[1] = <<x, w[1][2]>> /\ w[1][2] \in Nat
  BY <1>2, MirrorFacts
<1>4. \A t \in Mirrored : t[1][1] = x => t[1] = w[1]
  BY <1>2 DEF EntriesOnce, Mirrored
<1>5. \A u \in Stored : u[1][1] = x => u[1] = w[1]
  BY <1>2 DEF Ids, SameId
<1>6. \A q \in Procs : pc'[q] \in Holding \cup {"mirror", "take", "cancelMirror", "editMirror"} =>
          q # p /\ pc'[q] = pc[q] /\ job'[q] = job[q] /\ Prompt(q)' = Prompt(q) /\ Text(q)' = Text(q)
  BY DEF Others, Holding, Text
<1>7. \A q \in Procs : pc'[q] \in Late =>
          q = p \/ (pc'[q] = pc[q] /\ job'[q] = job[q] /\ Prompt(q)' = Prompt(q))
  BY DEF Others
<1>8. \A q \in Procs : pc[q] \in Holding \cup {"mirror"} => Prompt(q) # x
  BY <1>2 DEF Ids, NotShown
<1>9. RowsOnce' /\ EntriesOnce'
  BY DEF RowsOnce, EntriesOnce
<1>10. NotShown'
  BY <1>1, <1>6 DEF Ids, NotShown
<1>11. NewId'
  <2>1. \A q \in Procs : pc'[q] \in Entering => pc'[q] \in Holding \cup {"mirror"}
    BY DEF Entering, Holding
  <2> QED
    BY <1>2, <1>6, <1>7, <1>8, <2>1 DEF Ids, NewId
<1>12. OwnId'
  BY <1>1, <1>2, <1>6, <1>7, <1>8 DEF Ids, OwnId, Holding
<1>13. OldIds'
  BY <1>1, <1>2, <1>3, <1>4, <1>5, <1>7 DEF Ids, OldIds
<1>14. LateSeen'
  BY <1>2, <1>7 DEF Ids, LateSeen, ShownFate
<1>15. ShownFate' /\ SameId'
  BY <1>1 DEF Ids, ShownFate, SameId
<1>16. TakenId'
  BY <1>1, <1>6 DEF Ids, TakenId
<1>17. Committed'
  BY <1>1, <1>6 DEF Ids, Committed
<1>18. Deleted' /\ EditedRow'
  BY <1>1, <1>6 DEF Ids, Deleted, EditedRow
<1>19. Explained'
  <2>1. \A q \in Procs : pc[q] \in {"mirror", "cancelMirror", "editMirror", "take"} =>
                            pc'[q] = pc[q] /\ job'[q] = job[q]
    BY DEF Others
  <2> QED
    BY <1>1, <1>6, <2>1 DEF Explained, RowsExplained, EntriesExplained, TextsExplained, CommitStands
<1>20. EditsKept'
  BY <1>1, <1>6 DEF EditsKept
<1> QED
  BY <1>9, <1>10, <1>11, <1>12, <1>13, <1>14, <1>15, <1>16, <1>17, <1>18, <1>19, <1>20 DEF Ids

(* The commit of a DELETE, by the drain or by a cancel.                      *)
LEMMA DeleteMirror ==
    ASSUME IInv, MirrorInv, NEW p \in Procs, NEW f \in {"claimed", "cancelled"},
           HasRow(job[p].msg), DeleteRow(job[p].msg), fate' = [fate EXCEPT ![Prompt(p)] = f],
           mirror' = mirror, replies' = replies, Up' = Up, job' = job, Others(p),
           pc[p] \in {"delete", "cancelDelete"}, pc'[p] \in {"take", "cancelMirror"},
           pc'[p] = "take" => p = Drainer
    PROVE  MirrorInv'
<1> USE DEF MirrorInv
<1> DEFINE x == Prompt(p)
           id == job[p].msg
<1>1. RowsOnce' /\ Stored' = {u \in Stored : u[1] # id}
  BY DeleteRowTexts DEF IInv, TypeOK
<1>2. Mirrored' = Mirrored /\ EntriesOnce' /\ Drainer \in Procs
  BY DEF Mirrored, EntriesOnce, Procs
<1>3. \A q \in Procs : Prompt(q)' = Prompt(q) /\ Text(q)' = Text(q) /\ job'[q] = job[q]
  BY DEF Prompt, Text
<1>4. x \in Prompts /\ x = id[1] /\ id = <<x, id[2]>> /\ id[2] \in Nat
  BY MirrorFacts DEF Parked
<1>5. PICK v \in Stored : v[1] = id
  <2>1. PICK r \in db : r.msg = id
    BY DEF HasRow
  <2>2. <<r.msg, r.edited>> \in Stored /\ <<r.msg, r.edited>>[1] = id
    BY <2>1 DEF Stored
  <2> QED
    BY <2>2
<1>6. fate[x] = "queued"
  BY <1>4, <1>5, MirrorFacts
<1>7. \A y \in Prompts : fate'[y] = IF y = x THEN f ELSE fate[y]
  BY <1>4 DEF IInv, TypeOK
<1>8. \A q \in Procs : q # p => pc'[q] = pc[q]
  BY DEF Others
<1>9. \A q \in Procs : pc[q] = "mirror" => Prompt(q) # x /\ job[q].msg # id /\ Prompt(q) \in Prompts
  <2> SUFFICES ASSUME NEW q \in Procs, pc[q] = "mirror" PROVE Prompt(q) # x /\ job[q].msg # id /\ Prompt(q) \in Prompts
    OBVIOUS
  <2>1. /\ job[q].msg = <<Prompt(q), job[q].msg[2]>> /\ job[q].msg[2] \in Nat /\ Prompt(q) \in Prompts
    BY MirrorFacts DEF Parked
  <2>2. Prompt(q) = x => v = Text(q) /\ job[p].msg[2] < job[q].msg[2]
    BY <1>4, <1>5 DEF Ids, Committed, NewId, Entering, Late
  <2>3. v = Text(q) => id = job[q].msg
    BY <1>5 DEF Text
  <2>4. Prompt(q) # x
    BY <1>4, <2>1, <2>2, <2>3
  <2> QED
    BY <1>4, <2>1, <2>4
<1>10. NotShown' /\ NewId' /\ OwnId'
  <2>1. \A q \in Procs : pc'[q] \in Holding \cup {"mirror"} \cup Entering => q # p
    BY DEF Holding, Entering
  <2>2. p \in Procs /\ pc[p] \in Late
    BY DEF Late
  <2>3. NotShown'
    BY <1>2, <1>3, <1>8, <2>1 DEF Ids, NotShown
  <2>4. NewId'
    BY <1>3, <1>8, <2>1, <2>2 DEF Ids, NewId
  <2>5. OwnId'
    BY <1>2, <1>3, <1>8, <2>1, <2>2 DEF Ids, OwnId, Holding
  <2> QED
    BY <2>3, <2>4, <2>5
<1>11. OldIds'
  BY <1>1, <1>2, <1>3, <1>8 DEF Ids, OldIds, Late
<1>12. LateSeen'
  <2>1. \A q \in Procs : pc'[q] \in Late => pc[q] \in Late /\ Prompt(q) \in Prompts
    BY <1>8, MirrorFacts DEF Late, Parked
  <2> QED
    BY <1>3, <1>7, <2>1 DEF Ids, LateSeen
<1>13. ShownFate'
  BY <1>2, <1>7, MirrorFacts DEF Ids, ShownFate
<1>14. SameId'
  BY <1>1, <1>2 DEF Ids, SameId
<1>15. TakenId'
  <2>1. \A t \in Mirrored : t[1][1] = x => t[1] = id
    BY <1>4, <1>5 DEF Ids, SameId
  <2> QED
    BY <1>2, <1>3, <1>8, <2>1 DEF Ids, TakenId
<1>16. Committed'
  <2>1. \A q \in Procs : pc'[q] = "mirror" => pc[q] = "mirror"
    BY <1>8
  <2> QED
    BY <1>1, <1>3, <1>7, <1>9, <2>1 DEF Ids, Committed
<1>17. Deleted' /\ EditedRow'
  BY <1>1, <1>3, <1>8 DEF Ids, Deleted, EditedRow
<1>18. Explained'
  <2>1. \A q \in Procs : pc[q] \in {"mirror", "cancelMirror", "editMirror", "take"} => pc'[q] = pc[q]
    BY <1>8
  <2>2. RowsExplained => RowsExplained'
    BY <1>1, <1>2, <1>3, <2>1 DEF RowsExplained
  <2>3. EntriesExplained => EntriesExplained'
    BY <1>1, <1>2, <1>3, <2>1 DEF EntriesExplained
  <2>4. TextsExplained => TextsExplained'
    BY <1>1, <1>2, <1>3, <2>1 DEF TextsExplained
  <2>5. CommitStands => CommitStands'
    <3> SUFFICES ASSUME CommitStands, NEW q \in Procs, pc'[q] = "mirror" PROVE Text(q) \in Stored'
      BY <1>3 DEF CommitStands
    <3>1. pc[q] = "mirror" /\ Text(q) \in Stored /\ Text(q)[1] = job[q].msg
      BY <1>8 DEF CommitStands, Text
    <3> QED
      BY <1>1, <1>9, <3>1
  <2> QED
    BY <2>2, <2>3, <2>4, <2>5 DEF Explained
<1>19. EditsKept'
  <2>1. \A q \in Procs : pc'[q] \in Holding \cup {"mirror"} => q # p
    BY DEF Holding
  <2> QED
    BY <1>1, <1>2, <1>3, <1>7, <1>8, <2>1 DEF EditsKept
<1> QED
  BY <1>1, <1>2, <1>10, <1>11, <1>12, <1>13, <1>14, <1>15, <1>16, <1>17, <1>18, <1>19 DEF Ids

(* The mirror follows a DELETE: the cancel is done, the drain takes what it   *)
(* has removed to the agent.                                                 *)
LEMMA RemoveMirror ==
    ASSUME IInv, MirrorInv, NEW p \in Procs, MirrorRemove(job[p].msg), db' = db, Up' = Up, Others(p),
           \/ /\ pc[p] = "cancelMirror" /\ pc'[p] = "idle" /\ fate' = fate
              /\ replies' \subseteq replies \cup (Prompts \X {"cancelled"})
           \/ /\ p = Drainer /\ pc[p] = "take" /\ pc'[p] = "finished" /\ replies' = replies
              /\ fate' = [fate EXCEPT ![Prompt(p)] = "dropped"]
           \/ /\ p = Drainer /\ pc[p] = "take" /\ pc'[p] = "offer" /\ replies' = replies /\ fate' = fate
              /\ MirrorHas(job[p].msg) /\ job'[p] = mirror[MirrorAt(job[p].msg)]
    PROVE  MirrorInv'
<1> USE DEF MirrorInv
<1> DEFINE x == Prompt(p)
           id == job[p].msg
           kept == {t \in Mirrored : t[1] # id}
<1>1. EntriesOnce' /\ Mirrored' = kept
  BY MirrorRemoveEffect DEF IInv, TypeOK
<1>2. Stored' = Stored /\ RowsOnce' /\ Drainer \in Procs
  BY DEF Stored, RowsOnce, Procs
<1>3. x \in Prompts /\ x = id[1] /\ id = <<x, id[2]>> /\ id[2] \in Nat
  BY MirrorFacts DEF Parked
<1>4. \A u \in Stored : u[1] # id
  BY DEF Ids, Deleted
<1>5. \A q \in Procs : q # p => pc'[q] = pc[q] /\ job'[q] = job[q] /\ Prompt(q)' = Prompt(q) /\ Text(q)' = Text(q)
  BY DEF Others, Text
<1>6. \A q \in Procs : pc'[q] \in Late \cup {"mirror"} => q # p
  BY DEF Late
<1>7. \A y \in Prompts : fate'[y] = fate[y] \/ (y = x /\ fate[x] = "claimed" /\ fate'[y] = "dropped")
  BY <1>3, MirrorFacts DEF IInv, TypeOK
<1>8. pc'[p] = "offer" => /\ p = Drainer /\ job'[p].msg = id /\ Prompt(p)' = x
                          /\ <<id, job'[p].edited>> \in Mirrored
  <2> SUFFICES ASSUME pc'[p] = "offer"
               PROVE  /\ p = Drainer /\ job'[p].msg = id /\ Prompt(p)' = x
                      /\ <<id, job'[p].edited>> \in Mirrored
    OBVIOUS
  <2>1. MirrorAt(id) \in 1 .. Len(mirror) /\ mirror[MirrorAt(id)].msg = id
    BY MirrorAtType
  <2>2. job'[p].msg = id /\ Prompt(p)' = x
    BY <1>3, <2>1 DEF Prompt
  <2>3. <<id, job'[p].edited>> \in Mirrored
    BY <2>1 DEF Mirrored
  <2> QED
    BY <2>2, <2>3
<1>9. NotShown'
  <2>1. pc'[p] = "offer" => \A t \in kept : t[1][1] # x
    BY <1>8 DEF Ids, TakenId
  <2>2. pc'[p] \in Holding \cup {"mirror"} => pc'[p] = "offer"
    BY DEF Holding
  <2> QED
    BY <1>1, <1>5, <1>8, <2>1, <2>2 DEF Ids, NotShown
<1>10. NewId'
  BY <1>5 DEF Ids, NewId, Entering, Late
<1>11. OwnId'
  <2> SUFFICES ASSUME NEW q \in Procs, pc'[Drainer] = "offer", pc'[q] \in Late, Prompt(q)' = Prompt(Drainer)'
               PROVE  job'[q].msg[2] <= job'[Drainer].msg[2]
    BY DEF OwnId
  <2>1. q # p /\ pc[q] \in Late /\ job'[q] = job[q] /\ Prompt(q)' = Prompt(q)
    BY <1>5, <1>6
  <2>2. CASE p = Drainer
    <3> DEFINE t == <<id, job'[p].edited>>
    <3>1. t \in Mirrored /\ t[1][1] = x /\ t[1][2] = id[2] /\ Prompt(q) = x
      BY <1>3, <1>8, <2>1, <2>2
    <3> QED
      BY <1>8, <2>1, <2>2, <3>1 DEF Ids, OldIds
  <2>3. CASE p # Drainer
    BY <1>2, <1>5, <2>1, <2>3 DEF Ids, OwnId
  <2> QED
    BY <2>2, <2>3
<1>12. OldIds'
  BY <1>1, <1>2, <1>5, <1>6 DEF Ids, OldIds
<1>13. LateSeen'
  <2>1. \A q \in Procs : pc'[q] \in Late => pc[q] \in Late /\ Prompt(q)' = Prompt(q) /\ Prompt(q) \in Prompts
    BY <1>5, <1>6, MirrorFacts DEF Late, Parked
  <2> QED
    BY <1>7, <2>1 DEF Ids, LateSeen
<1>14. ShownFate'
  BY <1>1, <1>7, MirrorFacts DEF Ids, ShownFate
<1>15. SameId' /\ TakenId'
  BY <1>1, <1>2, <1>5, <1>6 DEF Ids, SameId, TakenId, Late
<1>16. Committed'
  <2>1. \A q \in Procs : pc'[q] = "mirror" => /\ pc[q] = "mirror" /\ Prompt(q)' = Prompt(q) /\ Text(q)' = Text(q)
                                              /\ Prompt(q) \in Prompts
    BY <1>5, <1>6, MirrorFacts DEF Parked
  <2> QED
    BY <1>2, <1>7, <2>1 DEF Ids, Committed
<1>17. Deleted' /\ EditedRow'
  BY <1>2, <1>5, <1>6 DEF Ids, Deleted, EditedRow, Late
<1>18. Explained'
  <2>1. RowsExplained => RowsExplained'
    BY <1>1, <1>2, <1>4, <1>5 DEF RowsExplained
  <2>2. EntriesExplained => EntriesExplained'
    BY <1>1, <1>2, <1>5 DEF EntriesExplained
  <2>3. TextsExplained => TextsExplained'
    BY <1>1, <1>2, <1>5 DEF TextsExplained
  <2>4. CommitStands => CommitStands'
    BY <1>2, <1>5, <1>6 DEF CommitStands
  <2> QED
    BY <2>1, <2>2, <2>3, <2>4 DEF Explained
<1>19. EditsKept'
  <2> SUFFICES ASSUME NEW y \in Prompts, <<y, "edited">> \in replies'
               PROVE  /\ fate'[y] # "unsent"
                      /\ \A t \in kept \cup Stored : t[1][1] = y => t[2]
                      /\ \A q \in Procs : pc'[q] \in Holding \cup {"mirror"} /\ Prompt(q)' = y => job'[q].edited
    BY <1>1, <1>2 DEF EditsKept
  <2>1. <<y, "edited">> \in replies
    OBVIOUS
  <2>2. fate'[y] # "unsent" /\ \A t \in Mirrored \cup Stored : t[1][1] = y => t[2]
    BY <1>7, <2>1 DEF EditsKept
  <2>3. ASSUME NEW q \in Procs, pc'[q] \in Holding \cup {"mirror"}, Prompt(q)' = y
        PROVE  job'[q].edited
    <3>1. CASE q # p
      BY <1>5, <2>1, <2>3, <3>1 DEF EditsKept
    <3>2. CASE q = p
      <4>1. pc'[p] = "offer"
        BY <2>3, <3>2 DEF Holding
      <4>2. <<id, job'[p].edited>> \in Mirrored /\ id[1] = y
        BY <1>3, <1>8, <2>3, <3>2, <4>1
      <4> QED
        BY <2>2, <3>2, <4>2
    <3> QED
      BY <3>1, <3>2
  <2> QED
    BY <2>2, <2>3
<1> QED
  BY <1>1, <1>2, <1>9, <1>10, <1>11, <1>12, <1>13, <1>14, <1>15, <1>16, <1>17, <1>18, <1>19 DEF Ids

LEMMA EditCommitMirror ==
    ASSUME IInv, MirrorInv, NEW p \in Procs, EditCommit(p)
    PROVE  MirrorInv'
<1> USE DEF MirrorInv
<1> DEFINE id == job[p].msg
           x == Prompt(p)
           row(r) == IF r.msg = id THEN [r EXCEPT !.edited = TRUE] ELSE r
           text(u) == IF u[1] = id THEN <<id, TRUE>> ELSE u
<1>1. /\ mirror' = mirror /\ db' = {row(r) : r \in db} /\ replies' = replies /\ Up' = Up
      /\ job' = job /\ fate' = fate /\ pc[p] = "editUpdate" /\ pc'[p] = "editMirror" /\ Others(p)
  BY DEF EditCommit, life, Up, Goto, Others, Prompt, IInv, TypeOK
<1>2. /\ \A q \in Procs : Prompt(q)' = Prompt(q) /\ Text(q)' = Text(q) /\ job'[q] = job[q]
      /\ Drainer \in Procs /\ Mirrored' = Mirrored /\ EntriesOnce'
  BY <1>1 DEF Prompt, Text, Procs, Mirrored, EntriesOnce
<1>3. \A r \in db : r \in Rows /\ row(r).msg = r.msg
                    /\ <<row(r).msg, row(r).edited>> = text(<<r.msg, r.edited>>)
  BY RowsType DEF IInv, TypeOK, Rows
<1>4. db' = {row(r) : r \in db}
  BY <1>1
<1>5. Stored' = {text(u) : u \in Stored}
  <2> HIDE DEF row, text
  <2>1. \A r \in db : <<row(r).msg, row(r).edited>> \in {text(u) : u \in Stored}
    BY <1>3 DEF Stored
  <2>2. \A u \in Stored : \E r \in db : text(u) = <<row(r).msg, row(r).edited>>
    BY <1>3 DEF Stored
  <2>3. Stored' = {<<row(r).msg, row(r).edited>> : r \in db}
    BY <1>4 DEF Stored
  <2> QED
    BY <2>1, <2>2, <2>3
<1>20. RowsOnce'
  <2> HIDE DEF row, text
  <2> SUFFICES ASSUME NEW r1 \in db, NEW r2 \in db, row(r1).msg[1] = row(r2).msg[1]
               PROVE  row(r1) = row(r2)
    BY <1>4 DEF RowsOnce
  <2>1. r1 = r2
    BY <1>3 DEF RowsOnce
  <2> QED
    BY <2>1
<1> HIDE DEF row
<1>6. \A u \in Stored : text(u)[1] = u[1] /\ (u[2] => text(u)[2]) /\ (u[1] # id => text(u) = u)
                        /\ (u[1] = id => text(u)[2])
  BY MirrorFacts
<1>7. \A u \in Stored' : \E v \in Stored : u = text(v)
  BY <1>5
<1>8. \A v \in Stored : text(v) \in Stored'
  BY <1>5
<1> HIDE DEF text
<1>9. \A q \in Procs : q # p => pc'[q] = pc[q]
  BY <1>1 DEF Others
<1>10. \A q \in Procs : pc[q] = "mirror" => Text(q)[1] = job[q].msg /\ job[q].msg # id
  <2> SUFFICES ASSUME NEW q \in Procs, pc[q] = "mirror" PROVE job[q].msg # id
    BY DEF Text
  <2>1. /\ job[q].msg = <<Prompt(q), job[q].msg[2]>> /\ job[q].msg[2] \in Nat
        /\ id = <<x, id[2]>> /\ id[2] \in Nat
    BY <1>1, MirrorFacts DEF Parked
  <2>2. Prompt(q) = x => id[2] < job[q].msg[2]
    BY <1>1 DEF Ids, NewId, Entering, Late
  <2> QED
    BY <2>1, <2>2
<1>11. NotShown' /\ NewId' /\ OwnId'
  <2>1. \A q \in Procs : /\ pc'[q] \in Holding \cup {"mirror"} \cup Entering => pc[q] = pc'[q]
                         /\ pc'[q] \in Late => pc[q] \in Late
    BY <1>1, <1>9 DEF Holding, Entering, Late
  <2> QED
    BY <1>2, <2>1 DEF Ids, NotShown, NewId, OwnId, Holding
<1>12. OldIds'
  <2>1. \A q \in Procs : pc'[q] \in Late => pc[q] \in Late
    BY <1>1, <1>9 DEF Late
  <2> QED
    BY <1>2, <1>6, <1>7, <2>1 DEF Ids, OldIds
<1>13. LateSeen' /\ ShownFate'
  BY <1>1, <1>2, <1>9 DEF Ids, LateSeen, ShownFate, Late
<1>14. SameId'
  BY <1>2, <1>6, <1>7 DEF Ids, SameId
<1>15. TakenId'
  BY <1>1, <1>2, <1>9 DEF Ids, TakenId
<1>16. Committed'
  <2>1. \A q \in Procs : pc'[q] = "mirror" => pc[q] = "mirror"
    BY <1>1, <1>9
  <2>2. \A q \in Procs, u \in Stored' : pc'[q] = "mirror" /\ u[1][1] = Prompt(q) => u = Text(q)
    BY <1>6, <1>7, <1>10, <2>1 DEF Ids, Committed
  <2> QED
    BY <1>1, <1>2, <2>1, <2>2 DEF Ids, Committed
<1>17. Deleted' /\ EditedRow'
  <2>1. Deleted'
    BY <1>1, <1>2, <1>6, <1>7, <1>9 DEF Ids, Deleted
  <2>2. EditedRow'
    BY <1>1, <1>2, <1>6, <1>7, <1>9 DEF Ids, EditedRow
  <2> QED
    BY <2>1, <2>2
<1>18. Explained'
  <2>1. RowsExplained => RowsExplained'
    BY <1>1, <1>2, <1>6, <1>7, <1>9 DEF RowsExplained
  <2>2. EntriesExplained => EntriesExplained'
    <3> SUFFICES ASSUME EntriesExplained, NEW t \in Mirrored
                 PROVE  \/ \E u \in Stored' : u[1] = t[1]
                        \/ \E q \in Procs : pc'[q] \in {"cancelMirror", "take"} /\ job'[q].msg = t[1]
      BY <1>2 DEF EntriesExplained
    <3>1. CASE \E u \in Stored : u[1] = t[1]
      BY <3>1, <1>6, <1>8
    <3>2. CASE \E q \in Procs : pc[q] \in {"cancelMirror", "take"} /\ job[q].msg = t[1]
      BY <3>2, <1>1, <1>2, <1>9
    <3> QED
      BY <3>1, <3>2 DEF EntriesExplained
  <2>3. TextsExplained => TextsExplained'
    <3> SUFFICES ASSUME TextsExplained, NEW t \in Mirrored, NEW u \in Stored, t[1] = u[1]
                 PROVE  t = text(u) \/ \E q \in Procs : pc'[q] = "editMirror" /\ job'[q].msg = t[1]
      BY <1>2, <1>6, <1>7 DEF TextsExplained
    <3>1. CASE u[1] = id
      BY <3>1, <1>1, <1>2
    <3>2. CASE u[1] # id
      BY <3>2, <1>1, <1>2, <1>6, <1>9 DEF TextsExplained
    <3> QED
      BY <3>1, <3>2
  <2>4. CommitStands => CommitStands'
    BY <1>1, <1>2, <1>6, <1>8, <1>9, <1>10 DEF CommitStands
  <2> QED
    BY <1>1, <2>1, <2>2, <2>3, <2>4 DEF Explained
<1>19. EditsKept'
  <2>1. \A q \in Procs : pc'[q] \in Holding \cup {"mirror"} => pc[q] = pc'[q]
    BY <1>1, <1>9 DEF Holding
  <2> QED
    BY <1>1, <1>2, <1>6, <1>7, <2>1 DEF EditsKept
<1> QED
  BY <1>2, <1>20, <1>11, <1>12, <1>13, <1>14, <1>15, <1>16, <1>17, <1>18, <1>19 DEF Ids

LEMMA EditMirrorMirror ==
    ASSUME IInv, MirrorInv, NEW p \in Procs, EditMirror(p)
    PROVE  MirrorInv'
<1> USE DEF MirrorInv
<1> DEFINE id == job[p].msg
           x == Prompt(p)
<1>1. /\ MirrorUpdate(id) /\ db' = db /\ Up' = Up /\ fate' = fate
      /\ pc[p] = "editMirror" /\ pc'[p] = "idle" /\ Others(p)
  BY DEF EditMirror, life, Up, Goto, Work, Others, Prompt, IInv, TypeOK
<1>2. Stored' = Stored /\ RowsOnce' /\ Drainer \in Procs
  BY <1>1 DEF Stored, RowsOnce, Procs
<1>3. /\ EntriesOnce'
      /\ \A t \in Mirrored' : (t \in Mirrored /\ t[1] # id) \/ (t = <<id, TRUE>> /\ \E v \in Mirrored : v[1] = id)
      /\ \A t \in Mirrored : (t[1] = id => <<id, TRUE>> \in Mirrored') /\ (t[1] # id => t \in Mirrored')
  BY <1>1, MirrorUpdateEffect DEF IInv, TypeOK
<1>4. x \in Prompts /\ x = id[1] /\ id = <<x, id[2]>> /\ id[2] \in Nat
  BY <1>1, MirrorFacts DEF Parked
<1> HIDE DEF id
<1>20. <<id, TRUE>>[1] = id /\ <<id, TRUE>>[2] = TRUE
  OBVIOUS
<1>18. \A t \in Mirrored' : (t \in Mirrored /\ t[1] # id) \/ (t[1] = id /\ t[2] = TRUE /\ \E v \in Mirrored : v[1] = id)
  BY <1>3, <1>20
<1>5. \A t \in Mirrored' : \E v \in Mirrored : v[1] = t[1]
  BY <1>18
<1>6. ASSUME NEW v \in Mirrored PROVE \E t \in Mirrored' : v[1] = t[1]
  <2>1. CASE v[1] = id
    <3>1. <<id, TRUE>> \in Mirrored' /\ <<id, TRUE>>[1] = id
      BY <1>3, <1>20, <2>1
    <3> QED
      BY <2>1, <3>1
  <2>2. CASE v[1] # id
    BY <1>3, <2>2
  <2> QED
    BY <2>1, <2>2
<1>7. \A q \in Procs : q # p => pc'[q] = pc[q] /\ job'[q] = job[q] /\ Prompt(q)' = Prompt(q) /\ Text(q)' = Text(q)
  BY <1>1 DEF Others, Text
<1>8. \A q \in Procs : pc'[q] \in Late \cup Holding \cup Entering => q # p
  BY <1>1 DEF Late, Holding, Entering
<1>9. NotShown' /\ NewId' /\ OwnId'
  <2>1. NotShown'
    BY <1>1, <1>5, <1>7 DEF Ids, NotShown, Holding
  <2>2. NewId' /\ OwnId'
    BY <1>1, <1>2, <1>7, <1>8 DEF Ids, NewId, OwnId
  <2> QED
    BY <2>1, <2>2
<1>10. OldIds'
  BY <1>2, <1>5, <1>7, <1>8 DEF Ids, OldIds
<1>11. LateSeen' /\ ShownFate'
  BY <1>1, <1>5, <1>7, <1>8 DEF Ids, LateSeen, ShownFate
<1>12. SameId' /\ TakenId'
  BY <1>1, <1>2, <1>5, <1>7 DEF Ids, SameId, TakenId
<1>13. Committed'
  BY <1>1, <1>2, <1>7 DEF Ids, Committed
<1>14. Deleted' /\ EditedRow'
  BY <1>1, <1>2, <1>7 DEF Ids, Deleted, EditedRow
<1>15. \A u \in Stored : u[1] = id => u = <<id, TRUE>>
  BY <1>1, MirrorFacts DEF Ids, EditedRow, id
<1>16. Explained'
  <2>1. RowsExplained => RowsExplained'
    BY <1>1, <1>2, <1>6, <1>7 DEF RowsExplained
  <2>2. EntriesExplained => EntriesExplained'
    BY <1>1, <1>2, <1>5, <1>7 DEF EntriesExplained
  <2>3. TextsExplained => TextsExplained'
    <3> SUFFICES ASSUME TextsExplained, NEW t \in Mirrored', NEW u \in Stored, t[1] = u[1]
                 PROVE  t = u \/ \E q \in Procs : pc'[q] = "editMirror" /\ job'[q].msg = t[1]
      BY <1>2 DEF TextsExplained
    <3>1. CASE t = <<id, TRUE>>
      BY <3>1, <1>15
    <3>2. CASE t \in Mirrored /\ t[1] # id
      BY <3>2, <1>1, <1>7 DEF TextsExplained, id
    <3> QED
      BY <3>1, <3>2, <1>3
  <2>4. CommitStands => CommitStands'
    BY <1>1, <1>2, <1>7 DEF CommitStands
  <2> QED
    BY <1>1, <2>1, <2>2, <2>3, <2>4 DEF Explained
<1>17. EditsKept'
  <2>1. ASSUME NEW y \in Prompts, <<y, "edited">> \in replies
        PROVE  /\ fate'[y] # "unsent"
               /\ \A t \in Mirrored' \cup Stored : t[1][1] = y => t[2]
               /\ \A q \in Procs : pc'[q] \in Holding \cup {"mirror"} /\ Prompt(q)' = y => job'[q].edited
    <3>1. \A t \in Mirrored' : t[1][1] = y => t[2]
      BY <1>18, <2>1 DEF EditsKept
    <3>2. \A q \in Procs : pc'[q] \in Holding \cup {"mirror"} => q # p
      BY <1>1 DEF Holding
    <3> QED
      BY <1>1, <1>7, <2>1, <3>1, <3>2 DEF EditsKept
  <2>2. ASSUME MirrorHas(id)
        PROVE  /\ fate'[x] # "unsent"
               /\ \A t \in Mirrored' \cup Stored : t[1][1] = x => t[2]
               /\ \A q \in Procs : pc'[q] \in Holding \cup {"mirror"} /\ Prompt(q)' = x => job'[q].edited
    <3>1. PICK i \in 1 .. Len(mirror) : mirror[i].msg = id
      BY <2>2 DEF MirrorHas
    <3> DEFINE v == <<mirror[i].msg, mirror[i].edited>>
    <3>2. v \in Mirrored /\ v[1] = id /\ v[1][1] = x
      BY <1>4, <3>1 DEF Mirrored
    <3>3. \A t \in Mirrored : t[1][1] = x => t[1] = id
      BY <1>4, <3>1 DEF EntriesOnce, Mirrored
    <3>4. fate'[x] # "unsent"
      BY <1>1, <3>2 DEF Ids, ShownFate
    <3> HIDE DEF v
    <3>5. \A t \in Mirrored' : t[1][1] = x => t[2]
      BY <1>18, <3>3
    <3>6. \A u \in Stored : u[1][1] = x => u[2]
      <4>1. \A u \in Stored : u[1][1] = x => u[1] = id
        BY <3>2 DEF Ids, SameId
      <4>2. \A u \in Stored : u[1] = id => u[2]
        BY <1>1 DEF Ids, EditedRow, id
      <4> QED
        BY <4>1, <4>2
    <3>7. \A q \in Procs : pc[q] \in Holding \cup {"mirror"} => Prompt(q) # x
      BY <3>2 DEF Ids, NotShown
    <3>8. \A q \in Procs : pc'[q] \in Holding \cup {"mirror"} => q # p
      BY <1>1 DEF Holding
    <3> QED
      BY <1>7, <3>4, <3>5, <3>6, <3>7, <3>8
  <2>3. \A y \in Prompts : <<y, "edited">> \in replies' => <<y, "edited">> \in replies \/ (y = x /\ MirrorHas(id))
    BY DEF EditMirror, Reply, id
  <2> QED
    BY <1>2, <2>1, <2>2, <2>3 DEF EditsKept
<1> QED
  BY <1>2, <1>3, <1>9, <1>10, <1>11, <1>12, <1>13, <1>14, <1>16, <1>17 DEF Ids

(* The end of the session drops the rows, then the mirror.                   *)
LEMMA EndMirrorMirror ==
    ASSUME IInv, MirrorInv, EndClear \/ EndMirror
    PROVE  MirrorInv'
<1> USE DEF MirrorInv
<1>1. pc' = pc /\ job' = job /\ replies' = replies /\ ~ Up'
  BY DEF EndClear, EndMirror, IInv, Owner, EndedFirst, Up
<1>2. /\ \A p \in Procs : Prompt(p)' = Prompt(p) /\ Text(p)' = Text(p)
      /\ Drainer \in Procs
  BY <1>1 DEF Prompt, Text, Procs
<1>3. /\ Mirrored' \subseteq Mirrored /\ Stored' \subseteq Stored /\ RowsOnce' /\ EntriesOnce'
  <2>1. CASE EndClear
    BY <2>1 DEF EndClear, Mirrored, Stored, RowsOnce, EntriesOnce
  <2>2. CASE EndMirror
    <3>1. mirror' = << >> /\ db' = db
      BY <2>2 DEF EndMirror
    <3>2. Mirrored' = {} /\ EntriesOnce'
      BY <3>1, EmptySeq DEF Mirrored, EntriesOnce
    <3> QED
      BY <3>1, <3>2 DEF Stored, RowsOnce
  <2> QED
    BY <2>1, <2>2
<1>4. \A x \in Prompts : fate'[x] = fate[x] \/ (fate[x] = "queued" /\ fate'[x] = "dropped")
  BY DEF EndClear, EndMirror, IInv, Owner, RowsQueued
<1>5. NotShown' /\ NewId' /\ OwnId' /\ OldIds'
  BY <1>1, <1>2, <1>3 DEF Ids, NotShown, NewId, OwnId, OldIds
<1>6. LateSeen'
  BY <1>1, <1>2, <1>4, MirrorFacts DEF Ids, LateSeen, Late, Parked
<1>7. ShownFate'
  BY <1>3, <1>4, MirrorFacts DEF Ids, ShownFate
<1>8. SameId' /\ TakenId'
  BY <1>1, <1>2, <1>3 DEF Ids, SameId, TakenId
<1>9. Committed'
  <2>1. \A p \in Procs : pc[p] = "mirror" => Prompt(p) \in Prompts
    BY MirrorFacts DEF Parked
  <2> QED
    BY <1>1, <1>2, <1>3, <1>4, <2>1 DEF Ids, Committed
<1>10. Deleted' /\ EditedRow'
  BY <1>1, <1>2, <1>3 DEF Ids, Deleted, EditedRow
<1>11. Explained'
  BY <1>1 DEF Explained
<1>12. EditsKept'
  BY <1>1, <1>2, <1>3, <1>4 DEF EditsKept
<1> QED
  BY <1>3, <1>5, <1>6, <1>7, <1>8, <1>9, <1>10, <1>11, <1>12 DEF Ids

(* A crash empties the mirror and stops every task, a restart reads the rows. *)
LEMMA RestartMirror ==
    ASSUME IInv, MirrorInv, Crash \/ Restart
    PROVE  MirrorInv'
<1> USE DEF MirrorInv
<1>1. db' = db /\ replies' = replies /\ Stored' = Stored /\ RowsOnce'
  BY DEF Crash, Restart, Stored, RowsOnce
<1>2. \A p \in Procs : pc'[p] = "idle"
  BY DEF Crash, Restart, IInv, DownIdle
<1>3. EntriesOnce' /\ (Mirrored' = {} \/ Mirrored' = Stored) /\ (Up' => Mirrored' = Stored)
  <2>1. CASE Crash
    <3>1. mirror' = << >> /\ ~ Up'
      BY <2>1 DEF Crash, Up
    <3> QED
      BY <3>1, EmptySeq DEF Mirrored, EntriesOnce
  <2>2. CASE Restart
    <3>1. mirror' \in ByPosition(db)
      BY <2>2 DEF Restart
    <3> QED
      BY <3>1, ReloadTexts DEF IInv, TypeOK
  <2> QED
    BY <2>1, <2>2
<1>4. \A x \in Prompts : \/ fate'[x] = fate[x]
                         \/ fate[x] # "queued" /\ fate'[x] \in {"lost", "aborted"}
  BY DEF Crash, Restart, AfterCrash
<1>5. \A u \in Stored : fate[u[1][1]] = "queued" /\ u[1][1] \in Prompts
  BY MirrorFacts
<1>6. Drainer \in Procs
  BY DEF Procs
<1>7. \A t, u \in Stored : t[1][1] = u[1][1] => t = u
  BY DEF Stored, RowsOnce
<1>8. Ids'
  <2>1. NotShown' /\ NewId' /\ OwnId' /\ OldIds' /\ LateSeen'
    BY <1>2, <1>6 DEF NotShown, NewId, OwnId, OldIds, LateSeen, Holding, Entering, Late
  <2>2. ShownFate' /\ SameId'
    BY <1>1, <1>3, <1>4, <1>5, <1>7 DEF ShownFate, SameId
  <2>3. TakenId' /\ Committed' /\ Deleted' /\ EditedRow'
    BY <1>2, <1>6 DEF TakenId, Committed, Deleted, EditedRow
  <2> QED
    BY <2>1, <2>2, <2>3 DEF Ids
<1>9. Explained'
  BY <1>1, <1>2, <1>3, <1>7 DEF Explained, RowsExplained, EntriesExplained, TextsExplained, CommitStands
<1>10. EditsKept'
  BY <1>1, <1>2, <1>3, <1>4 DEF EditsKept, Holding
<1> QED
  BY <1>1, <1>3, <1>8, <1>9, <1>10

LEMMA InitMirror == Init => MirrorInv
<1> SUFFICES ASSUME Init PROVE MirrorInv
  OBVIOUS
<1>1. /\ db = {} /\ mirror = << >> /\ pc = [p \in Procs |-> "idle"] /\ replies = {} /\ Drainer \in Procs
  BY DEF Init, Procs
<1>2. Mirrored = {} /\ Stored = {} /\ EntriesOnce
  BY <1>1, EmptySeq DEF Mirrored, Stored, EntriesOnce
<1>3. \A p \in Procs : pc[p] = "idle"
  BY <1>1
<1>4. Ids
  BY <1>1, <1>2, <1>3 DEF Ids, NotShown, NewId, OwnId, OldIds, LateSeen, ShownFate, SameId, TakenId, Committed,
     Deleted, EditedRow, Holding, Entering, Late
<1> QED
  BY <1>1, <1>2, <1>3, <1>4 DEF MirrorInv, RowsOnce, Explained, RowsExplained, EntriesExplained, TextsExplained,
     CommitStands, EditsKept

LEMMA NextMirror == IInv /\ IInv' /\ MirrorInv /\ [Next]_vars => MirrorInv'
<1> SUFFICES ASSUME IInv, IInv', MirrorInv, [Next]_vars PROVE MirrorInv'
  OBVIOUS
<1> USE DEF Procs
<1>1. CASE UNCHANGED vars
  BY <1>1, QuietMirror DEF vars, Up
<1>2. CASE \E s \in Senders, x \in Prompts : Send(s, x) \/ Wake(s, x)
  BY <1>2, SubmitMirror DEF Send, Wake
<1>3. ASSUME NEW p \in Procs, Enqueue(p) PROVE MirrorInv'
  <2>1. CASE EnqueuePrepare(p)
    <3>1. /\ mirror' = mirror /\ db' = db /\ replies' = replies /\ fate' = fate /\ Up' = Up
          /\ pc[p] = "prepare" /\ pc'[p] = "insert" /\ Others(p)
      BY <2>1 DEF EnqueuePrepare, life, Up, Goto, Work, Others, Prompt, IInv, TypeOK
    <3>2. job[p] \in Rows /\ job'[p] = [job[p] EXCEPT !.pos = NextPosition]
      BY <2>1, <3>1 DEF EnqueuePrepare, Work, IInv, TypeOK, Owner, JobsSet
    <3>3. job'[p].msg = job[p].msg /\ job'[p].edited = job[p].edited /\ Prompt(p)' = Prompt(p)
      BY <3>2 DEF Rows, Prompt
    <3> QED
      BY <3>1, <3>3, EnteringMirror
  <2>2. CASE ResumeAfterEnqueue(p)
    <3>1. \A q \in Procs : \/ pc'[q] = pc[q] /\ job'[q] = job[q]
                           \/ pc'[q] \in Parked /\ pc[q] \in Parked
      BY <2>2 DEF ResumeAfterEnqueue, ResumeSession, Scheduled, Return, Parked, IInv, TypeOK
    <3> QED
      BY <2>2, <3>1, QuietMirror DEF ResumeAfterEnqueue, ResumeSession, Up, Parked
  <2> QED
    BY <1>3, <2>1, <2>2, EnqueueCommitMirror, EnqueueMirrorMirror DEF Enqueue
<1>4. ASSUME NEW p \in Procs, Offer(p) PROVE MirrorInv'
  <2>1. pc[p] = "offer" /\ job[p] \in Rows /\ Prompt(p) \in Prompts /\ fate[Prompt(p)] \in {"offered", "claimed"}
        /\ \A t \in Mirrored : t[1][1] # Prompt(p)
    BY <1>4, MirrorFacts DEF Offer, OfferPaused, OfferBusy, OfferRun, OfferEnded, OfferFails, Parked, Holding,
       MirrorInv, Ids, NotShown
  <2>2. CASE OfferPaused(p) \/ OfferBusy(p)
    <3>1. /\ mirror' = mirror /\ db' = db /\ replies' = replies /\ fate' = fate /\ Up' = Up
          /\ pc'[p] = "prepare" /\ Others(p)
      BY <2>2 DEF OfferPaused, OfferBusy, life, Up, Goto, Work, Others, Prompt, IInv, TypeOK
    <3>2. CASE p # Drainer
      BY <2>1, <2>2, <3>1, <3>2, EnteringMirror DEF OfferPaused, OfferBusy, Prompt
    <3>3. CASE p = Drainer
      <4>1. job'[p] = [job[p] EXCEPT !.msg[2] = @ + 1]
        BY <2>2, <3>3 DEF OfferPaused, OfferBusy, Work, IInv, TypeOK
      <4>2. job'[p].msg[2] = job[p].msg[2] + 1 /\ job'[p].msg[1] = job[p].msg[1] /\ job'[p].edited = job[p].edited
        BY <2>1, <4>1 DEF Rows, Msgs
      <4> QED
        BY <2>1, <3>1, <3>3, <4>2, EnteringMirror DEF Prompt
    <3> QED
      BY <3>2, <3>3
  <2>3. CASE OfferRun(p) \/ OfferEnded(p) \/ OfferFails(p)
    <3>1. PICK f \in {"delivered", "misrouted", "failed"} : fate' = [fate EXCEPT ![Prompt(p)] = f]
      BY <2>3 DEF OfferRun, HandOver, OfferEnded, OfferFails, Settle
    <3>2. \A x \in Prompts : \/ fate'[x] = fate[x]
                             \/ /\ fate[x] \in {"offered", "claimed"}
                                /\ fate'[x] \in {"delivered", "misrouted", "failed"}
                                /\ \A t \in Mirrored : t[1][1] # x
      BY <2>1, <3>1 DEF IInv, TypeOK
    <3>3. mirror' = mirror /\ db' = db /\ replies' = replies /\ Up' = Up
      BY <2>3 DEF OfferRun, HandOver, OfferEnded, OfferFails, life, Up
    <3>4. \A q \in Procs : \/ pc'[q] = pc[q] /\ job'[q] = job[q]
                           \/ q = p /\ pc'[q] \in Parked
      BY <2>3 DEF OfferRun, HandOver, OfferEnded, OfferFails, FinishDrain, Goto, Work, Return, Parked, IInv, TypeOK
    <3> QED
      BY <2>1, <3>2, <3>3, <3>4, QuietMirror
  <2> QED
    BY <1>4, <2>2, <2>3 DEF Offer
<1>5. ASSUME NEW s \in Senders, Store(s) PROVE MirrorInv'
  <2>1. CASE CancelAsk(s) \/ EditAsk(s)
    <3>1. PICK i \in 1 .. Len(mirror) : Work(s, mirror[i])
      BY <2>1 DEF CancelAsk, EditAsk, Ask
    <3>2. /\ mirror' = mirror /\ db' = db /\ replies' = replies /\ fate' = fate /\ Up' = Up
          /\ pc[s] = "idle" /\ pc'[s] \in {"cancelDelete", "editUpdate"} /\ job'[s] = mirror[i] /\ Others(s)
      BY <2>1, <3>1 DEF CancelAsk, EditAsk, Ask, life, Up, Goto, Work, Others, Prompt, IInv, TypeOK
    <3> QED
      BY <3>2, ShownMirror
  <2>2. CASE StoreMiss(s)
    <3>1. \A q \in Procs : \/ pc'[q] = pc[q] /\ job'[q] = job[q]
                           \/ pc'[q] \in Parked /\ pc[q] \in {"cancelDelete", "editUpdate"}
      BY <2>2 DEF StoreMiss, Goto, Work, Parked, IInv, TypeOK
    <3> QED
      BY <2>2, <3>1, QuietMirror DEF StoreMiss, life, Up
  <2>3. CASE CancelCommit(s)
    <3>1. /\ mirror' = mirror /\ job' = job /\ replies' = replies /\ Up' = Up /\ Others(s)
          /\ pc[s] = "cancelDelete" /\ pc'[s] = "cancelMirror"
          /\ HasRow(job[s].msg) /\ DeleteRow(job[s].msg) /\ fate' = [fate EXCEPT ![Prompt(s)] = "cancelled"]
      BY <2>3 DEF CancelCommit, Settle, life, Up, Goto, Others, Prompt, IInv, TypeOK
    <3> QED
      BY <3>1, DeleteMirror
  <2>4. CASE CancelMirror(s)
    <3>1. /\ MirrorRemove(job[s].msg) /\ db' = db /\ Up' = Up /\ Others(s) /\ fate' = fate
          /\ pc[s] = "cancelMirror" /\ pc'[s] = "idle"
      BY <2>4 DEF CancelMirror, life, Up, Goto, Work, Others, Prompt, IInv, TypeOK
    <3>2. replies' \subseteq replies \cup (Prompts \X {"cancelled"})
      BY <2>4, <3>1, MirrorFacts DEF CancelMirror, Reply, Parked
    <3> QED
      BY <3>1, <3>2, RemoveMirror
  <2> QED
    BY <1>5, <2>1, <2>2, <2>3, <2>4, EditCommitMirror, EditMirrorMirror DEF Store
<1>6. CASE Drain
  <2>1. CASE DrainLoop /\ ~ FinishDrain
    <3>1. /\ mirror' = mirror /\ db' = db /\ replies' = replies /\ fate' = fate /\ Up' = Up /\ mirror # << >>
          /\ pc[Drainer] = "loop" /\ pc'[Drainer] = "delete" /\ job'[Drainer] = Head(mirror) /\ Others(Drainer)
      BY <2>1 DEF DrainLoop, Up, Goto, Work, Others, Prompt, IInv, TypeOK
    <3>2. Head(mirror) = mirror[1] /\ 1 \in 1 .. Len(mirror)
      BY <3>1, EmptySeq DEF IInv, TypeOK
    <3> QED
      BY <3>1, <3>2, ShownMirror
  <2>2. CASE (DrainLoop \/ DrainMiss) /\ FinishDrain
    <3>1. \A q \in Procs : \/ pc'[q] = pc[q] /\ job'[q] = job[q]
                           \/ pc'[q] \in Parked /\ pc[q] \in {"loop", "delete"}
      BY <2>2 DEF DrainLoop, DrainMiss, FinishDrain, Goto, Work, Parked, IInv, TypeOK
    <3> QED
      BY <2>2, <3>1, QuietMirror DEF DrainLoop, DrainMiss, Up
  <2>3. CASE DrainClaim
    <3>1. /\ mirror' = mirror /\ job' = job /\ replies' = replies /\ Up' = Up /\ Others(Drainer)
          /\ pc[Drainer] = "delete" /\ pc'[Drainer] = "take"
          /\ HasRow(job[Drainer].msg) /\ DeleteRow(job[Drainer].msg)
          /\ fate' = [fate EXCEPT ![Prompt(Drainer)] = "claimed"]
      BY <2>3 DEF DrainClaim, Settle, life, Up, Goto, Others, Prompt, IInv, TypeOK
    <3> QED
      BY <3>1, DeleteMirror
  <2>4. CASE DrainTake
    <3>1. /\ MirrorRemove(job[Drainer].msg) /\ db' = db /\ Up' = Up /\ replies' = replies /\ pc[Drainer] = "take"
      BY <2>4 DEF DrainTake, Up
    <3>2. CASE MirrorHas(job[Drainer].msg)
      <4>1. /\ Others(Drainer) /\ fate' = fate /\ pc'[Drainer] = "offer"
            /\ job'[Drainer] = mirror[MirrorAt(job[Drainer].msg)]
        BY <2>4, <3>2 DEF DrainTake, Goto, Work, Others, Prompt, IInv, TypeOK
      <4> QED
        BY <3>1, <3>2, <4>1, RemoveMirror
    <3>3. CASE ~ MirrorHas(job[Drainer].msg)
      <4>1. /\ Others(Drainer) /\ fate' = [fate EXCEPT ![Prompt(Drainer)] = "dropped"] /\ pc'[Drainer] = "finished"
        BY <2>4, <3>3 DEF DrainTake, FinishDrain, Settle, Goto, Work, Others, Prompt, IInv, TypeOK
      <4> QED
        BY <3>1, <4>1, RemoveMirror
    <3> QED
      BY <3>2, <3>3
  <2>5. CASE DrainGone
    <3>1. pc[Drainer] = "finished"
      <4>1. Head(soon) = soon[1] /\ 1 \in 1 .. Len(soon)
        BY <2>5, EmptySeq DEF DrainGone, IInv, TypeOK
      <4> QED
        BY <2>5, <4>1 DEF DrainGone, IInv, Owner, SlotOnce
    <3>2. \A q \in Procs : \/ pc'[q] = pc[q] /\ job'[q] = job[q]
                           \/ pc'[q] \in Parked /\ pc[q] = "finished"
      BY <2>5, <3>1 DEF DrainGone, Goto, Parked, IInv, TypeOK
    <3> QED
      BY <2>5, <3>2, QuietMirror DEF DrainGone, Up
  <2> QED
    BY <1>6, <2>1, <2>2, <2>3, <2>4, <2>5 DEF Drain, DrainMiss
<1>7. CASE Turn \/ PauseBegin \/ PauseTeardown \/ PauseFinish \/ Resume \/ EndBegin \/ EndComplete
  <2>1. UNCHANGED <<db, mirror, fate, replies, job>> /\ (Up' => Up)
    BY <1>7 DEF Turn, TurnEnd, TurnHook, TurnExit, TurnRaises, TurnCompletes, PauseBegin, PauseTeardown,
       PauseFinish, Resume, ResumeSession, EndBegin, EndComplete, Up
  <2>2. pc' = pc \/ \E st : pc' = Scheduled(pc, st)
    BY <1>7 DEF Turn, TurnEnd, TurnHook, TurnExit, TurnRaises, TurnCompletes, PauseBegin, PauseTeardown,
       PauseFinish, Resume, ResumeSession, EndBegin, EndComplete
  <2>3. \A q \in Procs : pc'[q] = pc[q] \/ (pc'[q] \in Parked /\ pc[q] = "idle")
    BY <2>1, <2>2, ScheduledKeeps DEF Parked, IInv, TypeOK
  <2> QED
    BY <2>1, <2>3, QuietMirror
<1>8. CASE Lifecycle
  BY <1>7, <1>8, EndMirrorMirror DEF Lifecycle
<1> QED
  BY <1>1, <1>2, <1>3, <1>4, <1>5, <1>6, <1>7, <1>8, RestartMirror DEF Next

(* Whatever races with the store operations, a difference between the table   *)
(* and the mirror has a task on its way to settle it.                        *)
THEOREM MirrorInvariance == Spec => [](IInv /\ MirrorInv)
<1>1. Init => IInv /\ MirrorInv
  BY InitIInv, InitMirror
<1>2. IInv /\ MirrorInv /\ [Next]_vars => (IInv /\ MirrorInv)'
  BY NextIInv, NextMirror
<1> QED
  BY <1>1, <1>2, PTL DEF Spec

(* Between the operations the mirror of a live session and the table hold the *)
(* same messages with the same texts, whatever interleaved before.           *)
THEOREM MirrorIsFaithful == Spec => []MirrorFaithful
<1>1. IInv /\ MirrorInv => MirrorFaithful
  <2> SUFFICES ASSUME IInv, MirrorInv, Up, ~ Between
               PROVE  Mirrored = Stored /\ Len(mirror) = Cardinality(db)
    BY DEF MirrorFaithful, Mirrored, Stored
  <2>1. \A p \in Procs : pc[p] \notin {"mirror", "take", "cancelMirror", "editMirror"}
    BY DEF Between
  <2>2. \A u \in Stored : \E t \in Mirrored : t[1] = u[1]
    BY <2>1 DEF MirrorInv, Explained, RowsExplained
  <2>3. \A t \in Mirrored : \E u \in Stored : u[1] = t[1]
    BY <2>1 DEF MirrorInv, Explained, EntriesExplained
  <2>4. \A t \in Mirrored, u \in Stored : t[1] = u[1] => t = u
    BY <2>1 DEF MirrorInv, Explained, TextsExplained
  <2>5. Mirrored = Stored
    BY <2>2, <2>3, <2>4
  <2>6. Len(mirror) = Cardinality(db)
    <3> DEFINE n == Len(mirror)
               f == [i \in 1 .. n |-> CHOOSE r \in db : r.msg = mirror[i].msg]
    <3>1. n \in Nat
      BY LenProperties DEF IInv, TypeOK
    <3>2. ASSUME NEW i \in 1 .. n PROVE f[i] \in db /\ f[i].msg = mirror[i].msg
      <4>1. <<mirror[i].msg, mirror[i].edited>> \in Stored
        BY <2>5 DEF Mirrored
      <4>2. \E r \in db : r.msg = mirror[i].msg
        BY <4>1 DEF Stored
      <4> QED
        BY <4>2
    <3>3. ASSUME NEW r \in db PROVE \E i \in 1 .. n : mirror[i].msg = r.msg
      <4>1. <<r.msg, r.edited>> \in Mirrored
        BY <2>5 DEF Stored
      <4> QED
        BY <4>1 DEF Mirrored
    <3>4. f \in [1 .. n -> db]
      BY <3>2
    <3> HIDE DEF f, n
    <3>5. \A i, j \in 1 .. n : f[i] = f[j] => i = j
      BY <3>2 DEF MirrorInv, EntriesOnce, n
    <3>6. \A r \in db : \E i \in 1 .. n : f[i] = r
      BY <3>2, <3>3 DEF MirrorInv, RowsOnce
    <3>7. f \in Bijection(1 .. n, db)
      BY <3>4, <3>5, <3>6 DEF Bijection, Injection, IsInjective, Surjection
    <3>8. IsFiniteSet(1 .. n) /\ Cardinality(1 .. n) = n
      BY <3>1, FS_Interval
    <3>9. Cardinality(1 .. n) = Cardinality(db)
      <4>1. ExistsBijection(1 .. n, db)
        BY <3>7 DEF ExistsBijection
      <4> QED
        BY <3>8, <4>1, FS_Bijection
    <3> QED
      BY <3>8, <3>9 DEF n
  <2> QED
    BY <2>5, <2>6
<1> QED
  BY <1>1, MirrorInvariance, PTL

(* After an acknowledged edit only the new text runs, and an edit or cancel   *)
(* is acknowledged only before the prompt runs.                              *)
THEOREM EditIsHonoured == Spec => EditHonoured
<1>1. ASSUME IInv, MirrorInv, NEW p \in Procs, OfferRun(p), <<Prompt(p), "edited">> \in replies
      PROVE  job[p].edited
  BY <1>1, MirrorFacts DEF OfferRun, MirrorInv, EditsKept, Holding, Parked
<1>2. ASSUME IInv, MirrorInv, Next, NEW r \in replies' \ replies PROVE runs[r[1]] = 0
  <2>1. PICK s \in Senders : CancelMirror(s) \/ EditMirror(s)
    BY <1>2 DEF Next, Send, Wake, Submit, Enqueue, EnqueuePrepare, EnqueueCommit, EnqueueMirror, ResumeAfterEnqueue,
       Offer, OfferPaused, OfferBusy, OfferRun, HandOver, OfferEnded, OfferFails, Store, CancelAsk, EditAsk, Ask,
       StoreMiss, CancelCommit, EditCommit, Drain, DrainLoop, DrainClaim, DrainMiss, DrainTake, DrainGone,
       Turn, TurnEnd, TurnHook, TurnExit, TurnRaises, TurnCompletes, Lifecycle, PauseBegin, PauseTeardown,
       PauseFinish, Resume, EndBegin, EndComplete, EndClear, EndMirror, Crash, Restart
  <2>2. MirrorHas(job[s].msg) /\ r[1] = Prompt(s)
    BY <1>2, <2>1 DEF CancelMirror, EditMirror, Reply
  <2>3. PICK i \in 1 .. Len(mirror) : mirror[i].msg = job[s].msg
    BY <2>2 DEF MirrorHas
  <2>4. <<mirror[i].msg, mirror[i].edited>> \in Mirrored /\ mirror[i].msg[1] = Prompt(s)
    BY <2>3 DEF Mirrored, Prompt
  <2>5. Prompt(s) \in Prompts /\ fate[Prompt(s)] \in {"queued", "cancelled", "dropped", "claimed"}
    BY <1>2, <2>4, MirrorFacts DEF MirrorInv, Ids, ShownFate
  <2> QED
    BY <1>2, <2>2, <2>5 DEF IInv, Owner, RunsCounted
<1>3. IInv /\ MirrorInv /\ [Next]_vars =>
         [/\ \A p \in Procs : OfferRun(p) /\ <<Prompt(p), "edited">> \in replies => job[p].edited
          /\ \A r \in replies' \ replies : runs[r[1]] = 0]_vars
  BY <1>1, <1>2
<1> QED
  BY <1>3, MirrorInvariance, PTL DEF Spec, EditHonoured
=============================================================================
