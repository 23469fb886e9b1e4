--------------------------- MODULE SessionContract --------------------------
(***************************************************************************)
(* What a session promises to those outside it, with none of its calls,    *)
(* tasks, gates and agents: it is open or paused until it is over, and is  *)
(* over for good; only then are its clients told that it has ended, and    *)
(* only then is it handed to the archive, which refuses one that is not    *)
(* over and is not asked again.                                            *)
(***************************************************************************)

VARIABLES stands,      \* where the session stands
          announced,   \* its clients were told that it has ended
          archived     \* it was handed to the archive

Standings == {"open", "paused", "over"}

Init == stands = "open" /\ announced = FALSE /\ archived = FALSE

Pause == stands = "open" /\ stands' = "paused" /\ UNCHANGED <<announced, archived>>
Resume == stands = "paused" /\ stands' = "open" /\ UNCHANGED <<announced, archived>>

(* The end may be announced, and the session handed over, with it or later;   *)
(* one that fails is not announced.                                           *)
End ==
    /\ stands # "over" /\ stands' = "over"
    /\ announced' \in BOOLEAN /\ archived' \in BOOLEAN

(* Calls that overlap announce the end and hand the session over once more.   *)
Announce == stands = "over" /\ announced' = TRUE /\ UNCHANGED <<stands, archived>>
HandOver ==
    /\ stands = "over" /\ archived' = TRUE
    /\ announced' \in {announced, TRUE}
    /\ UNCHANGED stands

Next == Pause \/ Resume \/ End \/ Announce \/ HandOver

Spec == Init /\ [][Next]_<<stands, announced, archived>>

(* Nothing is announced or handed over too early.                             *)
OnlyWhenOver == announced \/ archived => stands = "over"
=============================================================================
