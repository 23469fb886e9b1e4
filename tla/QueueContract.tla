---------------------------- MODULE QueueContract ---------------------------
(***************************************************************************)
(* What the pending-message queue of a session promises for each prompt,    *)
(* with none of its machinery: a prompt is accepted into the queue or goes  *)
(* straight to an agent, and it leaves exactly once - to an agent, by its   *)
(* user's cancel, or given up with the session or the worker.               *)
(***************************************************************************)
EXTENDS Naturals

CONSTANT Prompts

VARIABLES place,   \* where each prompt is
          runs     \* how often it was handed to an agent

Places == {"out", "waiting", "given", "withdrawn", "gone"}

ContractType == place \in [Prompts -> Places] /\ runs \in [Prompts -> Nat]

Init ==
    /\ place = [x \in Prompts |-> "out"]
    /\ runs = [x \in Prompts |-> 0]

Move(x, from, to) == place[x] \in from /\ place' = [place EXCEPT ![x] = to]

Accept(x) == Move(x, {"out"}, "waiting") /\ UNCHANGED runs

Give(x) ==
    /\ Move(x, {"out", "waiting"}, "given")
    /\ runs' = [runs EXCEPT ![x] = @ + 1]

(* Only what waits in the queue can be cancelled. *)
Withdraw(x) == Move(x, {"waiting"}, "withdrawn") /\ UNCHANGED runs

(* The session's end drops several prompts in one step. *)
GiveUp(X) ==
    /\ \A x \in X : place[x] \in {"out", "waiting"}
    /\ place' = [x \in Prompts |-> IF x \in X THEN "gone" ELSE place[x]]
    /\ UNCHANGED runs

Next ==
    \/ \E x \in Prompts : Accept(x) \/ Give(x) \/ Withdraw(x)
    \/ \E X \in SUBSET Prompts : GiveUp(X)

Spec == Init /\ [][Next]_<<place, runs>>

(* The contract itself never runs a prompt twice. *)
GivenOnce == \A x \in Prompts : runs[x] = IF place[x] = "given" THEN 1 ELSE 0
=============================================================================
