---------------------------- MODULE ApprovalGate ----------------------------
(***************************************************************************)
(* What the agent promises about actions with side effects: an action is   *)
(* performed only after it was proposed on record and, if it is gated,     *)
(* approved by the owner of the thread.  Nothing is ever un-performed or   *)
(* un-approved.                                                            *)
(***************************************************************************)
CONSTANTS Actions,   \* everything the agent may do
          Gated      \* the actions that need a human's approval

VARIABLE stage       \* how far each action has come

Init == stage = [a \in Actions |-> "unknown"]

Propose(a) ==
    /\ stage[a] = "unknown"
    /\ stage' = [stage EXCEPT ![a] = "proposed"]

Approve(a) ==
    /\ a \in Gated
    /\ stage[a] = "proposed"
    /\ stage' = [stage EXCEPT ![a] = "approved"]

Perform(a) ==
    /\ stage[a] = (IF a \in Gated THEN "approved" ELSE "proposed")
    /\ stage' = [stage EXCEPT ![a] = "performed"]

Next == \E a \in Actions : Propose(a) \/ Approve(a) \/ Perform(a)

Spec == Init /\ [][Next]_stage
=============================================================================
