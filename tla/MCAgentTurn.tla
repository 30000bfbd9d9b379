---------------------------- MODULE MCAgentTurn ----------------------------
(* Small instances of AgentTurn: one read action, two gated sends.         *)
EXTENDS AgentTurn, TLC

CONSTANTS read, send1, send2,      \* actions
          q1, q2,                  \* approval requests
          w1, w2,                  \* worker processes
          alice, mallory           \* principals; alice may own the thread

MCRequests == {q1, q2}
MCUsers    == {alice, mallory, Anonymous}
MCActions  == {read, send1, send2}
MCGated    == {send1, send2}

(* No action at all, a read only, and a turn that mixes a read and sends.  *)
MCPlans    == {<<>>, <<read>>, <<read, send1, send2>>}

Blanket(yes)  == [blanket |-> TRUE, approve |-> yes, approved_ids |-> <<>>, rejected_ids |-> <<>>]
Listed(as, rs) == [blanket |-> FALSE, approve |-> FALSE, approved_ids |-> as, rejected_ids |-> rs]

(* A blanket yes, and a granular answer that also names an action that is  *)
(* not gated and leaves another undecided.                                 *)
MCBodies == {Blanket(TRUE), Listed(<<send1, read>>, <<>>)}

MCGrants == {Actions, {read, send1}}

OneWorker  == [r \in Runs |-> w1]
TwoWorkers == [r \in Runs |-> IF r = q2 THEN w2 ELSE w1]

AllRegistered == [w \in Workers |-> Actions]

(* Fault runs: one owner, a turn of two actions, every action granted.     *)
OneUser    == {alice}
ShortPlans == {<<read, send1>>}
AllGranted == {Actions}
ShortBodies == {Blanket(TRUE), Listed(<<>>, <<send1>>)}
TwoActions == {read, send1}
OneGated   == {send1}

UserSymmetry == Permutations({alice, mallory})
=============================================================================
