------------------------- MODULE MCStreamLifecycle -------------------------
(* Small instances of StreamLifecycle: two approvals of one thread, or a   *)
(* chat, over a buffer of one chunk.  A chat shares no state with the      *)
(* approvals of another thread but the bounds on faults, so the two are    *)
(* explored in behaviours of their own.                                    *)
EXTENDS StreamLifecycle

CONSTANTS chat, a1, a2      \* streams

MCStreams == {chat, a1, a2}

MCResume == {a1, a2}

(* A resumed turn: approval, a token, responder.  Longer than the buffer.  *)
ResumeTurn == <<"node", "token", "node">>

(* A chat that pauses, one with a planner message, and one without chunks. *)
ChatTurns == {<<"delta", "node", "interrupt">>, <<"node", "token">>, <<>>}

MCTurns == [s \in Streams |-> IF s \in Resume THEN {ResumeTurn} ELSE ChatTurns]

ChatAlone == http[chat] = "idle" \/ \A s \in Resume : http[s] = "idle"

MCNext == Next /\ ChatAlone'

MCSpec == Init /\ [][MCNext]_vars /\ Fairness
=============================================================================
