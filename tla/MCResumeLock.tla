---------------------------- MODULE MCResumeLock ----------------------------
(* Model values for checking ResumeLock with TLC. *)
EXTENDS ResumeLock

CONSTANTS r1, r2, r3, t1, t2, p1, p2

MCRequests == {r1, r2, r3}
MCThreads  == {t1, t2}
MCPaths    == {p1, p2}
=============================================================================
