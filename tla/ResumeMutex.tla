---------------------------- MODULE ResumeMutex ----------------------------
(***************************************************************************)
(* What the per-thread resume lock promises to /approve and                *)
(* /approve/stream: a conversation thread is resumed by at most one        *)
(* request at a time, and only the request that holds a thread gives it    *)
(* back.  Each request resumes at most once.                               *)
(***************************************************************************)
CONSTANTS Requests,   \* approval requests served by one process
          Threads,    \* conversation threads
          NoRequest   \* "nobody holds this thread"

VARIABLES holder,     \* holder[t]: the request resuming t, or NoRequest
          finished    \* the requests that gave their thread back

vars == <<holder, finished>>

Init == /\ holder = [t \in Threads |-> NoRequest]
        /\ finished = {}

(* A request takes a thread nobody is resuming. *)
Acquire(r, t) ==
    /\ holder[t] = NoRequest
    /\ r \notin finished
    /\ \A u \in Threads : holder[u] # r
    /\ holder' = [holder EXCEPT ![t] = r]
    /\ UNCHANGED finished

(* The request resuming a thread gives it back, for good. *)
Release(r, t) ==
    /\ holder[t] = r
    /\ holder' = [holder EXCEPT ![t] = NoRequest]
    /\ finished' = finished \union {r}

Next == \E r \in Requests, t \in Threads : Acquire(r, t) \/ Release(r, t)

Spec == Init /\ [][Next]_vars
=============================================================================
