----------------------------- MODULE ResumeLock -----------------------------
(***************************************************************************)
(* The refcounted per-thread lock map of interface/resume_lock.py, inside  *)
(* one Python process.                                                     *)
(*                                                                         *)
(* A request runs acquire_resume_lock once and gets a ResumeLease.         *)
(* release() is then called from several cleanup paths (the graph stream   *)
(* producer, the response generator, the response's background task), on   *)
(* different OS threads and in any order; each path calls it once.         *)
(*                                                                         *)
(* A section under "with _entries_guard" or "with _release_guard" never    *)
(* blocks inside, so each is one atomic step; Lock.acquire and             *)
(* Lock.release are one step each.  A _LockEntry object is named by the    *)
(* request that created it: a request creates at most one.                 *)
(***************************************************************************)
EXTENDS Integers, FiniteSets

CONSTANTS Requests,   \* approval requests handled by this process
          Threads,    \* conversation threads
          Paths,      \* cleanup paths that call release() on one lease
          NoEntry,    \* the absence of a _LockEntry
          NoThread    \* a request that has not arrived

ASSUME RequestsFinite == IsFiniteSet(Requests)
ASSUME NoEntryFresh   == NoEntry \notin Requests
ASSUME NoThreadFresh  == NoThread \notin Threads

VARIABLES entries,    \* _entries: thread -> entry, NoEntry when absent
          refs,       \* entry.refs
          locked,     \* entry.lock.locked()
          pc,         \* progress of a request through acquire_resume_lock
          thread,     \* the thread a request resumes
          entry,      \* the entry a request, then its lease, points to
          released,   \* lease._released
          path        \* progress of each cleanup path through release()

vars == <<entries, refs, locked, pc, thread, entry, released, path>>

Init ==
    /\ entries  = [t \in Threads |-> NoEntry]
    /\ refs     = [e \in Requests |-> 0]
    /\ locked   = [e \in Requests |-> FALSE]
    /\ pc       = [r \in Requests |-> "idle"]
    /\ thread   = [r \in Requests |-> NoThread]
    /\ entry    = [r \in Requests |-> NoEntry]
    /\ released = [r \in Requests |-> FALSE]
    /\ path     = [r \in Requests |-> [p \in Paths |-> "ready"]]

-----------------------------------------------------------------------------
(* acquire_resume_lock                                                     *)

(* Under _entries_guard: find or create the thread's entry, count this     *)
(* request in, and only then go and block on the entry's lock.             *)
EntryFor(r, t) == IF entries[t] = NoEntry THEN r ELSE entries[t]

Register(r, t) ==
    /\ pc[r] = "idle"
    /\ entries' = [entries EXCEPT ![t] = EntryFor(r, t)]
    /\ refs'    = [refs EXCEPT ![EntryFor(r, t)] = @ + 1]
    /\ entry'   = [entry EXCEPT ![r] = EntryFor(r, t)]
    /\ thread'  = [thread EXCEPT ![r] = t]
    /\ pc'      = [pc EXCEPT ![r] = "waiting"]
    /\ UNCHANGED <<locked, released, path>>

(* entry.lock.acquire() returns and the lease is made. *)
Lock(r) ==
    /\ pc[r] = "waiting"
    /\ ~locked[entry[r]]
    /\ locked' = [locked EXCEPT ![entry[r]] = TRUE]
    /\ pc'     = [pc EXCEPT ![r] = "leased"]
    /\ UNCHANGED <<entries, refs, thread, entry, released, path>>

-----------------------------------------------------------------------------
(* ResumeLease.release, called by cleanup path p of request r's lease      *)

(* Fault: release() guarded by lock.locked() instead of a flag of its own. *)
ClaimReleaseIfLocked(r, p) ==
    /\ pc[r] = "leased"
    /\ path[r][p] = "ready"
    /\ released' = [released EXCEPT ![r] = TRUE]
    /\ path'     = [path EXCEPT ![r][p] = IF locked[entry[r]] THEN "unlock" ELSE "returned"]
    /\ UNCHANGED <<entries, refs, locked, pc, thread, entry>>

(* Under _release_guard: the first call claims the release, a later one    *)
(* returns.                                                                *)
ClaimRelease(r, p) ==
    /\ pc[r] = "leased"
    /\ path[r][p] = "ready"
    /\ released' = [released EXCEPT ![r] = TRUE]
    /\ path'     = [path EXCEPT ![r][p] = IF released[r] THEN "returned" ELSE "unlock"]
    /\ UNCHANGED <<entries, refs, locked, pc, thread, entry>>

(* Fault: the lock itself is never released. *)
UnlockForgotten(r, p) ==
    /\ path[r][p] = "unlock"
    /\ path'   = [path EXCEPT ![r][p] = "drop"]
    /\ UNCHANGED <<entries, refs, locked, pc, thread, entry, released>>

(* self._entry.lock.release(): threading.Lock has no owner, so this frees  *)
(* the lock whoever holds it.                                              *)
Unlock(r, p) ==
    /\ path[r][p] = "unlock"
    /\ locked' = [locked EXCEPT ![entry[r]] = FALSE]
    /\ path'   = [path EXCEPT ![r][p] = "drop"]
    /\ UNCHANGED <<entries, refs, pc, thread, entry, released>>

(* Fault: the entry is deleted whoever else refers to it. *)
DropRefAlways(r, p) ==
    /\ path[r][p] = "drop"
    /\ refs'    = [refs EXCEPT ![entry[r]] = @ - 1]
    /\ entries' = [entries EXCEPT ![thread[r]] = NoEntry]
    /\ path'    = [path EXCEPT ![r][p] = "returned"]
    /\ UNCHANGED <<locked, pc, thread, entry, released>>

(* Fault: the entry is deleted only when the count was already zero. *)
DropRefOffByOne(r, p) ==
    /\ path[r][p] = "drop"
    /\ refs'    = [refs EXCEPT ![entry[r]] = @ - 1]
    /\ entries' = IF refs[entry[r]] = 0 /\ entries[thread[r]] = entry[r]
                  THEN [entries EXCEPT ![thread[r]] = NoEntry]
                  ELSE entries
    /\ path'    = [path EXCEPT ![r][p] = "returned"]
    /\ UNCHANGED <<locked, pc, thread, entry, released>>

(* Under _entries_guard: count this request out and delete the map entry   *)
(* when nobody else refers to it.                                          *)
DropRef(r, p) ==
    /\ path[r][p] = "drop"
    /\ refs'    = [refs EXCEPT ![entry[r]] = @ - 1]
    /\ entries' = IF refs[entry[r]] = 1 /\ entries[thread[r]] = entry[r]
                  THEN [entries EXCEPT ![thread[r]] = NoEntry]
                  ELSE entries
    /\ path'    = [path EXCEPT ![r][p] = "returned"]
    /\ UNCHANGED <<locked, pc, thread, entry, released>>

-----------------------------------------------------------------------------
(* Every request has been served and every cleanup path has returned. *)
Quiescent == \A r \in Requests : pc[r] = "leased" /\ \A p \in Paths : path[r][p] = "returned"

Finished == Quiescent /\ UNCHANGED vars

Next ==
    \/ \E r \in Requests, t \in Threads : Register(r, t)
    \/ \E r \in Requests : Lock(r)
    \/ \E r \in Requests, p \in Paths : ClaimRelease(r, p) \/ Unlock(r, p) \/ DropRef(r, p)
    \/ Finished

Spec == Init /\ [][Next]_vars

(* An OS thread that is past its arrival keeps running, and every lease    *)
(* reaches its cleanup paths: approve() has a finally, approve_stream the  *)
(* response's background task.  Arrivals are not fair.                     *)
Fairness ==
    /\ \A r \in Requests : WF_vars(Lock(r))
    /\ \A r \in Requests, p \in Paths :
          WF_vars(ClaimRelease(r, p)) /\ WF_vars(Unlock(r, p)) /\ WF_vars(DropRef(r, p))

FairSpec == Spec /\ Fairness

-----------------------------------------------------------------------------
(* Properties                                                              *)

(* The lease exists and no cleanup path has claimed its release: the       *)
(* request may be inside graph.invoke or graph.stream.                     *)
Holding(r) == pc[r] = "leased" /\ ~released[r]

(* The request counts in entry.refs: from the increment in                 *)
(* acquire_resume_lock to the decrement in release().                      *)
Live(r) ==
    /\ pc[r] # "idle"
    /\ released[r] => \E p \in Paths : path[r][p] \in {"unlock", "drop"}

LiveOn(e) == {r \in Requests : Live(r) /\ entry[r] = e}

TypeOK ==
    /\ entries  \in [Threads -> Requests \union {NoEntry}]
    /\ refs     \in [Requests -> Nat]
    /\ locked   \in [Requests -> BOOLEAN]
    /\ pc       \in [Requests -> {"idle", "waiting", "leased"}]
    /\ thread   \in [Requests -> Threads \union {NoThread}]
    /\ entry    \in [Requests -> Requests \union {NoEntry}]
    /\ released \in [Requests -> BOOLEAN]
    /\ path     \in [Requests -> [Paths -> {"ready", "unlock", "drop", "returned"}]]

(* Two requests never resume one conversation thread at the same time, even *)
(* when entries are deleted and created again in between: the window the    *)
(* lock of resume_lock.py exists to close.                                  *)
MutualExclusion ==
    \A r, q \in Requests :
        Holding(r) /\ Holding(q) /\ thread[r] = thread[q] => r = q

(* An entry is never dropped from _entries while a request still waits on   *)
(* or holds its lock, so no second lock is minted for the thread.           *)
EntryKept ==
    \A r \in Requests : Live(r) => entries[thread[r]] = entry[r]

(* The map does not leak: an entry stays in _entries only while some        *)
(* request that was counted in has not been counted out.                    *)
NoLeak ==
    \A t \in Threads : entries[t] # NoEntry => LiveOn(entries[t]) # {}

(* entry.refs is exactly the number of requests between their increment and *)
(* their decrement.                                                         *)
RefCount ==
    \A e \in Requests : refs[e] = Cardinality(LiveOn(e))

(* release() is idempotent and owner-safe: a second or late call never      *)
(* frees the lock under a request that has since acquired it.               *)
OwnerSafe ==
    \A r \in Requests : Holding(r) => locked[entry[r]]

(* The inductive strengthening behind the safety properties.  A request    *)
(* owns its entry's lock from Lock to Unlock; at most one cleanup path of  *)
(* a lease is past the claim; an entry serves one thread only; and an      *)
(* entry named by a request that has not arrived is unused.                *)
HasLock(r) ==
    /\ pc[r] = "leased"
    /\ released[r] => \E p \in Paths : path[r][p] = "unlock"

Arrived ==
    \A r \in Requests :
        /\ pc[r] = "idle" => thread[r] = NoThread /\ entry[r] = NoEntry
        /\ pc[r] # "idle" => /\ thread[r] \in Threads
                             /\ entry[r] \in Requests
                             /\ pc[entry[r]] # "idle"
                             /\ thread[entry[r]] = thread[r]

MapThread ==
    \A t \in Threads : entries[t] # NoEntry => pc[entries[t]] # "idle" /\ thread[entries[t]] = t

OneClaim ==
    \A r \in Requests :
        /\ pc[r] # "leased" => ~released[r]
        /\ ~released[r] => \A p \in Paths : path[r][p] = "ready"
        /\ \A p, q \in Paths :
              path[r][p] \in {"unlock", "drop"} /\ path[r][q] \in {"unlock", "drop"} => p = q

OneOwner ==
    \A r \in Requests : HasLock(r) =>
        /\ locked[entry[r]]
        /\ \A q \in Requests : HasLock(q) /\ entry[q] = entry[r] => q = r

(* The conjunction of the above with the properties it makes inductive: the *)
(* whole bookkeeping of acquire_resume_lock and ResumeLease.release.        *)
IndInv ==
    /\ TypeOK
    /\ Arrived
    /\ MapThread
    /\ OneClaim
    /\ OneOwner
    /\ EntryKept
    /\ RefCount
    /\ NoLeak

(* Every request that blocks on the lock is eventually granted it.          *)
WaiterServed ==
    \A r \in Requests : pc[r] = "waiting" ~> pc[r] = "leased"

(* The request resuming thread t: it holds t from Lock to the first claim   *)
(* of its release.                                                          *)
HolderOf(t) ==
    IF \E r \in Requests : Holding(r) /\ thread[r] = t
    THEN CHOOSE r \in Requests : Holding(r) /\ thread[r] = t
    ELSE NoEntry

Mutex == INSTANCE ResumeMutex WITH
    NoRequest <- NoEntry,
    holder    <- [t \in Threads |-> HolderOf(t)],
    finished  <- {r \in Requests : released[r]}

(* Refinement: every behaviour of the lock map is one of the abstract mutex. *)
ImplementsMutex == Mutex!Spec

=============================================================================
