-------------------------- MODULE PostgresAuditLog --------------------------
(***************************************************************************)
(* persistence/audit_store.py: appends by concurrent writers (request      *)
(* threads of any worker process) to the atlas_audit_log table.            *)
(*                                                                         *)
(* An append takes a pooled connection, opens a transaction, waits for the *)
(* transaction-scoped advisory lock, reads the tail, links the event,      *)
(* inserts the row and commits, which frees the lock.  A transaction may   *)
(* fail at any point and is then rolled back; its event is lost and the    *)
(* caller sees the error.  Statements read committed data.                 *)
(***************************************************************************)
EXTENDS AuditChain, FiniteSets

CONSTANTS Writers,      \* threads that append
          Processes,    \* the worker processes they belong to
          ProcessOf,    \* which writer runs in which process
          Events,       \* what they append: AuditEvents, unique by event_id
          PoolSize,     \* connections of a process's pool (max_size)
          None          \* nothing, nobody

ASSUME PoolPositive == PoolSize \in Nat \ {0}
ASSUME NoneNoWriter == None \notin Writers /\ None \notin Events
ASSUME ProcessType  == ProcessOf \in [Writers -> Processes]
(* GENESIS_HASH, 64 zeros, is the hash of no first event.                  *)
ASSUME GenesisNoHash == \A e \in Events : Genesis # compute_event_hash(Genesis, e)

VARIABLES rows,      \* the committed table in seq order
          advisory,  \* the writer whose transaction holds the advisory lock
          pc,        \* per writer: idle, queued, connected, locked, linked
          event,     \* per writer: the event it appends
          row,       \* per writer: the linked record it is about to insert
          fresh,     \* the events nobody recorded so far
          acked      \* the events whose append returned

vars == <<rows, advisory, pc, event, row, fresh, acked>>

Init ==
    /\ rows     = <<>>
    /\ advisory = None
    /\ pc       = [w \in Writers |-> "idle"]
    /\ event    = [w \in Writers |-> None]
    /\ row      = [w \in Writers |-> None]
    /\ fresh    = Events
    /\ acked    = {}

(* AuditLog.record with a fresh event. *)
Record(w, e) ==
    /\ pc[w] = "idle"
    /\ e \in fresh
    /\ fresh' = fresh \ {e}
    /\ event' = [event EXCEPT ![w] = e]
    /\ pc'    = [pc EXCEPT ![w] = "queued"]
    /\ UNCHANGED <<rows, advisory, row, acked>>

(* The writers with a connection out of w's pool. *)
Connected(w) ==
    {v \in Writers : ProcessOf[v] = ProcessOf[w] /\ pc[v] \in {"connected", "locked", "linked"}}

(* self._pool.connection() and the start of the transaction. *)
Connect(w) ==
    /\ pc[w] = "queued"
    /\ Cardinality(Connected(w)) < PoolSize
    /\ pc' = [pc EXCEPT ![w] = "connected"]
    /\ UNCHANGED <<rows, advisory, event, row, fresh, acked>>

(* Fault: the lock is tried, its refusal ignored. *)
TakeLockTry(w) ==
    /\ pc[w] = "connected"
    /\ advisory' = IF advisory = None THEN w ELSE advisory
    /\ pc' = [pc EXCEPT ![w] = "locked"]
    /\ UNCHANGED <<rows, event, row, fresh, acked>>

(* SELECT pg_advisory_xact_lock(...) returns. *)
TakeLock(w) ==
    /\ pc[w] = "connected"
    /\ advisory = None
    /\ advisory' = w
    /\ pc' = [pc EXCEPT ![w] = "locked"]
    /\ UNCHANGED <<rows, event, row, fresh, acked>>

(* Read the tail and link the event to it. *)
ReadTail(w) ==
    /\ pc[w] = "locked"
    /\ row' = [row EXCEPT ![w] = link(rows, event[w])]
    /\ pc'  = [pc EXCEPT ![w] = "linked"]
    /\ UNCHANGED <<rows, advisory, event, fresh, acked>>

(* The end of a transaction: its lock is freed, its connection returned. *)
EndTransaction(w) ==
    /\ advisory' = IF advisory = w THEN None ELSE advisory
    /\ pc'       = [pc EXCEPT ![w] = "idle"]
    /\ row'      = [row EXCEPT ![w] = None]
    /\ event'    = [event EXCEPT ![w] = None]
    /\ UNCHANGED fresh

(* INSERT and COMMIT.  seq is the primary key: a row whose seq is taken is *)
(* refused, and only Rollback is left.  The connection may break after the *)
(* server committed: the row is stored, the caller sees an error.          *)
Commit(w, told) ==
    /\ pc[w] = "linked"
    /\ \A i \in DOMAIN rows : rows[i].seq # row[w].seq
    /\ rows'  = Append(rows, row[w])
    /\ acked' = IF told THEN acked \union {event[w]} ELSE acked
    /\ EndTransaction(w)

(* Fault: the failure is swallowed and the append reported as done. *)
RollbackSwallowed(w) ==
    /\ pc[w] # "idle"
    /\ acked' = acked \union {event[w]}
    /\ EndTransaction(w)
    /\ UNCHANGED rows

(* Fault: a session lock (pg_advisory_lock) survives the rollback. *)
RollbackKeepsLock(w) ==
    /\ pc[w] # "idle"
    /\ pc'    = [pc EXCEPT ![w] = "idle"]
    /\ row'   = [row EXCEPT ![w] = None]
    /\ event' = [event EXCEPT ![w] = None]
    /\ UNCHANGED <<rows, advisory, fresh, acked>>

(* The pool times out, the connection breaks, a statement fails or the     *)
(* process dies: the event is lost and the caller sees the error.          *)
Rollback(w) ==
    /\ pc[w] # "idle"
    /\ EndTransaction(w)
    /\ UNCHANGED <<rows, acked>>

Next ==
    \E w \in Writers :
        \/ \E e \in Events : Record(w, e)
        \/ Connect(w) \/ TakeLock(w) \/ ReadTail(w)
        \/ \E told \in BOOLEAN : Commit(w, told)
        \/ Rollback(w)

Spec == Init /\ [][Next]_vars

(* The pool and the lock manager queue their waiters, so a waiter that is  *)
(* offered the resource again and again gets it; a statement that can run  *)
(* is run.  Nobody has to record anything, no failure has to happen.       *)
Fairness ==
    \A w \in Writers :
        /\ SF_vars(Connect(w))
        /\ SF_vars(TakeLock(w))
        /\ WF_vars(ReadTail(w))
        /\ WF_vars(Commit(w, TRUE))

FairSpec == Spec /\ Fairness

-----------------------------------------------------------------------------
(* Properties                                                              *)

TypeOK ==
    /\ rows \in Seq({rows[i] : i \in DOMAIN rows})
    /\ advisory \in Writers \union {None}
    /\ pc \in [Writers -> {"idle", "queued", "connected", "locked", "linked"}]
    /\ event \in [Writers -> Events \union {None}]
    /\ DOMAIN row = Writers
    /\ fresh \subseteq Events
    /\ acked \subseteq Events

(* Concurrent writers never fork or break the chain: whatever interleaves  *)
(* and whatever is rolled back, the stored chain verifies.                 *)
ChainIntact == verify_chain(rows)

(* The tail read under the advisory lock is still the tail when the row is *)
(* inserted: no append of _append_event is ever refused by the primary key *)
(* because another writer was faster.                                      *)
TailStable ==
    \A w \in Writers : pc[w] = "linked" => row[w] = link(rows, event[w])

(* An append that returned is in the table, and no event is there twice,   *)
(* failed appends and lost acknowledgements included.                      *)
AckedStored ==
    /\ \A e \in acked : \E i \in DOMAIN rows : rows[i].event = e
    /\ \A i, j \in DOMAIN rows : rows[i].event = rows[j].event => i = j

(* Every append ends, with its row committed or with an error: writers     *)
(* that wait for a connection and for the lock do not block each other     *)
(* forever, however small the pool.                                        *)
AppendEnds ==
    \A w \in Writers : pc[w] = "queued" ~> pc[w] = "idle"

(* Ways to tamper with a stored chain: change an event; change it and      *)
(* compute its hash again; take a record out and number the rest again;    *)
(* exchange two records and number them again.                             *)
Edited(s, i, e) == [s EXCEPT ![i].event = e]

Rehashed(s, i, e) ==
    [s EXCEPT ![i].event = e, ![i].event_hash = compute_event_hash(s[i].prev_hash, e)]

Removed(s, i) ==
    [k \in 1..(Len(s) - 1) |-> IF k < i THEN s[k] ELSE [s[k + 1] EXCEPT !.seq = k - 1]]

Swapped(s, i, j) ==
    [s EXCEPT ![i] = [s[j] EXCEPT !.seq = i - 1], ![j] = [s[i] EXCEPT !.seq = j - 1]]

(* verify_chain detects each of them on every chain the log can hold, as   *)
(* long as a record after the tampered one is left to contradict it.       *)
TamperEvident ==
    \A i \in DOMAIN rows :
        /\ \A e \in Events \ {rows[i].event} :
              /\ ~verify_chain(Edited(rows, i, e))
              /\ i < Len(rows) => ~verify_chain(Rehashed(rows, i, e))
        /\ i < Len(rows) => ~verify_chain(Removed(rows, i))
        /\ \A j \in DOMAIN rows : i # j => ~verify_chain(Swapped(rows, i, j))
=============================================================================
