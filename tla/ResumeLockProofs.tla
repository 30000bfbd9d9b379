-------------------------- MODULE ResumeLockProofs --------------------------
(***************************************************************************)
(* IndInv is an invariant of ResumeLock for every finite set of requests,  *)
(* every set of threads and every set of cleanup paths; mutual exclusion,  *)
(* owner safety and exact reference counts follow.                         *)
(***************************************************************************)
EXTENDS ResumeLock, FiniteSetTheorems, TLAPS

(* How the set of requests counted in an entry's refs changes: Register    *)
(* adds the arriving request, DropRef removes the leaving one.             *)
LEMMA LiveOnFinite ==
    ASSUME NEW e
    PROVE  /\ IsFiniteSet(LiveOn(e))
           /\ Cardinality(LiveOn(e)) \in Nat
           /\ Cardinality(LiveOn(e)) = 0 <=> LiveOn(e) = {}
  <1>1. LiveOn(e) \subseteq Requests
    BY DEF LiveOn
  <1>2. IsFiniteSet(LiveOn(e))
    BY <1>1, RequestsFinite, FS_Subset
  <1> QED
    BY <1>2, FS_CardinalityType, FS_EmptySet

(* The initial state satisfies the inductive invariant: nobody has         *)
(* arrived, so every entry is absent and every count is zero.              *)
LEMMA InitInv == Init => IndInv
  <1> SUFFICES ASSUME Init PROVE IndInv
    OBVIOUS
  <1>1. TypeOK
    BY DEF Init, TypeOK
  <1>2. Arrived /\ MapThread /\ OneClaim /\ OneOwner /\ EntryKept /\ NoLeak
    BY NoEntryFresh DEF Init, Arrived, MapThread, OneClaim, OneOwner, HasLock, EntryKept, Live, NoLeak
  <1>3. RefCount
    <2> SUFFICES ASSUME NEW e \in Requests PROVE refs[e] = Cardinality(LiveOn(e))
      BY DEF RefCount
    <2>1. LiveOn(e) = {}
      BY DEF Init, LiveOn, Live
    <2> QED
      BY <2>1, FS_EmptySet DEF Init
  <1> QED
    BY <1>1, <1>2, <1>3 DEF IndInv

(* acquire_resume_lock's guarded section preserves the invariant: the      *)
(* request is counted into the entry the map holds, fresh or found.        *)
LEMMA RegisterInv ==
    ASSUME IndInv, NEW r \in Requests, NEW t \in Threads, Register(r, t)
    PROVE  IndInv'
  <1> DEFINE e == EntryFor(r, t)
  <1> USE DEF IndInv
  <1>0. e \in Requests /\ pc[r] = "idle" /\ ~released[r] /\ ~Live(r) /\ t # NoThread
    BY NoThreadFresh DEF Register, EntryFor, TypeOK, OneClaim, Live
  <1>1. TypeOK'
    BY <1>0 DEF Register, TypeOK
  <1>2. e = r \/ (pc[e] # "idle" /\ thread[e] = t /\ e = entries[t])
    BY DEF EntryFor, MapThread
  <1>3. Arrived'
    BY <1>0, <1>2 DEF Register, TypeOK, Arrived
  <1>4. MapThread'
    BY <1>0, <1>2 DEF Register, TypeOK, MapThread
  <1>5. OneClaim'
    BY <1>0 DEF Register, TypeOK, OneClaim
  <1>6. \A q \in Requests : HasLock(q)' => HasLock(q) /\ q # r
    BY <1>0 DEF Register, TypeOK, HasLock
  <1>7. OneOwner'
    BY <1>0, <1>6 DEF Register, TypeOK, OneOwner
  <1>8. \A q \in Requests : Live(q)' <=> Live(q) \/ q = r
    BY <1>0 DEF Register, TypeOK, Live
  <1>9. EntryKept'
    <2> SUFFICES ASSUME NEW q \in Requests, Live(q)'
                 PROVE  entries'[thread'[q]] = entry'[q]
      BY DEF EntryKept
    <2>1. CASE q = r
      BY <2>1, <1>0 DEF Register, TypeOK
    <2>2. CASE q # r
      <3>1. Live(q) /\ thread'[q] = thread[q] /\ entry'[q] = entry[q] /\ entries[thread[q]] = entry[q]
        BY <2>2, <1>8 DEF Register, TypeOK, EntryKept
      <3>2. entry[q] \in Requests /\ thread[q] \in Threads
        BY <3>1 DEF Arrived, Live
      <3>3. entries'[thread[q]] = entries[thread[q]]
        BY <3>1, <3>2, NoEntryFresh DEF Register, TypeOK, EntryFor
      <3> QED
        BY <3>1, <3>3
    <2> QED
      BY <2>1, <2>2
  <1>10. \A x \in Requests : LiveOn(x)' = IF x = e THEN LiveOn(x) \union {r} ELSE LiveOn(x)
    BY <1>0, <1>8 DEF Register, TypeOK, LiveOn
  <1>11. RefCount'
    <2> SUFFICES ASSUME NEW x \in Requests PROVE refs'[x] = Cardinality(LiveOn(x)')
      BY DEF RefCount
    <2>1. CASE x = e
      <3>1. r \notin LiveOn(x)
        BY <1>0 DEF LiveOn
      <3>2. Cardinality(LiveOn(x) \union {r}) = Cardinality(LiveOn(x)) + 1
        BY <3>1, LiveOnFinite, FS_AddElement
      <3>3. refs'[x] = refs[x] + 1
        BY <2>1, <1>0 DEF Register, TypeOK
      <3> QED
        BY <2>1, <3>2, <3>3, <1>10 DEF RefCount
    <2>2. CASE x # e
      <3>1. refs'[x] = refs[x]
        BY <2>2, <1>0 DEF Register, TypeOK
      <3> QED
        BY <2>2, <3>1, <1>10 DEF RefCount
    <2> QED
      BY <2>1, <2>2
  <1>12. NoLeak'
    <2> SUFFICES ASSUME NEW u \in Threads, entries'[u] # NoEntry
                 PROVE  (LiveOn(entries[u]) # {})'
      BY DEF NoLeak
    <2>0. entries'[u] \in Requests
      BY <1>1 DEF TypeOK
    <2>1. CASE u = t
      <3>1. entries'[u] = e
        BY <2>1 DEF Register, TypeOK
      <3>2. (r \in LiveOn(entries[u]))'
        BY <3>1, <1>10, <2>0
      <3> QED
        BY <3>2
    <2>2. CASE u # t
      <3>1. entries'[u] = entries[u]
        BY <2>2 DEF Register, TypeOK
      <3>2. LiveOn(entries[u]) # {}
        BY <3>1 DEF NoLeak
      <3> QED
        BY <3>1, <3>2, <1>10, <2>0
    <2> QED
      BY <2>1, <2>2
  <1> QED
    BY <1>1, <1>3, <1>4, <1>5, <1>7, <1>9, <1>11, <1>12

(* Acquiring an entry's lock preserves the invariant: the lock was free,   *)
(* so nobody owned it.                                                     *)
LEMMA LockInv ==
    ASSUME IndInv, NEW r \in Requests, Lock(r)
    PROVE  IndInv'
  <1> USE DEF IndInv
  <1>1. TypeOK' /\ Arrived' /\ MapThread' /\ OneClaim'
    BY DEF Lock, TypeOK, Arrived, MapThread, OneClaim
  <1>2. entry[r] \in Requests /\ ~released[r]
    BY DEF Lock, Arrived, OneClaim
  <1>3. \A q \in Requests : q # r => (HasLock(q)' <=> HasLock(q))
    BY DEF Lock, TypeOK, HasLock
  <1>4. \A q \in Requests : HasLock(q) => entry[q] # entry[r]
    BY DEF Lock, OneOwner
  <1>5. OneOwner'
    BY <1>2, <1>3, <1>4 DEF Lock, TypeOK, OneOwner
  <1>6. \A q \in Requests : Live(q)' <=> Live(q)
    BY DEF Lock, TypeOK, Live
  <1>7. \A x : LiveOn(x)' = LiveOn(x)
    BY <1>6 DEF Lock, LiveOn
  <1>8. EntryKept' /\ RefCount' /\ NoLeak'
    BY <1>6, <1>7 DEF Lock, EntryKept, RefCount, NoLeak
  <1> QED
    BY <1>1, <1>5, <1>8

(* A call of release() preserves the invariant: only the first one goes    *)
(* past the claim, a later one returns at once.                            *)
LEMMA ClaimReleaseInv ==
    ASSUME IndInv, NEW r \in Requests, NEW p \in Paths, ClaimRelease(r, p)
    PROVE  IndInv'
  <1> USE DEF IndInv
  <1>1. TypeOK' /\ Arrived' /\ MapThread'
    BY DEF ClaimRelease, TypeOK, Arrived, MapThread
  <1>2. OneClaim'
    <2>1. \A s \in Requests : s # r => path'[s] = path[s] /\ released'[s] = released[s]
      BY DEF ClaimRelease, TypeOK
    <2>2. \A q \in Paths : q # p => path'[r][q] = path[r][q]
      BY DEF ClaimRelease, TypeOK
    <2>3. path'[r][p] = IF released[r] THEN "returned" ELSE "unlock"
      BY DEF ClaimRelease, TypeOK
    <2>4. released'[r] /\ pc' = pc /\ pc[r] = "leased"
      BY DEF ClaimRelease, TypeOK
    <2>5. \A a, b \in Paths :
              path'[r][a] \in {"unlock", "drop"} /\ path'[r][b] \in {"unlock", "drop"} => a = b
      BY <2>2, <2>3 DEF OneClaim
    <2> QED
      BY <2>1, <2>4, <2>5 DEF OneClaim
  <1>3. \A q \in Requests : HasLock(q)' => HasLock(q)
    BY DEF ClaimRelease, TypeOK, HasLock, OneClaim
  <1>4. OneOwner'
    BY <1>3 DEF ClaimRelease, OneOwner
  <1>5. \A q \in Requests : Live(q)' <=> Live(q)
    <2> SUFFICES ASSUME NEW q \in Requests PROVE Live(q)' <=> Live(q)
      OBVIOUS
    <2>1. CASE q # r
      BY <2>1 DEF ClaimRelease, TypeOK, Live
    <2>2. CASE q = r /\ ~released[r]
      BY <2>2 DEF ClaimRelease, TypeOK, Live
    <2>3. CASE q = r /\ released[r]
      BY <2>3 DEF ClaimRelease, TypeOK, Live
    <2> QED
      BY <2>1, <2>2, <2>3
  <1>6. \A x : LiveOn(x)' = LiveOn(x)
    BY <1>5 DEF ClaimRelease, LiveOn
  <1>7. EntryKept' /\ RefCount' /\ NoLeak'
    BY <1>5, <1>6 DEF ClaimRelease, EntryKept, RefCount, NoLeak
  <1> QED
    BY <1>1, <1>2, <1>4, <1>7

(* entry.lock.release() preserves the invariant: the caller is the owner,  *)
(* so the lock it frees is nobody else's.                                  *)
LEMMA UnlockInv ==
    ASSUME IndInv, NEW r \in Requests, NEW p \in Paths, Unlock(r, p)
    PROVE  IndInv'
  <1> USE DEF IndInv
  <1>0. released[r] /\ pc[r] = "leased" /\ HasLock(r) /\ entry[r] \in Requests
    BY DEF Unlock, TypeOK, OneClaim, HasLock, Arrived
  <1>1. TypeOK' /\ Arrived' /\ MapThread'
    BY <1>0 DEF Unlock, TypeOK, Arrived, MapThread
  <1>2. OneClaim'
    BY <1>0 DEF Unlock, TypeOK, OneClaim
  <1>3. \A q \in Requests : HasLock(q)' => HasLock(q) /\ q # r
    BY <1>0 DEF Unlock, TypeOK, HasLock, OneClaim
  <1>4. OneOwner'
    BY <1>0, <1>3 DEF Unlock, TypeOK, OneOwner
  <1>5. \A q \in Requests : Live(q)' <=> Live(q)
    BY DEF Unlock, TypeOK, Live
  <1>6. \A x : LiveOn(x)' = LiveOn(x)
    BY <1>5 DEF Unlock, LiveOn
  <1>7. EntryKept' /\ RefCount' /\ NoLeak'
    BY <1>5, <1>6 DEF Unlock, EntryKept, RefCount, NoLeak
  <1> QED
    BY <1>1, <1>2, <1>4, <1>7

(* The last guarded section of release() preserves the invariant: the map  *)
(* entry goes exactly when the leaving request was the only one counted.   *)
LEMMA DropRefInv ==
    ASSUME IndInv, NEW r \in Requests, NEW p \in Paths, DropRef(r, p)
    PROVE  IndInv'
  <1> DEFINE e == entry[r]
             t == thread[r]
  <1> USE DEF IndInv
  <1>0. /\ released[r] /\ pc[r] = "leased" /\ Live(r) /\ ~HasLock(r)
        /\ e \in Requests /\ t \in Threads /\ entries[t] = e
    BY DEF DropRef, TypeOK, OneClaim, HasLock, Arrived, Live, EntryKept
  <1>1. \A q \in Requests : Live(q)' <=> Live(q) /\ q # r
    <2> SUFFICES ASSUME NEW q \in Requests PROVE Live(q)' <=> Live(q) /\ q # r
      OBVIOUS
    <2>1. CASE q # r
      BY <2>1 DEF DropRef, TypeOK, Live
    <2>2. CASE q = r
      <3>1. \A a \in Paths : path'[r][a] \notin {"unlock", "drop"}
        BY DEF DropRef, TypeOK, OneClaim
      <3> QED
        BY <3>1, <2>2, <1>0 DEF DropRef, Live
    <2> QED
      BY <2>1, <2>2
  <1>2. \A x \in Requests : LiveOn(x)' = IF x = e THEN LiveOn(x) \ {r} ELSE LiveOn(x)
    BY <1>1 DEF DropRef, LiveOn
  <1>3. r \in LiveOn(e) /\ Cardinality(LiveOn(e) \ {r}) = Cardinality(LiveOn(e)) - 1
    <2>1. r \in LiveOn(e)
      BY <1>0 DEF LiveOn
    <2> QED
      BY <2>1, LiveOnFinite, FS_RemoveElement
  <1>4. refs[e] = Cardinality(LiveOn(e)) /\ refs[e] \in Nat /\ refs[e] # 0
    BY <1>0, <1>3, LiveOnFinite DEF RefCount
  <1>5. TypeOK'
    <2>1. refs[e] - 1 \in Nat
      BY <1>4
    <2>2. refs' \in [Requests -> Nat]
      BY <2>1, <1>0 DEF DropRef, TypeOK
    <2>3. entries' \in [Threads -> Requests \union {NoEntry}]
      BY <1>0 DEF DropRef, TypeOK
    <2>4. path' \in [Requests -> [Paths -> {"ready", "unlock", "drop", "returned"}]]
      BY DEF DropRef, TypeOK
    <2> QED
      BY <2>2, <2>3, <2>4 DEF DropRef, TypeOK
  <1>6. Arrived' /\ MapThread'
    BY <1>0 DEF DropRef, TypeOK, Arrived, MapThread
  <1>7. OneClaim'
    BY <1>0 DEF DropRef, TypeOK, OneClaim
  <1>8. \A q \in Requests : HasLock(q)' => HasLock(q)
    BY DEF DropRef, TypeOK, HasLock
  <1>9. OneOwner'
    BY <1>8 DEF DropRef, OneOwner
  <1>10. RefCount'
    <2> SUFFICES ASSUME NEW x \in Requests PROVE refs'[x] = Cardinality(LiveOn(x)')
      BY DEF RefCount
    <2>1. CASE x = e
      BY <2>1, <1>0, <1>2, <1>3, <1>4 DEF DropRef, TypeOK
    <2>2. CASE x # e
      <3>1. refs'[x] = refs[x]
        BY <2>2, <1>0 DEF DropRef, TypeOK
      <3> QED
        BY <2>2, <3>1, <1>2 DEF RefCount
    <2> QED
      BY <2>1, <2>2
  <1>11. refs[e] = 1 <=> LiveOn(e) \ {r} = {}
    <2>1. IsFiniteSet(LiveOn(e) \ {r})
      BY LiveOnFinite, FS_RemoveElement
    <2>2. Cardinality(LiveOn(e) \ {r}) = 0 <=> LiveOn(e) \ {r} = {}
      BY <2>1, FS_EmptySet
    <2> QED
      BY <2>2, <1>3, <1>4, LiveOnFinite
  <1>12. EntryKept'
    <2> SUFFICES ASSUME NEW q \in Requests, Live(q)'
                 PROVE  entries'[thread'[q]] = entry'[q]
      BY DEF EntryKept
    <2>1. Live(q) /\ q # r /\ entries[thread[q]] = entry[q] /\ thread[q] \in Threads
      BY <1>1 DEF EntryKept, Arrived, Live
    <2>2. CASE thread[q] = t
      <3>1. q \in LiveOn(e) \ {r}
        BY <2>1, <2>2, <1>0 DEF LiveOn
      <3>2. refs[e] # 1
        BY <3>1, <1>11
      <3> QED
        BY <2>1, <3>2 DEF DropRef
    <2>3. CASE thread[q] # t
      BY <2>1, <2>3, <1>0 DEF DropRef, TypeOK
    <2> QED
      BY <2>2, <2>3
  <1>13. NoLeak'
    <2> SUFFICES ASSUME NEW u \in Threads, entries'[u] # NoEntry
                 PROVE  (LiveOn(entries[u]) # {})'
      BY DEF NoLeak
    <2>1. entries'[u] = entries[u] /\ entries[u] \in Requests
      BY <1>0, <1>5 DEF DropRef, TypeOK
    <2>2. CASE entries[u] = e
      <3>1. u = t
        BY <2>1, <2>2, <1>0 DEF MapThread
      <3>2. refs[e] # 1
        BY <3>1, <2>1, <2>2, <1>0 DEF DropRef, TypeOK
      <3> QED
        BY <2>1, <2>2, <3>2, <1>11, <1>2
    <2>3. CASE entries[u] # e
      BY <2>1, <2>3, <1>2 DEF NoLeak
    <2> QED
      BY <2>2, <2>3
  <1> QED
    BY <1>5, <1>6, <1>7, <1>9, <1>10, <1>12, <1>13

(* A step that changes nothing preserves the invariant. *)
LEMMA StutterInv == IndInv /\ UNCHANGED vars => IndInv'
  BY DEF IndInv, TypeOK, Arrived, MapThread, OneClaim, OneOwner, HasLock, EntryKept, Live,
         RefCount, NoLeak, LiveOn, vars

(* The bookkeeping of acquire_resume_lock and ResumeLease.release is an    *)
(* invariant of every interleaving of requests and cleanup paths.          *)
THEOREM IndInvHolds == Spec => []IndInv
  <1>1. IndInv /\ [Next]_vars => IndInv'
    <2> SUFFICES ASSUME IndInv, [Next]_vars PROVE IndInv'
      OBVIOUS
    <2>1. ASSUME NEW r \in Requests, NEW t \in Threads, Register(r, t) PROVE IndInv'
      BY <2>1, RegisterInv
    <2>2. ASSUME NEW r \in Requests, Lock(r) PROVE IndInv'
      BY <2>2, LockInv
    <2>3. ASSUME NEW r \in Requests, NEW p \in Paths, ClaimRelease(r, p) PROVE IndInv'
      BY <2>3, ClaimReleaseInv
    <2>4. ASSUME NEW r \in Requests, NEW p \in Paths, Unlock(r, p) PROVE IndInv'
      BY <2>4, UnlockInv
    <2>5. ASSUME NEW r \in Requests, NEW p \in Paths, DropRef(r, p) PROVE IndInv'
      BY <2>5, DropRefInv
    <2>6. CASE Finished \/ UNCHANGED vars
      BY <2>6, StutterInv DEF Finished
    <2> QED
      BY <2>1, <2>2, <2>3, <2>4, <2>5, <2>6 DEF Next
  <1> QED
    BY InitInv, <1>1, PTL DEF Spec

(* Every variable keeps its type; in particular entry.refs never goes      *)
(* below zero, whatever order the cleanup paths run in.                    *)
THEOREM TypeCorrect == Spec => []TypeOK
  BY IndInvHolds, PTL DEF IndInv

(* At most one request at a time holds an unreleased lease on a            *)
(* conversation thread.                                                    *)
THEOREM MutualExclusionHolds == Spec => []MutualExclusion
  <1>1. IndInv => MutualExclusion
    <2> SUFFICES ASSUME IndInv, NEW r \in Requests, NEW q \in Requests,
                        Holding(r), Holding(q), thread[r] = thread[q]
                 PROVE  r = q
      BY DEF MutualExclusion
    <2>1. HasLock(r) /\ HasLock(q) /\ Live(r) /\ Live(q)
      BY DEF Holding, HasLock, Live
    <2>2. entry[r] = entry[q]
      BY <2>1 DEF IndInv, EntryKept
    <2> QED
      BY <2>1, <2>2 DEF IndInv, OneOwner
  <1> QED
    BY IndInvHolds, <1>1, PTL

(* No late or repeated release() frees the lock under its current holder.  *)
THEOREM OwnerSafeHolds == Spec => []OwnerSafe
  <1>1. IndInv => OwnerSafe
    BY DEF IndInv, OwnerSafe, OneOwner, Holding, HasLock
  <1> QED
    BY IndInvHolds, <1>1, PTL

(* An entry does not vanish from the map under a queued request, and its   *)
(* reference count is exact (acquire_resume_lock, ResumeLease.release).    *)
THEOREM EntryLifetimeHolds == Spec => [](EntryKept /\ RefCount)
  BY IndInvHolds, PTL DEF IndInv

(* Nor does it outlive the last request that was counted in: _entries does *)
(* not grow with the threads ever resumed.                                 *)
THEOREM NoLeakHolds == Spec => []NoLeak
  BY IndInvHolds, PTL DEF IndInv

-----------------------------------------------------------------------------
(* Refinement of the abstract mutex                                        *)

(* Under the invariant the holder of a thread is determined: a request     *)
(* that holds its thread is the one HolderOf picks.                        *)
LEMMA HolderUnique ==
    ASSUME MutualExclusion, NEW t \in Threads
    PROVE  /\ \A r \in Requests : Holding(r) /\ thread[r] = t => HolderOf(t) = r
           /\ (~ \E r \in Requests : Holding(r) /\ thread[r] = t) => HolderOf(t) = NoEntry
           /\ HolderOf(t) # NoEntry => /\ HolderOf(t) \in Requests
                                       /\ Holding(HolderOf(t))
                                       /\ thread[HolderOf(t)] = t
  BY DEF HolderOf, MutualExclusion

(* A step that changes neither who holds a lease nor a holder's thread     *)
(* leaves the abstract mutex as it is.                                     *)
LEMMA HolderUnchanged ==
    ASSUME MutualExclusion, MutualExclusion',
           \A q \in Requests : Holding(q)' <=> Holding(q),
           \A q \in Requests : Holding(q) => thread'[q] = thread[q]
    PROVE  \A t \in Threads : HolderOf(t)' = HolderOf(t)
  <1> SUFFICES ASSUME NEW t \in Threads PROVE HolderOf(t)' = HolderOf(t)
    OBVIOUS
  <1>1. \A r \in Requests : (Holding(r) /\ thread[r] = t)' <=> Holding(r) /\ thread[r] = t
    OBVIOUS
  <1> QED
    BY <1>1 DEF HolderOf

(* Every behaviour of the lock map, seen through HolderOf, is a behaviour  *)
(* of ResumeMutex: Lock acquires, the first ClaimRelease releases, and     *)
(* every other step is invisible.                                          *)
THEOREM MutexRefinement == Spec => ImplementsMutex
  <1> DEFINE Safe == IndInv /\ MutualExclusion
  <1>1. Init => Mutex!Init
    BY DEF Init, Mutex!Init, HolderOf, Holding
  <1>2. ASSUME Safe, Safe', [Next]_vars PROVE [Mutex!Next]_(Mutex!vars)
    <2> USE <1>2 DEF IndInv
    <2>1. ASSUME NEW r \in Requests, NEW t \in Threads, Register(r, t)
          PROVE  UNCHANGED Mutex!vars
      <3>1. \A q \in Requests : Holding(q)' <=> Holding(q)
        BY <2>1 DEF Register, TypeOK, Holding
      <3>2. \A q \in Requests : Holding(q) => thread'[q] = thread[q]
        BY <2>1 DEF Register, TypeOK, Holding
      <3> QED
        BY <2>1, <3>1, <3>2, HolderUnchanged DEF Register, Mutex!vars
    <2>2. ASSUME NEW r \in Requests, Lock(r) PROVE Mutex!Next
      <3> DEFINE t == thread[r]
      <3>1. t \in Threads /\ ~Holding(r) /\ Holding(r)' /\ ~released[r] /\ Live(r) /\ entry[r] \in Requests
        BY <2>2 DEF Lock, TypeOK, Arrived, OneClaim, Holding, Live
      <3>2. \A q \in Requests : q # r => (Holding(q)' <=> Holding(q))
        BY <2>2 DEF Lock, TypeOK, Holding
      <3>3. \A q \in Requests : Holding(q) => thread[q] # t
        <4> SUFFICES ASSUME NEW q \in Requests, Holding(q), thread[q] = t PROVE FALSE
          OBVIOUS
        <4>1. HasLock(q) /\ Live(q)
          BY DEF Holding, HasLock, Live
        <4>2. entry[q] = entry[r]
          BY <4>1, <3>1 DEF EntryKept
        <4> QED
          BY <4>1, <4>2, <2>2 DEF OneOwner, Lock
      <3>4. HolderOf(t) = NoEntry
        BY <3>3, <3>1, HolderUnique
      <3>5. \A u \in Threads : HolderOf(u) # r
        BY <3>1, HolderUnique, NoEntryFresh
      <3>6. \A u \in Threads : HolderOf(u)' = IF u = t THEN r ELSE HolderOf(u)
        <4> SUFFICES ASSUME NEW u \in Threads
                     PROVE  HolderOf(u)' = IF u = t THEN r ELSE HolderOf(u)
          OBVIOUS
        <4>0. thread' = thread
          BY <2>2 DEF Lock
        <4>1. CASE u = t
          <5>1. \A q \in Requests : (Holding(q) /\ thread[q] = u)' <=> q = r
            BY <4>0, <4>1, <3>1, <3>2, <3>3
          <5> QED
            BY <4>1, <5>1 DEF HolderOf
        <4>2. CASE u # t
          <5>1. \A q \in Requests : (Holding(q) /\ thread[q] = u)' <=> Holding(q) /\ thread[q] = u
            BY <4>0, <4>2, <3>1, <3>2
          <5> QED
            BY <4>2, <5>1 DEF HolderOf
        <4> QED
          BY <4>1, <4>2
      <3>7. Mutex!Acquire(r, t)
        BY <3>1, <3>4, <3>5, <3>6, <2>2 DEF Mutex!Acquire, Lock
      <3> QED
        BY <3>1, <3>7 DEF Mutex!Next
    <2>3. ASSUME NEW r \in Requests, NEW p \in Paths, ClaimRelease(r, p)
          PROVE  Mutex!Next \/ UNCHANGED Mutex!vars
      <3>1. CASE released[r]
        <4>1. released' = released
          BY <2>3, <3>1 DEF ClaimRelease, TypeOK
        <4>2. \A q \in Requests : (Holding(q)' <=> Holding(q)) /\ thread'[q] = thread[q]
          BY <2>3, <4>1 DEF ClaimRelease, Holding
        <4>3. \A t \in Threads : HolderOf(t)' = HolderOf(t)
          BY <4>2, HolderUnchanged
        <4>4. UNCHANGED Mutex!vars
          BY <4>1, <4>3 DEF Mutex!vars
        <4> QED
          BY <4>4
      <3>2. CASE ~released[r]
        <4>0. PICK t \in Threads : t = thread[r]
          BY <2>3 DEF ClaimRelease, Arrived
        <4>1. thread[r] = t /\ Holding(r) /\ ~Holding(r)' /\ thread' = thread
          BY <2>3, <3>2, <4>0 DEF ClaimRelease, TypeOK, Holding
        <4>2. \A q \in Requests : q # r => (Holding(q)' <=> Holding(q))
          BY <2>3 DEF ClaimRelease, TypeOK, Holding
        <4>3. HolderOf(t) = r
          BY <4>1, HolderUnique
        <4>4. \A u \in Threads : HolderOf(u)' = IF u = t THEN NoEntry ELSE HolderOf(u)
          <5> SUFFICES ASSUME NEW u \in Threads
                       PROVE  HolderOf(u)' = IF u = t THEN NoEntry ELSE HolderOf(u)
            OBVIOUS
          <5>1. CASE u = t
            <6>1. \A q \in Requests : ~(Holding(q) /\ thread[q] = u)'
              BY <4>1, <4>2, <5>1 DEF MutualExclusion
            <6> QED
              BY <5>1, <6>1 DEF HolderOf
          <5>2. CASE u # t
            <6>1. \A q \in Requests : (Holding(q) /\ thread[q] = u)' <=> Holding(q) /\ thread[q] = u
              BY <4>1, <4>2, <5>2
            <6> QED
              BY <5>2, <6>1 DEF HolderOf
          <5> QED
            BY <5>1, <5>2
        <4>5. {q \in Requests : released'[q]} = {q \in Requests : released[q]} \union {r}
          BY <2>3 DEF ClaimRelease, TypeOK
        <4>6. Mutex!Release(r, t)
          BY <4>1, <4>3, <4>4, <4>5 DEF Mutex!Release
        <4>7. Mutex!Next
          BY <4>6 DEF Mutex!Next
        <4> QED
          BY <4>7
      <3> QED
        BY <3>1, <3>2
    <2>4. ASSUME NEW r \in Requests, NEW p \in Paths, Unlock(r, p) \/ DropRef(r, p)
          PROVE  UNCHANGED Mutex!vars
      <3>1. UNCHANGED <<pc, released, thread>>
        BY <2>4 DEF Unlock, DropRef
      <3>2. \A q \in Requests : (Holding(q)' <=> Holding(q)) /\ thread'[q] = thread[q]
        BY <3>1 DEF Holding
      <3> QED
        BY <3>1, <3>2, HolderUnchanged DEF Mutex!vars
    <2>5. CASE Finished \/ UNCHANGED vars
      <3>1. UNCHANGED <<pc, released, thread>>
        BY <2>5 DEF Finished, vars
      <3>2. \A q \in Requests : (Holding(q)' <=> Holding(q)) /\ thread'[q] = thread[q]
        BY <3>1 DEF Holding
      <3> QED
        BY <3>1, <3>2, HolderUnchanged DEF Mutex!vars
    <2> QED
      BY <2>1, <2>2, <2>3, <2>4, <2>5 DEF Next
  <1> QED
    BY <1>1, <1>2, IndInvHolds, MutualExclusionHolds, PTL DEF Spec, ImplementsMutex, Mutex!Spec

=============================================================================
