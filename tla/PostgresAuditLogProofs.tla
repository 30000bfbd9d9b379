----------------------- MODULE PostgresAuditLogProofs -----------------------
(***************************************************************************)
(* The chain of the Postgres audit log is intact for any number of         *)
(* writers, processes, events and connections, and no two writers are ever *)
(* between the tail they read and the row they insert.                     *)
(***************************************************************************)
EXTENDS PostgresAuditLog, SequenceTheorems, TLAPS

(* Between TakeLock and the end of its transaction a writer holds the      *)
(* advisory lock, so at most one writer is there.                          *)
LockHeld == \A w \in Writers : pc[w] \in {"locked", "linked"} => advisory = w

(* An event in the table or under way was recorded once: it is not fresh,  *)
(* no other writer has it and it is not in the table yet.                  *)
Recorded ==
    /\ \A w \in Writers : pc[w] # "idle" =>
          /\ event[w] \in Events \ fresh
          /\ \A v \in Writers : pc[v] # "idle" /\ event[v] = event[w] => v = w
          /\ \A i \in DOMAIN rows : rows[i].event # event[w]
    /\ \A i \in DOMAIN rows : rows[i].event \in Events \ fresh

(* What is inductive: the lock makes the read tail current, which makes    *)
(* the next row a link of the chain and its event a new one.               *)
ChainInv == TypeOK /\ LockHeld /\ Recorded /\ TailStable /\ ChainIntact /\ AckedStored

(* A function on 1..n is a sequence. *)
LEMMA SeqOfFunction ==
    ASSUME NEW T, NEW n \in Nat, NEW t \in [1..n -> T]
    PROVE  t \in Seq(T)
  BY SeqDef, Zenon

(* A sequence stays a sequence of its own elements when one is appended. *)
LEMMA AppendIsSeq ==
    ASSUME NEW s, s \in Seq({s[i] : i \in DOMAIN s}), NEW x,
           NEW t, t = Append(s, x)
    PROVE  t \in Seq({t[i] : i \in DOMAIN t})
<1> DEFINE S == {s[i] : i \in DOMAIN s} \union {x}
<1>1. s \in Seq(S)
  BY SMT
<1>2. /\ t \in Seq(S) /\ Len(t) = Len(s) + 1
      /\ \A i \in 1..Len(s) : t[i] = s[i]
      /\ t[Len(s) + 1] = x
  BY <1>1, AppendProperties
<1>3. DOMAIN t = 1..Len(t) /\ Len(t) \in Nat
  BY <1>2
<1> HIDE DEF S
<1>4. t \in [1..Len(t) -> S]
  BY <1>2, LenProperties
<1> DEFINE T == {t[i] : i \in DOMAIN t}
<1>5. t \in [1..Len(t) -> T]
  BY <1>3, <1>4
<1> HIDE DEF T
<1>6. t \in Seq(T)
  BY <1>3, <1>5, SeqOfFunction
<1> QED
  BY <1>6 DEF T

(* link extends a chain that verifies to one that verifies: the step of    *)
(* _append_event on the table it read.                                     *)
LEMMA LinkExtends ==
    ASSUME NEW s, s \in Seq({s[i] : i \in DOMAIN s}), NEW e, verify_chain(s),
           NEW t, t = Append(s, link(s, e))
    PROVE  verify_chain(t)
<1> DEFINE x == link(s, e)
           S == {s[i] : i \in DOMAIN s} \union {x}
<1>1. s \in Seq(S) /\ DOMAIN s = 1..Len(s) /\ Len(s) \in Nat
  BY SMT
<1>2. /\ Len(t) = Len(s) + 1
      /\ \A i \in 1..Len(s) : t[i] = s[i]
      /\ t[Len(s) + 1] = x
  <2>1. x \in S /\ t = Append(s, x)
    OBVIOUS
  <2> HIDE DEF x, S
  <2> QED
    BY <2>1, <1>1, AppendProperties
<1>3. s = <<>> <=> Len(s) = 0
  BY <1>1, EmptySeq
<1>4. /\ x.seq = IF s = <<>> THEN 0 ELSE s[Len(s)].seq + 1
      /\ x.prev_hash = IF s = <<>> THEN Genesis ELSE s[Len(s)].event_hash
      /\ x.event_hash = compute_event_hash(x.prev_hash, x.event)
  BY DEF link
<1> HIDE DEF x, S
<1>5. ASSUME NEW i \in 1..Len(t), i <= Len(s)
      PROVE  LinkOK(t, i)
  <2>1. i \in 1..Len(s) /\ (i # 1 => i - 1 \in 1..Len(s))
    BY <1>5, <1>1, <1>2
  <2>2. LinkOK(s, i) /\ t[i] = s[i] /\ (i # 1 => t[i - 1] = s[i - 1])
    BY <2>1, <1>2 DEF verify_chain
  <2> QED
    BY <2>2 DEF LinkOK
<1>6. ASSUME NEW i \in 1..Len(t), i = Len(s) + 1
      PROVE  LinkOK(t, i)
  <2>1. CASE Len(s) = 0
    BY <2>1, <1>2, <1>3, <1>4, <1>6 DEF LinkOK
  <2>2. CASE Len(s) # 0
    <3>1. Len(s) \in 1..Len(s) /\ i # 1 /\ i - 1 = Len(s)
      BY <2>2, <1>1, <1>6
    <3>2. LinkOK(s, Len(s)) /\ t[i] = x /\ t[i - 1] = s[Len(s)]
      BY <3>1, <1>2, <1>6 DEF verify_chain
    <3>3. s[Len(s)].seq = Len(s) - 1
      BY <3>2 DEF LinkOK
    <3>4. x.seq = i - 1 /\ x.prev_hash = t[i - 1].event_hash
      BY <3>1, <3>2, <3>3, <2>2, <1>1, <1>3, <1>4
    <3> QED
      BY <3>1, <3>2, <3>4, <1>4 DEF LinkOK
  <2> QED
    BY <2>1, <2>2
<1> QED
  BY <1>1, <1>2, <1>5, <1>6 DEF verify_chain

(* The table after a commit: one more row, that of the writer. *)
LEMMA CommitRows ==
    ASSUME ChainInv, NEW w \in Writers, NEW told \in BOOLEAN, Commit(w, told)
    PROVE  /\ rows' = Append(rows, link(rows, event[w]))
           /\ DOMAIN rows = 1..Len(rows) /\ Len(rows) \in Nat
           /\ DOMAIN rows' = 1..(Len(rows) + 1)
           /\ \A i \in DOMAIN rows : rows'[i] = rows[i]
           /\ rows'[Len(rows) + 1].event = event[w]
<1> DEFINE x == link(rows, event[w])
           S == {rows[i] : i \in DOMAIN rows} \union {x}
<1>1. rows' = Append(rows, x) /\ x.event = event[w]
  BY DEF ChainInv, Commit, TailStable, link
<1>2. rows \in Seq(S) /\ DOMAIN rows = 1..Len(rows) /\ Len(rows) \in Nat /\ x \in S
  BY DEF ChainInv, TypeOK
<1> HIDE DEF x, S
<1>3. /\ rows' \in Seq(S) /\ Len(rows') = Len(rows) + 1
      /\ \A i \in 1..Len(rows) : rows'[i] = rows[i]
      /\ rows'[Len(rows) + 1] = x
  BY <1>1, <1>2, AppendProperties
<1> QED
  BY <1>1, <1>2, <1>3 DEF x

(* The empty table satisfies the invariant. *)
LEMMA InitChain == Init => ChainInv
<1> SUFFICES ASSUME Init PROVE ChainInv
  OBVIOUS
<1>1. TypeOK
  BY NoneNoWriter DEF Init, TypeOK
<1>2. LockHeld /\ TailStable /\ Recorded
  BY DEF Init, LockHeld, TailStable, Recorded
<1>3. ChainIntact /\ AckedStored
  BY DEF Init, ChainIntact, verify_chain, AckedStored
<1> QED
  BY <1>1, <1>2, <1>3 DEF ChainInv

(* A transaction that ends leaves the other writers' bookkeeping as it was. *)
LEMMA EndTransactionInv ==
    ASSUME ChainInv, NEW w \in Writers, EndTransaction(w)
    PROVE  /\ advisory' \in Writers \union {None}
           /\ pc' \in [Writers -> {"idle", "queued", "connected", "locked", "linked"}]
           /\ event' \in [Writers -> Events \union {None}]
           /\ DOMAIN row' = Writers
           /\ fresh' = fresh /\ fresh' \subseteq Events
           /\ LockHeld'
           /\ \A v \in Writers : pc'[v] # "idle" =>
                 v # w /\ pc'[v] = pc[v] /\ row'[v] = row[v] /\ event'[v] = event[v]
  BY DEF ChainInv, TypeOK, LockHeld, EndTransaction

(* A step that leaves the table alone and fills no fresh row keeps what is *)
(* said about the table.                                                   *)
LEMMA SameRows ==
    ASSUME ChainInv, rows' = rows, acked' = acked,
           \A w \in Writers : pc'[w] = "linked" =>
              pc[w] = "linked" /\ row'[w] = row[w] /\ event'[w] = event[w]
    PROVE  TailStable' /\ ChainIntact' /\ AckedStored'
<1>1. TailStable'
  BY DEF ChainInv, TailStable
<1>2. ChainIntact' /\ AckedStored'
  BY DEF ChainInv, ChainIntact, AckedStored
<1> QED
  BY <1>1, <1>2

(* Every step of every writer keeps the invariant. *)
LEMMA StepChain == ChainInv /\ [Next]_vars => ChainInv'
<1> SUFFICES ASSUME ChainInv, [Next]_vars PROVE ChainInv'
  OBVIOUS
<1>1. ASSUME NEW w \in Writers, NEW e \in Events, Record(w, e)
      PROVE  ChainInv'
  <2>1. TypeOK' /\ LockHeld'
    BY <1>1 DEF ChainInv, Record, TypeOK, LockHeld
  <2>2. Recorded'
    BY <1>1 DEF ChainInv, Record, TypeOK, Recorded
  <2>3. TailStable' /\ ChainIntact' /\ AckedStored'
    BY <1>1, SameRows DEF ChainInv, TypeOK, Record
  <2> QED
    BY <2>1, <2>2, <2>3 DEF ChainInv
<1>2. ASSUME NEW w \in Writers, Connect(w)
      PROVE  ChainInv'
  <2>1. TypeOK' /\ LockHeld' /\ Recorded'
    BY <1>2 DEF ChainInv, Connect, TypeOK, LockHeld, Recorded
  <2>2. TailStable' /\ ChainIntact' /\ AckedStored'
    BY <1>2, SameRows DEF ChainInv, TypeOK, Connect
  <2> QED
    BY <2>1, <2>2 DEF ChainInv
<1>3. ASSUME NEW w \in Writers, TakeLock(w)
      PROVE  ChainInv'
  <2>1. TypeOK' /\ LockHeld' /\ Recorded'
    BY <1>3, NoneNoWriter DEF ChainInv, TakeLock, TypeOK, LockHeld, Recorded
  <2>2. TailStable' /\ ChainIntact' /\ AckedStored'
    BY <1>3, SameRows DEF ChainInv, TypeOK, TakeLock
  <2> QED
    BY <2>1, <2>2 DEF ChainInv
<1>4. ASSUME NEW w \in Writers, ReadTail(w)
      PROVE  ChainInv'
  <2>1. TypeOK' /\ LockHeld' /\ Recorded'
    BY <1>4 DEF ChainInv, ReadTail, TypeOK, LockHeld, Recorded
  <2>2. ChainIntact' /\ AckedStored'
    BY <1>4 DEF ChainInv, ReadTail, ChainIntact, AckedStored
  <2>3. TailStable'
    <3> SUFFICES ASSUME NEW v \in Writers, pc'[v] = "linked"
                 PROVE  row'[v] = link(rows', event'[v])
      BY DEF TailStable
    <3>1. CASE v = w
      BY <3>1, <1>4 DEF ChainInv, ReadTail, TypeOK
    <3>2. CASE v # w
      BY <3>2, <1>4 DEF ChainInv, ReadTail, TypeOK, TailStable
    <3> QED
      BY <3>1, <3>2
  <2> QED
    BY <2>1, <2>2, <2>3 DEF ChainInv
<1>5. ASSUME NEW w \in Writers, NEW told \in BOOLEAN, Commit(w, told)
      PROVE  ChainInv'
  <2>1. EndTransaction(w) /\ pc[w] = "linked"
    BY <1>5 DEF Commit
  <2>2. rows' \in Seq({rows'[i] : i \in DOMAIN rows'}) /\ ChainIntact'
    <3>1. /\ rows \in Seq({rows[i] : i \in DOMAIN rows}) /\ verify_chain(rows)
          /\ rows' = Append(rows, link(rows, event[w]))
      BY <1>5, CommitRows DEF ChainInv, TypeOK, ChainIntact
    <3> DEFINE old == rows
               new == rows'
    <3>2. /\ old \in Seq({old[i] : i \in DOMAIN old}) /\ verify_chain(old)
          /\ new = Append(old, link(old, event[w]))
      BY <3>1
    <3> HIDE DEF old, new
    <3>3. new \in Seq({new[i] : i \in DOMAIN new})
      BY <3>2, AppendIsSeq
    <3>4. verify_chain(new)
      BY <3>2, LinkExtends
    <3> QED
      BY <3>3, <3>4 DEF new, ChainIntact, verify_chain, LinkOK
  <2>3. event[w] \in Events \ fresh
    BY <2>1 DEF ChainInv, Recorded
  <2>4. acked' \subseteq acked \union {event[w]}
    BY <1>5 DEF Commit
  <2>5. TypeOK' /\ LockHeld'
    BY <2>1, <2>2, <2>3, <2>4, EndTransactionInv DEF ChainInv, TypeOK
  <2>6. Recorded'
    <3>1. ASSUME NEW v \in Writers, pc'[v] # "idle"
          PROVE  /\ event'[v] \in Events \ fresh'
                 /\ \A u \in Writers : pc'[u] # "idle" /\ event'[u] = event'[v] => u = v
                 /\ event'[v] # event[w]
                 /\ \A i \in DOMAIN rows : rows[i].event # event'[v]
      BY <3>1, <2>1, EndTransactionInv DEF ChainInv, Recorded
    <3>2. \A i \in DOMAIN rows' : i \in DOMAIN rows \/ i = Len(rows) + 1
      BY <1>5, CommitRows
    <3>3. \A i \in DOMAIN rows' : rows'[i].event \in Events \ fresh'
      BY <3>2, <1>5, <2>1, <2>3, CommitRows, EndTransactionInv DEF ChainInv, Recorded
    <3>4. \A v \in Writers : pc'[v] # "idle" => \A i \in DOMAIN rows' : rows'[i].event # event'[v]
      BY <3>1, <3>2, <1>5, CommitRows
    <3> QED
      BY <3>1, <3>3, <3>4 DEF Recorded
  <2>7. TailStable'
    <3>1. \A v \in Writers : v # w => pc[v] # "linked"
      BY <2>1 DEF ChainInv, LockHeld
    <3> QED
      BY <2>1, <3>1, EndTransactionInv DEF TailStable
  <2>8. AckedStored'
    <3>1. \A i \in DOMAIN rows' : i \in DOMAIN rows \/ i = Len(rows) + 1
      BY <1>5, CommitRows
    <3>2. \A i \in DOMAIN rows : rows[i].event # event[w]
      BY <2>1 DEF ChainInv, Recorded
    <3>3. \A i, j \in DOMAIN rows' : rows'[i].event = rows'[j].event => i = j
      BY <3>1, <3>2, <1>5, CommitRows DEF ChainInv, AckedStored
    <3>4. ASSUME NEW e \in acked'
          PROVE  \E i \in DOMAIN rows' : rows'[i].event = e
      <4>1. CASE e = event[w]
        <5>1. Len(rows) + 1 \in DOMAIN rows' /\ rows'[Len(rows) + 1].event = event[w]
          BY <1>5, CommitRows
        <5> QED
          BY <4>1, <5>1
      <4>2. CASE e \in acked
        <5>1. PICK i \in DOMAIN rows : rows[i].event = e
          BY <4>2 DEF ChainInv, AckedStored
        <5>2. i \in DOMAIN rows' /\ rows'[i] = rows[i]
          BY <1>5, CommitRows
        <5> QED
          BY <5>1, <5>2
      <4> QED
        BY <4>1, <4>2, <2>4
    <3> QED
      BY <3>3, <3>4 DEF AckedStored
  <2> QED
    BY <2>2, <2>5, <2>6, <2>7, <2>8 DEF ChainInv
<1>6. ASSUME NEW w \in Writers, Rollback(w)
      PROVE  ChainInv'
  <2>1. EndTransaction(w) /\ rows' = rows /\ acked' = acked
    BY <1>6 DEF Rollback
  <2>2. TypeOK' /\ LockHeld'
    BY <2>1, EndTransactionInv DEF ChainInv, TypeOK
  <2>3. Recorded'
    BY <2>1, EndTransactionInv DEF ChainInv, Recorded
  <2>4. TailStable' /\ ChainIntact' /\ AckedStored'
    BY <2>1, EndTransactionInv, SameRows
  <2> QED
    BY <2>2, <2>3, <2>4 DEF ChainInv
<1>7. CASE UNCHANGED vars
  <2>1. TypeOK' /\ LockHeld' /\ Recorded'
    BY <1>7 DEF ChainInv, vars, TypeOK, LockHeld, Recorded
  <2>2. TailStable' /\ ChainIntact' /\ AckedStored'
    BY <1>7, SameRows DEF vars
  <2> QED
    BY <2>1, <2>2 DEF ChainInv
<1> QED
  BY <1>1, <1>2, <1>3, <1>4, <1>5, <1>6, <1>7 DEF Next

(* The whole bookkeeping of _append_event holds in every reachable state. *)
THEOREM ChainInvHolds == Spec => []ChainInv
  BY InitChain, StepChain, PTL DEF Spec

(* The stored audit chain verifies at any time: concurrent appends of any  *)
(* number of processes, failed ones included, never fork it.               *)
THEOREM ChainIntactHolds == Spec => []ChainIntact
<1>1. ChainInv => ChainIntact
  BY DEF ChainInv
<1> QED
  BY <1>1, ChainInvHolds, PTL

(* The tail an append read is the tail when it inserts: the advisory lock  *)
(* leaves the primary key nothing to refuse.                               *)
THEOREM TailStableHolds == Spec => []TailStable
<1>1. ChainInv => TailStable
  BY DEF ChainInv
<1> QED
  BY <1>1, ChainInvHolds, PTL

(* Every acknowledged event is stored, and stored once. *)
THEOREM AckedStoredHolds == Spec => []AckedStored
<1>1. ChainInv => AckedStored
  BY DEF ChainInv
<1> QED
  BY <1>1, ChainInvHolds, PTL

-----------------------------------------------------------------------------
(* Tampering                                                               *)

(* A row has the four fields of an AuditRecord and no other. *)
IsRecord(r) ==
    r = [seq |-> r.seq, event |-> r.event, prev_hash |-> r.prev_hash, event_hash |-> r.event_hash]

(* What is in the table are records. *)
RowShape == \A i \in DOMAIN rows : IsRecord(rows[i])

(* What verify_chain has to stand on: a chain of records that verifies and *)
(* in which no event occurs twice.                                         *)
Chain(s) ==
    /\ s \in Seq({s[i] : i \in DOMAIN s})
    /\ verify_chain(s)
    /\ \A i \in DOMAIN s : IsRecord(s[i]) /\ s[i].event \in Events
    /\ \A i, j \in DOMAIN s : s[i].event = s[j].event => i = j

(* The length of a function on 1..n is n. *)
LEMMA LenOfFunction ==
    ASSUME NEW n \in Nat, NEW t, t = [k \in 1..n |-> t[k]]
    PROVE  Len(t) = n
<1> DEFINE T == {t[k] : k \in 1..n}
<1>1. t \in [1..n -> T]
  OBVIOUS
<1> HIDE DEF T
<1>2. t \in Seq(T)
  BY <1>1, SeqOfFunction
<1>3. Len(t) \in Nat /\ DOMAIN t = 1..Len(t) /\ DOMAIN t = 1..n
  BY <1>1, <1>2, LenProperties
<1> QED
  BY <1>3

(* What the links of a chain say of a record: its hash is that of its own  *)
(* content, and its prev_hash the hash of the record before.               *)
LEMMA ChainFields ==
    ASSUME NEW s, Chain(s)
    PROVE  /\ Len(s) \in Nat /\ DOMAIN s = 1..Len(s)
           /\ \A i \in 1..Len(s) :
                 /\ s[i].seq = i - 1
                 /\ s[i].event \in Events
                 /\ s[i].event_hash = compute_event_hash(s[i].prev_hash, s[i].event)
                 /\ i = 1 => s[i].prev_hash = Genesis
                 /\ i # 1 => s[i].prev_hash = s[i - 1].event_hash
<1>1. Len(s) \in Nat /\ DOMAIN s = 1..Len(s)
  BY DEF Chain
<1>2. \A i \in 1..Len(s) : LinkOK(s, i) /\ s[i].event \in Events
  BY <1>1 DEF Chain, verify_chain
<1> QED
  BY <1>1, <1>2 DEF LinkOK

(* The same, read from a record to the one after it. *)
LEMMA ChainNext ==
    ASSUME NEW s, Chain(s), NEW i \in 1..Len(s), NEW j \in 1..Len(s), j = i + 1
    PROVE  s[j].prev_hash = s[i].event_hash
<1>1. j # 1 /\ j - 1 = i /\ j \in 1..Len(s)
  BY ChainFields
<1>2. s[j].prev_hash = s[j - 1].event_hash
  BY <1>1, ChainFields
<1> QED
  BY <1>1, <1>2

(* No two records of a chain have the same hash, and the first has not the *)
(* genesis hash.                                                           *)
LEMMA HashesApart ==
    ASSUME NEW s, Chain(s)
    PROVE  /\ \A i, j \in 1..Len(s) : s[i].event_hash = s[j].event_hash => i = j
           /\ 1 \in 1..Len(s) => s[1].event_hash # Genesis
<1>1. ASSUME NEW i \in 1..Len(s), NEW j \in 1..Len(s), s[i].event_hash = s[j].event_hash
      PROVE  i = j
  <2>1. s[i].event = s[j].event
    BY <1>1, ChainFields DEF compute_event_hash
  <2> QED
    BY <2>1, ChainFields DEF Chain
<1>2. ASSUME 1 \in 1..Len(s)
      PROVE  s[1].event_hash # Genesis
  BY <1>2, ChainFields, GenesisNoHash
<1> QED
  BY <1>1, <1>2

(* A changed event contradicts the record's own hash. *)
LEMMA EditedDetected ==
    ASSUME NEW s, Chain(s), NEW i \in 1..Len(s), NEW e, e # s[i].event
    PROVE  ~verify_chain(Edited(s, i, e))
<1> DEFINE t == Edited(s, i, e)
<1>0. DOMAIN s = 1..Len(s) /\ Len(s) \in Nat /\ IsRecord(s[i])
  BY ChainFields DEF Chain
<1>1. t = [k \in 1..Len(s) |-> t[k]] /\ t[i] = [s[i] EXCEPT !.event = e]
  BY <1>0 DEF Edited, Chain
<1>2. t[i].event = e /\ t[i].event_hash = s[i].event_hash /\ t[i].prev_hash = s[i].prev_hash
  BY <1>0, <1>1 DEF IsRecord
<1> HIDE DEF t
<1>3. Len(t) = Len(s)
  BY <1>0, <1>1, LenOfFunction
<1>4. ~LinkOK(t, i)
  BY <1>2, ChainFields DEF LinkOK, compute_event_hash
<1>5. ~verify_chain(t)
  BY <1>3, <1>4 DEF verify_chain
<1> QED
  BY <1>5 DEF t

(* A changed event under a hash computed again contradicts the prev_hash   *)
(* of the record that follows.                                             *)
LEMMA RehashedDetected ==
    ASSUME NEW s, Chain(s), NEW i \in 1..Len(s), i < Len(s), NEW e, e # s[i].event
    PROVE  ~verify_chain(Rehashed(s, i, e))
<1> DEFINE t == Rehashed(s, i, e)
           h == compute_event_hash(s[i].prev_hash, e)
<1>0. DOMAIN s = 1..Len(s) /\ Len(s) \in Nat /\ IsRecord(s[i]) /\ i + 1 \in 1..Len(s)
  BY ChainFields DEF Chain
<1>1. /\ t = [k \in 1..Len(s) |-> t[k]]
      /\ t[i] = [[s[i] EXCEPT !.event = e] EXCEPT !.event_hash = h]
      /\ t[i + 1] = s[i + 1]
  <2> DEFINE u == [s EXCEPT ![i].event = e]
  <2>1. u[i] = [s[i] EXCEPT !.event = e] /\ DOMAIN u = 1..Len(s) /\ u[i + 1] = s[i + 1]
    BY <1>0
  <2>2. t = [u EXCEPT ![i].event_hash = h]
    BY DEF Rehashed
  <2> HIDE DEF u, h
  <2>3. t = [k \in 1..Len(s) |-> IF k = i THEN [u[i] EXCEPT !.event_hash = h] ELSE u[k]]
    BY <2>1, <2>2
  <2> HIDE DEF t
  <2>4. t = [k \in 1..Len(s) |-> t[k]]
    BY <2>3
  <2>5. t[i] = [u[i] EXCEPT !.event_hash = h] /\ t[i + 1] = u[i + 1]
    BY <2>3, <1>0
  <2> QED
    BY <2>1, <2>4, <2>5
<1>2. t[i].event_hash = h
  BY <1>0, <1>1 DEF IsRecord
<1> HIDE DEF t
<1>3. Len(t) = Len(s)
  BY <1>0, <1>1, LenOfFunction
<1>4. s[i + 1].prev_hash = compute_event_hash(s[i].prev_hash, s[i].event)
  BY <1>0, ChainFields, ChainNext
<1>5. ~LinkOK(t, i + 1)
  <2>1. i + 1 # 1 /\ i + 1 - 1 = i
    BY <1>0
  <2>2. t[i + 1].prev_hash # h
    BY <1>1, <1>4 DEF compute_event_hash
  <2> QED
    BY <2>1, <2>2, <1>2 DEF LinkOK
<1>6. ~verify_chain(t)
  BY <1>0, <1>3, <1>5 DEF verify_chain
<1> QED
  BY <1>6 DEF t

(* The record after a removed one points to a hash that is not there. *)
LEMMA RemovedDetected ==
    ASSUME NEW s, Chain(s), NEW i \in 1..Len(s), i < Len(s)
    PROVE  ~verify_chain(Removed(s, i))
<1> DEFINE t == Removed(s, i)
<1>0. /\ DOMAIN s = 1..Len(s) /\ Len(s) \in Nat /\ i + 1 \in 1..Len(s)
      /\ IsRecord(s[i + 1]) /\ i \in 1..(Len(s) - 1) /\ Len(s) - 1 \in Nat
  BY ChainFields DEF Chain
<1>1. /\ t = [k \in 1..(Len(s) - 1) |-> t[k]]
      /\ t[i] = [s[i + 1] EXCEPT !.seq = i - 1]
      /\ i # 1 => t[i - 1] = s[i - 1]
  BY <1>0 DEF Removed
<1>2. t[i].prev_hash = s[i + 1].prev_hash
  BY <1>0, <1>1 DEF IsRecord
<1> HIDE DEF t
<1>3. Len(t) = Len(s) - 1
  BY <1>0, <1>1, LenOfFunction
<1>4. t[i].prev_hash = s[i].event_hash
  BY <1>0, <1>2, ChainNext
<1>5. ~LinkOK(t, i)
  <2>1. CASE i = 1
    BY <2>1, <1>4, HashesApart DEF LinkOK
  <2>2. CASE i # 1
    <3>1. i - 1 \in 1..Len(s) /\ i - 1 # i
      BY <2>2, <1>0
    <3>2. s[i - 1].event_hash # s[i].event_hash
      BY <3>1, HashesApart
    <3> QED
      BY <3>2, <2>2, <1>1, <1>4 DEF LinkOK
  <2> QED
    BY <2>1, <2>2
<1>6. ~verify_chain(t)
  BY <1>0, <1>3, <1>5 DEF verify_chain
<1> QED
  BY <1>6 DEF t

(* Of two exchanged records the earlier place, or the one after it, has a  *)
(* prev_hash that is not the hash before it.                               *)
LEMMA SwappedInOrder ==
    ASSUME NEW s, Chain(s), NEW m \in 1..Len(s), NEW n \in 1..Len(s), m < n,
           NEW t, t = [k \in 1..Len(s) |-> t[k]],
           t[m].prev_hash = s[n].prev_hash, t[m].event_hash = s[n].event_hash,
           \A k \in 1..Len(s) : k # m /\ k # n => t[k] = s[k],
           t[n].prev_hash = s[m].prev_hash
    PROVE  ~verify_chain(t)
<1>0. DOMAIN s = 1..Len(s) /\ Len(s) \in Nat
  BY ChainFields
<1>1. Len(t) = Len(s)
  BY <1>0, LenOfFunction
<1>2. n - 1 \in 1..Len(s) /\ s[n].prev_hash = s[n - 1].event_hash
  <2>1. n - 1 \in 1..Len(s) /\ n = (n - 1) + 1
    BY <1>0
  <2> QED
    BY <2>1, ChainNext
<1>3. CASE m = 1
  <2>1. n - 1 # 1 \/ n - 1 = 1
    OBVIOUS
  <2>2. s[1].prev_hash = Genesis /\ s[1].event_hash # Genesis /\ 1 \in 1..Len(s)
    BY <1>3, HashesApart, ChainFields
  <2>3. CASE n - 1 = 1
    <3>1. ~LinkOK(t, 1)
      BY <2>2, <2>3, <1>2, <1>3 DEF LinkOK
    <3> QED
      BY <3>1, <2>2, <1>1 DEF verify_chain
  <2>4. CASE n - 1 # 1
    <3>1. 2 \in 1..Len(s) /\ 2 # m /\ 2 # n
      BY <2>4, <1>0, <1>2, <1>3
    <3>2. t[2].prev_hash = s[1].event_hash
      BY <3>1, <2>2, ChainNext
    <3>3. s[1].event_hash # s[n].event_hash
      BY <2>2, <1>3, HashesApart
    <3>4. ~LinkOK(t, 2)
      BY <3>2, <3>3, <1>3 DEF LinkOK
    <3> QED
      BY <3>1, <3>4, <1>1 DEF verify_chain
  <2> QED
    BY <2>3, <2>4
<1>4. CASE m # 1
  <2>1. m - 1 \in 1..Len(s) /\ m - 1 # m /\ m - 1 # n /\ m - 1 # n - 1
    BY <1>0, <1>4
  <2>2. t[m - 1] = s[m - 1] /\ s[m - 1].event_hash # s[n - 1].event_hash
    BY <2>1, <1>2, HashesApart
  <2>3. ~LinkOK(t, m)
    BY <2>2, <1>2, <1>4 DEF LinkOK
  <2> QED
    BY <2>3, <1>1 DEF verify_chain
<1> QED
  BY <1>3, <1>4

(* Two exchanged records are detected, whichever is named first. *)
LEMMA SwappedDetected ==
    ASSUME NEW s, Chain(s), NEW i \in 1..Len(s), NEW j \in 1..Len(s), i # j
    PROVE  ~verify_chain(Swapped(s, i, j))
<1> DEFINE t == Swapped(s, i, j)
<1>0. DOMAIN s = 1..Len(s) /\ Len(s) \in Nat /\ IsRecord(s[i]) /\ IsRecord(s[j])
  BY ChainFields DEF Chain
<1>1. /\ t = [k \in 1..Len(s) |-> t[k]]
      /\ t[i] = [s[j] EXCEPT !.seq = i - 1]
      /\ t[j] = [s[i] EXCEPT !.seq = j - 1]
      /\ \A k \in 1..Len(s) : k # i /\ k # j => t[k] = s[k]
  BY <1>0 DEF Swapped, Chain
<1>2. /\ t[i].prev_hash = s[j].prev_hash /\ t[i].event_hash = s[j].event_hash
      /\ t[j].prev_hash = s[i].prev_hash /\ t[j].event_hash = s[i].event_hash
  BY <1>0, <1>1 DEF IsRecord
<1> HIDE DEF t
<1>3. ~verify_chain(t)
  <2>1. CASE i < j
    BY <2>1, <1>1, <1>2, SwappedInOrder
  <2>2. CASE j < i
    BY <2>2, <1>1, <1>2, SwappedInOrder
  <2> QED
    BY <2>1, <2>2, <1>0
<1> QED
  BY <1>3 DEF t

(* A table holds records and nothing else: link makes the row that Commit  *)
(* appends.                                                                *)
LEMMA RowShapeStep == ChainInv /\ RowShape /\ [Next]_vars => RowShape'
<1> SUFFICES ASSUME ChainInv, RowShape, [Next]_vars PROVE RowShape'
  OBVIOUS
<1>1. ASSUME NEW w \in Writers, NEW told \in BOOLEAN, Commit(w, told)
      PROVE  RowShape'
  <2>1. /\ DOMAIN rows' = 1..(Len(rows) + 1) /\ DOMAIN rows = 1..Len(rows) /\ Len(rows) \in Nat
        /\ \A i \in DOMAIN rows : rows'[i] = rows[i]
        /\ rows' = Append(rows, link(rows, event[w]))
    BY <1>1, CommitRows
  <2>2. rows'[Len(rows) + 1] = link(rows, event[w])
    <3> DEFINE x == link(rows, event[w])
               S == {rows[i] : i \in DOMAIN rows} \union {x}
    <3>1. rows \in Seq(S) /\ x \in S
      BY DEF ChainInv, TypeOK
    <3> HIDE DEF S, x
    <3>2. rows'[Len(rows) + 1] = x
      BY <3>1, <2>1, AppendProperties DEF x
    <3> QED
      BY <3>2 DEF x
  <2>3. IsRecord(link(rows, event[w]))
    BY DEF link, IsRecord
  <2> QED
    BY <2>1, <2>2, <2>3 DEF RowShape
<1>2. ASSUME UNCHANGED rows
      PROVE  RowShape'
  BY <1>2 DEF RowShape
<1> QED
  BY <1>1, <1>2 DEF Next, vars, Record, Connect, TakeLock, ReadTail, Rollback

(* The table is a chain in the sense of the lemmas above. *)
LEMMA RowsChain == ChainInv /\ RowShape => Chain(rows)
  BY DEF ChainInv, RowShape, Chain, TypeOK, ChainIntact, Recorded, AckedStored

(* Every chain the audit log can hold, written by any number of processes, *)
(* is tamper evident: verify_chain refuses a changed event and two records *)
(* exchanged, and, as long as a later record is left, a changed event      *)
(* under a new hash and a record taken out.                                *)
THEOREM TamperEvidentHolds == Spec => []TamperEvident
<1>1. Init => RowShape
  BY DEF Init, RowShape
<1>2. ChainInv /\ RowShape => TamperEvident
  <2> SUFFICES ASSUME ChainInv, RowShape PROVE TamperEvident
    OBVIOUS
  <2>1. Chain(rows) /\ DOMAIN rows = 1..Len(rows)
    BY RowsChain, ChainFields
  <2>2. ASSUME NEW i \in DOMAIN rows, NEW e \in Events \ {rows[i].event}
        PROVE  /\ ~verify_chain(Edited(rows, i, e))
               /\ i < Len(rows) => ~verify_chain(Rehashed(rows, i, e))
    BY <2>1, EditedDetected, RehashedDetected
  <2>3. ASSUME NEW i \in DOMAIN rows, i < Len(rows)
        PROVE  ~verify_chain(Removed(rows, i))
    BY <2>1, <2>3, RemovedDetected
  <2>4. ASSUME NEW i \in DOMAIN rows, NEW j \in DOMAIN rows, i # j
        PROVE  ~verify_chain(Swapped(rows, i, j))
    BY <2>1, <2>4, SwappedDetected
  <2> QED
    BY <2>2, <2>3, <2>4 DEF TamperEvident
<1> QED
  BY <1>1, <1>2, RowShapeStep, ChainInvHolds, PTL DEF Spec
=============================================================================
