-------------------------- MODULE AgentTurnProofs --------------------------
(***************************************************************************)
(* The approval gate of AgentTurn, for any number of requests, workers,    *)
(* principals, actions, plans and faults.                                  *)
(***************************************************************************)
EXTENDS AgentTurn, SequenceTheorems, TLAPS

(* Where a run is, in terms of the code it executes. *)
OnTools == {"guard", "call", "record"}

InGraph == {"invoke", "approval", "executor", "responder"} \union OnTools

(* No node has checkpointed the thread yet. *)
Early == {"absent", "planner"}

(* Which runs can be where, and what they carry there. *)
PcInv ==
    \A r \in Runs :
        /\ pc[r] = "plan" => r = Chat
        /\ pc[r] \in {"lock", "gate", "invoke", "approval", "release"} => r \in Requests
        /\ pc[r] \in {"lock", "gate", "invoke", "approval"} => caller[r] \in Users
        /\ pc[r] \in {"lock", "gate", "invoke"} => body[r] \in Bodies
        /\ pc[r] \in OnTools => todo[r] # <<>>
        /\ pc[r] = "record" => outcome[r] # "none"

(* Before the chat starts there is nothing to resume. *)
FreshInv ==
    pc[Chat] = "idle" =>
        /\ audit = <<>>
        /\ ckpt = NoThread
        /\ \A a \in Actions : effects[a] = 0
        /\ \A r \in Runs :
              /\ work[r] = NoThread /\ mem[r] = NoThread /\ ~dirty[r]
              /\ pc[r] \notin InGraph \union {"plan"}

(* A thread never falls back behind its planner, and only a thread that    *)
(* the planner has left is resumed.                                        *)
CheckpointInv ==
    /\ \A r \in Runs :
          /\ mem[r].next = "planner" => r = Chat
          /\ dirty[r] => mem[r].next # "absent"
          /\ pc[r] \in {"idle", "lock", "gate", "invoke"} => ~dirty[r]
          /\ dirty[r] /\ ckpt.next \notin Early => mem[r].next # "planner"
    /\ \A r \in Requests : pc[r] \in InGraph \/ dirty[r] => ckpt.next \notin Early

(* Past the gate, the caller is the owner. *)
CallerInv ==
    \A r \in Requests :
        pc[r] \in {"invoke", "approval"} => caller[r] = owner /\ owner # Anonymous

(* What a copy of the thread's state says is on the ledger: its approvals  *)
(* with the owner's name, its proposals.                                   *)
HasBy(log, type, a, u) == \E i \in DOMAIN log : log[i] = Event(type, a, u)

Has(log, type, a) == \E i \in DOMAIN log : log[i].type = type /\ log[i].action = a

Known(log, o, s) ==
    /\ \A a \in s.approved : HasBy(log, "APPROVED", a, o)
    /\ \A i \in DOMAIN s.proposed : Has(log, "PROPOSED", s.proposed[i])

KnownInv ==
    /\ Known(audit, owner, ckpt)
    /\ \A r \in Runs : Known(audit, owner, mem[r]) /\ Known(audit, owner, work[r])

(* The executor goes through proposed actions, and what passed its checks  *)
(* carries an approval if it is gated.                                     *)
ToolInv ==
    \A r \in Runs :
        /\ pc[r] \in {"executor"} \union OnTools =>
              \A i \in DOMAIN todo[r] : Has(audit, "PROPOSED", todo[r][i])
        /\ pc[r] \in {"guard", "call"} /\ Head(todo[r]) \in Gated => Head(todo[r]) \in work[r].approved

(* Only gated actions are put before the owner. *)
OnlyGatedDecided ==
    \A i \in DOMAIN audit : audit[i].type = "APPROVED" => audit[i].action \in Gated

GateInv ==
    /\ TypeOK
    /\ PcInv
    /\ FreshInv
    /\ CheckpointInv
    /\ CallerInv
    /\ KnownInv
    /\ ToolInv
    /\ OnlyGatedDecided
    /\ OnlyOwnerDecides
    /\ ApprovedBeforeEffect

USE DEF runVars, reqVars, worldVars

-----------------------------------------------------------------------------
(* Facts about the data                                                    *)

(* An update of one channel of the state keeps its type. *)
LEMMA StateUpdate ==
    ASSUME NEW s \in States
    PROVE  /\ \A n \in Nodes : [s EXCEPT !.next = n] \in States
           /\ \A q \in Seq(Actions) : [s EXCEPT !.proposed = q] \in States
           /\ \A A \in SUBSET Actions : [s EXCEPT !.approved = A] \in States
           /\ \A A \in SUBSET Actions : [s EXCEPT !.rejected = A] \in States
           /\ \A q \in Seq(ResultType) : [s EXCEPT !.results = q] \in States
  BY DEF States

(* The empty thread is a state. *)
LEMMA NoThreadState ==
    /\ NoThread \in States /\ initial_state \in States
    /\ \A log, o : Known(log, o, NoThread) /\ Known(log, o, initial_state)
<1>1. NoThread \in States
  BY EmptySeq DEF NoThread, States
<1>2. "planner" \in Nodes
  BY DEF Nodes
<1>3. initial_state \in States
  BY <1>1, <1>2, StateUpdate DEF initial_state
<1>4. \A log, o : Known(log, o, NoThread)
  BY DEF Known, NoThread
<1>5. initial_state.approved = {} /\ initial_state.proposed = <<>>
  BY DEF initial_state, NoThread
<1>6. \A log, o : Known(log, o, initial_state)
  BY <1>5 DEF Known
<1> QED
  BY <1>1, <1>3, <1>4, <1>6

(* What is left of a loop was there before. *)
LEMMA HeadTail ==
    ASSUME NEW S, NEW q \in Seq(S), q # <<>>
    PROVE  /\ Head(q) \in S
           /\ Tail(q) \in Seq(S)
           /\ 1 \in DOMAIN q /\ Head(q) = q[1]
           /\ \A i \in DOMAIN Tail(q) : i + 1 \in DOMAIN q /\ Tail(q)[i] = q[i + 1]
  BY HeadTailProperties, LenProperties, EmptySeq

(* The ledger new is the ledger old with the events E added. *)
Adds(old, new, E) ==
    /\ \A i \in DOMAIN old : i \in DOMAIN new /\ new[i] = old[i]
    /\ \A i \in DOMAIN new : (i \in DOMAIN old /\ new[i] = old[i]) \/ new[i] \in E
    /\ \A e \in E : \E i \in DOMAIN new : new[i] = e

(* Appending an event adds it. *)
LEMMA AppendAdds ==
    ASSUME NEW S, NEW s \in Seq(S), NEW e \in S
    PROVE  Append(s, e) \in Seq(S) /\ Adds(s, Append(s, e), {e})
<1>1. /\ Append(s, e) \in Seq(S) /\ Len(Append(s, e)) = Len(s) + 1
      /\ \A i \in 1..Len(s) : Append(s, e)[i] = s[i]
      /\ Append(s, e)[Len(s) + 1] = e
  BY AppendProperties
<1>2. DOMAIN s = 1..Len(s) /\ Len(s) \in Nat /\ DOMAIN Append(s, e) = 1..(Len(s) + 1)
  BY <1>1, LenProperties
<1>3. \A i \in DOMAIN s : i \in DOMAIN Append(s, e) /\ Append(s, e)[i] = s[i]
  BY <1>1, <1>2
<1>4. \A i \in DOMAIN Append(s, e) : (i \in DOMAIN s /\ Append(s, e)[i] = s[i]) \/ Append(s, e)[i] = e
  BY <1>1, <1>2
<1>5. \E i \in DOMAIN Append(s, e) : Append(s, e)[i] = e
  BY <1>1, <1>2
<1> QED
  BY <1>1, <1>3, <1>4, <1>5 DEF Adds

(* Two additions in a row. *)
LEMMA AddsTwice ==
    ASSUME NEW s, NEW t, NEW v, NEW E, NEW F, Adds(s, t, E), Adds(t, v, F)
    PROVE  Adds(s, v, E \union F)
  BY DEF Adds

(* What the ledger has it keeps. *)
LEMMA LedgerGrows ==
    ASSUME NEW old, NEW new, NEW E, Adds(old, new, E)
    PROVE  /\ \A type, a : Has(old, type, a) => Has(new, type, a)
           /\ \A type, a, u : HasBy(old, type, a, u) => HasBy(new, type, a, u)
           /\ \A o, s : Known(old, o, s) => Known(new, o, s)
<1>1. \A type, a : Has(old, type, a) => Has(new, type, a)
  BY DEF Adds, Has
<1>2. \A type, a, u : HasBy(old, type, a, u) => HasBy(new, type, a, u)
  BY DEF Adds, HasBy
<1> QED
  BY <1>1, <1>2 DEF Known

-----------------------------------------------------------------------------
(* What a step that leaves some variables alone preserves                  *)

(* No change of the ledger, the provider or the owner. *)
LEMMA LedgerFrame ==
    ASSUME GateInv, UNCHANGED <<owner, audit, effects>>
    PROVE  OnlyGatedDecided' /\ OnlyOwnerDecides' /\ ApprovedBeforeEffect'
  BY DEF GateInv, OnlyGatedDecided, OnlyOwnerDecides, ApprovedBeforeEffect, LoggedBy

(* Events that decide nothing, or decide for the owner about a gated       *)
(* action, are added.                                                      *)
LEMMA LedgerAdds ==
    ASSUME GateInv, UNCHANGED <<owner, effects>>, NEW E, Adds(audit, audit', E),
           \A e \in E : e.type \in {"APPROVED", "REJECTED"} =>
                            e.action \in Gated /\ e.actor = owner /\ owner # Anonymous
    PROVE  OnlyGatedDecided' /\ OnlyOwnerDecides' /\ ApprovedBeforeEffect'
<1>1. OnlyGatedDecided'
  BY DEF GateInv, OnlyGatedDecided, Adds
<1>2. OnlyOwnerDecides'
  BY DEF GateInv, OnlyOwnerDecides, Adds
<1>3. ApprovedBeforeEffect'
  BY DEF GateInv, ApprovedBeforeEffect, LoggedBy, Adds
<1> QED
  BY <1>1, <1>2, <1>3

(* The running node goes on with its loop. *)
LEMMA PopTodo ==
    ASSUME GateInv, NEW r \in Runs, todo[r] # <<>>, Pop(r),
           \A q \in Runs : pc'[q] = "approval" <=> pc[q] = "approval"
    PROVE  /\ TodoOK'
           /\ \A q \in Runs : q # r => todo'[q] = todo[q]
           /\ \A i \in DOMAIN todo'[r] : i + 1 \in DOMAIN todo[r] /\ todo'[r][i] = todo[r][i + 1]
<1>1. /\ DOMAIN todo = Runs
      /\ \A q \in Runs : todo[q] \in IF pc[q] = "approval" THEN Seq(DecisionType) ELSE Seq(Actions)
  BY DEF GateInv, TypeOK, TodoOK
<1>2. DOMAIN todo' = Runs /\ todo'[r] = Tail(todo[r]) /\ \A q \in Runs : q # r => todo'[q] = todo[q]
  BY <1>1 DEF Pop
<1>3. /\ todo'[r] \in IF pc[r] = "approval" THEN Seq(DecisionType) ELSE Seq(Actions)
      /\ \A i \in DOMAIN todo'[r] : i + 1 \in DOMAIN todo[r] /\ todo'[r][i] = todo[r][i + 1]
  BY <1>1, <1>2, HeadTail
<1>4. TodoOK'
  BY <1>1, <1>2, <1>3 DEF TodoOK
<1> QED
  BY <1>2, <1>3, <1>4

(* The action a node is at, outside approval_node. *)
LEMMA AtAction ==
    ASSUME GateInv, NEW r \in Runs, todo[r] # <<>>, pc[r] # "approval"
    PROVE  /\ todo[r] \in Seq(Actions) /\ Head(todo[r]) \in Actions
           /\ 1 \in DOMAIN todo[r] /\ Head(todo[r]) = todo[r][1]
<1>1. todo[r] \in Seq(Actions)
  BY DEF GateInv, TypeOK, TodoOK
<1> QED
  BY <1>1, HeadTail

(* The checkpoint after a node is a state, its node the next one. *)
LEMMA CheckpointType ==
    ASSUME GateInv, NEW r \in Runs, NEW n \in Nodes, Checkpoint(r, n)
    PROVE  /\ work' \in [Runs -> States] /\ mem' \in [Runs -> States] /\ dirty' \in [Runs -> BOOLEAN]
           /\ mem'[r].next = n
           /\ \A o, log : Known(log, o, work[r]) => Known(log, o, work'[r]) /\ Known(log, o, mem'[r])
           /\ work'[r].approved = work[r].approved
           /\ \A q \in Runs : q # r => work'[q] = work[q] /\ mem'[q] = mem[q] /\ dirty'[q] = dirty[q]
<1> DEFINE s == [work[r] EXCEPT !.next = n]
<1>1. work \in [Runs -> States] /\ mem \in [Runs -> States] /\ dirty \in [Runs -> BOOLEAN]
  BY DEF GateInv, TypeOK
<1>2. s \in States /\ s.next = n /\ s.proposed = work[r].proposed /\ s.approved = work[r].approved
  <2>1. s \in States
    BY <1>1, StateUpdate
  <2>2. work[r] \in States
    BY <1>1
  <2> QED
    BY <2>1, <2>2 DEF States
<1>3. work' = [work EXCEPT ![r] = s] /\ mem' = [mem EXCEPT ![r] = s] /\ dirty' = [dirty EXCEPT ![r] = TRUE]
  BY <1>1 DEF Checkpoint
<1> HIDE DEF s
<1>4. \A o, log : Known(log, o, work[r]) => Known(log, o, s)
  BY <1>2 DEF Known
<1> QED
  BY <1>1, <1>2, <1>3, <1>4

(* What a run that is over forgets. *)
LEMMA ForgetType ==
    ASSUME GateInv, NEW gone, Forget(gone)
    PROVE  /\ mem' \in [Runs -> States] /\ work' \in [Runs -> States]
           /\ outcome' \in [Runs -> {"none", "EXECUTED", "FAILED"}]
           /\ caller' \in [Runs -> Users \union {None}]
           /\ body' \in [Runs -> Bodies \union {None}]
           /\ DOMAIN todo' = Runs /\ \A q \in Runs : todo'[q] = IF q \in gone THEN <<>> ELSE todo[q]
<1>1. mem' \in [Runs -> States] /\ work' \in [Runs -> States]
  BY NoThreadState DEF Forget, GateInv, TypeOK
<1>2. /\ outcome' \in [Runs -> {"none", "EXECUTED", "FAILED"}]
      /\ caller' \in [Runs -> Users \union {None}]
      /\ body' \in [Runs -> Bodies \union {None}]
  BY DEF Forget, GateInv, TypeOK
<1> QED
  BY <1>1, <1>2 DEF Forget

(* The decisions made of a request. *)
LEMMA PayloadType ==
    ASSUME NEW b \in Bodies, NEW s \in States
    PROVE  decision_payload(b, s) \in Seq(DecisionType)
<1> DEFINE Mark(ids, yes) == [i \in DOMAIN ids |-> Decision(ids[i], yes)]
<1>1. ASSUME NEW ids \in Seq(Actions), NEW yes \in BOOLEAN
      PROVE  Mark(ids, yes) \in Seq(DecisionType)
  <2>1. DOMAIN ids = 1..Len(ids) /\ Len(ids) \in Nat /\ \A i \in 1..Len(ids) : ids[i] \in Actions
    BY <1>1, LenProperties
  <2>2. Mark(ids, yes) \in [1..Len(ids) -> DecisionType]
    BY <2>1 DEF Decision, DecisionType
  <2> HIDE DEF Mark
  <2> QED
    BY <2>1, <2>2, SeqDef, Zenon
<1>2. /\ b.approve \in BOOLEAN /\ b.approved_ids \in Seq(Actions) /\ b.rejected_ids \in Seq(Actions)
      /\ s.proposed \in Seq(Actions)
  BY BodiesType DEF States
<1>3. /\ Mark(s.proposed, b.approve) \in Seq(DecisionType)
      /\ Mark(b.approved_ids, TRUE) \in Seq(DecisionType)
      /\ Mark(b.rejected_ids, FALSE) \in Seq(DecisionType)
  BY <1>1, <1>2
<1>4. decision_payload(b, s) = IF b.blanket THEN Mark(s.proposed, b.approve)
                                            ELSE Mark(b.approved_ids, TRUE) \o Mark(b.rejected_ids, FALSE)
  BY DEF decision_payload
<1> HIDE DEF Mark
<1> QED
  BY <1>3, <1>4, ConcatProperties

(* A result joins the node's list. *)
LEMMA AddResult ==
    ASSUME NEW s \in States, NEW a \in Actions, NEW ok \in BOOLEAN
    PROVE  LET t == [s EXCEPT !.results = Append(s.results, Result(a, ok))]
           IN  t \in States /\ t.approved = s.approved /\ t.proposed = s.proposed
<1> DEFINE q == Append(s.results, Result(a, ok))
<1>1. Result(a, ok) \in ResultType /\ s.results \in Seq(ResultType)
  BY DEF Result, ResultType, States
<1>2. q \in Seq(ResultType)
  BY <1>1, AppendProperties
<1> HIDE DEF q
<1>3. [s EXCEPT !.results = q] \in States
  BY <1>2, StateUpdate
<1>4. [s EXCEPT !.results = q].approved = s.approved /\ [s EXCEPT !.results = q].proposed = s.proposed
  BY DEF States
<1> QED
  BY <1>3, <1>4 DEF q

(* What the planner writes about an action: it is proposed, and perhaps     *)
(* denied at once.                                                         *)
LEMMA PlanLedger ==
    ASSUME GateInv, NEW r \in Runs, PlanAction(r)
    PROVE  LET a == Head(todo[r])
               p == Event("PROPOSED", a, None)
               d == Event("DENIED", a, owner)
           IN  /\ audit' \in Seq(EventType)
               /\ Adds(audit, audit', {p}) \/ Adds(audit, audit', {p} \union {d})
<1> DEFINE a == Head(todo[r])
           p == Event("PROPOSED", a, None)
           d == Event("DENIED", a, owner)
<1>a. /\ todo[r] # <<>> /\ pc[r] = "plan" /\ a \in Actions
  BY AtAction DEF PlanAction
<1>b. /\ p \in EventType /\ d \in EventType
  BY <1>a DEF Event, EventType, EventTypes, GateInv, TypeOK
<1> HIDE DEF p, d
<1>1. audit \in Seq(EventType)
  BY DEF GateInv, TypeOK
<1>2. audit' = Append(audit, p) \/ audit' = Append(Append(audit, p), d)
  BY DEF PlanAction, p, d
<1>3. Append(audit, p) \in Seq(EventType) /\ Adds(audit, Append(audit, p), {p})
  BY <1>b, <1>1, AppendAdds
<1>4. /\ Append(Append(audit, p), d) \in Seq(EventType)
      /\ Adds(Append(audit, p), Append(Append(audit, p), d), {d})
  BY <1>b, <1>3, AppendAdds
<1>5. Adds(audit, Append(Append(audit, p), d), {p} \union {d})
  BY <1>3, <1>4, AddsTwice
<1> QED
  BY <1>2, <1>3, <1>4, <1>5 DEF p, d

-----------------------------------------------------------------------------
(* One lemma per action                                                    *)

(* A checkpoint becomes durable. *)
LEMMA FlushInv ==
    ASSUME GateInv, NEW r \in Runs, Flush(r)
    PROVE  GateInv'
<1>1. TypeOK'
  BY BoundsNat, ChatFresh DEF GateInv, Flush, TypeOK, PcInv, CheckpointInv, TodoOK, Labels, Runs
<1>2. PcInv'
  BY ChatFresh DEF GateInv, Flush, TypeOK, PcInv, Labels, OnTools, Runs
<1>3. FreshInv'
  BY DEF GateInv, Flush, TypeOK, FreshInv, PcInv, InGraph, OnTools, Runs
<1>4. CheckpointInv'
  BY ChatFresh DEF GateInv, Flush, TypeOK, CheckpointInv, PcInv, FreshInv, InGraph, Early,
         OnTools, States, Runs
<1>5. CallerInv'
  BY DEF GateInv, Flush, TypeOK, CallerInv, PcInv, FreshInv, Runs
<1>6. KnownInv'
  BY DEF GateInv, Flush, TypeOK, KnownInv, FreshInv, CallerInv, PcInv, Known, Has, HasBy, Runs
<1>7. ToolInv'
  BY DEF GateInv, Flush, TypeOK, ToolInv, PcInv, KnownInv, TodoOK, OnTools, Known, Has, Runs
<1>8. OnlyGatedDecided' /\ OnlyOwnerDecides' /\ ApprovedBeforeEffect'
  BY LedgerFrame DEF Flush
<1> QED
  BY <1>1, <1>2, <1>3, <1>4, <1>5, <1>6, <1>7, <1>8 DEF GateInv

(* The planner's checkpoint names the next node. *)
LEMMA FinishPlannerInv ==
    ASSUME GateInv, NEW r \in Runs, FinishPlanner(r)
    PROVE  GateInv'
<1>a. pc[r] = "plan" /\ r = Chat
  BY DEF GateInv, PcInv, FinishPlanner
<1>b. /\ route_after_planner(work[r]) \in Nodes \ {"planner", "end"}
      /\ Checkpoint(r, route_after_planner(work[r]))
  BY DEF FinishPlanner, route_after_planner, Nodes
<1>c. work[r] \in States /\ work[r].proposed \in Seq(Actions)
  BY DEF GateInv, TypeOK, States
<1>1. TypeOK'
  <2>1. work' \in [Runs -> States] /\ mem' \in [Runs -> States] /\ dirty' \in [Runs -> BOOLEAN]
    BY <1>b, CheckpointType
  <2>2. pc' \in [Runs -> Labels] /\ pc'[r] # "approval" /\ \A q \in Runs : q # r => pc'[q] = pc[q]
    BY <1>b DEF GateInv, TypeOK, FinishPlanner, Goto, Labels, Nodes
  <2>3. TodoOK'
    BY <2>2, <1>c DEF GateInv, TypeOK, TodoOK, FinishPlanner
  <2> QED
    BY <2>1, <2>2, <2>3 DEF GateInv, TypeOK, FinishPlanner
<1>2. PcInv'
  BY ChatFresh DEF GateInv, FinishPlanner, Checkpoint, Goto, route_after_planner, TypeOK, PcInv,
         Labels, OnTools, Runs
<1>3. FreshInv'
  BY DEF GateInv, FinishPlanner, Checkpoint, Goto, route_after_planner, TypeOK, FreshInv, PcInv,
         InGraph, OnTools, Runs
<1>4. CheckpointInv'
  <2>1. /\ mem'[r].next \in Nodes \ {"planner", "end"}
        /\ \A q \in Runs : q # r => mem'[q] = mem[q] /\ dirty'[q] = dirty[q]
    BY <1>b, CheckpointType
  <2>2. mem'[r].next \notin {"planner", "absent"}
    BY <2>1 DEF Nodes
  <2>3. ckpt' = ckpt /\ \A q \in Runs : q # r => pc'[q] = pc[q]
    BY DEF FinishPlanner, Goto, GateInv, TypeOK
  <2> QED
    <3>1. pc'[r] \notin {"idle", "lock", "gate", "invoke"}
      BY <1>b DEF FinishPlanner, Goto, GateInv, TypeOK, Nodes
    <3> QED
      BY <2>1, <2>2, <2>3, <3>1, <1>a, ChatFresh DEF GateInv, CheckpointInv, Runs
<1>5. CallerInv'
  BY DEF GateInv, FinishPlanner, Checkpoint, Goto, route_after_planner, TypeOK, CallerInv, PcInv,
         FreshInv, Runs
<1>6. KnownInv'
  BY DEF GateInv, FinishPlanner, Checkpoint, Goto, route_after_planner, TypeOK, KnownInv,
         FreshInv, CallerInv, PcInv, Known, Has, HasBy, Runs
<1>7. ToolInv'
  BY DEF GateInv, FinishPlanner, Checkpoint, Goto, route_after_planner, TypeOK, ToolInv, PcInv,
         KnownInv, TodoOK, OnTools, Known, Has, Runs
<1>8. OnlyGatedDecided' /\ OnlyOwnerDecides' /\ ApprovedBeforeEffect'
  BY LedgerFrame DEF FinishPlanner
<1> QED
  BY <1>1, <1>2, <1>3, <1>4, <1>5, <1>6, <1>7, <1>8 DEF GateInv

(* A request gets the resume lock. *)
LEMMA AcquireLockInv ==
    ASSUME GateInv, NEW r \in Runs, AcquireLock(r)
    PROVE  GateInv'
<1>1. TypeOK'
  BY BoundsNat, ChatFresh DEF GateInv, AcquireLock, Goto, TypeOK, PcInv, CheckpointInv, TodoOK,
         Labels, Runs
<1>2. PcInv'
  BY ChatFresh DEF GateInv, AcquireLock, Goto, TypeOK, PcInv, Labels, OnTools, Runs
<1>3. FreshInv'
  BY DEF GateInv, AcquireLock, Goto, TypeOK, FreshInv, PcInv, InGraph, OnTools, Runs
<1>4. CheckpointInv'
  BY ChatFresh DEF GateInv, AcquireLock, Goto, TypeOK, CheckpointInv, PcInv, FreshInv, InGraph,
         Early, OnTools, States, Runs
<1>5. CallerInv'
  BY DEF GateInv, AcquireLock, Goto, TypeOK, CallerInv, PcInv, FreshInv, Runs
<1>6. KnownInv'
  BY DEF GateInv, AcquireLock, Goto, TypeOK, KnownInv, FreshInv, CallerInv, PcInv, Known, Has,
         HasBy, Runs
<1>7. ToolInv'
  BY DEF GateInv, AcquireLock, Goto, TypeOK, ToolInv, PcInv, KnownInv, TodoOK, OnTools, Known,
         Has, Runs
<1>8. OnlyGatedDecided' /\ OnlyOwnerDecides' /\ ApprovedBeforeEffect'
  BY LedgerFrame DEF AcquireLock
<1> QED
  BY <1>1, <1>2, <1>3, <1>4, <1>5, <1>6, <1>7, <1>8 DEF GateInv

(* The pre-checks let the owner of a paused thread pass, and nobody else. *)
LEMMA GateResumeInv ==
    ASSUME GateInv, NEW r \in Runs, GateResume(r)
    PROVE  GateInv'
<1>a. r \in Requests /\ pc[r] = "gate"
  BY DEF GateInv, PcInv, GateResume
<1>b. \A q \in Runs : \/ mem'[q] = mem[q] /\ work'[q] = work[q] /\ todo'[q] = todo[q]
                      \/ mem'[q] = NoThread /\ work'[q] = NoThread /\ todo'[q] = <<>>
  BY DEF GateResume, Forget
<1>c. /\ pc' \in [Runs -> Labels] /\ pc'[r] \in {"invoke", "release"}
      /\ \A q \in Runs : q # r => pc'[q] = pc[q]
      /\ pc'[r] = "invoke" => ckpt.next = "approval" /\ verify_thread_owner(caller[r])
  BY DEF GateInv, TypeOK, GateResume, Goto, GateStatus, is_awaiting_approval, Labels
<1>1. TypeOK'
  <2>1. mem' \in [Runs -> States] /\ work' \in [Runs -> States]
    <3>1. DOMAIN mem' = Runs /\ DOMAIN work' = Runs /\ mem' = [q \in Runs |-> mem'[q]]
          /\ work' = [q \in Runs |-> work'[q]]
      BY DEF GateResume, Forget
    <3>2. \A q \in Runs : mem'[q] \in States /\ work'[q] \in States
      BY <1>b, NoThreadState DEF GateInv, TypeOK
    <3> QED
      BY <3>1, <3>2
  <2>2. TodoOK'
    <3>1. DOMAIN todo' = Runs
      BY DEF GateResume, Forget
    <3>2. \A q \in Runs : pc'[q] = "approval" <=> pc[q] = "approval"
      BY <1>a, <1>c
    <3>3. \A q \in Runs : todo'[q] = todo[q] \/ todo'[q] = <<>>
      BY <1>b
    <3> QED
      BY <3>1, <3>2, <3>3, EmptySeq DEF GateInv, TypeOK, TodoOK
  <2>3. /\ outcome' \in [Runs -> {"none", "EXECUTED", "FAILED"}]
        /\ caller' \in [Runs -> Users \union {None}]
        /\ body' \in [Runs -> Bodies \union {None}]
    BY DEF GateInv, TypeOK, GateResume, Forget
  <2>4. status' \in [Runs -> {"none", "404", "403", "409", "500", "resuming", "awaiting", "completed"}]
    BY DEF GateInv, TypeOK, GateResume, GateStatus
  <2> QED
    BY <1>c, <2>1, <2>2, <2>3, <2>4 DEF GateInv, TypeOK, GateResume
<1>2. PcInv'
  BY ChatFresh DEF GateInv, GateResume, Goto, Forget, GateStatus, verify_thread_owner,
         is_awaiting_approval, NoThread, TypeOK, PcInv, Labels, OnTools, Runs
<1>3. FreshInv'
  BY DEF GateInv, GateResume, Goto, Forget, GateStatus, verify_thread_owner,
         is_awaiting_approval, NoThread, TypeOK, FreshInv, PcInv, InGraph, OnTools, Runs
<1>4. CheckpointInv'
  <2>1. \A q \in Runs : mem'[q] = mem[q] \/ mem'[q].next = "absent"
    BY <1>b DEF NoThread
  <2>2. dirty' = dirty /\ ckpt' = ckpt
    BY DEF GateResume
  <2>3. \A q \in Runs : dirty[q] => mem'[q] = mem[q]
    <3>1. mem' = mem \/ (~dirty[r] /\ \A q \in Runs : q # r => mem'[q] = mem[q])
      <4>1. CASE GateStatus(r) = "resuming"
        BY <4>1 DEF GateInv, TypeOK, GateResume, Forget
      <4>2. CASE GateStatus(r) # "resuming"
        <5>1. mem' = [q \in Runs |-> IF q \in {r} THEN NoThread ELSE mem[q]]
          BY <4>2 DEF GateResume, Forget
        <5>2. ~dirty[r]
          BY <1>a DEF GateInv, CheckpointInv
        <5> QED
          BY <5>1, <5>2
      <4> QED
        BY <4>1, <4>2
    <3> QED
      BY <3>1
  <2> QED
    <3>1. \A q \in Runs : pc'[q] \in {"idle", "lock", "gate", "invoke"} => ~dirty'[q]
      BY <1>a, <1>c, <2>2 DEF GateInv, CheckpointInv
    <3>2. \A q \in Requests : pc'[q] \in InGraph \/ dirty'[q] => ckpt'.next \notin Early
      BY <1>a, <1>c, <2>2 DEF GateInv, CheckpointInv, InGraph, OnTools, Early, Runs
    <3>3. \A q \in Runs : mem'[q].next = "planner" => q = Chat
      BY <2>1 DEF GateInv, CheckpointInv
    <3> QED
      BY <2>2, <2>3, <3>1, <3>2, <3>3 DEF GateInv, CheckpointInv
<1>5. CallerInv'
  BY DEF GateInv, GateResume, Goto, Forget, GateStatus, verify_thread_owner,
         is_awaiting_approval, NoThread, TypeOK, CallerInv, PcInv, FreshInv, Runs
<1>6. KnownInv'
  BY DEF GateInv, GateResume, Goto, Forget, GateStatus, verify_thread_owner,
         is_awaiting_approval, NoThread, TypeOK, KnownInv, FreshInv, CallerInv, PcInv, Known,
         Has, HasBy, Runs
<1>7. ToolInv'
  BY DEF GateInv, GateResume, Goto, Forget, GateStatus, verify_thread_owner,
         is_awaiting_approval, NoThread, TypeOK, ToolInv, PcInv, KnownInv, TodoOK, OnTools,
         Known, Has, Runs
<1>8. OnlyGatedDecided' /\ OnlyOwnerDecides' /\ ApprovedBeforeEffect'
  BY LedgerFrame DEF GateResume
<1> QED
  BY <1>1, <1>2, <1>3, <1>4, <1>5, <1>6, <1>7, <1>8 DEF GateInv

(* The run loads the checkpoint and starts the node it names. *)
LEMMA ResumeInv ==
    ASSUME GateInv, NEW r \in Runs, Resume(r)
    PROVE  GateInv'
<1>a. r \in Requests /\ pc[r] = "invoke" /\ ckpt \in States /\ ckpt.next \in Nodes \ {"planner"}
  BY DEF GateInv, TypeOK, PcInv, CheckpointInv, Resume, InGraph, OnTools, Early, States, Runs
<1>b. /\ pc' \in [Runs -> Labels]
      /\ pc'[r] = IF ckpt.next = "end" THEN "finish" ELSE ckpt.next
      /\ \A q \in Runs : q # r => pc'[q] = pc[q]
  BY <1>a DEF GateInv, TypeOK, Resume, Goto, Labels, Nodes
<1>c. pc'[r] \in {"approval", "executor", "responder", "finish"}
  BY <1>a, <1>b DEF Nodes
<1>1. TypeOK'
  <2>1. ckpt.proposed \in Seq(Actions)
    BY <1>a DEF States
  <2>2. decision_payload(body[r], ckpt) \in Seq(DecisionType)
    BY <1>a, <2>1, PayloadType DEF GateInv, PcInv
  <2>3. pc'[r] = "approval" <=> ckpt.next = "approval"
    BY <1>b
  <2>4. TodoOK'
    BY <1>b, <2>1, <2>2, <2>3 DEF GateInv, TypeOK, TodoOK, Resume
  <2> QED
    BY <1>a, <1>b, <2>4 DEF GateInv, TypeOK, Resume
<1>2. PcInv'
  BY <1>a, <1>b, <1>c, ChatFresh DEF GateInv, PcInv, Resume, OnTools
<1>3. FreshInv'
  BY <1>a, <1>b, ChatFresh DEF GateInv, FreshInv, InGraph, Runs
<1>4. CheckpointInv'
  BY ChatFresh DEF GateInv, Resume, Goto, decision_payload, Decision, TypeOK, CheckpointInv,
         PcInv, FreshInv, InGraph, Early, OnTools, States, Runs
<1>5. CallerInv'
  BY DEF GateInv, Resume, Goto, decision_payload, Decision, TypeOK, CallerInv, PcInv, FreshInv, Runs
<1>6. KnownInv'
  BY DEF GateInv, TypeOK, KnownInv, Resume
<1>7. ToolInv'
  <2>1. pc'[r] = "executor" => todo'[r] = ckpt.proposed
    BY <1>a, <1>b DEF GateInv, TypeOK, TodoOK, Resume
  <2>2. \A q \in Runs : q # r => todo'[q] = todo[q] /\ work'[q] = work[q]
    BY DEF GateInv, TypeOK, TodoOK, Resume
  <2>3. audit' = audit
    BY DEF Resume
  <2> QED
    BY <1>b, <1>c, <2>1, <2>2, <2>3 DEF GateInv, ToolInv, KnownInv, Known, OnTools
<1>8. OnlyGatedDecided' /\ OnlyOwnerDecides' /\ ApprovedBeforeEffect'
  BY LedgerFrame DEF Resume
<1> QED
  BY <1>1, <1>2, <1>3, <1>4, <1>5, <1>6, <1>7, <1>8 DEF GateInv

(* The approvals are checkpointed before the executor starts. *)
LEMMA FinishApprovalInv ==
    ASSUME GateInv, NEW r \in Runs, FinishApproval(r)
    PROVE  GateInv'
<1>1. TypeOK'
  <2>1. work' \in [Runs -> States] /\ mem' \in [Runs -> States] /\ dirty' \in [Runs -> BOOLEAN]
    BY CheckpointType DEF FinishApproval, Nodes
  <2>2. work[r].proposed \in Seq(Actions)
    BY DEF GateInv, TypeOK, States
  <2>3. pc' \in [Runs -> Labels] /\ pc'[r] = "executor" /\ \A q \in Runs : q # r => pc'[q] = pc[q]
    BY DEF GateInv, TypeOK, FinishApproval, Goto, Labels
  <2>4. TodoOK'
    BY <2>2, <2>3 DEF GateInv, TypeOK, TodoOK, FinishApproval
  <2> QED
    BY <2>1, <2>3, <2>4 DEF GateInv, TypeOK, FinishApproval
<1>2. PcInv'
  BY ChatFresh DEF GateInv, FinishApproval, Checkpoint, Goto, TypeOK, PcInv, Labels, OnTools, Runs
<1>3. FreshInv'
  BY DEF GateInv, FinishApproval, Checkpoint, Goto, TypeOK, FreshInv, PcInv, InGraph, OnTools, Runs
<1>4. CheckpointInv'
  BY ChatFresh DEF GateInv, FinishApproval, Checkpoint, Goto, TypeOK, CheckpointInv, PcInv,
         FreshInv, InGraph, Early, OnTools, States, Runs
<1>5. CallerInv'
  BY DEF GateInv, FinishApproval, Checkpoint, Goto, TypeOK, CallerInv, PcInv, FreshInv, Runs
<1>6. KnownInv'
  BY DEF GateInv, FinishApproval, Checkpoint, Goto, TypeOK, KnownInv, FreshInv, CallerInv, PcInv,
         Known, Has, HasBy, Runs
<1>7. ToolInv'
  <2>1. pc'[r] = "executor" /\ \A q \in Runs : q # r => pc'[q] = pc[q] /\ todo'[q] = todo[q]
    BY DEF GateInv, TypeOK, TodoOK, FinishApproval, Goto
  <2>2. todo'[r] = work[r].proposed /\ audit' = audit
    BY DEF GateInv, TypeOK, TodoOK, FinishApproval
  <2>3. \A q \in Runs : work'[q].approved = work[q].approved
    BY CheckpointType DEF FinishApproval, Nodes
  <2> QED
    BY <2>1, <2>2, <2>3 DEF GateInv, ToolInv, KnownInv, Known, OnTools
<1>8. OnlyGatedDecided' /\ OnlyOwnerDecides' /\ ApprovedBeforeEffect'
  BY LedgerFrame DEF FinishApproval
<1> QED
  BY <1>1, <1>2, <1>3, <1>4, <1>5, <1>6, <1>7, <1>8 DEF GateInv

(* The executor returns. *)
LEMMA FinishExecutorInv ==
    ASSUME GateInv, NEW r \in Runs, FinishExecutor(r)
    PROVE  GateInv'
<1>1. TypeOK'
  <2>1. work' \in [Runs -> States] /\ mem' \in [Runs -> States] /\ dirty' \in [Runs -> BOOLEAN]
    BY CheckpointType DEF FinishExecutor, Nodes
  <2> QED
    BY <2>1 DEF GateInv, TypeOK, TodoOK, FinishExecutor, Goto, Labels
<1>2. PcInv'
  BY ChatFresh DEF GateInv, FinishExecutor, Checkpoint, Goto, TypeOK, PcInv, Labels, OnTools, Runs
<1>3. FreshInv'
  BY DEF GateInv, FinishExecutor, Checkpoint, Goto, TypeOK, FreshInv, PcInv, InGraph, OnTools, Runs
<1>4. CheckpointInv'
  BY ChatFresh DEF GateInv, FinishExecutor, Checkpoint, Goto, TypeOK, CheckpointInv, PcInv,
         FreshInv, InGraph, Early, OnTools, States, Runs
<1>5. CallerInv'
  BY DEF GateInv, FinishExecutor, Checkpoint, Goto, TypeOK, CallerInv, PcInv, FreshInv, Runs
<1>6. KnownInv'
  BY DEF GateInv, FinishExecutor, Checkpoint, Goto, TypeOK, KnownInv, FreshInv, CallerInv, PcInv,
         Known, Has, HasBy, Runs
<1>7. ToolInv'
  BY DEF GateInv, FinishExecutor, Checkpoint, Goto, TypeOK, ToolInv, PcInv, KnownInv, TodoOK,
         OnTools, Known, Has, Runs
<1>8. OnlyGatedDecided' /\ OnlyOwnerDecides' /\ ApprovedBeforeEffect'
  BY LedgerFrame DEF FinishExecutor
<1> QED
  BY <1>1, <1>2, <1>3, <1>4, <1>5, <1>6, <1>7, <1>8 DEF GateInv

(* The responder returns. *)
LEMMA RespondInv ==
    ASSUME GateInv, NEW r \in Runs, Respond(r)
    PROVE  GateInv'
<1>1. TypeOK'
  <2>1. work' \in [Runs -> States] /\ mem' \in [Runs -> States] /\ dirty' \in [Runs -> BOOLEAN]
    BY CheckpointType DEF Respond, Nodes
  <2> QED
    BY <2>1 DEF GateInv, TypeOK, TodoOK, Respond, Goto, Labels
<1>2. PcInv'
  BY ChatFresh DEF GateInv, Respond, Checkpoint, Goto, TypeOK, PcInv, Labels, OnTools, Runs
<1>3. FreshInv'
  BY DEF GateInv, Respond, Checkpoint, Goto, TypeOK, FreshInv, PcInv, InGraph, OnTools, Runs
<1>4. CheckpointInv'
  BY ChatFresh DEF GateInv, Respond, Checkpoint, Goto, TypeOK, CheckpointInv, PcInv, FreshInv,
         InGraph, Early, OnTools, States, Runs
<1>5. CallerInv'
  BY DEF GateInv, Respond, Checkpoint, Goto, TypeOK, CallerInv, PcInv, FreshInv, Runs
<1>6. KnownInv'
  BY DEF GateInv, Respond, Checkpoint, Goto, TypeOK, KnownInv, FreshInv, CallerInv, PcInv, Known,
         Has, HasBy, Runs
<1>7. ToolInv'
  BY DEF GateInv, Respond, Checkpoint, Goto, TypeOK, ToolInv, PcInv, KnownInv, TodoOK, OnTools,
         Known, Has, Runs
<1>8. OnlyGatedDecided' /\ OnlyOwnerDecides' /\ ApprovedBeforeEffect'
  BY LedgerFrame DEF Respond
<1> QED
  BY <1>1, <1>2, <1>3, <1>4, <1>5, <1>6, <1>7, <1>8 DEF GateInv

(* The run is over. *)
LEMMA FinishInv ==
    ASSUME GateInv, NEW r \in Runs, Finish(r)
    PROVE  GateInv'
<1>1. TypeOK'
  <2>1. /\ mem' \in [Runs -> States] /\ work' \in [Runs -> States]
        /\ outcome' \in [Runs -> {"none", "EXECUTED", "FAILED"}]
        /\ caller' \in [Runs -> Users \union {None}]
        /\ body' \in [Runs -> Bodies \union {None}]
        /\ DOMAIN todo' = Runs /\ \A q \in Runs : todo'[q] = IF q = r THEN <<>> ELSE todo[q]
    BY ForgetType DEF Finish
  <2>2. pc' \in [Runs -> Labels] /\ \A q \in Runs : q # r => pc'[q] = pc[q]
    BY DEF GateInv, TypeOK, Finish, Goto, Labels
  <2>3. pc'[r] # "approval"
    BY DEF GateInv, TypeOK, Finish, Goto
  <2>4. TodoOK'
    BY <2>1, <2>2, <2>3, EmptySeq DEF GateInv, TypeOK, TodoOK
  <2>5. status' \in [Runs -> {"none", "404", "403", "409", "500", "resuming", "awaiting", "completed"}]
    BY DEF GateInv, TypeOK, Finish
  <2> QED
    BY <2>1, <2>2, <2>4, <2>5 DEF GateInv, TypeOK, Finish
<1>2. PcInv'
  BY ChatFresh DEF GateInv, Finish, Goto, Forget, NoThread, TypeOK, PcInv, Labels, OnTools, Runs
<1>3. FreshInv'
  BY DEF GateInv, Finish, Goto, Forget, NoThread, TypeOK, FreshInv, PcInv, InGraph, OnTools, Runs
<1>4. CheckpointInv'
  BY ChatFresh DEF GateInv, Finish, Goto, Forget, NoThread, TypeOK, CheckpointInv, PcInv,
         FreshInv, InGraph, Early, OnTools, States, Runs
<1>5. CallerInv'
  BY DEF GateInv, Finish, Goto, Forget, NoThread, TypeOK, CallerInv, PcInv, FreshInv, Runs
<1>6. KnownInv'
  BY DEF GateInv, Finish, Goto, Forget, NoThread, TypeOK, KnownInv, FreshInv, CallerInv, PcInv,
         Known, Has, HasBy, Runs
<1>7. ToolInv'
  <2>1. /\ pc'[r] \in {"done", "release"} /\ audit' = audit
        /\ \A q \in Runs : q # r => pc'[q] = pc[q] /\ todo'[q] = todo[q] /\ work'[q] = work[q]
    BY DEF GateInv, TypeOK, Finish, Goto, Forget
  <2> QED
    BY <2>1 DEF GateInv, ToolInv, OnTools
<1>8. OnlyGatedDecided' /\ OnlyOwnerDecides' /\ ApprovedBeforeEffect'
  BY LedgerFrame DEF Finish
<1> QED
  BY <1>1, <1>2, <1>3, <1>4, <1>5, <1>6, <1>7, <1>8 DEF GateInv

(* The lease is released. *)
LEMMA ReleaseLockInv ==
    ASSUME GateInv, NEW r \in Runs, ReleaseLock(r)
    PROVE  GateInv'
<1>1. TypeOK'
  BY BoundsNat, ChatFresh DEF GateInv, ReleaseLock, Goto, TypeOK, PcInv, CheckpointInv, TodoOK,
         Labels, Runs
<1>2. PcInv'
  BY ChatFresh DEF GateInv, ReleaseLock, Goto, TypeOK, PcInv, Labels, OnTools, Runs
<1>3. FreshInv'
  BY DEF GateInv, ReleaseLock, Goto, TypeOK, FreshInv, PcInv, InGraph, OnTools, Runs
<1>4. CheckpointInv'
  BY ChatFresh DEF GateInv, ReleaseLock, Goto, TypeOK, CheckpointInv, PcInv, FreshInv, InGraph,
         Early, OnTools, States, Runs
<1>5. CallerInv'
  BY DEF GateInv, ReleaseLock, Goto, TypeOK, CallerInv, PcInv, FreshInv, Runs
<1>6. KnownInv'
  BY DEF GateInv, ReleaseLock, Goto, TypeOK, KnownInv, FreshInv, CallerInv, PcInv, Known, Has,
         HasBy, Runs
<1>7. ToolInv'
  BY DEF GateInv, ReleaseLock, Goto, TypeOK, ToolInv, PcInv, KnownInv, TodoOK, OnTools, Known,
         Has, Runs
<1>8. OnlyGatedDecided' /\ OnlyOwnerDecides' /\ ApprovedBeforeEffect'
  BY LedgerFrame DEF ReleaseLock
<1> QED
  BY <1>1, <1>2, <1>3, <1>4, <1>5, <1>6, <1>7, <1>8 DEF GateInv

(* An exception moves only its own run, which it ends or leaves in its     *)
(* node, and saves nothing.                                                *)
LEMMA ErrorMoves ==
    ASSUME GateInv, NEW r \in Runs, RunError(r)
    PROVE  /\ UNCHANGED <<owner, ckpt, mem, work, outcome, caller, body, lock, audit, effects, granted, crashes, edits>>
           /\ pc' \in [Runs -> Labels] /\ dirty' \in [Runs -> BOOLEAN] /\ DOMAIN todo' = Runs
           /\ \A q \in Runs : dirty'[q] => dirty[q]
           /\ \A q \in Runs : q # r => pc'[q] = pc[q] /\ todo'[q] = todo[q] /\ dirty'[q] = dirty[q]
           /\ \/ /\ pc[r] \in {"plan", "gate", "invoke", "approval", "executor", "guard", "record"}
                 /\ pc'[r] = "finish" /\ todo'[r] = <<>>
              \/ pc'[r] = pc[r] /\ todo'[r] = todo[r] /\ dirty[r]
<1>0. pc \in [Runs -> Labels] /\ dirty \in [Runs -> BOOLEAN] /\ DOMAIN todo = Runs
  BY DEF GateInv, TypeOK, TodoOK
<1>1. UNCHANGED <<owner, ckpt, mem, work, outcome, caller, body, lock, audit, effects, granted, crashes, edits>>
  BY DEF RunError, reqVars
<1>2. dirty' = dirty \/ dirty' = [dirty EXCEPT ![r] = FALSE]
  BY DEF RunError
<1>3. \/ /\ pc[r] \in {"plan", "gate", "invoke", "approval", "executor", "guard", "record"}
         /\ pc' = [pc EXCEPT ![r] = "finish"] /\ todo' = [todo EXCEPT ![r] = <<>>]
      \/ pc' = pc /\ todo' = todo /\ dirty[r]
  BY DEF RunError, Goto
<1>4. dirty' \in [Runs -> BOOLEAN] /\ \A q \in Runs : (dirty'[q] => dirty[q]) /\ (q # r => dirty'[q] = dirty[q])
  BY <1>0, <1>2
<1> QED
  BY <1>0, <1>1, <1>3, <1>4 DEF Labels

(* A database, checkpointer or planner call raises. *)
LEMMA RunErrorInv ==
    ASSUME GateInv, NEW r \in Runs, RunError(r)
    PROVE  GateInv'
<1>0. /\ UNCHANGED <<owner, ckpt, mem, work, outcome, caller, body, lock, audit, effects, granted, crashes, edits>>
      /\ pc' \in [Runs -> Labels] /\ dirty' \in [Runs -> BOOLEAN] /\ DOMAIN todo' = Runs
      /\ \A q \in Runs : dirty'[q] => dirty[q]
      /\ \A q \in Runs : (pc'[q] = pc[q] /\ todo'[q] = todo[q]) \/ (pc'[q] = "finish" /\ todo'[q] = <<>>)
  <2>1. /\ UNCHANGED <<owner, ckpt, mem, work, outcome, caller, body, lock, audit, effects, granted, crashes, edits>>
        /\ pc' \in [Runs -> Labels] /\ dirty' \in [Runs -> BOOLEAN] /\ DOMAIN todo' = Runs
        /\ \A q \in Runs : dirty'[q] => dirty[q]
    BY ErrorMoves
  <2>2. \A q \in Runs : q # r => pc'[q] = pc[q] /\ todo'[q] = todo[q]
    BY ErrorMoves
  <2>3. (pc'[r] = pc[r] /\ todo'[r] = todo[r]) \/ (pc'[r] = "finish" /\ todo'[r] = <<>>)
    BY ErrorMoves
  <2> QED
    BY <2>1, <2>2, <2>3
<1>1. TypeOK'
  <2>2. TodoOK'
    BY <1>0, EmptySeq DEF GateInv, TypeOK, TodoOK
  <2>3. errors' \in 0..MaxErrors
    BY BoundsNat DEF GateInv, TypeOK, RunError
  <2>4. status' \in [Runs -> {"none", "404", "403", "409", "500", "resuming", "awaiting", "completed"}]
    BY DEF GateInv, TypeOK, RunError
  <2> QED
    BY <1>0, <2>2, <2>3, <2>4 DEF GateInv, TypeOK
<1>2. PcInv'
  BY <1>0 DEF GateInv, PcInv, OnTools
<1>3. FreshInv'
  BY <1>0 DEF GateInv, FreshInv, InGraph, OnTools, Runs
<1>4. CheckpointInv'
  BY <1>0 DEF GateInv, CheckpointInv, InGraph, OnTools, Runs
<1>5. CallerInv'
  BY <1>0 DEF GateInv, CallerInv, Runs
<1>6. KnownInv'
  BY <1>0 DEF GateInv, KnownInv
<1>7. ToolInv'
  BY <1>0 DEF GateInv, ToolInv, OnTools
<1>8. OnlyGatedDecided' /\ OnlyOwnerDecides' /\ ApprovedBeforeEffect'
  BY LedgerFrame DEF RunError
<1> QED
  BY <1>1, <1>2, <1>3, <1>4, <1>5, <1>6, <1>7, <1>8 DEF GateInv

(* A request arrives. *)
LEMMA ArriveInv ==
    ASSUME GateInv, NEW r \in Requests, NEW u \in Users, NEW b \in Bodies, Arrive(r, u, b)
    PROVE  GateInv'
<1>1. TypeOK'
  BY BoundsNat, ChatFresh DEF GateInv, Arrive, Goto, TypeOK, PcInv, CheckpointInv, TodoOK,
         Labels, Runs
<1>2. PcInv'
  BY ChatFresh DEF GateInv, Arrive, Goto, TypeOK, PcInv, Labels, OnTools, Runs
<1>3. FreshInv'
  BY DEF GateInv, Arrive, Goto, TypeOK, FreshInv, PcInv, InGraph, OnTools, Runs
<1>4. CheckpointInv'
  BY ChatFresh DEF GateInv, Arrive, Goto, TypeOK, CheckpointInv, PcInv, FreshInv, InGraph, Early,
         OnTools, States, Runs
<1>5. CallerInv'
  BY DEF GateInv, Arrive, Goto, TypeOK, CallerInv, PcInv, FreshInv, Runs
<1>6. KnownInv'
  BY DEF GateInv, Arrive, Goto, TypeOK, KnownInv, FreshInv, CallerInv, PcInv, Known, Has, HasBy,
         Runs
<1>7. ToolInv'
  BY DEF GateInv, Arrive, Goto, TypeOK, ToolInv, PcInv, KnownInv, TodoOK, OnTools, Known, Has, Runs
<1>8. OnlyGatedDecided' /\ OnlyOwnerDecides' /\ ApprovedBeforeEffect'
  BY LedgerFrame DEF Arrive
<1> QED
  BY <1>1, <1>2, <1>3, <1>4, <1>5, <1>6, <1>7, <1>8 DEF GateInv

(* A worker process dies. *)
LEMMA CrashInv ==
    ASSUME GateInv, NEW w \in Workers, Crash(w)
    PROVE  GateInv'
<1> DEFINE hit == {r \in Runs : WorkerOf[r] = w /\ InFlight(r)}
<1>1. TypeOK'
  <2>1. /\ mem' \in [Runs -> States] /\ work' \in [Runs -> States]
        /\ outcome' \in [Runs -> {"none", "EXECUTED", "FAILED"}]
        /\ caller' \in [Runs -> Users \union {None}]
        /\ body' \in [Runs -> Bodies \union {None}]
        /\ DOMAIN todo' = Runs /\ \A q \in Runs : todo'[q] = IF q \in hit THEN <<>> ELSE todo[q]
    BY ForgetType DEF Crash
  <2>2. pc' \in [Runs -> Labels] /\ \A q \in Runs : pc'[q] = IF q \in hit THEN "dead" ELSE pc[q]
    BY DEF GateInv, TypeOK, Crash, Labels
  <2>3. TodoOK'
    BY <2>1, <2>2, EmptySeq DEF GateInv, TypeOK, TodoOK
  <2>4. crashes' \in 0..MaxCrashes
    BY BoundsNat DEF GateInv, TypeOK, Crash
  <2>5. dirty' \in [Runs -> BOOLEAN]
    BY DEF GateInv, TypeOK, Crash
  <2>6. lock' \in [Workers -> Requests \union {None}]
    BY DEF GateInv, TypeOK, Crash
  <2> QED
    BY <2>1, <2>2, <2>3, <2>4, <2>5, <2>6 DEF GateInv, TypeOK, Crash
<1>2. PcInv'
  BY ChatFresh DEF GateInv, Crash, Forget, NoThread, InFlight, TypeOK, PcInv, Labels, OnTools, Runs
<1>3. FreshInv'
  BY DEF GateInv, Crash, Forget, NoThread, InFlight, TypeOK, FreshInv, PcInv, InGraph, OnTools, Runs
<1>4. CheckpointInv'
  BY ChatFresh DEF GateInv, Crash, Forget, NoThread, InFlight, TypeOK, CheckpointInv, PcInv,
         FreshInv, InGraph, Early, OnTools, States, Runs
<1>5. CallerInv'
  BY DEF GateInv, Crash, Forget, NoThread, InFlight, TypeOK, CallerInv, PcInv, FreshInv, Runs
<1>6. KnownInv'
  BY DEF GateInv, Crash, Forget, NoThread, InFlight, TypeOK, KnownInv, FreshInv, CallerInv,
         PcInv, Known, Has, HasBy, Runs
<1>7. ToolInv'
  <2>1. \A q \in Runs : \/ pc'[q] = "dead"
                        \/ pc'[q] = pc[q] /\ todo'[q] = todo[q] /\ work'[q] = work[q]
    BY DEF Crash, Forget
  <2>2. audit' = audit
    BY DEF Crash
  <2> QED
    BY <2>1, <2>2 DEF GateInv, ToolInv, OnTools
<1>8. OnlyGatedDecided' /\ OnlyOwnerDecides' /\ ApprovedBeforeEffect'
  BY LedgerFrame DEF Crash
<1> QED
  BY <1>1, <1>2, <1>3, <1>4, <1>5, <1>6, <1>7, <1>8 DEF GateInv

(* The policy is edited. *)
LEMMA EditPolicyInv ==
    ASSUME GateInv, NEW a \in Actions, EditPolicy(a)
    PROVE  GateInv'
<1>1. TypeOK'
  <2>1. edits' \in 0..MaxPolicyEdits /\ granted' \subseteq Actions
    BY BoundsNat DEF GateInv, TypeOK, EditPolicy
  <2> QED
    BY <2>1 DEF GateInv, TypeOK, TodoOK, EditPolicy
<1>2. PcInv'
  BY ChatFresh DEF GateInv, EditPolicy, TypeOK, PcInv, Labels, OnTools, Runs
<1>3. FreshInv'
  BY DEF GateInv, EditPolicy, TypeOK, FreshInv, PcInv, InGraph, OnTools, Runs
<1>4. CheckpointInv'
  BY ChatFresh DEF GateInv, EditPolicy, TypeOK, CheckpointInv, PcInv, FreshInv, InGraph, Early,
         OnTools, States, Runs
<1>5. CallerInv'
  BY DEF GateInv, EditPolicy, TypeOK, CallerInv, PcInv, FreshInv, Runs
<1>6. KnownInv'
  BY DEF GateInv, EditPolicy, TypeOK, KnownInv, FreshInv, CallerInv, PcInv, Known, Has, HasBy, Runs
<1>7. ToolInv'
  BY DEF GateInv, EditPolicy, TypeOK, ToolInv, PcInv, KnownInv, TodoOK, OnTools, Known, Has, Runs
<1>8. OnlyGatedDecided' /\ OnlyOwnerDecides' /\ ApprovedBeforeEffect'
  BY LedgerFrame DEF EditPolicy
<1> QED
  BY <1>1, <1>2, <1>3, <1>4, <1>5, <1>6, <1>7, <1>8 DEF GateInv

(* The planner proposes an action. *)
LEMMA PlanActionInv ==
    ASSUME GateInv, NEW r \in Runs, PlanAction(r)
    PROVE  GateInv'
<1> DEFINE a == Head(todo[r])
           p == Event("PROPOSED", a, None)
           d == Event("DENIED", a, owner)
<1>a. /\ todo[r] # <<>> /\ pc[r] = "plan" /\ a \in Actions
  BY AtAction DEF PlanAction
<1>b. /\ p \in EventType /\ d \in EventType
  BY <1>a DEF Event, EventType, EventTypes, GateInv, TypeOK
<1>c. audit' \in Seq(EventType) /\ (Adds(audit, audit', {p}) \/ Adds(audit, audit', {p} \union {d}))
  BY PlanLedger
<1>d. Has(audit', "PROPOSED", a)
  BY <1>c DEF Adds, Has, Event
<1>e. \A q \in Runs : pc'[q] = "approval" <=> pc[q] = "approval"
  BY DEF PlanAction
<1>f. /\ work' = work \/ work' = [work EXCEPT ![r] = [work[r] EXCEPT !.proposed = Append(work[r].proposed, a)]]
      /\ work[r] \in States
  BY DEF PlanAction, GateInv, TypeOK
<1>g. UNCHANGED <<owner, ckpt, mem, pc>>
  BY DEF PlanAction
<1>1. TypeOK'
  <2>1. TodoOK'
    BY <1>a, <1>e, PopTodo DEF PlanAction
  <2>2. work' \in [Runs -> States]
    <3>1. Append(work[r].proposed, a) \in Seq(Actions)
      BY <1>a, <1>f, AppendProperties DEF States
    <3>2. [work[r] EXCEPT !.proposed = Append(work[r].proposed, a)] \in States
      BY <1>f, <3>1, StateUpdate
    <3> QED
      BY <1>f, <3>2 DEF GateInv, TypeOK
  <2> QED
    BY <1>c, <2>1, <2>2 DEF GateInv, TypeOK, PlanAction
<1>2. PcInv'
  BY ChatFresh DEF GateInv, PlanAction, Pop, Event, TypeOK, PcInv, Labels, OnTools, Runs
<1>3. FreshInv'
  BY DEF GateInv, PlanAction, Pop, Event, TypeOK, FreshInv, PcInv, InGraph, OnTools, Runs
<1>4. CheckpointInv'
  BY ChatFresh DEF GateInv, PlanAction, Pop, Event, TypeOK, CheckpointInv, PcInv, FreshInv,
         InGraph, Early, OnTools, States, Runs
<1>5. CallerInv'
  BY DEF GateInv, PlanAction, Pop, Event, TypeOK, CallerInv, PcInv, FreshInv, Runs
<1>6. KnownInv'
  <2>1. \A s : Known(audit, owner, s) => Known(audit', owner', s)
    BY <1>c, <1>g, LedgerGrows
  <2>2. ASSUME NEW s, s = [work[r] EXCEPT !.proposed = Append(work[r].proposed, a)]
        PROVE  Known(audit', owner', s)
    <3>1. Known(audit', owner', work[r])
      BY <2>1 DEF GateInv, KnownInv
    <3>2. s.approved = work[r].approved /\ s.proposed = Append(work[r].proposed, a)
      BY <2>2, <1>f DEF States
    <3>3. work[r].proposed \in Seq(Actions)
      BY <1>f DEF States
    <3>4. \A i \in DOMAIN s.proposed : s.proposed[i] = a \/
             (i \in DOMAIN work[r].proposed /\ s.proposed[i] = work[r].proposed[i])
      BY <1>a, <3>2, <3>3, AppendAdds DEF Adds
    <3> QED
      BY <1>d, <3>1, <3>2, <3>4 DEF Known
  <2>3. \A q \in Runs : Known(audit', owner', work'[q])
    BY <1>f, <2>1, <2>2 DEF GateInv, KnownInv, TypeOK
  <2>4. Known(audit', owner', ckpt') /\ \A q \in Runs : Known(audit', owner', mem'[q])
    BY <1>g, <2>1 DEF GateInv, KnownInv
  <2> QED
    BY <2>3, <2>4 DEF KnownInv
<1>7. ToolInv'
  <2>1. \A type, b : Has(audit, type, b) => Has(audit', type, b)
    BY <1>c, LedgerGrows
  <2>2. \A q \in Runs : q # r => todo'[q] = todo[q] /\ work'[q] = work[q]
    BY <1>f, <1>a, <1>e, PopTodo DEF PlanAction, GateInv, TypeOK
  <2> QED
    BY <1>a, <1>g, <2>1, <2>2 DEF GateInv, ToolInv, OnTools
<1>8. OnlyGatedDecided' /\ OnlyOwnerDecides' /\ ApprovedBeforeEffect'
  <2>1. effects' = effects
    BY DEF PlanAction
  <2>2. p.type \notin {"APPROVED", "REJECTED"} /\ d.type \notin {"APPROVED", "REJECTED"}
    BY DEF Event
  <2> HIDE DEF p, d
  <2>3. CASE Adds(audit, audit', {p})
    BY <1>g, <2>1, <2>2, <2>3, LedgerAdds
  <2>4. CASE Adds(audit, audit', {p} \union {d})
    BY <1>g, <2>1, <2>2, <2>4, LedgerAdds
  <2> QED
    BY <1>c, <2>3, <2>4
<1> QED
  BY <1>1, <1>2, <1>3, <1>4, <1>5, <1>6, <1>7, <1>8 DEF GateInv

(* The owner's decision about one action is recorded. *)
LEMMA DecideInv ==
    ASSUME GateInv, NEW r \in Runs, Decide(r)
    PROVE  GateInv'
<1> DEFINE d == Head(todo[r])
           e == Event(IF d.approved THEN "APPROVED" ELSE "REJECTED", d.action, caller[r])
<1>a. /\ r \in Requests /\ pc[r] = "approval" /\ todo[r] # <<>>
      /\ caller[r] \in Users /\ caller[r] = owner /\ owner # Anonymous
  BY DEF GateInv, PcInv, CallerInv, Decide
<1>b. d \in DecisionType /\ d.action \in Actions
  <2>1. todo[r] \in Seq(DecisionType)
    BY <1>a DEF GateInv, TypeOK, TodoOK
  <2>2. d \in DecisionType
    BY <1>a, <2>1, HeadTail
  <2> QED
    BY <2>2 DEF DecisionType
<1>c. /\ \A q \in Runs : pc'[q] = "approval" <=> pc[q] = "approval"
      /\ UNCHANGED <<owner, ckpt, mem, pc, effects>>
  BY DEF Decide
<1>d. work \in [Runs -> States] /\ work[r] \in States /\ audit \in Seq(EventType)
  BY DEF GateInv, TypeOK
<1>e. \/ audit' = audit /\ work' = work
      \/ /\ d.action \in valid_ids(work[r])
         /\ audit' = Append(audit, e)
         /\ \/ /\ d.approved
               /\ work' = [work EXCEPT ![r] = [work[r] EXCEPT !.approved = work[r].approved \union {d.action}]]
            \/ /\ ~d.approved
               /\ work' = [work EXCEPT ![r] = [work[r] EXCEPT !.rejected = work[r].rejected \union {d.action}]]
  BY <1>d DEF Decide, Log
<1>f. /\ e \in EventType /\ e.action = d.action /\ e.actor = owner
      /\ d.approved => e = Event("APPROVED", d.action, owner)
  BY <1>a, <1>b DEF Event, EventType, EventTypes
<1>g. /\ work[r].approved \union {d.action} \in SUBSET Actions
      /\ work[r].rejected \union {d.action} \in SUBSET Actions
  BY <1>b, <1>d DEF States
<1> HIDE DEF d, e
<1>h. audit' \in Seq(EventType) /\ (audit' = audit \/ Adds(audit, audit', {e}))
  <2>1. Append(audit, e) \in Seq(EventType) /\ Adds(audit, Append(audit, e), {e})
    BY <1>d, <1>f, AppendAdds
  <2>2. audit' = audit \/ audit' = Append(audit, e)
    BY <1>e
  <2>3. CASE audit' = audit
    BY <2>3, <1>d
  <2>4. CASE audit' = Append(audit, e)
    BY <2>1, <2>4
  <2> QED
    BY <2>2, <2>3, <2>4
<1>i. \A q \in Runs : q # r => todo'[q] = todo[q] /\ work'[q] = work[q]
  BY <1>a, <1>c, <1>d, <1>e, PopTodo DEF Decide
<1>1. TypeOK'
  <2>1. TodoOK'
    BY <1>a, <1>c, PopTodo DEF Decide
  <2>2. work' \in [Runs -> States]
    <3>1. /\ [work[r] EXCEPT !.approved = work[r].approved \union {d.action}] \in States
          /\ [work[r] EXCEPT !.rejected = work[r].rejected \union {d.action}] \in States
      BY <1>d, <1>g, StateUpdate
    <3> QED
      BY <1>d, <1>e, <3>1
  <2> QED
    BY <1>h, <2>1, <2>2 DEF GateInv, TypeOK, Decide
<1>2. PcInv'
  BY ChatFresh DEF GateInv, Decide, Log, Pop, Event, valid_ids, TypeOK, PcInv, Labels, OnTools, Runs
<1>3. FreshInv'
  BY DEF GateInv, Decide, Log, Pop, Event, valid_ids, TypeOK, FreshInv, PcInv, InGraph, OnTools,
         Runs
<1>4. CheckpointInv'
  BY ChatFresh DEF GateInv, Decide, Log, Pop, Event, valid_ids, TypeOK, CheckpointInv, PcInv,
         FreshInv, InGraph, Early, OnTools, States, Runs
<1>5. CallerInv'
  BY DEF GateInv, Decide, Log, Pop, Event, valid_ids, TypeOK, CallerInv, PcInv, FreshInv, Runs
<1>6. KnownInv'
  <2>1. \A s : Known(audit, owner, s) => Known(audit', owner', s)
    BY <1>c, <1>h, LedgerGrows
  <2>2. Known(audit', owner', work'[r])
    <3>1. Known(audit', owner', work[r])
      BY <2>1 DEF GateInv, KnownInv
    <3>2. CASE audit' = audit /\ work' = work
      BY <3>1, <3>2
    <3>3. CASE /\ d.approved /\ audit' = Append(audit, e)
               /\ work' = [work EXCEPT ![r] = [work[r] EXCEPT !.approved = work[r].approved \union {d.action}]]
      <4>1. HasBy(audit', "APPROVED", d.action, owner')
        <5>1. \E i \in DOMAIN audit' : audit'[i] = e
          BY <1>d, <1>f, <3>3, AppendAdds DEF Adds
        <5> QED
          BY <5>1, <3>3, <1>f, <1>c DEF HasBy
      <4>2. /\ work'[r].approved = work[r].approved \union {d.action}
            /\ work'[r].proposed = work[r].proposed
        BY <3>3, <1>d DEF States
      <4> QED
        BY <3>1, <4>1, <4>2 DEF Known
    <3>4. CASE work' = [work EXCEPT ![r] = [work[r] EXCEPT !.rejected = work[r].rejected \union {d.action}]]
      <4>1. work'[r].approved = work[r].approved /\ work'[r].proposed = work[r].proposed
        BY <3>4, <1>d DEF States
      <4> QED
        BY <3>1, <4>1 DEF Known
    <3> QED
      BY <1>e, <3>2, <3>3, <3>4
  <2>3. \A q \in Runs : Known(audit', owner', work'[q])
    BY <1>i, <2>1, <2>2 DEF GateInv, KnownInv
  <2>4. Known(audit', owner', ckpt') /\ \A q \in Runs : Known(audit', owner', mem'[q])
    BY <1>c, <2>1 DEF GateInv, KnownInv
  <2> QED
    BY <2>3, <2>4 DEF KnownInv
<1>7. ToolInv'
  <2>1. \A type, b : Has(audit, type, b) => Has(audit', type, b)
    BY <1>h, LedgerGrows
  <2> QED
    BY <1>a, <1>c, <1>i, <2>1 DEF GateInv, ToolInv, OnTools
<1>8. OnlyGatedDecided' /\ OnlyOwnerDecides' /\ ApprovedBeforeEffect'
  <2>1. CASE audit' = audit
    BY <1>c, <2>1, LedgerFrame
  <2>2. CASE audit' # audit
    <3>1. e.action \in Gated /\ Adds(audit, audit', {e})
      BY <1>e, <1>f, <1>h, <2>2 DEF valid_ids
    <3> QED
      BY <1>a, <1>c, <1>f, <3>1, LedgerAdds
  <2> QED
    BY <2>1, <2>2
<1> QED
  BY <1>1, <1>2, <1>3, <1>4, <1>5, <1>6, <1>7, <1>8 DEF GateInv

(* The executor checks an action and drops it or goes on to its tool. *)
LEMMA ExecCheckInv ==
    ASSUME GateInv, NEW r \in Runs, ExecCheck(r)
    PROVE  GateInv'
<1> DEFINE a == Head(todo[r])
           v == ExecVerdict(r, a)
           e == Event(v, a, IF v = "DENIED" THEN owner ELSE None)
<1>a. /\ pc[r] = "executor" /\ todo[r] # <<>> /\ a \in Actions
      /\ 1 \in DOMAIN todo[r] /\ a = todo[r][1]
  BY AtAction DEF ExecCheck
<1>b. \/ /\ v = "clear" /\ audit' = audit /\ todo' = todo
         /\ pc' = [pc EXCEPT ![r] = "guard"]
      \/ /\ v # "clear" /\ audit' = Append(audit, e) /\ Pop(r) /\ pc' = pc
  BY DEF ExecCheck, Log, Goto
<1>c. /\ v \in {"clear", "DENIED", "SKIPPED"}
      /\ v = "clear" /\ a \in Gated => a \in work[r].approved
  BY DEF ExecVerdict, requires_approval
<1>d. v # "clear" => e \in EventType /\ e.type \notin {"APPROVED", "REJECTED"}
  BY <1>a, <1>c DEF Event, EventType, EventTypes, GateInv, TypeOK
<1>e. UNCHANGED <<owner, ckpt, mem, dirty, work, caller, body, outcome, effects>>
  BY DEF ExecCheck
<1>f. /\ pc \in [Runs -> Labels] /\ audit \in Seq(EventType)
  BY DEF GateInv, TypeOK
<1> HIDE DEF a, v, e
<1>g. /\ pc' \in [Runs -> Labels]
      /\ pc'[r] = "executor" \/ (pc'[r] = "guard" /\ v = "clear" /\ todo' = todo)
      /\ \A q \in Runs : q # r => pc'[q] = pc[q]
      /\ \A q \in Runs : pc'[q] = "approval" <=> pc[q] = "approval"
  BY <1>a, <1>b, <1>f DEF Labels
<1>h. /\ audit' \in Seq(EventType)
      /\ \/ audit' = audit
         \/ v # "clear" /\ Adds(audit, audit', {e})
  BY <1>b, <1>d, <1>f, AppendAdds
<1>i. /\ TodoOK'
      /\ \A q \in Runs : q # r => todo'[q] = todo[q]
      /\ \A i \in DOMAIN todo'[r] : \E j \in DOMAIN todo[r] : todo'[r][i] = todo[r][j]
  <2>1. CASE todo' = todo
    BY <2>1, <1>g DEF GateInv, TypeOK, TodoOK
  <2>2. CASE Pop(r)
    BY <2>2, <1>a, <1>g, PopTodo
  <2> QED
    BY <1>b, <2>1, <2>2
<1>1. TypeOK'
  BY <1>g, <1>h, <1>i DEF GateInv, TypeOK, ExecCheck
<1>2. PcInv'
  BY <1>a, <1>e, <1>g, <1>i DEF GateInv, PcInv, OnTools
<1>3. FreshInv'
  BY DEF GateInv, ExecCheck, Log, Pop, Event, Goto, ExecVerdict, requires_approval, TypeOK,
         FreshInv, PcInv, InGraph, OnTools, Runs
<1>4. CheckpointInv'
  BY ChatFresh DEF GateInv, ExecCheck, Log, Pop, Event, Goto, ExecVerdict, requires_approval,
         TypeOK, CheckpointInv, PcInv, FreshInv, InGraph, Early, OnTools, States, Runs
<1>5. CallerInv'
  BY DEF GateInv, ExecCheck, Log, Pop, Event, Goto, ExecVerdict, requires_approval, TypeOK,
         CallerInv, PcInv, FreshInv, Runs
<1>6. KnownInv'
  BY <1>e, <1>h, LedgerGrows DEF GateInv, KnownInv
<1>7. ToolInv'
  <2>1. \A type, b : Has(audit, type, b) => Has(audit', type, b)
    BY <1>h, LedgerGrows
  <2>2. \A i \in DOMAIN todo'[r] : Has(audit', "PROPOSED", todo'[r][i])
    BY <1>a, <1>i, <2>1 DEF GateInv, ToolInv
  <2>3. pc'[r] = "guard" /\ Head(todo'[r]) \in Gated => Head(todo'[r]) \in work'[r].approved
    BY <1>c, <1>e, <1>g DEF a
  <2> QED
    BY <1>a, <1>e, <1>g, <1>i, <2>1, <2>2, <2>3 DEF GateInv, ToolInv, OnTools
<1>8. OnlyGatedDecided' /\ OnlyOwnerDecides' /\ ApprovedBeforeEffect'
  BY <1>d, <1>e, <1>h, LedgerFrame, LedgerAdds
<1> QED
  BY <1>1, <1>2, <1>3, <1>4, <1>5, <1>6, <1>7, <1>8 DEF GateInv

(* An action that was executed before is not run again. *)
LEMMA GuardReplayInv ==
    ASSUME GateInv, NEW r \in Runs, GuardReplay(r)
    PROVE  GateInv'
<1> DEFINE a == Head(todo[r])
           e == Event("REPLAY_SKIPPED", a, None)
           s == [work[r] EXCEPT !.results = Append(work[r].results, Result(a, TRUE))]
<1>a. /\ pc[r] = "guard" /\ todo[r] # <<>> /\ a \in Actions
      /\ a \in Gated => a \in work[r].approved
  BY AtAction DEF GuardReplay, GateInv, PcInv, ToolInv, OnTools
<1>b. /\ pc \in [Runs -> Labels] /\ audit \in Seq(EventType)
      /\ work \in [Runs -> States] /\ work[r] \in States
  BY DEF GateInv, TypeOK
<1>c. \/ /\ audit' = Append(audit, e) /\ Pop(r)
         /\ work' = [work EXCEPT ![r] = s]
         /\ pc' = [pc EXCEPT ![r] = "executor"]
      \/ /\ audit' = audit /\ work' = work /\ todo' = todo
         /\ pc' = [pc EXCEPT ![r] = "call"]
  BY <1>b DEF GuardReplay, Log, Goto
<1>d. UNCHANGED <<owner, ckpt, mem, dirty, caller, body, outcome, effects>>
  BY DEF GuardReplay
<1>e. e \in EventType /\ e.type \notin {"APPROVED", "REJECTED"}
  BY <1>a DEF Event, EventType, EventTypes
<1>f. s \in States /\ s.approved = work[r].approved /\ s.proposed = work[r].proposed
  BY <1>a, <1>b, AddResult
<1> HIDE DEF a, e, s
<1>g. /\ pc' \in [Runs -> Labels]
      /\ pc'[r] = "executor" \/ (pc'[r] = "call" /\ todo' = todo)
      /\ \A q \in Runs : q # r => pc'[q] = pc[q]
      /\ \A q \in Runs : pc'[q] = "approval" <=> pc[q] = "approval"
  BY <1>a, <1>b, <1>c DEF Labels
<1>h. audit' \in Seq(EventType) /\ (audit' = audit \/ Adds(audit, audit', {e}))
  <2>1. Append(audit, e) \in Seq(EventType) /\ Adds(audit, Append(audit, e), {e})
    BY <1>b, <1>e, AppendAdds
  <2>2. audit' = audit \/ audit' = Append(audit, e)
    BY <1>c
  <2>3. CASE audit' = audit
    BY <2>3, <1>b
  <2>4. CASE audit' = Append(audit, e)
    BY <2>1, <2>4
  <2> QED
    BY <2>2, <2>3, <2>4
<1>i. /\ TodoOK'
      /\ \A q \in Runs : q # r => todo'[q] = todo[q]
      /\ \A i \in DOMAIN todo'[r] : \E j \in DOMAIN todo[r] : todo'[r][i] = todo[r][j]
  <2>1. CASE todo' = todo
    BY <2>1, <1>g DEF GateInv, TypeOK, TodoOK
  <2>2. CASE Pop(r)
    BY <2>2, <1>a, <1>g, PopTodo
  <2> QED
    BY <1>c, <2>1, <2>2
<1>j. /\ work' \in [Runs -> States]
      /\ \A q \in Runs : work'[q].approved = work[q].approved /\ work'[q].proposed = work[q].proposed
  BY <1>b, <1>c, <1>f
<1>1. TypeOK'
  BY <1>g, <1>h, <1>i, <1>j DEF GateInv, TypeOK, GuardReplay
<1>2. PcInv'
  BY <1>a, <1>d, <1>g, <1>i DEF GateInv, PcInv, OnTools
<1>3. FreshInv'
  BY DEF GateInv, GuardReplay, Log, Pop, Event, Goto, Result, TypeOK, FreshInv, PcInv, InGraph,
         OnTools, Runs
<1>4. CheckpointInv'
  BY ChatFresh DEF GateInv, GuardReplay, Log, Pop, Event, Goto, Result, TypeOK, CheckpointInv,
         PcInv, FreshInv, InGraph, Early, OnTools, States, Runs
<1>5. CallerInv'
  BY DEF GateInv, GuardReplay, Log, Pop, Event, Goto, Result, TypeOK, CallerInv, PcInv, FreshInv,
         Runs
<1>6. KnownInv'
  <2>1. \A t : Known(audit, owner, t) => Known(audit', owner', t)
    BY <1>d, <1>h, LedgerGrows
  <2>2. \A q \in Runs : Known(audit', owner', work[q])
    BY <2>1 DEF GateInv, KnownInv
  <2>3. \A q \in Runs : Known(audit', owner', work'[q])
    BY <1>j, <2>2 DEF Known
  <2> QED
    BY <1>d, <2>1, <2>3 DEF GateInv, KnownInv
<1>7. ToolInv'
  <2>1. \A type, b : Has(audit, type, b) => Has(audit', type, b)
    BY <1>h, LedgerGrows
  <2>2. \A i \in DOMAIN todo'[r] : Has(audit', "PROPOSED", todo'[r][i])
    BY <1>a, <1>i, <2>1 DEF GateInv, ToolInv, OnTools
  <2>3. pc'[r] = "call" /\ Head(todo'[r]) \in Gated => Head(todo'[r]) \in work'[r].approved
    BY <1>a, <1>g, <1>j DEF a
  <2> QED
    BY <1>a, <1>g, <1>i, <1>j, <2>1, <2>2, <2>3 DEF GateInv, ToolInv, OnTools
<1>8. OnlyGatedDecided' /\ OnlyOwnerDecides' /\ ApprovedBeforeEffect'
  BY <1>d, <1>e, <1>h, LedgerFrame, LedgerAdds
<1> QED
  BY <1>1, <1>2, <1>3, <1>4, <1>5, <1>6, <1>7, <1>8 DEF GateInv

(* The outcome of a tool call is recorded. *)
LEMMA RecordOutcomeInv ==
    ASSUME GateInv, NEW r \in Runs, RecordOutcome(r)
    PROVE  GateInv'
<1> DEFINE a == Head(todo[r])
           e == Event(outcome[r], a, None)
           s == [work[r] EXCEPT !.results = Append(work[r].results, Result(a, outcome[r] = "EXECUTED"))]
<1>a. pc[r] = "record" /\ todo[r] # <<>> /\ a \in Actions /\ outcome[r] \in {"EXECUTED", "FAILED"}
  BY AtAction DEF RecordOutcome, GateInv, TypeOK, PcInv, OnTools
<1>b. /\ pc \in [Runs -> Labels] /\ audit \in Seq(EventType)
      /\ work \in [Runs -> States] /\ work[r] \in States
  BY DEF GateInv, TypeOK
<1>c. /\ audit' = Append(audit, e) /\ Pop(r)
      /\ work' = [work EXCEPT ![r] = s]
      /\ pc' = [pc EXCEPT ![r] = "executor"]
  BY <1>b DEF RecordOutcome, Log, Goto
<1>d. UNCHANGED <<owner, ckpt, mem, dirty, caller, body, effects>>
  BY DEF RecordOutcome
<1>e. e \in EventType /\ e.type \notin {"APPROVED", "REJECTED"}
  BY <1>a DEF Event, EventType, EventTypes
<1>f. s \in States /\ s.approved = work[r].approved /\ s.proposed = work[r].proposed
  <2> DEFINE ok == outcome[r] = "EXECUTED"
  <2>1. ok \in BOOLEAN
    BY Zenon
  <2>2. s = [work[r] EXCEPT !.results = Append(work[r].results, Result(a, ok))]
    OBVIOUS
  <2> HIDE DEF s, a, ok
  <2> QED
    BY <1>a, <1>b, <2>1, <2>2, AddResult
<1> HIDE DEF a, e, s
<1>g. /\ pc' \in [Runs -> Labels] /\ pc'[r] = "executor"
      /\ \A q \in Runs : q # r => pc'[q] = pc[q]
      /\ \A q \in Runs : pc'[q] = "approval" <=> pc[q] = "approval"
  BY <1>a, <1>b, <1>c DEF Labels
<1>h. audit' \in Seq(EventType) /\ Adds(audit, audit', {e})
  BY <1>b, <1>c, <1>e, AppendAdds
<1>i. /\ TodoOK'
      /\ \A q \in Runs : q # r => todo'[q] = todo[q]
      /\ \A i \in DOMAIN todo'[r] : \E j \in DOMAIN todo[r] : todo'[r][i] = todo[r][j]
  BY <1>a, <1>c, <1>g, PopTodo
<1>j. /\ work' \in [Runs -> States]
      /\ \A q \in Runs : work'[q].approved = work[q].approved /\ work'[q].proposed = work[q].proposed
  BY <1>b, <1>c, <1>f
<1>1. TypeOK'
  BY <1>g, <1>h, <1>i, <1>j DEF GateInv, TypeOK, RecordOutcome
<1>2. PcInv'
  BY ChatFresh DEF GateInv, RecordOutcome, Log, Pop, Event, Goto, Result, TypeOK, PcInv, Labels,
         OnTools, Runs
<1>3. FreshInv'
  BY DEF GateInv, RecordOutcome, Log, Pop, Event, Goto, Result, TypeOK, FreshInv, PcInv, InGraph,
         OnTools, Runs
<1>4. CheckpointInv'
  BY ChatFresh DEF GateInv, RecordOutcome, Log, Pop, Event, Goto, Result, TypeOK, CheckpointInv,
         PcInv, FreshInv, InGraph, Early, OnTools, States, Runs
<1>5. CallerInv'
  BY DEF GateInv, RecordOutcome, Log, Pop, Event, Goto, Result, TypeOK, CallerInv, PcInv,
         FreshInv, Runs
<1>6. KnownInv'
  <2>1. \A t : Known(audit, owner, t) => Known(audit', owner', t)
    BY <1>d, <1>h, LedgerGrows
  <2>2. \A q \in Runs : Known(audit', owner', work[q])
    BY <2>1 DEF GateInv, KnownInv
  <2>3. \A q \in Runs : Known(audit', owner', work'[q])
    BY <1>j, <2>2 DEF Known
  <2> QED
    BY <1>d, <2>1, <2>3 DEF GateInv, KnownInv
<1>7. ToolInv'
  <2>1. \A type, b : Has(audit, type, b) => Has(audit', type, b)
    BY <1>h, LedgerGrows
  <2>2. \A i \in DOMAIN todo'[r] : Has(audit', "PROPOSED", todo'[r][i])
    BY <1>a, <1>i, <2>1 DEF GateInv, ToolInv, OnTools
  <2> QED
    BY <1>g, <1>i, <1>j, <2>1, <2>2 DEF GateInv, ToolInv, OnTools
<1>8. OnlyGatedDecided' /\ OnlyOwnerDecides' /\ ApprovedBeforeEffect'
  BY <1>d, <1>e, <1>h, LedgerAdds
<1> QED
  BY <1>1, <1>2, <1>3, <1>4, <1>5, <1>6, <1>7, <1>8 DEF GateInv

(* The provider is called: the step the gate is there for. *)
LEMMA CallToolInv ==
    ASSUME GateInv, NEW r \in Runs, NEW performed \in BOOLEAN, NEW ok \in BOOLEAN, CallTool(r, performed, ok)
    PROVE  GateInv'
<1> DEFINE a == Head(todo[r])
<1>a. /\ pc[r] = "call" /\ todo[r] # <<>> /\ a \in Actions
      /\ a \in Gated => a \in work[r].approved
  BY AtAction DEF CallTool, GateInv, PcInv, ToolInv, OnTools
<1>1. TypeOK'
  <2>1. effects' \in [Actions -> Nat]
    BY <1>a DEF CallTool, GateInv, TypeOK
  <2>2. pc' \in [Runs -> Labels] /\ \A q \in Runs : pc'[q] = "approval" <=> pc[q] = "approval"
    BY <1>a DEF CallTool, Goto, GateInv, TypeOK, Labels
  <2>3. TodoOK'
    BY <2>2 DEF CallTool, GateInv, TypeOK, TodoOK
  <2>4. outcome' \in [Runs -> {"none", "EXECUTED", "FAILED"}]
    BY DEF CallTool, GateInv, TypeOK
  <2> QED
    BY <2>1, <2>2, <2>3, <2>4 DEF CallTool, GateInv, TypeOK
<1>2. PcInv'
  BY ChatFresh DEF GateInv, CallTool, Goto, TypeOK, PcInv, Labels, OnTools, Runs
<1>3. FreshInv'
  BY DEF GateInv, CallTool, Goto, TypeOK, FreshInv, PcInv, InGraph, OnTools, Runs
<1>4. CheckpointInv'
  BY ChatFresh DEF GateInv, CallTool, Goto, TypeOK, CheckpointInv, PcInv, FreshInv, InGraph,
         Early, OnTools, States, Runs
<1>5. CallerInv'
  BY DEF GateInv, CallTool, Goto, TypeOK, CallerInv, PcInv, FreshInv, Runs
<1>6. KnownInv'
  BY DEF GateInv, CallTool, Goto, TypeOK, KnownInv, FreshInv, CallerInv, PcInv, Known, Has,
         HasBy, Runs
<1>7. ToolInv'
  BY DEF GateInv, CallTool, Goto, TypeOK, ToolInv, PcInv, KnownInv, TodoOK, OnTools, Known, Has,
         Runs
<1>8. OnlyGatedDecided' /\ OnlyOwnerDecides' /\ ApprovedBeforeEffect'
  <2>1. OnlyGatedDecided' /\ OnlyOwnerDecides'
    BY DEF CallTool, GateInv, OnlyGatedDecided, OnlyOwnerDecides
  <2>2. \A b \in Actions : effects'[b] = effects[b] \/ b = a
    BY <1>a DEF CallTool, GateInv, TypeOK
  <2>3. a \in Gated => LoggedBy("APPROVED", a, owner)
    BY <1>a DEF GateInv, KnownInv, Known, HasBy, LoggedBy
  <2>4. owner' = owner /\ audit' = audit
    BY DEF CallTool
  <2>5. ApprovedBeforeEffect'
    BY <2>2, <2>3, <2>4, GatedActions DEF GateInv, ApprovedBeforeEffect, LoggedBy
  <2> QED
    BY <2>1, <2>5
<1> QED
  BY <1>1, <1>2, <1>3, <1>4, <1>5, <1>6, <1>7, <1>8 DEF GateInv

(* The thread is created, with nothing on it yet. *)
LEMMA StartChatInv ==
    ASSUME GateInv, NEW u \in Users, NEW plan \in Plans, StartChat(u, plan)
    PROVE  GateInv'
<1>a. /\ pc[Chat] = "idle" /\ Chat \in Runs
      /\ audit = <<>> /\ ckpt = NoThread /\ \A a \in Actions : effects[a] = 0
      /\ \A r \in Runs : /\ work[r] = NoThread /\ mem[r] = NoThread /\ ~dirty[r]
                         /\ pc[r] \notin InGraph \union {"plan"}
  BY DEF StartChat, GateInv, FreshInv, Runs
<1>b. /\ pc' \in [Runs -> Labels] /\ pc'[Chat] = "plan"
      /\ \A r \in Runs : r # Chat => pc'[r] = pc[r]
  BY <1>a DEF StartChat, Goto, GateInv, TypeOK, Labels
<1>c. /\ work' \in [Runs -> States] /\ mem' \in [Runs -> States] /\ dirty' \in [Runs -> BOOLEAN]
      /\ \A r \in Runs : work'[r] \in {NoThread, initial_state} /\ mem'[r] \in {NoThread, initial_state}
  BY <1>a, NoThreadState DEF StartChat, GateInv, TypeOK
<1>d. UNCHANGED <<audit, effects, ckpt, caller>>
  BY DEF StartChat
<1>1. TypeOK'
  <2>1. TodoOK'
    BY <1>a, <1>b, PlansType DEF StartChat, GateInv, TypeOK, TodoOK
  <2> QED
    BY <1>b, <1>c, <2>1 DEF StartChat, GateInv, TypeOK
<1>2. PcInv'
  BY ChatFresh DEF GateInv, StartChat, Goto, initial_state, NoThread, TypeOK, PcInv, Labels,
         OnTools, Runs
<1>3. FreshInv'
  BY DEF GateInv, StartChat, Goto, initial_state, NoThread, TypeOK, FreshInv, PcInv, InGraph,
         OnTools, Runs
<1>4. CheckpointInv'
  BY ChatFresh DEF GateInv, StartChat, Goto, initial_state, NoThread, TypeOK, CheckpointInv,
         PcInv, FreshInv, InGraph, Early, OnTools, States, Runs
<1>5. CallerInv'
  BY <1>a, <1>b, ChatFresh DEF CallerInv, InGraph, Runs
<1>6. KnownInv'
  BY <1>a, <1>c, <1>d, NoThreadState DEF KnownInv
<1>7. ToolInv'
  BY <1>a, <1>b DEF ToolInv, InGraph, OnTools
<1>8. OnlyGatedDecided' /\ OnlyOwnerDecides' /\ ApprovedBeforeEffect'
  <2>1. DOMAIN audit' = {}
    BY <1>a, <1>d
  <2>2. \A a \in Gated : effects'[a] = 0
    BY <1>a, <1>d, GatedActions
  <2> QED
    BY <2>1, <2>2 DEF OnlyGatedDecided, OnlyOwnerDecides, ApprovedBeforeEffect
<1> QED
  BY <1>1, <1>2, <1>3, <1>4, <1>5, <1>6, <1>7, <1>8 DEF GateInv

-----------------------------------------------------------------------------
(* The invariant                                                           *)

(* The system starts with no thread, no request and an empty ledger. *)
LEMMA InitInv ==
    ASSUME Init
    PROVE  GateInv
<1>1. audit = <<>> /\ DOMAIN audit = {} /\ audit \in Seq(EventType)
  BY EmptySeq DEF Init
<1>2. TypeOK
  <2>1. TodoOK
    BY EmptySeq DEF Init, TodoOK
  <2>2. ckpt \in States /\ mem \in [Runs -> States] /\ work \in [Runs -> States]
    BY NoThreadState DEF Init
  <2> QED
    BY <1>1, <2>1, <2>2, NoneFresh, BoundsNat, GrantsType DEF Init, TypeOK, Labels
<1>3. PcInv /\ CallerInv /\ ToolInv
  BY ChatFresh DEF Init, PcInv, CallerInv, ToolInv, OnTools, Runs
<1>4. FreshInv
  BY DEF Init, FreshInv, InGraph, OnTools
<1>5. CheckpointInv
  BY DEF Init, CheckpointInv, InGraph, OnTools, NoThread, Runs
<1>6. KnownInv
  BY NoThreadState DEF Init, KnownInv
<1>7. OnlyGatedDecided /\ OnlyOwnerDecides /\ ApprovedBeforeEffect
  BY <1>1, GatedActions DEF Init, OnlyGatedDecided, OnlyOwnerDecides, ApprovedBeforeEffect
<1> QED
  BY <1>2, <1>3, <1>4, <1>5, <1>6, <1>7 DEF GateInv

(* A step that changes nothing. *)
LEMMA StutterInv ==
    ASSUME GateInv, UNCHANGED vars
    PROVE  GateInv'
<1>1. TypeOK'
  BY DEF vars, GateInv, TypeOK, TodoOK
<1>2. PcInv' /\ FreshInv' /\ CheckpointInv' /\ CallerInv'
  BY DEF vars, GateInv, PcInv, FreshInv, CheckpointInv, CallerInv
<1>3. KnownInv' /\ ToolInv'
  BY DEF vars, GateInv, KnownInv, ToolInv
<1>4. OnlyGatedDecided' /\ OnlyOwnerDecides' /\ ApprovedBeforeEffect'
  BY LedgerFrame DEF vars
<1> QED
  BY <1>1, <1>2, <1>3, <1>4 DEF GateInv

(* Every step of the system keeps the invariant. *)
LEMMA NextInv ==
    ASSUME GateInv, Next
    PROVE  GateInv'
<1>1. ASSUME NEW u \in Users, NEW plan \in Plans, StartChat(u, plan)
      PROVE  GateInv'
  BY <1>1, StartChatInv
<1>2. ASSUME NEW r \in Requests, NEW u \in Users, NEW b \in Bodies, Arrive(r, u, b)
      PROVE  GateInv'
  BY <1>2, ArriveInv
<1>3. ASSUME NEW r \in Runs, RunStep(r)
      PROVE  GateInv'
  <2>1. CASE Flush(r) \/ PlanAction(r) \/ FinishPlanner(r) \/ AcquireLock(r)
    BY <2>1, FlushInv, PlanActionInv, FinishPlannerInv, AcquireLockInv
  <2>2. CASE GateResume(r) \/ Resume(r) \/ Decide(r) \/ FinishApproval(r)
    BY <2>2, GateResumeInv, ResumeInv, DecideInv, FinishApprovalInv
  <2>3. CASE ExecCheck(r) \/ GuardReplay(r) \/ RecordOutcome(r) \/ FinishExecutor(r)
    BY <2>3, ExecCheckInv, GuardReplayInv, RecordOutcomeInv, FinishExecutorInv
  <2>4. CASE Respond(r) \/ Finish(r) \/ ReleaseLock(r)
    BY <2>4, RespondInv, FinishInv, ReleaseLockInv
  <2>5. ASSUME NEW performed \in BOOLEAN, NEW ok \in BOOLEAN, CallTool(r, performed, ok)
        PROVE  GateInv'
    BY <2>5, CallToolInv
  <2> QED
    BY <1>3, <2>1, <2>2, <2>3, <2>4, <2>5 DEF RunStep
<1>4. ASSUME NEW r \in Runs, RunError(r)
      PROVE  GateInv'
  BY <1>4, RunErrorInv
<1>5. ASSUME NEW w \in Workers, Crash(w)
      PROVE  GateInv'
  BY <1>5, CrashInv
<1>6. ASSUME NEW a \in Actions, EditPolicy(a)
      PROVE  GateInv'
  BY <1>6, EditPolicyInv
<1> QED
  BY <1>1, <1>2, <1>3, <1>4, <1>5, <1>6 DEF Next

(* The inductive invariant holds throughout. *)
THEOREM GateInvHolds == Spec => []GateInv
<1>1. Init => GateInv
  BY InitInv
<1>2. GateInv /\ [Next]_vars => GateInv'
  BY NextInv, StutterInv
<1> QED
  BY <1>1, <1>2, PTL DEF Spec

(* Every variable of a turn keeps its type. *)
THEOREM TypeCorrect == Spec => []TypeOK
<1>1. GateInv => TypeOK
  BY DEF GateInv
<1> QED
  BY <1>1, GateInvHolds, PTL

(* Nobody but the thread's authenticated owner decides: gate_resume's      *)
(* checks of a snapshot that another worker may have made stale are        *)
(* enough, because the owner of a thread never changes.                    *)
THEOREM OnlyOwnerDecidesHolds == Spec => []OnlyOwnerDecides
<1>1. GateInv => OnlyOwnerDecides
  BY DEF GateInv
<1> QED
  BY <1>1, GateInvHolds, PTL

(* The approval gate: no gated action reaches its provider without the     *)
(* owner's approval on the ledger, for any number of requests, workers,    *)
(* crashes, errors and policy edits.                                       *)
THEOREM ApprovedBeforeEffectHolds == Spec => []ApprovedBeforeEffect
<1>1. GateInv => ApprovedBeforeEffect
  BY DEF GateInv
<1> QED
  BY <1>1, GateInvHolds, PTL

-----------------------------------------------------------------------------
(* The refinement                                                          *)

(* Stage, of a given ledger, owner and number of effects. *)
StageOf(log, o, n, a) ==
    IF n > 0 THEN "performed"
    ELSE IF HasBy(log, "APPROVED", a, o) THEN "approved"
    ELSE IF Has(log, "PROPOSED", a) THEN "proposed"
    ELSE "unknown"

(* The stage before and after a step. *)
LEMMA StageBoth ==
    /\ \A a : Stage(a) = StageOf(audit, owner, effects[a], a)
    /\ \A a : Stage(a)' = StageOf(audit', owner', effects'[a], a)
  BY DEF Stage, StageOf, Logged, LoggedBy, Has, HasBy

(* A step moves one action on, by one stage, or none. *)
GateStep == Gate!Next \/ UNCHANGED [a \in Actions |-> Stage(a)]

(* Where at most one action moves, by one stage, the gate takes a step. *)
LEMMA OneMoves ==
    ASSUME NEW a \in Actions,
           \A b \in Actions : b # a => Stage(b)' = Stage(b),
           \/ Stage(a)' = Stage(a)
           \/ Stage(a) = "unknown" /\ Stage(a)' = "proposed"
           \/ a \in Gated /\ Stage(a) = "proposed" /\ Stage(a)' = "approved"
           \/ /\ Stage(a) = (IF a \in Gated THEN "approved" ELSE "proposed")
              /\ Stage(a)' = "performed"
    PROVE  GateStep
<1> DEFINE s == [b \in Actions |-> Stage(b)]
           t == [b \in Actions |-> Stage(b)']
<1>1. s' = t
  OBVIOUS
<1>2. s[a] = Stage(a) /\ t[a] = Stage(a)'
  OBVIOUS
<1>3. t = [s EXCEPT ![a] = Stage(a)']
  OBVIOUS
<1>4. CASE Stage(a)' = Stage(a)
  <2>1. t = s
    BY <1>4
  <2> QED
    BY <1>1, <2>1 DEF GateStep
<1>5. CASE Stage(a) = "unknown" /\ Stage(a)' = "proposed"
  <2>1. Gate!Propose(a)
    BY <1>1, <1>2, <1>3, <1>5 DEF Gate!Propose
  <2> QED
    BY <2>1 DEF GateStep, Gate!Next
<1>6. CASE a \in Gated /\ Stage(a) = "proposed" /\ Stage(a)' = "approved"
  <2>1. Gate!Approve(a)
    BY <1>1, <1>2, <1>3, <1>6 DEF Gate!Approve
  <2> QED
    BY <2>1 DEF GateStep, Gate!Next
<1>7. CASE /\ Stage(a) = (IF a \in Gated THEN "approved" ELSE "proposed")
           /\ Stage(a)' = "performed"
  <2>1. Gate!Perform(a)
    BY <1>1, <1>2, <1>3, <1>7 DEF Gate!Perform
  <2> QED
    BY <2>1 DEF GateStep, Gate!Next
<1> QED
  BY <1>4, <1>5, <1>6, <1>7

(* A step that leaves ledger, provider and owner alone moves nothing. *)
LEMMA NoneMoves ==
    ASSUME UNCHANGED <<owner, audit, effects>>
    PROVE  GateStep
<1>1. \A a \in Actions : Stage(a)' = Stage(a)
  BY StageBoth
<1> QED
  BY <1>1 DEF GateStep

(* Nor does an event about something else. *)
LEMMA OtherStages ==
    ASSUME UNCHANGED <<owner, effects>>, NEW E, Adds(audit, audit', E)
    PROVE  \A b \in Actions :
               (\A e \in E : e.type \in {"PROPOSED", "APPROVED"} => e.action # b) => Stage(b)' = Stage(b)
<1> SUFFICES ASSUME NEW b \in Actions,
                    \A e \in E : e.type \in {"PROPOSED", "APPROVED"} => e.action # b
             PROVE  Stage(b)' = Stage(b)
  OBVIOUS
<1>1. Has(audit', "PROPOSED", b) <=> Has(audit, "PROPOSED", b)
  BY DEF Has, Adds
<1>2. HasBy(audit', "APPROVED", b, owner) <=> HasBy(audit, "APPROVED", b, owner)
  BY DEF HasBy, Adds, Event
<1> QED
  BY <1>1, <1>2, StageBoth DEF StageOf

(* An addition of events that neither propose nor approve. *)
LEMMA SilentAdds ==
    ASSUME UNCHANGED <<owner, effects>>, NEW E, Adds(audit, audit', E),
           \A e \in E : e.type \notin {"PROPOSED", "APPROVED"}
    PROVE  GateStep
<1>1. \A b \in Actions : Stage(b)' = Stage(b)
  BY OtherStages
<1> QED
  BY <1>1 DEF GateStep

(* The planner proposes. *)
LEMMA PlanMoves ==
    ASSUME GateInv, NEW r \in Runs, PlanAction(r)
    PROVE  GateStep
<1>1. PICK a \in Actions : a = Head(todo[r])
  BY AtAction DEF PlanAction
<1> DEFINE p == Event("PROPOSED", a, None)
           d == Event("DENIED", a, owner)
<1>2. p.type = "PROPOSED" /\ p.action = a /\ d.type = "DENIED"
  BY DEF Event
<1>3. UNCHANGED <<owner, effects>>
  BY DEF PlanAction
<1>4. Adds(audit, audit', {p}) \/ Adds(audit, audit', {p} \union {d})
  BY <1>1, PlanLedger
<1> HIDE DEF p, d
<1>5. PICK E : Adds(audit, audit', E) /\ p \in E /\ E \subseteq {p, d}
  <2>1. CASE Adds(audit, audit', {p})
    BY <2>1
  <2>2. CASE Adds(audit, audit', {p} \union {d})
    BY <2>2
  <2> QED
    BY <1>4, <2>1, <2>2
<1>6. \A e \in E : e.type \in {"PROPOSED", "APPROVED"} => e.action = a
  BY <1>2, <1>5
<1>7. \A b \in Actions : b # a => Stage(b)' = Stage(b)
  BY <1>3, <1>5, <1>6, OtherStages
<1>8. Has(audit', "PROPOSED", a)
  BY <1>2, <1>5 DEF Adds, Has
<1>9. HasBy(audit', "APPROVED", a, owner) <=> HasBy(audit, "APPROVED", a, owner)
  BY <1>2, <1>5 DEF Adds, HasBy, Event
<1>10. Stage(a)' = Stage(a) \/ (Stage(a) = "unknown" /\ Stage(a)' = "proposed")
  BY <1>3, <1>8, <1>9, StageBoth DEF StageOf
<1> QED
  BY <1>7, <1>10, OneMoves

(* The owner decides about a gated action that was proposed. *)
LEMMA DecideMoves ==
    ASSUME GateInv, NEW r \in Runs, Decide(r)
    PROVE  GateStep
<1> DEFINE d == Head(todo[r])
           e == Event(IF d.approved THEN "APPROVED" ELSE "REJECTED", d.action, caller[r])
<1>1. r \in Requests /\ caller[r] = owner /\ caller[r] \in Users
  BY DEF GateInv, PcInv, CallerInv, Decide
<1>2. d.action \in Actions
  <2>1. todo[r] \in Seq(DecisionType) /\ todo[r] # <<>>
    BY DEF Decide, GateInv, TypeOK, TodoOK
  <2>2. d \in DecisionType
    BY <2>1, HeadTail
  <2> QED
    BY <2>2 DEF DecisionType
<1>3. audit' = audit \/ (audit' = Append(audit, e) /\ d.action \in valid_ids(work[r]))
  BY DEF Decide, Log
<1>4. UNCHANGED <<owner, effects>>
  BY DEF Decide
<1>5. e \in EventType /\ audit \in Seq(EventType)
  BY <1>1, <1>2 DEF Event, EventType, EventTypes, GateInv, TypeOK
<1>6. /\ e.action = d.action
      /\ d.approved => e = Event("APPROVED", d.action, owner)
      /\ ~d.approved => e.type = "REJECTED"
  BY <1>1 DEF Event
<1> HIDE DEF e, d
<1>7. CASE audit' = audit
  BY <1>4, <1>7, NoneMoves
<1>8. CASE audit' = Append(audit, e) /\ d.action \in valid_ids(work[r])
  <2>1. Adds(audit, audit', {e})
    BY <1>5, <1>8, AppendAdds
  <2>2. d.action \in Gated /\ \E i \in DOMAIN work[r].proposed : work[r].proposed[i] = d.action
    BY <1>8 DEF valid_ids
  <2>3. Has(audit, "PROPOSED", d.action)
    BY <2>2 DEF GateInv, KnownInv, Known
  <2>4. CASE ~d.approved
    BY <1>4, <1>6, <2>1, <2>4, SilentAdds
  <2>5. CASE d.approved
    <3>1. PICK a \in Actions : a = d.action
      BY <1>2
    <3>2. \A b \in Actions : b # a => Stage(b)' = Stage(b)
      BY <1>4, <1>6, <2>1, <3>1, OtherStages
    <3>3. HasBy(audit', "APPROVED", a, owner)
      BY <1>6, <2>1, <2>5, <3>1 DEF HasBy, Adds
    <3>4. \/ Stage(a)' = Stage(a)
          \/ Stage(a) = "proposed" /\ Stage(a)' = "approved"
      BY <1>4, <2>3, <3>1, <3>3, StageBoth DEF StageOf
    <3> QED
      BY <2>2, <3>1, <3>2, <3>4, OneMoves
  <2> QED
    BY <2>4, <2>5
<1> QED
  BY <1>3, <1>7, <1>8

(* The executor's own events move nothing. *)
LEMMA ExecutorMoves ==
    ASSUME GateInv, NEW r \in Runs, ExecCheck(r) \/ GuardReplay(r) \/ RecordOutcome(r)
    PROVE  GateStep
<1> DEFINE a == Head(todo[r])
           v == ExecVerdict(r, a)
<1>1. a \in Actions /\ audit \in Seq(EventType) /\ owner \in Users \union {None}
  BY AtAction DEF ExecCheck, GuardReplay, RecordOutcome, GateInv, TypeOK, PcInv, OnTools
<1>2. UNCHANGED <<owner, effects>>
  BY DEF ExecCheck, GuardReplay, RecordOutcome
<1>3. \/ audit' = audit
      \/ \E type \in {"DENIED", "SKIPPED", "REPLAY_SKIPPED", "EXECUTED", "FAILED"}, u \in {owner, None} :
            audit' = Append(audit, Event(type, a, u))
  <2>1. CASE ExecCheck(r)
    <3>1. v \in {"clear", "DENIED", "SKIPPED"}
      BY DEF ExecVerdict
    <3>2. audit' = audit \/ (v # "clear" /\ audit' = Append(audit, Event(v, a, IF v = "DENIED" THEN owner ELSE None)))
      BY <2>1 DEF ExecCheck, Log
    <3> HIDE DEF v, a
    <3> QED
      BY <3>1, <3>2
  <2>2. CASE GuardReplay(r)
    <3>1. audit' = audit \/ audit' = Append(audit, Event("REPLAY_SKIPPED", a, None))
      BY <2>2 DEF GuardReplay, Log
    <3> HIDE DEF a
    <3> QED
      BY <3>1
  <2>3. CASE RecordOutcome(r)
    <3>1. audit' = Append(audit, Event(outcome[r], a, None)) /\ outcome[r] \in {"EXECUTED", "FAILED"}
      BY <2>3 DEF RecordOutcome, Log, GateInv, TypeOK, PcInv
    <3> HIDE DEF a
    <3> QED
      BY <3>1
  <2> QED
    BY <2>1, <2>2, <2>3
<1> HIDE DEF a
<1>4. ASSUME NEW type \in {"DENIED", "SKIPPED", "REPLAY_SKIPPED", "EXECUTED", "FAILED"},
             NEW u \in {owner, None}, audit' = Append(audit, Event(type, a, u))
      PROVE  GateStep
  <2>1. Event(type, a, u) \in EventType /\ Event(type, a, u).type \notin {"PROPOSED", "APPROVED"}
    BY <1>1 DEF Event, EventType, EventTypes
  <2>2. Adds(audit, audit', {Event(type, a, u)})
    BY <1>1, <1>4, <2>1, AppendAdds
  <2> QED
    BY <1>2, <2>1, <2>2, SilentAdds
<1> QED
  BY <1>2, <1>3, <1>4, NoneMoves

(* The provider performs an action: a gated one was approved, another one  *)
(* proposed.                                                               *)
LEMMA CallMoves ==
    ASSUME GateInv, NEW r \in Runs, NEW performed \in BOOLEAN, NEW ok \in BOOLEAN, CallTool(r, performed, ok)
    PROVE  GateStep
<1>1. PICK a \in Actions :
          /\ a = Head(todo[r]) /\ Has(audit, "PROPOSED", a)
          /\ a \in Gated => a \in work[r].approved
  BY AtAction DEF CallTool, GateInv, PcInv, ToolInv, OnTools
<1>2. owner' = owner /\ audit' = audit
  BY DEF CallTool
<1>3. effects' = effects \/ effects' = [effects EXCEPT ![a] = effects[a] + 1]
  BY <1>1 DEF CallTool
<1>4. effects \in [Actions -> Nat]
  BY DEF GateInv, TypeOK
<1>5. a \in Gated => HasBy(audit, "APPROVED", a, owner)
  BY <1>1 DEF GateInv, KnownInv, Known
<1>6. a \notin Gated => ~HasBy(audit, "APPROVED", a, owner)
  BY DEF GateInv, OnlyGatedDecided, HasBy, Event
<1>7. CASE effects' = effects
  BY <1>2, <1>7, NoneMoves
<1>8. CASE effects' = [effects EXCEPT ![a] = effects[a] + 1]
  <2>1. effects'[a] > 0 /\ \A b \in Actions : b # a => effects'[b] = effects[b]
    BY <1>4, <1>8
  <2>2. \A b \in Actions : b # a => Stage(b)' = Stage(b)
    BY <1>2, <2>1, StageBoth
  <2>3. Stage(a)' = "performed"
    BY <2>1, StageBoth DEF StageOf
  <2>4. Stage(a) = "performed" \/ Stage(a) = (IF a \in Gated THEN "approved" ELSE "proposed")
    BY <1>1, <1>5, <1>6, StageBoth DEF StageOf
  <2> QED
    BY <2>2, <2>3, <2>4, OneMoves
<1> QED
  BY <1>3, <1>7, <1>8

(* A new thread has no history: nothing moves. *)
LEMMA ChatMoves ==
    ASSUME GateInv, NEW u \in Users, NEW plan \in Plans, StartChat(u, plan)
    PROVE  GateStep
<1>1. audit = <<>> /\ UNCHANGED <<audit, effects>>
  BY DEF StartChat, GateInv, FreshInv
<1>2. \A a \in Actions : Stage(a)' = Stage(a)
  BY <1>1, StageBoth DEF StageOf, HasBy, Has
<1> QED
  BY <1>2 DEF GateStep

(* Every step of the system is a step of the gate or moves nothing. *)
LEMMA NextMoves ==
    ASSUME GateInv, [Next]_vars
    PROVE  GateStep
<1>1. ASSUME NEW r \in Runs, RunStep(r)
      PROVE  GateStep
  <2>1. CASE PlanAction(r)
    BY <2>1, PlanMoves
  <2>2. CASE Decide(r)
    BY <2>2, DecideMoves
  <2>3. CASE ExecCheck(r) \/ GuardReplay(r) \/ RecordOutcome(r)
    BY <2>3, ExecutorMoves
  <2>4. ASSUME NEW performed \in BOOLEAN, NEW ok \in BOOLEAN, CallTool(r, performed, ok)
        PROVE  GateStep
    BY <2>4, CallMoves
  <2>5. CASE Flush(r) \/ FinishPlanner(r) \/ AcquireLock(r) \/ GateResume(r)
    BY <2>5, NoneMoves DEF Flush, FinishPlanner, AcquireLock, GateResume
  <2>6. CASE Resume(r) \/ FinishApproval(r) \/ FinishExecutor(r)
    BY <2>6, NoneMoves DEF Resume, FinishApproval, FinishExecutor
  <2>7. CASE Respond(r) \/ Finish(r) \/ ReleaseLock(r)
    BY <2>7, NoneMoves DEF Respond, Finish, ReleaseLock
  <2> QED
    BY <1>1, <2>1, <2>2, <2>3, <2>4, <2>5, <2>6, <2>7 DEF RunStep
<1>2. ASSUME NEW u \in Users, NEW plan \in Plans, StartChat(u, plan)
      PROVE  GateStep
  BY <1>2, ChatMoves
<1>3. ASSUME NEW r \in Requests, NEW u \in Users, NEW b \in Bodies, Arrive(r, u, b)
      PROVE  GateStep
  BY <1>3, NoneMoves DEF Arrive
<1>4. ASSUME NEW r \in Runs, RunError(r)
      PROVE  GateStep
  BY <1>4, NoneMoves DEF RunError
<1>5. ASSUME NEW w \in Workers, Crash(w)
      PROVE  GateStep
  BY <1>5, NoneMoves DEF Crash
<1>6. ASSUME NEW a \in Actions, EditPolicy(a)
      PROVE  GateStep
  BY <1>6, NoneMoves DEF EditPolicy
<1>7. CASE UNCHANGED vars
  BY <1>7, NoneMoves DEF vars
<1> QED
  BY <1>1, <1>2, <1>3, <1>4, <1>5, <1>6, <1>7 DEF Next

(* The system implements the approval gate: through ledger and provider,   *)
(* every action passes the stages proposed, approved (if gated) and        *)
(* performed in this order, and never falls back.                          *)
THEOREM GateRefinement == Spec => ImplementsGate
<1>1. Init => Gate!Init
  <2>1. ASSUME Init, NEW a \in Actions
        PROVE  Stage(a) = "unknown"
    BY <2>1 DEF Init, Stage, LoggedBy, Logged
  <2> QED
    BY <2>1 DEF Gate!Init
<1>2. GateInv /\ [Next]_vars => [Gate!Next]_([a \in Actions |-> Stage(a)])
  BY NextMoves DEF GateStep
<1> QED
  BY <1>1, <1>2, GateInvHolds, PTL DEF Spec, ImplementsGate, Gate!Spec

=============================================================================
