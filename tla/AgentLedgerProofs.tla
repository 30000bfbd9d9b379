------------------------- MODULE AgentLedgerProofs -------------------------
(***************************************************************************)
(* Proofs about what a turn leaves behind: the ledger, the results and the *)
(* effects at the provider agree, and the current policy decides.  Nothing *)
(* is assumed about workers, crashes or double resumes.                    *)
(*                                                                         *)
(* The effect of every step on ledger and provider is a lemma of its own.  *)
(* On these rest SoundInv (what is claimed has happened) and CountInv (and *)
(* not more often than claimed).                                           *)
(***************************************************************************)
EXTENDS AgentTurnProofs, FiniteSetTheorems

USE DEF runVars, reqVars, worldVars

-----------------------------------------------------------------------------
(* Facts about the ledger and the provider                                 *)

(* The events that close an action: executor_node logs one for every       *)
(* action it goes past.                                                    *)
Outcomes == {"EXECUTED", "FAILED", "SKIPPED", "DENIED", "REPLAY_SKIPPED"}

(* The ledger closes the action.                                           *)
HasOutcome(log, a) == \E type \in Outcomes : Has(log, type, a)

(* No event and no effect is taken back.                                   *)
Grows ==
    /\ \A type, a : Has(audit, type, a) => Has(audit', type, a)
    /\ \A a \in Actions : effects[a] \in Nat /\ effects'[a] \in Nat /\ effects'[a] >= effects[a]

(* How often the ledger says the action was executed.                      *)
Executions(log, a) == Cardinality({i \in DOMAIN log : log[i].type = "EXECUTED" /\ log[i].action = a})

(* The step records no execution.                                          *)
Quiet == \A a : /\ Has(audit', "EXECUTED", a) => Has(audit, "EXECUTED", a)
                /\ Executions(audit', a) = Executions(audit, a)

(* A step that leaves ledger and provider alone.                           *)
LEMMA SameLedger ==
    ASSUME GateInv, UNCHANGED <<audit, effects>>
    PROVE  Grows /\ Quiet
<1>1. effects \in [Actions -> Nat]
  BY DEF GateInv, TypeOK
<1>2. Grows
  BY <1>1 DEF Grows
<1>3. Quiet
  BY DEF Quiet, Executions
<1> QED
  BY <1>2, <1>3

(* A step that adds events to the ledger, none of them EXECUTED.           *)
LEMMA MoreLedger ==
    ASSUME GateInv, UNCHANGED effects, NEW E, Adds(audit, audit', E)
    PROVE  /\ Grows
           /\ (\A e \in E : e.type # "EXECUTED") => Quiet
<1>1. effects \in [Actions -> Nat]
  BY DEF GateInv, TypeOK
<1>2. Grows
  BY <1>1, LedgerGrows DEF Grows
<1>3. ASSUME \A e \in E : e.type # "EXECUTED", NEW a
      PROVE  /\ Has(audit', "EXECUTED", a) => Has(audit, "EXECUTED", a)
             /\ Executions(audit', a) = Executions(audit, a)
  <2>1. \A i : i \in DOMAIN audit' /\ audit'[i].type = "EXECUTED"
               <=> i \in DOMAIN audit /\ audit[i].type = "EXECUTED"
    BY <1>3 DEF Adds
  <2>2. \A i \in DOMAIN audit : audit'[i] = audit[i]
    BY DEF Adds
  <2>3. {i \in DOMAIN audit' : audit'[i].type = "EXECUTED" /\ audit'[i].action = a}
          = {i \in DOMAIN audit : audit[i].type = "EXECUTED" /\ audit[i].action = a}
    BY <2>1, <2>2
  <2>4. Has(audit', "EXECUTED", a) => Has(audit, "EXECUTED", a)
    BY <2>1, <2>2 DEF Has
  <2> QED
    BY <2>3, <2>4 DEF Executions
<1> QED
  BY <1>2, <1>3 DEF Quiet

(* planner_node logs PROPOSED and perhaps DENIED.                          *)
LEMMA PlanGrows ==
    ASSUME GateInv, NEW r \in Runs, PlanAction(r)
    PROVE  Grows /\ Quiet
<1> DEFINE a == Head(todo[r])
           p == Event("PROPOSED", a, None)
           d == Event("DENIED", a, owner)
<1>1. p.type # "EXECUTED" /\ d.type # "EXECUTED"
  BY DEF Event
<1>2. Adds(audit, audit', {p}) \/ Adds(audit, audit', {p} \union {d})
  BY PlanLedger
<1>3. effects' = effects
  BY DEF PlanAction
<1> HIDE DEF p, d
<1>4. CASE Adds(audit, audit', {p})
  BY <1>1, <1>3, <1>4, MoreLedger
<1>5. CASE Adds(audit, audit', {p} \union {d})
  BY <1>1, <1>3, <1>5, MoreLedger
<1> QED
  BY <1>2, <1>4, <1>5

(* approval_node logs decisions.                                           *)
LEMMA DecideGrows ==
    ASSUME GateInv, NEW r \in Runs, Decide(r)
    PROVE  Grows /\ Quiet
<1> DEFINE d == Head(todo[r])
           e == Event(IF d.approved THEN "APPROVED" ELSE "REJECTED", d.action, caller[r])
<1>1. todo[r] \in Seq(DecisionType) /\ todo[r] # <<>> /\ audit \in Seq(EventType)
  BY DEF Decide, GateInv, TypeOK, TodoOK
<1>2. d \in DecisionType
  BY <1>1, HeadTail
<1>3. caller[r] \in Users \union {None}
  BY DEF GateInv, TypeOK
<1>4. e \in EventType /\ e.type # "EXECUTED"
  BY <1>2, <1>3 DEF Event, EventType, EventTypes, DecisionType
<1>5. effects' = effects /\ (audit' = audit \/ audit' = Append(audit, e))
  BY DEF Decide, Log
<1> HIDE DEF d, e
<1>6. CASE audit' = audit
  BY <1>5, <1>6, SameLedger
<1>7. CASE audit' = Append(audit, e)
  <2>1. Adds(audit, audit', {e})
    BY <1>1, <1>4, <1>7, AppendAdds
  <2> QED
    BY <1>4, <1>5, <2>1, MoreLedger
<1> QED
  BY <1>5, <1>6, <1>7

(* executor_node lets a granted action through, or closes it with DENIED   *)
(* or SKIPPED.                                                             *)
LEMMA ExecCheckGrows ==
    ASSUME GateInv, NEW r \in Runs, ExecCheck(r)
    PROVE  LET a == Head(todo[r])
           IN  /\ a \in Actions /\ todo[r] # <<>>
               /\ Grows /\ Quiet
               /\ \/ pc' = [pc EXCEPT ![r] = "guard"] /\ todo' = todo /\ a \in granted
                  \/ pc' = pc /\ Pop(r) /\ HasOutcome(audit', a)
<1> DEFINE a == Head(todo[r])
           v == ExecVerdict(r, a)
           e == Event(v, a, IF v = "DENIED" THEN owner ELSE None)
<1>1. /\ todo[r] # <<>> /\ a \in Actions /\ audit \in Seq(EventType)
      /\ owner \in Users \union {None}
  BY AtAction DEF ExecCheck, GateInv, TypeOK
<1>2. effects' = effects
  BY DEF ExecCheck
<1>3. \/ v = "clear" /\ audit' = audit /\ todo' = todo /\ pc' = [pc EXCEPT ![r] = "guard"]
      \/ v # "clear" /\ audit' = Append(audit, e) /\ Pop(r) /\ pc' = pc
  BY DEF ExecCheck, Log, Goto
<1>4. v \in {"clear", "DENIED", "SKIPPED"} /\ (v = "clear" => a \in granted)
  BY DEF ExecVerdict
<1>5. v # "clear" => e \in EventType /\ e.type \in {"DENIED", "SKIPPED"} /\ e.action = a
  BY <1>1, <1>4 DEF Event, EventType, EventTypes
<1> HIDE DEF a, v, e
<1>6. CASE v = "clear"
  <2>1. Grows /\ Quiet
    BY <1>2, <1>3, <1>6, SameLedger
  <2> QED
    BY <1>1, <1>3, <1>4, <1>6, <2>1 DEF a
<1>7. CASE v # "clear"
  <2>1. Adds(audit, audit', {e})
    BY <1>1, <1>3, <1>5, <1>7, AppendAdds
  <2>2. Grows /\ Quiet
    BY <1>2, <1>5, <1>7, <2>1, MoreLedger
  <2>3. HasOutcome(audit', a)
    BY <1>5, <1>7, <2>1 DEF Adds, HasOutcome, Has, Outcomes
  <2> QED
    BY <1>1, <1>3, <1>7, <2>2, <2>3 DEF a
<1> QED
  BY <1>6, <1>7

(* GuardedExecutor closes an executed gated action as a replay, or goes on *)
(* with one the ledger does not have as executed.                          *)
LEMMA GuardReplayGrows ==
    ASSUME GateInv, NEW r \in Runs, GuardReplay(r)
    PROVE  LET a == Head(todo[r])
           IN  /\ a \in Actions /\ todo[r] # <<>>
               /\ Grows /\ Quiet
               /\ \/ /\ pc' = [pc EXCEPT ![r] = "executor"] /\ Pop(r) /\ HasOutcome(audit', a)
                     /\ Has(audit, "EXECUTED", a)
                     /\ work' = [work EXCEPT ![r] = [work[r] EXCEPT !.results = Append(work[r].results, Result(a, TRUE))]]
                  \/ /\ pc' = [pc EXCEPT ![r] = "call"] /\ todo' = todo /\ work' = work
                     /\ a \in Gated => ~Has(audit, "EXECUTED", a)
<1> DEFINE a == Head(todo[r])
           e == Event("REPLAY_SKIPPED", a, None)
<1>1. todo[r] # <<>> /\ a \in Actions /\ audit \in Seq(EventType) /\ work \in [Runs -> States]
  BY AtAction DEF GuardReplay, GateInv, PcInv, TypeOK, OnTools
<1>2. effects' = effects
  BY DEF GuardReplay
<1>3. \/ /\ Has(audit, "EXECUTED", a) /\ audit' = Append(audit, e) /\ Pop(r)
         /\ pc' = [pc EXCEPT ![r] = "executor"]
         /\ work' = [work EXCEPT ![r] = [work[r] EXCEPT !.results = Append(work[r].results, Result(a, TRUE))]]
      \/ /\ pc' = [pc EXCEPT ![r] = "call"] /\ todo' = todo /\ work' = work /\ audit' = audit
         /\ a \in Gated => ~Has(audit, "EXECUTED", a)
  BY <1>1 DEF GuardReplay, Log, Goto, has_executed, Logged, Has, requires_approval
<1>4. e \in EventType /\ e.type = "REPLAY_SKIPPED" /\ e.action = a
  BY <1>1 DEF Event, EventType, EventTypes
<1> HIDE DEF a, e
<1>5. CASE audit' = audit
  <2>1. Grows /\ Quiet
    BY <1>2, <1>5, SameLedger
  <2>2. audit # Append(audit, e)
    <3>1. Len(Append(audit, e)) = Len(audit) + 1 /\ Len(audit) \in Nat
      BY <1>1, <1>4, AppendProperties, LenProperties
    <3> QED
      BY <3>1
  <2> QED
    BY <1>1, <1>3, <1>5, <2>1, <2>2 DEF a
<1>6. CASE audit' = Append(audit, e)
  <2>1. Adds(audit, audit', {e})
    BY <1>1, <1>4, <1>6, AppendAdds
  <2>2. Grows /\ Quiet
    BY <1>2, <1>4, <2>1, MoreLedger
  <2>3. HasOutcome(audit', a)
    BY <1>4, <2>1 DEF Adds, HasOutcome, Has, Outcomes
  <2> QED
    BY <1>1, <1>3, <2>2, <2>3 DEF a
<1> QED
  BY <1>3, <1>5, <1>6

(* Recording adds one EXECUTED or FAILED event for the head of the loop,   *)
(* and the result that says the same.                                      *)
LEMMA RecordGrows ==
    ASSUME GateInv, NEW r \in Runs, RecordOutcome(r)
    PROVE  LET a == Head(todo[r])
           IN  /\ a \in Actions /\ todo[r] # <<>> /\ pc[r] = "record"
               /\ Grows /\ HasOutcome(audit', a)
               /\ pc' = [pc EXCEPT ![r] = "executor"] /\ Pop(r)
               /\ outcome[r] \in {"EXECUTED", "FAILED"}
               /\ work' = [work EXCEPT ![r] =
                     [work[r] EXCEPT !.results = Append(work[r].results, Result(a, outcome[r] = "EXECUTED"))]]
               /\ outcome[r] = "FAILED" => Quiet
               /\ outcome[r] = "EXECUTED" =>
                     /\ \A b : Has(audit', "EXECUTED", b) => b = a \/ Has(audit, "EXECUTED", b)
                     /\ \A b : b # a => Executions(audit', b) = Executions(audit, b)
                     /\ Executions(audit', a) = Executions(audit, a) + 1
<1> DEFINE a == Head(todo[r])
           e == Event(outcome[r], a, None)
<1>1. /\ todo[r] # <<>> /\ a \in Actions /\ audit \in Seq(EventType) /\ work \in [Runs -> States]
      /\ outcome[r] \in {"EXECUTED", "FAILED"} /\ pc[r] = "record"
  BY AtAction DEF RecordOutcome, GateInv, PcInv, TypeOK, OnTools
<1>2. effects' = effects
  BY DEF RecordOutcome
<1>3. /\ audit' = Append(audit, e) /\ Pop(r) /\ pc' = [pc EXCEPT ![r] = "executor"]
      /\ work' = [work EXCEPT ![r] =
            [work[r] EXCEPT !.results = Append(work[r].results, Result(a, outcome[r] = "EXECUTED"))]]
  BY <1>1 DEF RecordOutcome, Log, Goto
<1>4. e \in EventType /\ e.type = outcome[r] /\ e.action = a
  BY <1>1 DEF Event, EventType, EventTypes
<1> HIDE DEF a, e
<1>5. Adds(audit, audit', {e})
  BY <1>1, <1>3, <1>4, AppendAdds
<1>6. Grows /\ (outcome[r] = "FAILED" => Quiet)
  <2>1. Grows
    BY <1>2, <1>5, MoreLedger
  <2>2. ASSUME outcome[r] = "FAILED"
        PROVE  Quiet
    BY <1>2, <1>4, <1>5, <2>2, MoreLedger
  <2> QED
    BY <2>1, <2>2
<1>7. HasOutcome(audit', a)
  BY <1>1, <1>4, <1>5 DEF Adds, HasOutcome, Has, Outcomes
<1>8. ASSUME outcome[r] = "EXECUTED"
      PROVE  /\ \A b : Has(audit', "EXECUTED", b) => b = a \/ Has(audit, "EXECUTED", b)
             /\ \A b : b # a => Executions(audit', b) = Executions(audit, b)
             /\ Executions(audit', a) = Executions(audit, a) + 1
  <2> DEFINE S(b) == {i \in DOMAIN audit : audit[i].type = "EXECUTED" /\ audit[i].action = b}
             T(b) == {i \in DOMAIN audit' : audit'[i].type = "EXECUTED" /\ audit'[i].action = b}
             n == Len(audit) + 1
  <2>1. /\ DOMAIN audit = 1..Len(audit) /\ Len(audit) \in Nat
        /\ DOMAIN audit' = 1..n /\ audit'[n] = e
        /\ \A i \in 1..Len(audit) : audit'[i] = audit[i]
    BY <1>1, <1>3, <1>4, AppendProperties, LenProperties
  <2>2. \A i : i \in DOMAIN audit' <=> i \in DOMAIN audit \/ i = n
    BY <2>1
  <2>3. \A b : Has(audit', "EXECUTED", b) => b = a \/ Has(audit, "EXECUTED", b)
    BY <1>4, <2>1, <2>2 DEF Has
  <2>4. ASSUME NEW b, b # a
        PROVE  T(b) = S(b)
    BY <1>4, <2>1, <2>2, <2>4
  <2>5. T(a) = S(a) \union {n}
    BY <1>4, <1>8, <2>1, <2>2
  <2>6. n \notin S(a) /\ IsFiniteSet(S(a))
    <3>1. S(a) \subseteq 1..Len(audit) /\ 1 \in Int /\ Len(audit) \in Int
      BY <2>1
    <3>2. IsFiniteSet(1..Len(audit))
      BY <3>1, FS_Interval
    <3>3. IsFiniteSet(S(a))
      BY <3>1, <3>2, FS_Subset
    <3>4. n \notin 1..Len(audit)
      BY <2>1
    <3> QED
      BY <3>1, <3>3, <3>4
  <2> HIDE DEF S, T, n
  <2>7. Cardinality(T(a)) = Cardinality(S(a)) + 1
    BY <2>5, <2>6, FS_AddElement
  <2>8. \A b : b # a => Cardinality(T(b)) = Cardinality(S(b))
    BY <2>4
  <2>9. Executions(audit', a) = Executions(audit, a) + 1
    BY <2>7 DEF Executions, S, T
  <2>10. ASSUME NEW b, b # a
         PROVE  Executions(audit', b) = Executions(audit, b)
    BY <2>8, <2>10 DEF Executions, S, T
  <2> QED
    BY <2>3, <2>9, <2>10
<1> QED
  BY <1>1, <1>3, <1>6, <1>7, <1>8 DEF a

(* A call performs the head of the loop once or not at all, and a success  *)
(* is a performance.                                                       *)
LEMMA CallGrows ==
    ASSUME GateInv, NEW r \in Runs, NEW performed \in BOOLEAN, NEW ok \in BOOLEAN, CallTool(r, performed, ok)
    PROVE  LET a == Head(todo[r])
           IN  /\ a \in Actions /\ todo[r] # <<>> /\ pc[r] = "call"
               /\ Grows /\ Quiet
               /\ pc' = [pc EXCEPT ![r] = "record"] /\ todo' = todo
               /\ outcome' = [outcome EXCEPT ![r] = IF ok THEN "EXECUTED" ELSE "FAILED"]
               /\ \A b \in Actions : b # a => effects'[b] = effects[b]
               /\ effects'[a] <= effects[a] + 1
               /\ ok => effects'[a] = effects[a] + 1
<1>1. todo[r] # <<>> /\ Head(todo[r]) \in Actions /\ effects \in [Actions -> Nat] /\ pc[r] = "call"
  BY AtAction DEF CallTool, GateInv, PcInv, TypeOK, OnTools
<1>2. /\ audit' = audit /\ todo' = todo /\ pc' = [pc EXCEPT ![r] = "record"]
      /\ outcome' = [outcome EXCEPT ![r] = IF ok THEN "EXECUTED" ELSE "FAILED"]
  BY DEF CallTool, Goto
<1>3. Quiet
  BY <1>2 DEF Quiet, Executions
<1>4. /\ effects' = effects \/ effects' = [effects EXCEPT ![Head(todo[r])] = effects[Head(todo[r])] + 1]
      /\ ok => effects' = [effects EXCEPT ![Head(todo[r])] = effects[Head(todo[r])] + 1]
  BY DEF CallTool
<1>5. /\ \A b \in Actions : b # Head(todo[r]) => effects'[b] = effects[b]
      /\ effects'[Head(todo[r])] \in {effects[Head(todo[r])], effects[Head(todo[r])] + 1}
      /\ ok => effects'[Head(todo[r])] = effects[Head(todo[r])] + 1
  BY <1>1, <1>4
<1>6. /\ Grows /\ effects'[Head(todo[r])] <= effects[Head(todo[r])] + 1
  BY <1>1, <1>2, <1>5 DEF Grows
<1> QED
  BY <1>1, <1>2, <1>3, <1>5, <1>6

(* All other steps of a run leave ledger and provider alone.               *)
LEMMA SilentSteps ==
    ASSUME GateInv, NEW r \in Runs,
           \/ Flush(r) \/ FinishPlanner(r) \/ AcquireLock(r) \/ GateResume(r) \/ Resume(r)
           \/ FinishApproval(r) \/ FinishExecutor(r) \/ Respond(r) \/ Finish(r) \/ ReleaseLock(r)
           \/ RunError(r)
    PROVE  UNCHANGED <<audit, effects>> /\ Grows /\ Quiet
<1>1. UNCHANGED <<audit, effects>>
  BY DEF Flush, FinishPlanner, AcquireLock, GateResume, Resume, FinishApproval, FinishExecutor,
         Respond, Finish, ReleaseLock, RunError
<1> QED
  BY <1>1, SameLedger

-----------------------------------------------------------------------------
(* The checks of the policy                                                *)

(* A step of a run leaves the local state of the others alone.             *)
LEMMA OtherRuns ==
    ASSUME GateInv, NEW r \in Runs, RunStep(r) \/ RunError(r)
    PROVE  \A q \in Runs : q # r =>
              /\ mem'[q] = mem[q] /\ work'[q] = work[q] /\ todo'[q] = todo[q]
              /\ pc'[q] = pc[q] /\ outcome'[q] = outcome[q] /\ dirty'[q] = dirty[q]
              /\ status'[q] = status[q]
<1>0. /\ mem \in [Runs -> States] /\ work \in [Runs -> States] /\ DOMAIN todo = Runs
      /\ pc \in [Runs -> Labels] /\ outcome \in [Runs -> {"none", "EXECUTED", "FAILED"}]
      /\ dirty \in [Runs -> BOOLEAN] /\ DOMAIN status = Runs
  BY DEF GateInv, TypeOK, TodoOK
<1> SUFFICES ASSUME NEW q \in Runs, q # r
             PROVE  /\ mem'[q] = mem[q] /\ work'[q] = work[q] /\ todo'[q] = todo[q]
                    /\ pc'[q] = pc[q] /\ outcome'[q] = outcome[q] /\ dirty'[q] = dirty[q]
                    /\ status'[q] = status[q]
  OBVIOUS
<1>1. CASE Flush(r) \/ PlanAction(r) \/ FinishPlanner(r)
  BY <1>0, <1>1 DEF Flush, PlanAction, FinishPlanner, Pop, Goto, Checkpoint
<1>2. CASE AcquireLock(r) \/ GateResume(r) \/ Resume(r)
  BY <1>0, <1>2 DEF AcquireLock, GateResume, Resume, Goto, Forget
<1>3. CASE Decide(r) \/ FinishApproval(r) \/ ExecCheck(r)
  BY <1>0, <1>3 DEF Decide, FinishApproval, ExecCheck, Goto, Pop, Checkpoint
<1>4. CASE GuardReplay(r) \/ RecordOutcome(r) \/ FinishExecutor(r)
  BY <1>0, <1>4 DEF GuardReplay, RecordOutcome, FinishExecutor, Goto, Pop, Checkpoint
<1>5. CASE Respond(r) \/ Finish(r) \/ ReleaseLock(r) \/ RunError(r)
  BY <1>0, <1>5 DEF Respond, Finish, ReleaseLock, RunError, Goto, Forget, Checkpoint
<1>6. ASSUME NEW performed \in BOOLEAN, NEW ok \in BOOLEAN, CallTool(r, performed, ok)
      PROVE  /\ mem'[q] = mem[q] /\ work'[q] = work[q] /\ todo'[q] = todo[q]
             /\ pc'[q] = pc[q] /\ outcome'[q] = outcome[q] /\ dirty'[q] = dirty[q]
             /\ status'[q] = status[q]
  BY <1>0, <1>6 DEF CallTool, Goto
<1> QED
  BY <1>1, <1>2, <1>3, <1>4, <1>5, <1>6 DEF RunStep

(* A step of a client, an administrator or a fault, or none. *)
WorldStep ==
    \/ \E u \in Users, plan \in Plans : StartChat(u, plan)
    \/ \E r \in Requests, u \in Users, b \in Bodies : Arrive(r, u, b)
    \/ \E w \in Workers : Crash(w)
    \/ \E a \in Actions : EditPolicy(a)
    \/ UNCHANGED vars

(* What the steps of clients, administrators and crashes leave alone:      *)
(* ledger, provider, checkpoint, and every run that does not start or end. *)
WorldKeeps ==
    /\ UNCHANGED <<audit, effects, ckpt, errors>>
    /\ \A q \in Runs :
          \/ pc'[q] \in {"plan", "lock", "dead"}
          \/ /\ pc'[q] = pc[q] /\ todo'[q] = todo[q] /\ outcome'[q] = outcome[q]
             /\ dirty'[q] = dirty[q]
    /\ \A q \in Requests : status'[q] = status[q] /\ (pc'[q] = "plan" => pc[q] = "plan")

(* The steps of the world do keep it.                                      *)
LEMMA WorldFrame ==
    ASSUME GateInv, WorldStep
    PROVE  WorldKeeps
<1>0. /\ pc \in [Runs -> Labels] /\ DOMAIN todo = Runs /\ dirty \in [Runs -> BOOLEAN]
      /\ outcome \in [Runs -> {"none", "EXECUTED", "FAILED"}] /\ Requests \subseteq Runs
  BY DEF GateInv, TypeOK, TodoOK, Runs
<1>1. ASSUME NEW u \in Users, NEW plan \in Plans, StartChat(u, plan)
      PROVE  WorldKeeps
  BY <1>0, <1>1, ChatFresh DEF StartChat, Goto, WorldKeeps
<1>2. ASSUME NEW r \in Requests, NEW u \in Users, NEW b \in Bodies, Arrive(r, u, b)
      PROVE  WorldKeeps
  BY <1>0, <1>2 DEF Arrive, Goto, WorldKeeps
<1>3. ASSUME NEW w \in Workers, Crash(w)
      PROVE  WorldKeeps
  BY <1>0, <1>3 DEF Crash, Forget, WorldKeeps
<1>4. ASSUME NEW a \in Actions, EditPolicy(a)
      PROVE  WorldKeeps
  BY <1>0, <1>4 DEF EditPolicy, WorldKeeps
<1>5. CASE UNCHANGED vars
  BY <1>0, <1>5 DEF vars, WorldKeeps
<1> QED
  BY <1>1, <1>2, <1>3, <1>4, <1>5 DEF WorldStep

(* RevocationStops, of one action. *)
Stopped(a) ==
    a \notin granted /\ (\A r \in Runs : ~Cleared(r, a)) =>
        effects'[a] = effects[a] /\ (a \notin granted' => \A r \in Runs : ~Cleared(r, a)')

(* A step that clears no action.                                           *)
LEMMA StopsElsewhere ==
    ASSUME GateInv, UNCHANGED effects, NEW a \in Actions,
           \A q \in Runs : \/ pc'[q] \notin {"guard", "call"}
                           \/ pc'[q] = pc[q] /\ todo'[q] = todo[q]
    PROVE  Stopped(a)
  BY DEF Stopped, Cleared

(* Only ExecCheck clears an action, and only one that is granted.          *)
LEMMA RunStops ==
    ASSUME GateInv, NEW r \in Runs, RunStep(r) \/ RunError(r), NEW a \in Actions
    PROVE  Stopped(a)
<1>0. /\ \A q \in Runs : q # r => pc'[q] = pc[q] /\ todo'[q] = todo[q]
      /\ pc \in [Runs -> Labels] /\ DOMAIN todo = Runs
  BY OtherRuns DEF GateInv, TypeOK, TodoOK
<1>1. CASE Flush(r) \/ PlanAction(r) \/ FinishPlanner(r) \/ AcquireLock(r) \/ GateResume(r) \/ Resume(r)
           \/ Decide(r) \/ FinishApproval(r) \/ FinishExecutor(r) \/ Respond(r) \/ Finish(r)
           \/ ReleaseLock(r) \/ RunError(r)
  <2>1. effects' = effects
    BY <1>1 DEF Flush, PlanAction, FinishPlanner, AcquireLock, GateResume, Resume, Decide,
                FinishApproval, FinishExecutor, Respond, Finish, ReleaseLock, RunError
  <2>2. pc'[r] \notin {"guard", "call"} \/ (pc'[r] = pc[r] /\ todo'[r] = todo[r])
    <3>1. CASE Flush(r) \/ PlanAction(r) \/ FinishPlanner(r) \/ AcquireLock(r) \/ GateResume(r)
      BY <1>0, <3>1 DEF Flush, PlanAction, FinishPlanner, AcquireLock, GateResume, Goto, Pop,
                        route_after_planner
    <3>2. CASE Resume(r)
      <4>1. ckpt.next \in Nodes \union {"absent"}
        BY DEF GateInv, TypeOK, States
      <4> QED
        BY <1>0, <3>2, <4>1 DEF Resume, Goto, Nodes
    <3>3. CASE Decide(r) \/ FinishApproval(r) \/ FinishExecutor(r) \/ Respond(r) \/ Finish(r)
               \/ ReleaseLock(r) \/ RunError(r)
      BY <1>0, <3>3 DEF Decide, FinishApproval, FinishExecutor, Respond, Finish, ReleaseLock,
                        RunError, Goto
    <3> QED
      BY <1>1, <3>1, <3>2, <3>3
  <2> QED
    BY <1>0, <2>1, <2>2, StopsElsewhere
<1>2. CASE ExecCheck(r)
  <2>1. effects' = effects /\ granted' = granted /\ pc[r] = "executor"
    BY <1>2 DEF ExecCheck
  <2>2. \/ pc'[r] = "guard" /\ todo'[r] = todo[r] /\ Head(todo[r]) \in granted
        \/ pc'[r] = "executor"
    BY <1>0, <1>2, <2>1, ExecCheckGrows
  <2>3. ASSUME a \notin granted
        PROVE  ~(pc'[r] \in {"guard", "call"} /\ Head(todo'[r]) = a)
    BY <2>2, <2>3
  <2> QED
    BY <1>0, <2>1, <2>3 DEF Stopped, Cleared
<1>3. CASE GuardReplay(r)
  <2>1. effects' = effects /\ pc[r] = "guard"
    BY <1>3 DEF GuardReplay
  <2>2. \/ pc'[r] = "call" /\ todo'[r] = todo[r]
        \/ pc'[r] = "executor"
    BY <1>0, <1>3, GuardReplayGrows
  <2> QED
    BY <1>0, <2>1, <2>2 DEF Stopped, Cleared
<1>4. CASE RecordOutcome(r)
  <2>1. effects' = effects /\ pc'[r] = "executor"
    BY <1>0, <1>4 DEF RecordOutcome, Goto
  <2> QED
    BY <1>0, <2>1, StopsElsewhere
<1>5. ASSUME NEW performed \in BOOLEAN, NEW ok \in BOOLEAN, CallTool(r, performed, ok)
      PROVE  Stopped(a)
  <2>1. /\ pc[r] = "call" /\ pc'[r] = "record"
        /\ \A b \in Actions : b # Head(todo[r]) => effects'[b] = effects[b]
    BY <1>0, <1>5, CallGrows
  <2> QED
    BY <1>0, <2>1 DEF Stopped, Cleared
<1> QED
  BY <1>1, <1>2, <1>3, <1>4, <1>5 DEF RunStep

(* A permission that is taken away stops the action: executor_node looks   *)
(* at the current policy and not at the one the plan was made under. While *)
(* an action is not granted and no run has passed that check, no step of   *)
(* any run, request or worker performs it or clears it.                    *)
THEOREM RevocationStopsHolds == Spec => RevocationStops
<1>1. ASSUME GateInv, [Next]_vars, NEW a \in Actions
      PROVE  Stopped(a)
  <2>1. ASSUME NEW r \in Runs, RunStep(r) \/ RunError(r)
        PROVE  Stopped(a)
    BY <1>1, <2>1, RunStops
  <2>2. CASE WorldStep
    BY <1>1, <2>2, WorldFrame, StopsElsewhere DEF WorldKeeps
  <2> QED
    BY <1>1, <2>1, <2>2 DEF Next, WorldStep
<1>2. GateInv /\ [Next]_vars => (\A a \in Actions : Stopped(a))
  BY <1>1
<1> QED
  BY <1>2, GateInvHolds, PTL DEF Spec, RevocationStops, Stopped

-----------------------------------------------------------------------------
(* Results and outcomes                                                    *)

(* The successful results of a state stand for effects.                    *)
Truthful(f, s) == \A i \in DOMAIN s.results : s.results[i].ok => f[s.results[i].action] > 0

(* Every action of a state is closed on the ledger.                        *)
Settled(log, s) == \A i \in DOMAIN s.proposed : HasOutcome(log, s.proposed[i])

(* A checkpoint that may be saved: its results are true, and one past the  *)
(* executor has all its actions closed.                                    *)
Sound(log, f, s) == Truthful(f, s) /\ (s.next \in {"responder", "end"} => Settled(log, s))

(* Every action of a state is closed or still in the executor's loop.      *)
Pending(log, s, left) ==
    \A i \in DOMAIN s.proposed :
        HasOutcome(log, s.proposed[i]) \/ \E j \in DOMAIN left : left[j] = s.proposed[i]

(* The same of the copies a run holds: the checkpoint it may still save,   *)
(* the state its node works on, and the tool call it is about to record.   *)
RunSound(log, f, m, w, left, l, o) ==
    /\ Sound(log, f, m)
    /\ Truthful(f, w)
    /\ l = "responder" => Settled(log, w)
    /\ l \in {"executor"} \union OnTools => Pending(log, w, left)
    /\ l = "record" /\ o = "EXECUTED" => f[Head(left)] > 0

(* An EXECUTED event stands for an effect.                                 *)
LedgerTrue == \A a \in Actions : Has(audit, "EXECUTED", a) => effects[a] > 0

(* The inductive invariant: checkpoint, ledger and the copies of all runs  *)
(* agree with the provider. A crash, an error or a late flush may put any  *)
(* of the copies in force, which is why it speaks of them all.             *)
SoundInv ==
    /\ Sound(audit, effects, ckpt)
    /\ \A r \in Runs : RunSound(audit, effects, mem[r], work[r], todo[r], pc[r], outcome[r])
    /\ LedgerTrue

(* A growing ledger keeps what is said of a state.                         *)
LEMMA SoundKept ==
    ASSUME Grows
    PROVE  /\ \A s \in States : Truthful(effects, s) => Truthful(effects', s)
           /\ \A s : Settled(audit, s) => Settled(audit', s)
           /\ \A s \in States : Sound(audit, effects, s) => Sound(audit', effects', s)
           /\ \A s, left : Pending(audit, s, left) => Pending(audit', s, left)
<1>1. \A a : HasOutcome(audit, a) => HasOutcome(audit', a)
  BY DEF Grows, HasOutcome
<1>2. \A s : Settled(audit, s) => Settled(audit', s)
  BY <1>1 DEF Settled
<1>3. ASSUME NEW s \in States, Truthful(effects, s)
      PROVE  Truthful(effects', s)
  <2> SUFFICES ASSUME NEW i \in DOMAIN s.results, s.results[i].ok
               PROVE  effects'[s.results[i].action] > 0
    BY DEF Truthful
  <2>1. s.results \in Seq(ResultType)
    BY DEF States
  <2>2. s.results[i] \in ResultType
    BY <2>1
  <2>3. s.results[i].action \in Actions
    BY <2>2 DEF ResultType
  <2>4. effects[s.results[i].action] > 0
    BY <1>3 DEF Truthful
  <2> QED
    BY <2>3, <2>4 DEF Grows
<1>4. \A s, left : Pending(audit, s, left) => Pending(audit', s, left)
  BY <1>1 DEF Pending
<1> QED
  BY <1>2, <1>3, <1>4 DEF Sound

(* A run that does not move stays sound.                                   *)
LEMMA RunKept ==
    ASSUME GateInv, SoundInv, Grows, NEW q \in Runs,
           mem'[q] = mem[q], work'[q] = work[q], todo'[q] = todo[q], pc'[q] = pc[q], outcome'[q] = outcome[q]
    PROVE  RunSound(audit', effects', mem'[q], work'[q], todo'[q], pc'[q], outcome'[q])
<1>1. mem[q] \in States /\ work[q] \in States
  BY DEF GateInv, TypeOK
<1>2. RunSound(audit, effects, mem[q], work[q], todo[q], pc[q], outcome[q])
  BY DEF SoundInv
<1>3. pc[q] = "record" => Head(todo[q]) \in Actions
  BY AtAction DEF GateInv, PcInv, OnTools
<1>4. pc[q] = "record" /\ outcome[q] = "EXECUTED" => effects'[Head(todo[q])] > 0
  BY <1>2, <1>3 DEF RunSound, Grows
<1>5. Sound(audit', effects', mem[q]) /\ Truthful(effects', work[q])
  BY <1>1, <1>2, SoundKept DEF RunSound
<1>6. /\ pc[q] = "responder" => Settled(audit', work[q])
      /\ pc[q] \in {"executor"} \union OnTools => Pending(audit', work[q], todo[q])
  BY <1>2, SoundKept DEF RunSound
<1> QED
  BY <1>4, <1>5, <1>6 DEF RunSound

(* An empty thread is sound.                                               *)
LEMMA BlankSound ==
    /\ \A log, f : Sound(log, f, NoThread) /\ Sound(log, f, initial_state)
    /\ \A f : Truthful(f, NoThread) /\ Truthful(f, initial_state)
<1>2. NoThread.results = <<>> /\ NoThread.next = "absent"
  BY DEF NoThread
<1>3. initial_state.results = <<>> /\ initial_state.next = "planner"
  BY DEF initial_state, NoThread
<1> QED
  BY <1>2, <1>3 DEF Sound, Truthful

(* Setting the next node changes neither results nor actions.              *)
LEMMA CopySound ==
    ASSUME NEW s \in States, NEW n \in Nodes
    PROVE  LET t == [s EXCEPT !.next = n]
           IN  /\ t.next = n /\ t.proposed = s.proposed /\ t.results = s.results /\ t \in States
               /\ \A f : Truthful(f, s) => Truthful(f, t)
               /\ \A log : Settled(log, s) => Settled(log, t)
               /\ \A log, left : Pending(log, s, left) => Pending(log, t, left)
<1> DEFINE t == [s EXCEPT !.next = n]
<1>1. t.next = n /\ t.proposed = s.proposed /\ t.results = s.results /\ t \in States
  BY StateUpdate DEF States
<1> HIDE DEF t
<1> QED
  BY <1>1 DEF t, Truthful, Settled, Pending

(* A result joins the list: it is true if it claims no more than the       *)
(* provider did.                                                           *)
LEMMA MoreSound ==
    ASSUME NEW s \in States, NEW a \in Actions, NEW ok \in BOOLEAN, NEW f,
           Truthful(f, s), ok => f[a] > 0
    PROVE  LET t == [s EXCEPT !.results = Append(s.results, Result(a, ok))]
           IN  Truthful(f, t) /\ t.proposed = s.proposed
<1> DEFINE q == Append(s.results, Result(a, ok))
           t == [s EXCEPT !.results = q]
<1>1. Result(a, ok) \in ResultType /\ s.results \in Seq(ResultType)
  BY DEF Result, ResultType, States
<1>2. Adds(s.results, q, {Result(a, ok)})
  BY <1>1, AppendAdds
<1>3. Result(a, ok).action = a /\ Result(a, ok).ok = ok
  BY DEF Result
<1> HIDE DEF q
<1>4. t.results = q /\ t.proposed = s.proposed
  BY DEF States
<1> HIDE DEF t
<1>5. ASSUME NEW i \in DOMAIN q, q[i].ok
      PROVE  f[q[i].action] > 0
  <2>1. CASE q[i] = Result(a, ok)
    BY <1>3, <1>5, <2>1
  <2>2. CASE i \in DOMAIN s.results /\ q[i] = s.results[i]
    BY <1>5, <2>2 DEF Truthful
  <2> QED
    BY <1>2, <2>1, <2>2 DEF Adds
<1>6. Truthful(f, t)
  BY <1>4, <1>5 DEF Truthful
<1> QED
  BY <1>4, <1>6 DEF t, q

(* The loop may drop an action that is closed.                             *)
LEMMA PopPending ==
    ASSUME GateInv, Grows, NEW r \in Runs, todo[r] # <<>>, pc[r] # "approval", Pop(r),
           HasOutcome(audit', Head(todo[r])), Pending(audit, work[r], todo[r])
    PROVE  Pending(audit', work[r], todo'[r])
<1>1. todo[r] \in Seq(Actions) /\ Head(todo[r]) = todo[r][1]
  BY AtAction
<1>2. todo'[r] = Tail(todo[r])
  BY DEF Pop, GateInv, TypeOK, TodoOK
<1>3. \A j \in DOMAIN todo[r] : j = 1 \/ (j - 1 \in DOMAIN Tail(todo[r]) /\ Tail(todo[r])[j - 1] = todo[r][j])
  BY <1>1, HeadTailProperties, LenProperties
<1>4. Pending(audit', work[r], todo[r])
  BY SoundKept
<1> SUFFICES ASSUME NEW i \in DOMAIN work[r].proposed, ~HasOutcome(audit', work[r].proposed[i])
             PROVE  \E k \in DOMAIN todo'[r] : todo'[r][k] = work[r].proposed[i]
  BY DEF Pending
<1>5. PICK j \in DOMAIN todo[r] : todo[r][j] = work[r].proposed[i]
  BY <1>4 DEF Pending
<1>6. j # 1
  BY <1>1, <1>5
<1> QED
  BY <1>2, <1>3, <1>5, <1>6

(* A step without an execution leaves the ledger true.                     *)
LEMMA QuietTrue ==
    ASSUME SoundInv, Grows, Quiet
    PROVE  LedgerTrue'
  BY DEF SoundInv, LedgerTrue, Grows, Quiet

(* A step has to answer for its own run and for the checkpoint.            *)
LEMMA StepSound ==
    ASSUME GateInv, SoundInv, Grows, LedgerTrue', NEW r \in Runs, RunStep(r) \/ RunError(r),
           Sound(audit', effects', ckpt'),
           RunSound(audit', effects', mem'[r], work'[r], todo'[r], pc'[r], outcome'[r])
    PROVE  SoundInv'
<1>1. \A q \in Runs : q # r =>
          RunSound(audit', effects', mem'[q], work'[q], todo'[q], pc'[q], outcome'[q])
  BY OtherRuns, RunKept
<1> QED
  BY <1>1 DEF SoundInv

(* The checkpoint stays sound while it stays.                              *)
LEMMA CkptSound ==
    ASSUME GateInv, SoundInv, Grows, ckpt' = ckpt
    PROVE  Sound(audit', effects', ckpt')
<1>1. ckpt \in States
  BY DEF GateInv, TypeOK
<1> QED
  BY <1>1, SoundKept DEF SoundInv

(* The steps that end, lock or save: no node runs on. *)
LEMMA QuietRunSound ==
    ASSUME GateInv, SoundInv, NEW r \in Runs,
           \/ Flush(r) \/ AcquireLock(r) \/ GateResume(r) \/ Finish(r) \/ ReleaseLock(r) \/ RunError(r)
    PROVE  SoundInv'
<1>1. UNCHANGED <<audit, effects>> /\ Grows /\ LedgerTrue'
  BY SilentSteps, QuietTrue
<1>2. RunSound(audit, effects, mem[r], work[r], todo[r], pc[r], outcome[r]) /\ Sound(audit, effects, ckpt)
  BY DEF SoundInv
<1>3. /\ pc \in [Runs -> Labels] /\ mem \in [Runs -> States] /\ work \in [Runs -> States]
      /\ DOMAIN todo = Runs
  BY DEF GateInv, TypeOK, TodoOK
<1>4. CASE Flush(r)
  BY <1>1, <1>2, <1>4, StepSound DEF Flush, RunSound, RunStep
<1>5. CASE RunError(r)
  <2>1. /\ mem'[r] = mem[r] /\ work'[r] = work[r] /\ outcome'[r] = outcome[r] /\ ckpt' = ckpt
        /\ pc'[r] = "finish" \/ (pc'[r] = pc[r] /\ todo'[r] = todo[r])
    BY <1>5, ErrorMoves
  <2>2. RunSound(audit', effects', mem'[r], work'[r], todo'[r], pc'[r], outcome'[r])
    BY <1>1, <1>2, <2>1 DEF RunSound, OnTools
  <2>3. Sound(audit', effects', ckpt')
    BY <1>1, <2>1, CkptSound
  <2> QED
    BY <1>1, <1>5, <2>2, <2>3, StepSound
<1>6. CASE AcquireLock(r) \/ GateResume(r) \/ Finish(r) \/ ReleaseLock(r)
  <2>1. /\ mem'[r] = mem[r] \/ mem'[r] = NoThread
        /\ work'[r] = work[r] \/ work'[r] = NoThread
        /\ pc'[r] \in {"gate", "invoke", "release", "finish", "done"}
        /\ ckpt' = ckpt
    <3>1. CASE AcquireLock(r) \/ ReleaseLock(r)
      BY <1>3, <3>1 DEF AcquireLock, ReleaseLock, Goto
    <3>2. CASE GateResume(r)
      BY <1>3, <3>2 DEF GateResume, Goto, Forget
    <3>3. CASE Finish(r)
      BY <1>3, <3>3 DEF Finish, Goto, Forget
    <3> QED
      BY <1>6, <3>1, <3>2, <3>3
  <2>2. Sound(audit', effects', mem'[r]) /\ Truthful(effects', work'[r])
    BY <1>1, <1>2, <2>1, BlankSound DEF RunSound
  <2>3. RunSound(audit', effects', mem'[r], work'[r], todo'[r], pc'[r], outcome'[r])
    BY <2>1, <2>2 DEF RunSound, OnTools
  <2>4. Sound(audit', effects', ckpt')
    BY <1>1, <2>1, CkptSound
  <2> QED
    BY <1>1, <1>6, <2>3, <2>4, StepSound DEF RunStep
<1> QED
  BY <1>4, <1>5, <1>6

(* graph.invoke starts from a sound checkpoint.                            *)
LEMMA ResumeSound ==
    ASSUME GateInv, SoundInv, NEW r \in Runs, Resume(r)
    PROVE  SoundInv'
<1>1. UNCHANGED <<audit, effects>> /\ Grows /\ LedgerTrue'
  BY SilentSteps, QuietTrue
<1>2. Sound(audit, effects, ckpt) /\ ckpt \in States
  BY DEF SoundInv, GateInv, TypeOK
<1>3. /\ ckpt' = ckpt /\ mem'[r] = ckpt /\ work'[r] = ckpt
      /\ ckpt.next # "approval" => todo'[r] = ckpt.proposed
      /\ pc'[r] = IF ckpt.next = "end" THEN "finish" ELSE ckpt.next
  BY DEF Resume, Goto, GateInv, TypeOK, TodoOK
<1>4. ckpt.next \in Nodes \union {"absent"}
  BY <1>2 DEF States
<1>5. ckpt.next = "responder" => Settled(audit', ckpt)
  BY <1>1, <1>2 DEF Sound
<1>6. ckpt.next = "executor" => Pending(audit', ckpt, todo'[r])
  BY <1>3 DEF Pending
<1>7. RunSound(audit', effects', mem'[r], work'[r], todo'[r], pc'[r], outcome'[r])
  BY <1>1, <1>2, <1>3, <1>4, <1>5, <1>6 DEF RunSound, Sound, OnTools, Nodes
<1> QED
  BY <1>1, <1>2, <1>3, <1>7, StepSound DEF RunStep

(* The checkpoint a node hands over is sound if the next node may be.      *)
LEMMA CheckpointSound ==
    ASSUME GateInv, SoundInv, NEW r \in Runs, NEW n \in Nodes, Checkpoint(r, n),
           n \in {"responder", "end"} => Settled(audit, work[r])
    PROVE  /\ work'[r].proposed = work[r].proposed
           /\ Truthful(effects, work'[r])
           /\ \A log : Settled(log, work[r]) => Settled(log, work'[r])
           /\ Sound(audit, effects, mem'[r])
<1>1. work[r] \in States /\ work \in [Runs -> States] /\ mem \in [Runs -> States]
  BY DEF GateInv, TypeOK
<1>2. work'[r] = [work[r] EXCEPT !.next = n] /\ mem'[r] = [work[r] EXCEPT !.next = n]
  BY <1>1 DEF Checkpoint
<1>3. Truthful(effects, work[r])
  BY DEF SoundInv, RunSound
<1> DEFINE t == [work[r] EXCEPT !.next = n]
<1>4. /\ t.next = n /\ t.proposed = work[r].proposed
      /\ Truthful(effects, t)
      /\ \A log : Settled(log, work[r]) => Settled(log, t)
  BY <1>1, <1>3, CopySound
<1> HIDE DEF t
<1>5. Sound(audit, effects, t)
  BY <1>4 DEF Sound
<1> QED
  BY <1>2, <1>4, <1>5 DEF t

(* The ends of the four nodes.                                             *)
LEMMA NodeEndSound ==
    ASSUME GateInv, SoundInv, NEW r \in Runs,
           FinishPlanner(r) \/ FinishApproval(r) \/ FinishExecutor(r) \/ Respond(r)
    PROVE  SoundInv'
<1>1. UNCHANGED <<audit, effects>> /\ Grows /\ LedgerTrue'
  BY SilentSteps, QuietTrue
<1>2. RunSound(audit, effects, mem[r], work[r], todo[r], pc[r], outcome[r])
  BY DEF SoundInv
<1>3. pc \in [Runs -> Labels] /\ DOMAIN todo = Runs
  BY DEF GateInv, TypeOK, TodoOK
<1>4. PICK n \in Nodes :
          /\ Checkpoint(r, n)
          /\ n \in {"responder", "end"} => Settled(audit, work[r])
          /\ pc'[r] \in {"finish", "executor", "responder"}
          /\ pc'[r] = "responder" => n = "responder"
          /\ pc'[r] = "executor" => todo'[r] = work[r].proposed
  <2>1. CASE FinishPlanner(r)
    <3> DEFINE n == route_after_planner(work[r])
    <3>1. n \in {"approval", "responder", "executor"} /\ (n = "responder" => work[r].proposed = <<>>)
      BY DEF route_after_planner
    <3>2. /\ Checkpoint(r, n) /\ pc'[r] = (IF n = "approval" THEN "finish" ELSE n)
          /\ todo'[r] = work[r].proposed
      BY <1>3, <2>1 DEF FinishPlanner, Goto
    <3> HIDE DEF n
    <3>3. n = "responder" => Settled(audit, work[r])
      BY <3>1 DEF Settled
    <3> QED
      BY <3>1, <3>2, <3>3 DEF Nodes
  <2>2. CASE FinishApproval(r)
    <3>1. Checkpoint(r, "executor") /\ pc'[r] = "executor" /\ todo'[r] = work[r].proposed
      BY <1>3, <2>2 DEF FinishApproval, Goto
    <3> QED
      BY <3>1 DEF Nodes
  <2>3. CASE FinishExecutor(r)
    <3>1. Checkpoint(r, "responder") /\ pc'[r] = "responder" /\ pc[r] = "executor" /\ todo[r] = <<>>
      BY <1>3, <2>3 DEF FinishExecutor, Goto
    <3>2. Settled(audit, work[r])
      BY <1>2, <3>1 DEF RunSound, Pending, Settled
    <3> QED
      BY <3>1, <3>2 DEF Nodes
  <2>4. CASE Respond(r)
    <3>1. Checkpoint(r, "end") /\ pc'[r] = "finish" /\ pc[r] = "responder"
      BY <1>3, <2>4 DEF Respond, Goto
    <3>2. Settled(audit, work[r])
      BY <1>2, <3>1 DEF RunSound
    <3> QED
      BY <3>1, <3>2 DEF Nodes
  <2> QED
    BY <2>1, <2>2, <2>3, <2>4
<1>5. /\ work'[r].proposed = work[r].proposed
      /\ Truthful(effects, work'[r])
      /\ \A log : Settled(log, work[r]) => Settled(log, work'[r])
      /\ Sound(audit, effects, mem'[r])
  BY <1>4, CheckpointSound
<1>6. pc'[r] = "executor" => Pending(audit', work'[r], todo'[r])
  BY <1>4, <1>5 DEF Pending
<1>7. pc'[r] = "responder" => Settled(audit', work'[r])
  BY <1>1, <1>4, <1>5
<1>8. RunSound(audit', effects', mem'[r], work'[r], todo'[r], pc'[r], outcome'[r])
  BY <1>1, <1>4, <1>5, <1>6, <1>7 DEF RunSound, OnTools
<1>9. Sound(audit', effects', ckpt')
  BY <1>1, CkptSound DEF FinishPlanner, FinishApproval, FinishExecutor, Respond
<1> QED
  BY <1>1, <1>8, <1>9, StepSound DEF RunStep

(* planner_node adds an action and no result.                              *)
LEMMA PlanSound ==
    ASSUME GateInv, SoundInv, NEW r \in Runs, PlanAction(r)
    PROVE  SoundInv'
<1>1. Grows /\ LedgerTrue'
  BY PlanGrows, QuietTrue
<1>2. pc'[r] = "plan" /\ mem'[r] = mem[r] /\ ckpt' = ckpt /\ effects' = effects
  BY DEF PlanAction
<1>3. /\ work[r] \in States /\ mem[r] \in States
      /\ Sound(audit, effects, mem[r]) /\ Truthful(effects, work[r])
  BY DEF GateInv, TypeOK, SoundInv, RunSound
<1>4. work'[r].results = work[r].results
  <2>1. work' = work \/ work' = [work EXCEPT ![r] = [work[r] EXCEPT !.proposed = Append(work[r].proposed, Head(todo[r]))]]
    BY DEF PlanAction
  <2> QED
    BY <1>3, <2>1 DEF States, GateInv, TypeOK
<1>5. Truthful(effects', work'[r])
  BY <1>2, <1>3, <1>4 DEF Truthful
<1>6. Sound(audit', effects', mem'[r])
  BY <1>1, <1>2, <1>3, SoundKept
<1>7. RunSound(audit', effects', mem'[r], work'[r], todo'[r], pc'[r], outcome'[r])
  BY <1>2, <1>5, <1>6 DEF RunSound, OnTools
<1> QED
  BY <1>1, <1>2, <1>7, CkptSound, StepSound DEF RunStep

(* approval_node touches neither results nor actions.                      *)
LEMMA DecideSound ==
    ASSUME GateInv, SoundInv, NEW r \in Runs, Decide(r)
    PROVE  SoundInv'
<1>1. Grows /\ LedgerTrue'
  BY DecideGrows, QuietTrue
<1>2. pc'[r] = "approval" /\ mem'[r] = mem[r] /\ ckpt' = ckpt /\ effects' = effects
  BY DEF Decide
<1>3. /\ work[r] \in States /\ mem[r] \in States
      /\ Sound(audit, effects, mem[r]) /\ Truthful(effects, work[r])
  BY DEF GateInv, TypeOK, SoundInv, RunSound
<1>4. work'[r].results = work[r].results
  <2> DEFINE d == Head(todo[r])
  <2>1. \/ work' = work
        \/ work' = [work EXCEPT ![r] = [work[r] EXCEPT !.approved = work[r].approved \union {d.action}]]
        \/ work' = [work EXCEPT ![r] = [work[r] EXCEPT !.rejected = work[r].rejected \union {d.action}]]
    BY DEF Decide
  <2> HIDE DEF d
  <2> QED
    BY <1>3, <2>1 DEF States, GateInv, TypeOK
<1>5. Truthful(effects', work'[r])
  BY <1>2, <1>3, <1>4 DEF Truthful
<1>6. Sound(audit', effects', mem'[r])
  BY <1>1, <1>2, <1>3, SoundKept
<1>7. RunSound(audit', effects', mem'[r], work'[r], todo'[r], pc'[r], outcome'[r])
  BY <1>2, <1>5, <1>6 DEF RunSound, OnTools
<1> QED
  BY <1>1, <1>2, <1>7, CkptSound, StepSound DEF RunStep

(* What executor_node turns away is closed.                                *)
LEMMA ExecCheckSound ==
    ASSUME GateInv, SoundInv, NEW r \in Runs, ExecCheck(r)
    PROVE  SoundInv'
<1>1. Grows /\ LedgerTrue'
  BY ExecCheckGrows, QuietTrue
<1>2. /\ mem'[r] = mem[r] /\ work'[r] = work[r] /\ ckpt' = ckpt /\ effects' = effects
      /\ pc[r] = "executor" /\ todo[r] # <<>>
  BY DEF ExecCheck
<1>3. /\ work[r] \in States /\ mem[r] \in States
      /\ Sound(audit, effects, mem[r]) /\ Truthful(effects, work[r]) /\ Pending(audit, work[r], todo[r])
  BY <1>2 DEF GateInv, TypeOK, SoundInv, RunSound
<1>4. Sound(audit', effects', mem'[r]) /\ Truthful(effects', work'[r])
  BY <1>1, <1>2, <1>3, SoundKept
<1>5. /\ pc'[r] \in {"executor", "guard"}
      /\ todo' = todo \/ (Pop(r) /\ HasOutcome(audit', Head(todo[r])))
  BY <1>2, ExecCheckGrows DEF GateInv, TypeOK
<1>6. Pending(audit', work'[r], todo'[r])
  <2>1. CASE todo' = todo
    BY <1>1, <1>2, <1>3, <2>1, SoundKept
  <2>2. CASE Pop(r) /\ HasOutcome(audit', Head(todo[r]))
    BY <1>1, <1>2, <1>3, <2>2, PopPending
  <2> QED
    BY <1>5, <2>1, <2>2
<1>7. RunSound(audit', effects', mem'[r], work'[r], todo'[r], pc'[r], outcome'[r])
  BY <1>4, <1>5, <1>6 DEF RunSound
<1> QED
  BY <1>1, <1>2, <1>7, CkptSound, StepSound DEF RunStep

(* A replayed success is one the ledger has, and hence an effect.          *)
LEMMA GuardReplaySound ==
    ASSUME GateInv, SoundInv, NEW r \in Runs, GuardReplay(r)
    PROVE  SoundInv'
<1> DEFINE a == Head(todo[r])
<1>1. Grows /\ LedgerTrue' /\ a \in Actions /\ todo[r] # <<>>
  BY GuardReplayGrows, QuietTrue
<1>2. mem'[r] = mem[r] /\ ckpt' = ckpt /\ effects' = effects /\ pc[r] = "guard"
  BY DEF GuardReplay
<1>3. /\ work[r] \in States /\ mem[r] \in States /\ work \in [Runs -> States]
      /\ Sound(audit, effects, mem[r]) /\ Truthful(effects, work[r]) /\ Pending(audit, work[r], todo[r])
  BY <1>2 DEF GateInv, TypeOK, SoundInv, RunSound, OnTools
<1>4. Sound(audit', effects', mem'[r]) /\ Truthful(effects', work[r])
  BY <1>1, <1>2, <1>3, SoundKept
<1>5. \/ /\ pc'[r] = "executor" /\ Pop(r) /\ HasOutcome(audit', a) /\ Has(audit, "EXECUTED", a)
         /\ work'[r] = [work[r] EXCEPT !.results = Append(work[r].results, Result(a, TRUE))]
      \/ pc'[r] = "call" /\ todo' = todo /\ work'[r] = work[r]
  <2> DEFINE s == [work[r] EXCEPT !.results = Append(work[r].results, Result(a, TRUE))]
  <2>1. \/ /\ pc' = [pc EXCEPT ![r] = "executor"] /\ Pop(r) /\ HasOutcome(audit', a)
           /\ Has(audit, "EXECUTED", a) /\ work' = [work EXCEPT ![r] = s]
        \/ pc' = [pc EXCEPT ![r] = "call"] /\ todo' = todo /\ work' = work
    BY GuardReplayGrows
  <2>2. pc \in [Runs -> Labels]
    BY DEF GateInv, TypeOK
  <2> HIDE DEF s, a
  <2>3. \/ /\ pc'[r] = "executor" /\ Pop(r) /\ HasOutcome(audit', a)
           /\ Has(audit, "EXECUTED", a) /\ work'[r] = s
        \/ pc'[r] = "call" /\ todo' = todo /\ work'[r] = work[r]
    BY <1>3, <2>1, <2>2
  <2> QED
    BY <2>3 DEF s
<1> HIDE DEF a
<1>6. CASE pc'[r] = "call" /\ todo' = todo /\ work'[r] = work[r]
  <2>1. Pending(audit', work'[r], todo'[r])
    BY <1>1, <1>3, <1>6, SoundKept
  <2>2. RunSound(audit', effects', mem'[r], work'[r], todo'[r], pc'[r], outcome'[r])
    BY <1>4, <1>6, <2>1 DEF RunSound
  <2> QED
    BY <1>1, <1>2, <2>2, CkptSound, StepSound DEF RunStep
<1>7. CASE /\ pc'[r] = "executor" /\ Pop(r) /\ HasOutcome(audit', a) /\ Has(audit, "EXECUTED", a)
           /\ work'[r] = [work[r] EXCEPT !.results = Append(work[r].results, Result(a, TRUE))]
  <2>1. effects'[a] > 0
    BY <1>1, <1>2, <1>7 DEF SoundInv, LedgerTrue
  <2>2. Truthful(effects', work'[r]) /\ work'[r].proposed = work[r].proposed
    <3>1. PICK ok \in BOOLEAN : ok = TRUE
      OBVIOUS
    <3>2. work'[r] = [work[r] EXCEPT !.results = Append(work[r].results, Result(a, ok))]
      BY <1>7, <3>1
    <3> QED
      BY <1>1, <1>3, <1>4, <2>1, <3>2, MoreSound
  <2>3. Pending(audit', work[r], todo'[r])
    BY <1>1, <1>2, <1>3, <1>7, PopPending DEF a
  <2>4. Pending(audit', work'[r], todo'[r])
    BY <2>2, <2>3 DEF Pending
  <2>5. RunSound(audit', effects', mem'[r], work'[r], todo'[r], pc'[r], outcome'[r])
    BY <1>4, <1>7, <2>2, <2>4 DEF RunSound
  <2> QED
    BY <1>1, <1>2, <2>5, CkptSound, StepSound DEF RunStep
<1> QED
  BY <1>5, <1>6, <1>7

(* A call that reports success has performed the action.                   *)
LEMMA CallToolSound ==
    ASSUME GateInv, SoundInv, NEW r \in Runs, NEW performed \in BOOLEAN, NEW ok \in BOOLEAN, CallTool(r, performed, ok)
    PROVE  SoundInv'
<1> DEFINE a == Head(todo[r])
<1>1. Grows /\ LedgerTrue' /\ a \in Actions
  BY CallGrows, QuietTrue
<1>2. /\ mem'[r] = mem[r] /\ work'[r] = work[r] /\ todo'[r] = todo[r] /\ ckpt' = ckpt /\ pc[r] = "call"
      /\ pc'[r] = "record" /\ outcome'[r] = IF ok THEN "EXECUTED" ELSE "FAILED"
  BY DEF CallTool, Goto, GateInv, TypeOK
<1>3. /\ work[r] \in States /\ mem[r] \in States
      /\ Sound(audit, effects, mem[r]) /\ Truthful(effects, work[r]) /\ Pending(audit, work[r], todo[r])
  BY <1>2 DEF GateInv, TypeOK, SoundInv, RunSound, OnTools
<1>4. /\ Sound(audit', effects', mem'[r]) /\ Truthful(effects', work'[r])
      /\ Pending(audit', work'[r], todo'[r])
  BY <1>1, <1>2, <1>3, SoundKept
<1>5. outcome'[r] = "EXECUTED" => effects'[Head(todo'[r])] > 0
  <2>1. ok => effects'[a] = effects[a] + 1
    BY CallGrows
  <2>2. effects[a] \in Nat
    BY <1>1 DEF Grows
  <2> QED
    BY <1>2, <2>1, <2>2
<1>6. RunSound(audit', effects', mem'[r], work'[r], todo'[r], pc'[r], outcome'[r])
  BY <1>2, <1>4, <1>5 DEF RunSound
<1>7. RunStep(r)
  BY DEF RunStep
<1> QED
  BY <1>1, <1>2, <1>6, <1>7, CkptSound, StepSound

(* The event and the result say what the call reported.                    *)
LEMMA RecordSound ==
    ASSUME GateInv, SoundInv, NEW r \in Runs, RecordOutcome(r)
    PROVE  SoundInv'
<1> DEFINE a == Head(todo[r])
           ok == outcome[r] = "EXECUTED"
<1>1. /\ Grows /\ a \in Actions /\ todo[r] # <<>> /\ pc[r] = "record" /\ Pop(r)
      /\ HasOutcome(audit', a) /\ outcome[r] \in {"EXECUTED", "FAILED"}
      /\ work' = [work EXCEPT ![r] = [work[r] EXCEPT !.results = Append(work[r].results, Result(a, ok))]]
  BY RecordGrows
<1>2. mem'[r] = mem[r] /\ ckpt' = ckpt /\ effects' = effects /\ pc'[r] = "executor"
  BY DEF RecordOutcome, Goto, GateInv, TypeOK
<1>3. /\ work[r] \in States /\ mem[r] \in States /\ work \in [Runs -> States]
      /\ Sound(audit, effects, mem[r]) /\ Truthful(effects, work[r]) /\ Pending(audit, work[r], todo[r])
      /\ ok => effects[a] > 0
  BY <1>1 DEF GateInv, TypeOK, SoundInv, RunSound, OnTools
<1>4. Sound(audit', effects', mem'[r]) /\ Truthful(effects', work[r])
  BY <1>1, <1>2, <1>3, SoundKept
<1>5. LedgerTrue'
  <2>1. CASE outcome[r] = "FAILED"
    BY <1>1, <2>1, RecordGrows, QuietTrue
  <2>2. CASE outcome[r] = "EXECUTED"
    <3>1. \A b : Has(audit', "EXECUTED", b) => b = a \/ Has(audit, "EXECUTED", b)
      BY <2>2, RecordGrows
    <3> QED
      BY <1>2, <1>3, <2>2, <3>1 DEF SoundInv, LedgerTrue
  <2> QED
    BY <1>1, <2>1, <2>2
<1>6. Pending(audit', work[r], todo'[r])
  BY <1>1, <1>3, PopPending
<1>7. ok \in BOOLEAN
  BY Zenon
<1>8. work'[r] = [work[r] EXCEPT !.results = Append(work[r].results, Result(a, ok))]
  BY <1>1, <1>3
<1> HIDE DEF a, ok
<1>9. Truthful(effects', work'[r]) /\ work'[r].proposed = work[r].proposed
  BY <1>1, <1>2, <1>3, <1>4, <1>7, <1>8, MoreSound
<1>10. Pending(audit', work'[r], todo'[r])
  BY <1>6, <1>9 DEF Pending
<1>11. RunSound(audit', effects', mem'[r], work'[r], todo'[r], pc'[r], outcome'[r])
  BY <1>2, <1>4, <1>9, <1>10 DEF RunSound
<1> QED
  BY <1>1, <1>2, <1>5, <1>11, CkptSound, StepSound DEF RunStep

(* Clients, administrators and crashes make nothing untrue.                *)
LEMMA WorldSound ==
    ASSUME GateInv, SoundInv, UNCHANGED <<audit, effects, ckpt>>,
           \A q \in Runs :
              \/ /\ mem'[q] = mem[q] /\ work'[q] = work[q] /\ todo'[q] = todo[q]
                 /\ pc'[q] = pc[q] /\ outcome'[q] = outcome[q]
              \/ /\ mem'[q] \in {mem[q], NoThread, initial_state}
                 /\ work'[q] \in {work[q], NoThread, initial_state}
                 /\ pc'[q] \in {"plan", "lock", "dead"}
    PROVE  SoundInv'
<1>1. Grows /\ LedgerTrue'
  BY SameLedger, QuietTrue
<1>2. ASSUME NEW q \in Runs
      PROVE  RunSound(audit', effects', mem'[q], work'[q], todo'[q], pc'[q], outcome'[q])
  <2>1. CASE /\ mem'[q] = mem[q] /\ work'[q] = work[q] /\ todo'[q] = todo[q]
             /\ pc'[q] = pc[q] /\ outcome'[q] = outcome[q]
    BY <1>1, <2>1, RunKept
  <2>2. CASE /\ mem'[q] \in {mem[q], NoThread, initial_state}
             /\ work'[q] \in {work[q], NoThread, initial_state}
             /\ pc'[q] \in {"plan", "lock", "dead"}
    <3>1. Sound(audit', effects', mem'[q]) /\ Truthful(effects', work'[q])
      BY <2>2, BlankSound DEF SoundInv, RunSound
    <3> QED
      BY <2>2, <3>1 DEF RunSound, OnTools
  <2> QED
    BY <2>1, <2>2
<1> QED
  BY <1>1, <1>2, CkptSound DEF SoundInv

(* Every step keeps the invariant.                                         *)
LEMMA NextSound ==
    ASSUME GateInv, SoundInv, [Next]_vars
    PROVE  SoundInv'
<1>0. /\ mem \in [Runs -> States] /\ work \in [Runs -> States] /\ DOMAIN todo = Runs
      /\ pc \in [Runs -> Labels] /\ outcome \in [Runs -> {"none", "EXECUTED", "FAILED"}]
  BY DEF GateInv, TypeOK, TodoOK
<1>1. ASSUME NEW u \in Users, NEW plan \in Plans, StartChat(u, plan)
      PROVE  SoundInv'
  BY <1>0, <1>1, WorldSound DEF StartChat, Goto
<1>2. ASSUME NEW r \in Requests, NEW u \in Users, NEW b \in Bodies, Arrive(r, u, b)
      PROVE  SoundInv'
  BY <1>0, <1>2, WorldSound DEF Arrive, Goto
<1>3. ASSUME NEW r \in Runs, RunStep(r) \/ RunError(r)
      PROVE  SoundInv'
  <2>1. ASSUME NEW performed \in BOOLEAN, NEW ok \in BOOLEAN, CallTool(r, performed, ok)
        PROVE  SoundInv'
    BY <2>1, CallToolSound
  <2> QED
    BY <1>3, <2>1, QuietRunSound, ResumeSound, NodeEndSound, PlanSound, DecideSound, ExecCheckSound,
       GuardReplaySound, RecordSound DEF RunStep
<1>4. ASSUME NEW w \in Workers, Crash(w)
      PROVE  SoundInv'
  BY <1>0, <1>4, WorldSound DEF Crash, Forget
<1>5. ASSUME NEW a \in Actions, EditPolicy(a)
      PROVE  SoundInv'
  BY <1>0, <1>5, WorldSound DEF EditPolicy
<1>6. CASE UNCHANGED vars
  BY <1>0, <1>6, WorldSound DEF vars
<1> QED
  BY <1>1, <1>2, <1>3, <1>4, <1>5, <1>6 DEF Next

(* The invariant holds for ever.                                           *)
LEMMA SoundInvHolds == Spec => []SoundInv
<1>1. Init => SoundInv
  <2> SUFFICES ASSUME Init PROVE SoundInv
    OBVIOUS
  <2>1. Sound(audit, effects, ckpt)
    BY BlankSound DEF Init
  <2>2. \A r \in Runs : RunSound(audit, effects, mem[r], work[r], todo[r], pc[r], outcome[r])
    BY BlankSound DEF Init, RunSound, OnTools
  <2>3. LedgerTrue
    BY DEF Init, LedgerTrue, Has
  <2> QED
    BY <2>1, <2>2, <2>3 DEF SoundInv
<1>2. GateInv /\ SoundInv /\ [Next]_vars => SoundInv'
  BY NextSound
<1> QED
  BY <1>1, <1>2, GateInvHolds, PTL DEF Spec

(* What the caller is told is the truth: a successful result in the        *)
(* thread's checkpoint, a replayed one included, stands for an action the  *)
(* provider performed (executor_node, GuardedExecutor.execute_guarded):    *)
(* for any number of requests, workers, crashes, errors and double         *)
(* resumes.                                                                *)
THEOREM ResultsTruthfulHolds == Spec => []ResultsTruthful
<1>1. SoundInv => ResultsTruthful
  BY DEF SoundInv, Sound, Truthful, ResultsTruthful
<1> QED
  BY <1>1, SoundInvHolds, PTL

-----------------------------------------------------------------------------
(* Counting the executions on the ledger                                   *)

(* Performances that are not on the ledger yet.                            *)
Unrecorded(a) == {r \in Runs : pc[r] = "record" /\ outcome[r] = "EXECUTED" /\ Head(todo[r]) = a}

(* LedgerFaithful, made inductive: recorded and not yet recorded           *)
(* performances together are covered by effects.                           *)
CountInv ==
    \A a \in Actions :
        /\ IsFiniteSet(Unrecorded(a))
        /\ Executions(audit, a) + Cardinality(Unrecorded(a)) <= effects[a]

(* The count is a number.                                                  *)
LEMMA ExecutionsNat ==
    ASSUME GateInv
    PROVE  \A a : Executions(audit, a) \in Nat
<1> SUFFICES ASSUME NEW a
             PROVE  Executions(audit, a) \in Nat
  OBVIOUS
<1> DEFINE S == {i \in DOMAIN audit : audit[i].type = "EXECUTED" /\ audit[i].action = a}
<1>1. DOMAIN audit = 1..Len(audit) /\ Len(audit) \in Int /\ 1 \in Int
  BY LenProperties DEF GateInv, TypeOK
<1>2. IsFiniteSet(DOMAIN audit)
  BY <1>1, FS_Interval
<1>3. IsFiniteSet(S)
  BY <1>2, FS_Subset
<1> QED
  BY <1>3, FS_CardinalityType DEF Executions

(* Steps that neither perform nor record.                                  *)
LEMMA FewerUnrecorded ==
    ASSUME GateInv, CountInv, Grows, Quiet,
           \A q \in Runs : pc'[q] = "record" /\ outcome'[q] = "EXECUTED" =>
               pc[q] = "record" /\ outcome[q] = "EXECUTED" /\ Head(todo'[q]) = Head(todo[q])
    PROVE  CountInv'
<1> SUFFICES ASSUME NEW a \in Actions
             PROVE  /\ IsFiniteSet(Unrecorded(a)')
                    /\ Executions(audit', a) + Cardinality(Unrecorded(a)') <= effects'[a]
  BY DEF CountInv
<1>1. Unrecorded(a)' \subseteq Unrecorded(a)
  BY DEF Unrecorded
<1>2. IsFiniteSet(Unrecorded(a)) /\ Executions(audit, a) + Cardinality(Unrecorded(a)) <= effects[a]
  BY DEF CountInv
<1>3. /\ IsFiniteSet(Unrecorded(a)')
      /\ Cardinality(Unrecorded(a)') <= Cardinality(Unrecorded(a))
  BY <1>1, <1>2, FS_Subset
<1>4. Cardinality(Unrecorded(a)') \in Nat /\ Cardinality(Unrecorded(a)) \in Nat
  BY <1>2, <1>3, FS_CardinalityType
<1>5. Executions(audit', a) = Executions(audit, a) /\ Executions(audit, a) \in Nat
  BY ExecutionsNat DEF Quiet
<1>6. effects[a] \in Nat /\ effects'[a] \in Nat /\ effects'[a] >= effects[a]
  BY DEF Grows
<1> QED
  BY <1>2, <1>3, <1>4, <1>5, <1>6

(* A success adds one to both sides.                                       *)
LEMMA CallCounts ==
    ASSUME GateInv, CountInv, NEW r \in Runs, NEW performed \in BOOLEAN, NEW ok \in BOOLEAN,
           CallTool(r, performed, ok)
    PROVE  CountInv'
<1>0. PICK b \in Actions : b = Head(todo[r])
  BY CallGrows
<1>1. /\ Grows /\ Quiet /\ pc[r] = "call"
      /\ pc' = [pc EXCEPT ![r] = "record"] /\ todo' = todo
      /\ outcome' = [outcome EXCEPT ![r] = IF ok THEN "EXECUTED" ELSE "FAILED"]
      /\ ok => effects'[b] = effects[b] + 1
  BY <1>0, CallGrows
<1>2. pc \in [Runs -> Labels] /\ outcome \in [Runs -> {"none", "EXECUTED", "FAILED"}]
  BY DEF GateInv, TypeOK
<1>3. CASE ~ok
  <2>1. \A q \in Runs : pc'[q] = "record" /\ outcome'[q] = "EXECUTED" =>
               pc[q] = "record" /\ outcome[q] = "EXECUTED" /\ Head(todo'[q]) = Head(todo[q])
    BY <1>1, <1>2, <1>3
  <2> QED
    BY <1>1, <2>1, FewerUnrecorded
<1>4. CASE ok
  <2> SUFFICES ASSUME NEW a \in Actions
               PROVE  /\ IsFiniteSet(Unrecorded(a)')
                      /\ Executions(audit', a) + Cardinality(Unrecorded(a)') <= effects'[a]
    BY DEF CountInv
  <2>1. /\ IsFiniteSet(Unrecorded(a)) /\ Executions(audit, a) + Cardinality(Unrecorded(a)) <= effects[a]
        /\ Cardinality(Unrecorded(a)) \in Nat
    BY FS_CardinalityType DEF CountInv
  <2>2. Executions(audit', a) = Executions(audit, a) /\ Executions(audit, a) \in Nat
    BY <1>1, ExecutionsNat DEF Quiet
  <2>3. effects[a] \in Nat /\ effects'[a] \in Nat /\ effects'[a] >= effects[a]
    BY <1>1 DEF Grows
  <2>4. CASE a = b
    <3>1. Unrecorded(a)' = Unrecorded(a) \union {r} /\ r \notin Unrecorded(a)
      BY <1>0, <1>1, <1>2, <1>4, <2>4 DEF Unrecorded
    <3>2. IsFiniteSet(Unrecorded(a)') /\ Cardinality(Unrecorded(a)') = Cardinality(Unrecorded(a)) + 1
      BY <2>1, <3>1, FS_AddElement
    <3>3. effects'[a] = effects[a] + 1
      BY <1>1, <1>4, <2>4
    <3> QED
      BY <2>1, <2>2, <2>3, <3>2, <3>3
  <2>5. CASE a # b
    <3>1. Unrecorded(a)' = Unrecorded(a)
      BY <1>0, <1>1, <1>2, <2>5 DEF Unrecorded
    <3> QED
      BY <2>1, <2>2, <2>3, <3>1
  <2> QED
    BY <2>4, <2>5
<1> QED
  BY <1>3, <1>4

(* Recording moves one performance to the ledger.                          *)
LEMMA RecordCounts ==
    ASSUME GateInv, CountInv, NEW r \in Runs, RecordOutcome(r)
    PROVE  CountInv'
<1>0. PICK b \in Actions : b = Head(todo[r])
  BY RecordGrows
<1>1. /\ Grows /\ pc[r] = "record" /\ pc' = [pc EXCEPT ![r] = "executor"]
      /\ outcome[r] \in {"EXECUTED", "FAILED"}
      /\ outcome[r] = "FAILED" => Quiet
      /\ outcome[r] = "EXECUTED" =>
            /\ \A a : a # b => Executions(audit', a) = Executions(audit, a)
            /\ Executions(audit', b) = Executions(audit, b) + 1
  BY <1>0, RecordGrows
<1>2. /\ pc \in [Runs -> Labels] /\ outcome \in [Runs -> {"none", "EXECUTED", "FAILED"}]
      /\ outcome' = [outcome EXCEPT ![r] = "none"] /\ effects' = effects
  BY DEF GateInv, TypeOK, RecordOutcome
<1>3. \A q \in Runs : q # r => todo'[q] = todo[q] /\ pc'[q] = pc[q] /\ outcome'[q] = outcome[q]
  BY OtherRuns DEF RunStep
<1>4. CASE outcome[r] = "FAILED"
  <2>1. \A q \in Runs : pc'[q] = "record" /\ outcome'[q] = "EXECUTED" =>
               pc[q] = "record" /\ outcome[q] = "EXECUTED" /\ Head(todo'[q]) = Head(todo[q])
    BY <1>1, <1>2, <1>3
  <2> QED
    BY <1>1, <1>4, <2>1, FewerUnrecorded
<1>5. CASE outcome[r] = "EXECUTED"
  <2> SUFFICES ASSUME NEW a \in Actions
               PROVE  /\ IsFiniteSet(Unrecorded(a)')
                      /\ Executions(audit', a) + Cardinality(Unrecorded(a)') <= effects'[a]
    BY DEF CountInv
  <2>1. /\ IsFiniteSet(Unrecorded(a)) /\ Executions(audit, a) + Cardinality(Unrecorded(a)) <= effects[a]
        /\ Cardinality(Unrecorded(a)) \in Nat /\ Executions(audit, a) \in Nat
    BY FS_CardinalityType, ExecutionsNat DEF CountInv
  <2>2. effects[a] \in Nat /\ effects'[a] = effects[a]
    BY <1>1, <1>2 DEF Grows
  <2>3. Unrecorded(a)' = Unrecorded(a) \ {r}
    BY <1>1, <1>2, <1>3 DEF Unrecorded
  <2>4. IsFiniteSet(Unrecorded(a)')
        /\ Cardinality(Unrecorded(a)') = IF r \in Unrecorded(a) THEN Cardinality(Unrecorded(a)) - 1
                                                                ELSE Cardinality(Unrecorded(a))
    BY <2>1, <2>3, FS_RemoveElement
  <2>5. r \in Unrecorded(a) <=> a = b
    BY <1>0, <1>1, <1>5 DEF Unrecorded
  <2>6. Executions(audit', a) = IF a = b THEN Executions(audit, a) + 1 ELSE Executions(audit, a)
    BY <1>1, <1>5
  <2> QED
    BY <2>1, <2>2, <2>4, <2>5, <2>6
<1> QED
  BY <1>1, <1>4, <1>5

(* Every step keeps the count.                                             *)
LEMMA NextCounts ==
    ASSUME GateInv, CountInv, [Next]_vars
    PROVE  CountInv'
<1>0. /\ DOMAIN todo = Runs /\ pc \in [Runs -> Labels]
      /\ outcome \in [Runs -> {"none", "EXECUTED", "FAILED"}]
  BY DEF GateInv, TypeOK, TodoOK
<1>1. ASSUME NEW r \in Runs, RunStep(r) \/ RunError(r)
      PROVE  CountInv'
  <2>1. CASE RecordOutcome(r)
    BY <2>1, RecordCounts
  <2>2. ASSUME NEW performed \in BOOLEAN, NEW ok \in BOOLEAN, CallTool(r, performed, ok)
        PROVE  CountInv'
    BY <2>2, CallCounts
  <2>3. CASE \/ Flush(r) \/ FinishPlanner(r) \/ AcquireLock(r) \/ GateResume(r) \/ Resume(r)
             \/ FinishApproval(r) \/ FinishExecutor(r) \/ Respond(r) \/ Finish(r) \/ ReleaseLock(r)
             \/ RunError(r) \/ PlanAction(r) \/ Decide(r) \/ ExecCheck(r) \/ GuardReplay(r)
    <3>1. Grows /\ Quiet
      BY <2>3, SilentSteps, PlanGrows, DecideGrows, ExecCheckGrows, GuardReplayGrows
    <3>2. \A q \in Runs : q # r => todo'[q] = todo[q] /\ pc'[q] = pc[q] /\ outcome'[q] = outcome[q]
      BY <1>1, OtherRuns
    <3>3. pc'[r] # "record" \/ (pc'[r] = pc[r] /\ outcome'[r] = outcome[r] /\ todo'[r] = todo[r])
      <4>1. CASE Flush(r) \/ FinishPlanner(r) \/ AcquireLock(r) \/ GateResume(r) \/ PlanAction(r) \/ Decide(r)
        BY <1>0, <4>1 DEF Flush, FinishPlanner, AcquireLock, GateResume, PlanAction, Decide, Goto,
                          route_after_planner
      <4>2. CASE Resume(r)
        <5>1. ckpt.next \in Nodes \union {"absent"}
          BY DEF GateInv, TypeOK, States
        <5> QED
          BY <1>0, <4>2, <5>1 DEF Resume, Goto, Nodes
      <4>3. CASE FinishApproval(r) \/ FinishExecutor(r) \/ Respond(r) \/ Finish(r) \/ ReleaseLock(r)
                 \/ RunError(r) \/ ExecCheck(r) \/ GuardReplay(r)
        BY <1>0, <4>3 DEF FinishApproval, FinishExecutor, Respond, Finish, ReleaseLock, RunError,
                          ExecCheck, GuardReplay, Goto
      <4> QED
        BY <2>3, <4>1, <4>2, <4>3
    <3> QED
      BY <3>1, <3>2, <3>3, FewerUnrecorded
  <2> QED
    BY <1>1, <2>1, <2>2, <2>3 DEF RunStep
<1>2. CASE WorldStep
  <2>1. WorldKeeps
    BY <1>2, WorldFrame
  <2>2. Grows /\ Quiet
    BY <2>1, SameLedger DEF WorldKeeps
  <2> QED
    BY <2>1, <2>2, FewerUnrecorded DEF WorldKeeps
<1> QED
  BY <1>1, <1>2 DEF Next, WorldStep

(* The audit ledger is true and complete: it has no more EXECUTED events   *)
(* than the provider performed actions, and once a thread is past          *)
(* executor_node each of its actions is closed by an event                 *)
(* (audit.executed, failed, denied, skipped, replay_skipped): for any      *)
(* number of requests, workers and faults.                                 *)
THEOREM LedgerFaithfulHolds == Spec => []LedgerFaithful
<1>1. Init => CountInv
  <2> SUFFICES ASSUME Init, NEW a \in Actions
               PROVE  /\ IsFiniteSet(Unrecorded(a))
                      /\ Executions(audit, a) + Cardinality(Unrecorded(a)) <= effects[a]
    BY DEF CountInv
  <2>1. Unrecorded(a) = {} /\ effects[a] = 0
    BY DEF Init, Unrecorded
  <2>2. {i \in DOMAIN audit : audit[i].type = "EXECUTED" /\ audit[i].action = a} = {}
    BY DEF Init
  <2> QED
    BY <2>1, <2>2, FS_EmptySet DEF Executions
<1>2. GateInv /\ CountInv /\ [Next]_vars => CountInv'
  BY NextCounts
<1>3. GateInv /\ SoundInv /\ CountInv => LedgerFaithful
  <2> SUFFICES ASSUME GateInv, SoundInv, CountInv PROVE LedgerFaithful
    OBVIOUS
  <2>1. ASSUME NEW a \in Actions
        PROVE  Count("EXECUTED", a) <= effects[a]
    <3>1. Count("EXECUTED", a) = Executions(audit, a)
      BY DEF Count, Executions
    <3>2. /\ Executions(audit, a) \in Nat /\ Cardinality(Unrecorded(a)) \in Nat
          /\ Executions(audit, a) + Cardinality(Unrecorded(a)) <= effects[a]
      BY ExecutionsNat, FS_CardinalityType DEF CountInv
    <3>3. effects[a] \in Nat
      BY DEF GateInv, TypeOK
    <3> QED
      BY <3>1, <3>2, <3>3
  <2>2. ckpt.next \in {"responder", "end"} => \A i \in DOMAIN ckpt.proposed : Accounted(ckpt.proposed[i])
    BY DEF SoundInv, Sound, Settled, HasOutcome, Has, Accounted, Logged, Outcomes
  <2> QED
    BY <2>1, <2>2 DEF LedgerFaithful
<1> QED
  BY <1>1, <1>2, <1>3, GateInvHolds, SoundInvHolds, PTL DEF Spec
=============================================================================
