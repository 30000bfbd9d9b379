-------------------------- MODULE AgentOnceProofs --------------------------
(***************************************************************************)
(* Proofs about doing things once: what the resume lock, the gate and the  *)
(* replay check achieve together on one worker process.  The hypothesis is *)
(* needed: two processes have a lock each, and MCAgentTurnDouble finds the *)
(* action that both perform.                                               *)
(*                                                                         *)
(* FinalInv, ThreadInv, PauseInv and OnceInv are inductive on top of the   *)
(* gate's invariant, GateInv of AgentTurnProofs.                           *)
(***************************************************************************)
EXTENDS AgentLedgerProofs

USE DEF runVars, reqVars, worldVars

(* All requests of a thread are served by one process: the scope           *)
(* resume_lock.py states for its lock.                                     *)
OneProcess == \A r, q \in Runs : WorkerOf[r] = WorkerOf[q]

(* A sequence without repetition.                                          *)
Distinct(s) == \A i, j \in DOMAIN s : s[i] = s[j] => i = j

(* Every action of a plan has an id of its own (_new_action_id draws a     *)
(* uuid).                                                                  *)
FreshIds == \A plan \in Plans : Distinct(plan)

-----------------------------------------------------------------------------
(* The resume lock                                                         *)

(* Where a request holds the thread's resume lock.                         *)
Locked == {"gate", "invoke", "approval", "executor", "guard", "call", "record", "responder",
           "finish", "release"}

(* It does.                                                                *)
LockInv == \A r \in Requests : pc[r] \in Locked => lock[WorkerOf[r]] = r

(* So on one process one request at a time is past the lock.               *)
LEMMA Solo ==
    ASSUME OneProcess, LockInv, NEW r \in Requests, NEW q \in Requests, pc[r] \in Locked, pc[q] \in Locked
    PROVE  r = q
  BY DEF OneProcess, LockInv, Runs

(* Steps that leave the lock alone.                                        *)
LEMMA LockFrame ==
    ASSUME LockInv, lock' = lock, \A q \in Requests : pc'[q] \in Locked => pc[q] \in Locked
    PROVE  LockInv'
  BY DEF LockInv

(* A run takes the lock when it is free and gives it back last.            *)
LEMMA RunLocks ==
    ASSUME GateInv, LockInv, NEW r \in Runs, RunStep(r) \/ RunError(r)
    PROVE  LockInv'
<1>0. /\ pc \in [Runs -> Labels] /\ lock \in [Workers -> Requests \union {None}]
      /\ \A q \in Runs : q # r => pc'[q] = pc[q]
      /\ Requests \subseteq Runs /\ None \notin Requests
  BY OtherRuns, NoneFresh DEF GateInv, TypeOK, Runs
<1>1. CASE AcquireLock(r)
  <2>1. /\ r \in Requests /\ lock[WorkerOf[r]] = None /\ WorkerOf[r] \in Workers
        /\ lock' = [lock EXCEPT ![WorkerOf[r]] = r]
    BY <1>1, WorkerOfType DEF AcquireLock, GateInv, PcInv
  <2> QED
    BY <1>0, <2>1 DEF LockInv
<1>2. CASE ReleaseLock(r)
  <2>1. /\ r \in Requests /\ pc[r] = "release" /\ pc'[r] = "done" /\ WorkerOf[r] \in Workers
        /\ lock' = [lock EXCEPT ![WorkerOf[r]] = None]
    BY <1>0, <1>2, WorkerOfType DEF ReleaseLock, Goto, GateInv, PcInv
  <2>2. lock[WorkerOf[r]] = r
    BY <2>1 DEF LockInv, Locked
  <2> QED
    BY <1>0, <2>1, <2>2 DEF LockInv, Locked
<1>3. CASE \/ Flush(r) \/ PlanAction(r) \/ FinishPlanner(r)
           \/ GateResume(r) \/ Resume(r) \/ Decide(r) \/ FinishApproval(r) \/ ExecCheck(r) \/ GuardReplay(r)
           \/ \E performed, ok \in BOOLEAN : CallTool(r, performed, ok)
           \/ RecordOutcome(r) \/ FinishExecutor(r) \/ Respond(r) \/ Finish(r) \/ RunError(r)
  <2>1. lock' = lock
    BY <1>3 DEF Flush, PlanAction, FinishPlanner, GateResume, Resume, Decide, FinishApproval,
                ExecCheck, GuardReplay, CallTool, RecordOutcome, FinishExecutor, Respond, Finish, RunError
  <2>2. pc'[r] = pc[r] \/ r = Chat \/ pc[r] \in Locked
    BY <1>3 DEF Flush, PlanAction, FinishPlanner, GateResume, Resume, Decide, FinishApproval,
                ExecCheck, GuardReplay, CallTool, RecordOutcome, FinishExecutor, Respond, Finish, RunError,
                Locked, GateInv, PcInv
  <2> QED
    BY <1>0, <2>1, <2>2, ChatFresh, LockFrame
<1> QED
  BY <1>1, <1>2, <1>3 DEF RunStep

(* A crash frees the lock along with the run that held it.                 *)
LEMMA WorldLocks ==
    ASSUME GateInv, LockInv, WorldStep
    PROVE  LockInv'
<1>0. pc \in [Runs -> Labels] /\ lock \in [Workers -> Requests \union {None}] /\ Requests \subseteq Runs
  BY DEF GateInv, TypeOK, Runs
<1>1. ASSUME NEW u \in Users, NEW plan \in Plans, StartChat(u, plan)
      PROVE  LockInv'
  BY <1>0, <1>1, ChatFresh, LockFrame DEF StartChat, Goto
<1>2. ASSUME NEW r \in Requests, NEW u \in Users, NEW b \in Bodies, Arrive(r, u, b)
      PROVE  LockInv'
  BY <1>0, <1>2, LockFrame DEF Arrive, Goto, Locked
<1>3. ASSUME NEW w \in Workers, Crash(w)
      PROVE  LockInv'
  <2>1. ASSUME NEW q \in Requests, pc'[q] \in Locked
        PROVE  pc[q] \in Locked /\ WorkerOf[q] # w
    BY <1>0, <1>3, <2>1 DEF Crash, InFlight, Locked
  <2>2. lock' = [lock EXCEPT ![w] = None]
    BY <1>3 DEF Crash
  <2> QED
    BY <1>0, <2>1, <2>2, WorkerOfType DEF LockInv
<1>4. ASSUME NEW a \in Actions, EditPolicy(a)
      PROVE  LockInv'
  BY <1>4, LockFrame DEF EditPolicy
<1>5. CASE UNCHANGED vars
  BY <1>5, LockFrame DEF vars
<1> QED
  BY <1>1, <1>2, <1>3, <1>4, <1>5 DEF WorldStep

-----------------------------------------------------------------------------
(* Once executed, never performed again                                    *)

(* Inside executor_node.                                                   *)
Executing == {"executor"} \union OnTools

(* A chat executes actions that need no approval: with any other in the    *)
(* plan route_after_planner goes to the approval gate.                     *)
ChatReads ==
    pc[Chat] \in Executing => \A i \in DOMAIN todo[Chat] : todo[Chat][i] \notin Gated

(* When a gated action is called, the ledger does not have it as executed: *)
(* what GuardReplay read is still so.                                      *)
Unrun ==
    \A r \in Runs : pc[r] = "call" /\ Head(todo[r]) \in Gated => ~Has(audit, "EXECUTED", Head(todo[r]))

(* ExecutedIsFinal, made inductive.                                        *)
FinalInv == LockInv /\ ChatReads /\ Unrun

(* A gated action is a request's business. *)
LEMMA GatedAt ==
    ASSUME GateInv, ChatReads, NEW r \in Runs, pc[r] \in OnTools, Head(todo[r]) \in Gated
    PROVE  r \in Requests /\ pc[r] \in Locked
<1>1. 1 \in DOMAIN todo[r] /\ Head(todo[r]) = todo[r][1]
  BY AtAction DEF GateInv, PcInv, OnTools
<1>2. r # Chat
  BY <1>1 DEF ChatReads, Executing
<1> QED
  BY <1>2 DEF Runs, OnTools, Locked

(* Every step of a run keeps a chat to its reads.                          *)
LEMMA RunChatReads ==
    ASSUME GateInv, ChatReads, NEW r \in Runs, RunStep(r) \/ RunError(r)
    PROVE  ChatReads'
<1>0. pc \in [Runs -> Labels] /\ DOMAIN todo = Runs /\ Chat \in Runs
  BY DEF GateInv, TypeOK, TodoOK, Runs
<1>1. CASE r # Chat
  BY <1>0, <1>1, OtherRuns DEF ChatReads
<1>2. CASE r = Chat
  <2>1. CASE ExecCheck(r) \/ GuardReplay(r) \/ RecordOutcome(r)
    <3>1. /\ pc[r] \in Executing /\ pc[r] # "approval"
          /\ todo' = todo \/ (todo[r] # <<>> /\ Pop(r))
      BY <2>1, ExecCheckGrows, GuardReplayGrows, RecordGrows DEF ExecCheck, GuardReplay, Executing, OnTools
    <3>2. todo[r] # <<>> => todo[r] \in Seq(Actions)
      BY <3>1, AtAction
    <3>3. \A i \in DOMAIN todo'[r] : \E j \in DOMAIN todo[r] : todo'[r][i] = todo[r][j]
      <4>1. CASE todo' = todo
        BY <4>1
      <4>2. CASE todo[r] # <<>> /\ Pop(r)
        <5>1. todo'[r] = Tail(todo[r])
          BY <1>0, <4>2 DEF Pop
        <5> QED
          BY <3>2, <4>2, <5>1, HeadTail
      <4> QED
        BY <3>1, <4>1, <4>2
    <3> QED
      BY <1>2, <3>1, <3>3 DEF ChatReads
  <2>2. CASE \E performed, ok \in BOOLEAN : CallTool(r, performed, ok)
    BY <1>0, <1>2, <2>2 DEF ChatReads, CallTool, Executing, OnTools
  <2>3. CASE FinishPlanner(r)
    <3>1. /\ todo'[r] = work[r].proposed
          /\ pc'[r] = IF route_after_planner(work[r]) = "approval" THEN "finish" ELSE route_after_planner(work[r])
      BY <1>0, <2>3 DEF FinishPlanner, Goto
    <3>2. pc'[r] \in Executing => \A i \in DOMAIN work[r].proposed : work[r].proposed[i] \notin Gated
      BY <3>1 DEF route_after_planner, requires_approval, Executing, OnTools
    <3> QED
      BY <1>2, <3>1, <3>2 DEF ChatReads
  <2>4. CASE \/ Flush(r) \/ PlanAction(r) \/ FinishExecutor(r) \/ Respond(r) \/ Finish(r) \/ RunError(r)
    <3>1. pc'[r] \notin Executing \/ (pc'[r] = pc[r] /\ todo' = todo)
      BY <1>0, <2>4 DEF Flush, PlanAction, FinishExecutor, Respond, Finish, RunError, Goto, Executing, OnTools
    <3> QED
      BY <1>2, <3>1 DEF ChatReads
  <2>5. ~(AcquireLock(r) \/ GateResume(r) \/ Resume(r) \/ Decide(r) \/ FinishApproval(r) \/ ReleaseLock(r))
    BY <1>2, ChatFresh DEF AcquireLock, GateResume, Resume, Decide, FinishApproval, ReleaseLock, GateInv, PcInv
  <2> QED
    BY <2>1, <2>2, <2>3, <2>4, <2>5 DEF RunStep
<1> QED
  BY <1>1, <1>2

(* Nobody records an execution between the check and the call: it would be *)
(* a request past the lock.                                                *)
LEMMA RunUnrun ==
    ASSUME OneProcess, GateInv, FinalInv, NEW r \in Runs, RunStep(r) \/ RunError(r)
    PROVE  Unrun'
<1>0. /\ pc \in [Runs -> Labels]
      /\ \A q \in Runs : q # r => pc'[q] = pc[q] /\ todo'[q] = todo[q]
  BY OtherRuns DEF GateInv, TypeOK
<1>1. CASE RecordOutcome(r)
  <2>1. pc[r] = "record" /\ pc'[r] = "executor"
    BY <1>0, <1>1, RecordGrows
  <2>2. \A b : Has(audit', "EXECUTED", b) => b = Head(todo[r]) \/ Has(audit, "EXECUTED", b)
    BY <1>1, RecordGrows DEF Quiet
  <2>3. ASSUME NEW q \in Runs, pc'[q] = "call", Head(todo'[q]) \in Gated
        PROVE  ~Has(audit', "EXECUTED", Head(todo'[q]))
    <3>1. q # r /\ pc[q] = "call" /\ todo'[q] = todo[q]
      BY <1>0, <2>1, <2>3
    <3>2. ~Has(audit, "EXECUTED", Head(todo[q]))
      BY <2>3, <3>1 DEF FinalInv, Unrun
    <3>3. Head(todo[q]) # Head(todo[r])
      BY <2>1, <2>3, <3>1, GatedAt, Solo DEF FinalInv, OnTools
    <3> QED
      BY <2>2, <3>1, <3>2, <3>3
  <2> QED
    BY <2>3 DEF Unrun
<1>2. CASE GuardReplay(r)
  <2>1. /\ Quiet
        /\ \/ pc'[r] = "executor"
           \/ todo' = todo /\ (Head(todo[r]) \in Gated => ~Has(audit, "EXECUTED", Head(todo[r])))
    BY <1>0, <1>2, GuardReplayGrows
  <2> QED
    BY <1>0, <2>1 DEF FinalInv, Unrun, Quiet
<1>3. CASE \/ Flush(r) \/ FinishPlanner(r) \/ AcquireLock(r) \/ GateResume(r) \/ Resume(r)
           \/ FinishApproval(r) \/ FinishExecutor(r) \/ Respond(r) \/ Finish(r) \/ ReleaseLock(r)
           \/ RunError(r) \/ PlanAction(r) \/ Decide(r) \/ ExecCheck(r)
           \/ \E performed, ok \in BOOLEAN : CallTool(r, performed, ok)
  <2>1. Quiet
    BY <1>3, SilentSteps, PlanGrows, DecideGrows, ExecCheckGrows, CallGrows
  <2>2. pc'[r] # "call" \/ (pc'[r] = pc[r] /\ todo'[r] = todo[r])
    <3>1. CASE Flush(r) \/ FinishPlanner(r) \/ AcquireLock(r) \/ GateResume(r) \/ PlanAction(r) \/ Decide(r)
      BY <1>0, <3>1 DEF Flush, FinishPlanner, AcquireLock, GateResume, PlanAction, Decide, Goto,
                        route_after_planner
    <3>2. CASE Resume(r)
      <4>1. ckpt.next \in Nodes \union {"absent"}
        BY DEF GateInv, TypeOK, States
      <4> QED
        BY <1>0, <3>2, <4>1 DEF Resume, Goto, Nodes
    <3>3. CASE FinishApproval(r) \/ FinishExecutor(r) \/ Respond(r) \/ Finish(r) \/ ReleaseLock(r)
               \/ RunError(r) \/ ExecCheck(r) \/ \E performed, ok \in BOOLEAN : CallTool(r, performed, ok)
      BY <1>0, <3>3 DEF FinishApproval, FinishExecutor, Respond, Finish, ReleaseLock, RunError,
                        ExecCheck, CallTool, Goto
    <3> QED
      BY <1>3, <3>1, <3>2, <3>3
  <2> QED
    BY <1>0, <2>1, <2>2 DEF FinalInv, Unrun, Quiet
<1> QED
  BY <1>1, <1>2, <1>3 DEF RunStep


(* Every step keeps the invariant.                                         *)
LEMMA NextFinal ==
    ASSUME OneProcess, GateInv, FinalInv, [Next]_vars
    PROVE  FinalInv'
<1>1. ASSUME NEW r \in Runs, RunStep(r) \/ RunError(r)
      PROVE  FinalInv'
  BY <1>1, RunLocks, RunChatReads, RunUnrun DEF FinalInv
<1>2. CASE WorldStep
  <2>1. WorldKeeps /\ Chat \in Runs
    BY <1>2, WorldFrame DEF Runs
  <2>2. ChatReads'
    BY <2>1 DEF FinalInv, ChatReads, WorldKeeps, Executing, OnTools
  <2>3. Unrun'
    BY <2>1 DEF FinalInv, Unrun, WorldKeeps
  <2> QED
    BY <1>2, <2>2, <2>3, WorldLocks DEF FinalInv
<1> QED
  BY <1>1, <1>2 DEF Next, WorldStep

(* The invariant holds for ever.                                           *)
LEMMA FinalInvHolds ==
    ASSUME OneProcess
    PROVE  Spec => []FinalInv
<1>1. Init => FinalInv
  BY DEF Init, FinalInv, LockInv, ChatReads, Unrun, Locked, Executing, OnTools, Runs
<1>2. GateInv /\ FinalInv /\ [Next]_vars => FinalInv'
  BY NextFinal
<1> QED
  BY <1>1, <1>2, GateInvHolds, PTL DEF Spec

(* ExecutedIsFinal, of one step. *)
FinalStep == \A a \in Gated : has_executed(a) => effects'[a] = effects[a]

(* Once the ledger says EXECUTED a gated action is never performed again   *)
(* (the replay check of GuardedExecutor.execute_guarded): on one worker    *)
(* process, for any number of requests, crashes, errors and repeated       *)
(* approvals. Between processes another may have passed the check already. *)
THEOREM ExecutedIsFinalHolds ==
    ASSUME OneProcess
    PROVE  Spec => ExecutedIsFinal
<1>1. ASSUME GateInv, FinalInv, [Next]_vars
      PROVE  FinalStep
  <2>1. ASSUME NEW r \in Runs, RunStep(r) \/ RunError(r)
        PROVE  FinalStep
    <3>1. ASSUME NEW performed \in BOOLEAN, NEW ok \in BOOLEAN, CallTool(r, performed, ok)
          PROVE  FinalStep
      <4>1. pc[r] = "call" /\ \A b \in Actions : b # Head(todo[r]) => effects'[b] = effects[b]
        BY <1>1, <3>1, CallGrows
      <4>2. Head(todo[r]) \in Gated => ~has_executed(Head(todo[r]))
        BY <1>1, <4>1 DEF FinalInv, Unrun, has_executed, Logged, Has
      <4> QED
        BY <4>1, <4>2, GatedActions DEF FinalStep
    <3>2. CASE PlanAction(r) \/ Decide(r) \/ ExecCheck(r) \/ GuardReplay(r) \/ RecordOutcome(r)
      BY <3>2 DEF PlanAction, Decide, ExecCheck, GuardReplay, RecordOutcome, FinalStep
    <3> QED
      BY <1>1, <2>1, <3>1, <3>2, SilentSteps DEF RunStep, FinalStep
  <2>2. CASE WorldStep
    BY <1>1, <2>2, WorldFrame DEF WorldKeeps, FinalStep
  <2> QED
    BY <1>1, <2>1, <2>2 DEF Next, WorldStep
<1>2. GateInv /\ FinalInv /\ [Next]_vars => FinalStep
  BY <1>1
<1> QED
  BY <1>2, GateInvHolds, FinalInvHolds, PTL DEF Spec, ExecutedIsFinal, FinalStep

-----------------------------------------------------------------------------
(* A pause that is over stays over                                         *)

(* The nodes behind the approval gate.                                     *)
Resumed == {"executor", "responder", "end"}

(* Where a run may still have a checkpoint to save. *)
Saving == {"plan", "approval", "executor", "guard", "call", "record", "responder", "finish"}

(* Who has something to save, and what: a request saves only nodes behind  *)
(* the gate, and a chat that has not got there is ahead of the stored      *)
(* checkpoint.                                                             *)
ThreadInv ==
    /\ \A r \in Runs : dirty[r] => pc[r] \in Saving
    /\ \A r \in Requests : dirty[r] => mem[r].next \in Resumed
    /\ dirty[Chat] /\ mem[Chat].next \notin Resumed => ckpt.next \in Early
    /\ pc[Chat] = "plan" => ckpt.next \in Early /\ mem[Chat].next = "planner"

(* Saving never takes a thread back to the gate.                           *)
LEMMA FlushThread ==
    ASSUME GateInv, ThreadInv, NEW r \in Runs, Flush(r)
    PROVE  ThreadInv' /\ (r \in Requests \/ ckpt.next \in Resumed => ckpt'.next \in Resumed)
<1>1. /\ UNCHANGED <<mem, pc>> /\ dirty[r] /\ ckpt' = mem[r] /\ dirty \in [Runs -> BOOLEAN]
      /\ dirty' = [dirty EXCEPT ![r] = FALSE]
  BY DEF Flush, GateInv, TypeOK
<1>2. Requests \subseteq Runs /\ (r \in Requests \/ r = Chat) /\ Chat \in Runs /\ Chat \notin Requests
  BY ChatFresh DEF Runs
<1>3. \A q \in Requests : pc[q] \in Executing \union {"responder"} => ckpt.next \notin Early
  BY DEF GateInv, CheckpointInv, InGraph, Executing
<1>4. Resumed \cap Early = {}
  BY DEF Resumed, Early
<1>5. CASE r \in Requests
  <2>1. ckpt.next \notin Early /\ mem[r].next \in Resumed
    BY <1>1, <1>5 DEF GateInv, CheckpointInv, ThreadInv
  <2> QED
    BY <1>1, <1>2, <1>3, <2>1, <1>5 DEF ThreadInv
<1>6. CASE r = Chat
  <2>1. ckpt.next \notin Early => mem[r].next \in Resumed
    BY <1>1, <1>6 DEF ThreadInv
  <2>2. pc[Chat] = "plan" => ckpt'.next \in Early
    BY <1>1, <1>6 DEF ThreadInv, Early
  <2> QED
    BY <1>1, <1>2, <1>3, <1>4, <1>6, <2>1, <2>2 DEF ThreadInv
<1> QED
  BY <1>2, <1>5, <1>6

(* Steps that save nothing and end no node.                                *)
LEMMA ThreadFrame ==
    ASSUME GateInv, ThreadInv, ckpt' = ckpt,
           \A q \in Runs :
              /\ dirty'[q] => dirty[q] /\ mem'[q] = mem[q] /\ pc'[q] \in Saving
              /\ pc'[q] = "plan" => pc[q] = "plan" /\ mem'[q] = mem[q]
    PROVE  ThreadInv'
<1>1. Requests \subseteq Runs /\ Chat \in Runs
  BY DEF Runs
<1> QED
  BY <1>1 DEF ThreadInv

(* A node ends with a checkpoint for the next one.                         *)
LEMMA NodeEndThread ==
    ASSUME GateInv, ThreadInv, NEW r \in Runs,
           FinishPlanner(r) \/ FinishApproval(r) \/ FinishExecutor(r) \/ Respond(r)
    PROVE  ThreadInv'
<1>0. /\ pc \in [Runs -> Labels] /\ dirty \in [Runs -> BOOLEAN] /\ mem \in [Runs -> States]
      /\ \A q \in Runs : q # r => mem'[q] = mem[q] /\ pc'[q] = pc[q] /\ dirty'[q] = dirty[q]
      /\ Requests \subseteq Runs /\ Chat \in Runs /\ Chat \notin Requests
  BY OtherRuns, ChatFresh DEF GateInv, TypeOK, RunStep, Runs
<1>1. ckpt' = ckpt
  BY DEF FinishPlanner, FinishApproval, FinishExecutor, Respond
<1>2. PICK n \in Nodes :
          /\ Checkpoint(r, n) /\ n \in Resumed \union {"approval"}
          /\ n = "approval" => pc[r] = "plan" /\ r = Chat
          /\ pc'[r] \in {"finish", "executor", "responder"}
  <2>1. CASE FinishPlanner(r)
    <3> DEFINE n == route_after_planner(work[r])
    <3>1. n \in {"approval", "responder", "executor"}
      BY DEF route_after_planner
    <3>2. Checkpoint(r, n) /\ pc'[r] = (IF n = "approval" THEN "finish" ELSE n) /\ pc[r] = "plan" /\ r = Chat
      BY <1>0, <2>1 DEF FinishPlanner, Goto, GateInv, PcInv
    <3> HIDE DEF n
    <3> QED
      BY <3>1, <3>2 DEF Nodes, Resumed
  <2>2. CASE FinishApproval(r)
    <3>1. Checkpoint(r, "executor") /\ pc'[r] = "executor"
      BY <1>0, <2>2 DEF FinishApproval, Goto
    <3> QED
      BY <3>1 DEF Nodes, Resumed
  <2>3. CASE FinishExecutor(r)
    <3>1. Checkpoint(r, "responder") /\ pc'[r] = "responder"
      BY <1>0, <2>3 DEF FinishExecutor, Goto
    <3> QED
      BY <3>1 DEF Nodes, Resumed
  <2>4. CASE Respond(r)
    <3>1. Checkpoint(r, "end") /\ pc'[r] = "finish"
      BY <1>0, <2>4 DEF Respond, Goto
    <3> QED
      BY <3>1 DEF Nodes, Resumed
  <2> QED
    BY <2>1, <2>2, <2>3, <2>4
<1>3. mem'[r].next = n /\ dirty'[r]
  BY <1>0, <1>2, CheckpointType DEF Checkpoint
<1>4. n = "approval" => ckpt.next \in Early
  BY <1>2 DEF ThreadInv
<1> QED
  BY <1>0, <1>1, <1>2, <1>3, <1>4 DEF ThreadInv, Saving, Executing, OnTools

(* Every step of a run keeps the thread in order.                          *)
LEMMA RunThread ==
    ASSUME GateInv, ThreadInv, NEW r \in Runs, RunStep(r) \/ RunError(r)
    PROVE  ThreadInv'
<1>0. /\ pc \in [Runs -> Labels] /\ dirty \in [Runs -> BOOLEAN] /\ mem \in [Runs -> States]
      /\ \A q \in Runs : q # r => mem'[q] = mem[q] /\ pc'[q] = pc[q] /\ dirty'[q] = dirty[q]
      /\ Requests \subseteq Runs
  BY OtherRuns DEF GateInv, TypeOK, Runs
<1>1. CASE Flush(r)
  BY <1>1, FlushThread
<1>2. CASE FinishPlanner(r) \/ FinishApproval(r) \/ FinishExecutor(r) \/ Respond(r)
  BY <1>2, NodeEndThread
<1>3. CASE PlanAction(r) \/ Decide(r) \/ ExecCheck(r) \/ GuardReplay(r) \/ RecordOutcome(r) \/ RunError(r)
           \/ \E performed, ok \in BOOLEAN : CallTool(r, performed, ok)
  <2>1. UNCHANGED <<ckpt, mem>> /\ (dirty'[r] => dirty[r])
    BY <1>3, ErrorMoves DEF PlanAction, Decide, ExecCheck, GuardReplay, RecordOutcome, CallTool
  <2>2. pc'[r] = pc[r] \/ (pc[r] \in Executing /\ pc'[r] \in Executing) \/ pc'[r] = "finish"
    BY <1>0, <1>3, ErrorMoves DEF PlanAction, Decide, ExecCheck, GuardReplay, RecordOutcome, CallTool, Goto,
                      Executing, OnTools
  <2> QED
    BY <1>0, <2>1, <2>2, ThreadFrame DEF ThreadInv, Saving, Executing, OnTools
<1>4. CASE AcquireLock(r) \/ GateResume(r) \/ Finish(r) \/ ReleaseLock(r)
  <2>1. UNCHANGED <<ckpt, dirty>> /\ pc'[r] \in {"gate", "invoke", "release", "done"}
    BY <1>0, <1>4 DEF AcquireLock, GateResume, Finish, ReleaseLock, Goto
  <2>2. ~dirty[r]
    <3>1. CASE Finish(r)
      BY <3>1 DEF Finish
    <3>2. CASE AcquireLock(r) \/ GateResume(r) \/ ReleaseLock(r)
      <4>1. pc[r] \notin Saving
        BY <3>2 DEF AcquireLock, GateResume, ReleaseLock, Saving
      <4> QED
        BY <4>1 DEF ThreadInv
    <3> QED
      BY <1>4, <3>1, <3>2
  <2> QED
    BY <1>0, <2>1, <2>2, ThreadFrame DEF ThreadInv, Saving, Executing, OnTools
<1>5. CASE Resume(r)
  <2>1. /\ UNCHANGED <<ckpt, dirty>> /\ ~dirty[r] /\ r \in Requests /\ pc[r] = "invoke"
        /\ pc'[r] = IF ckpt.next = "end" THEN "finish" ELSE ckpt.next
    BY <1>0, <1>5 DEF Resume, Goto, GateInv, CheckpointInv, PcInv
  <2>2. ckpt.next \in {"approval", "executor", "responder", "end"}
    BY <2>1 DEF GateInv, CheckpointInv, InGraph, Early, TypeOK, States, Nodes
  <2> QED
    BY <1>0, <2>1, <2>2, ThreadFrame DEF ThreadInv, Executing, OnTools, Resumed
<1> QED
  BY <1>1, <1>2, <1>3, <1>4, <1>5 DEF RunStep

(* So do clients, administrators and crashes.                              *)
LEMMA WorldThread ==
    ASSUME GateInv, ThreadInv, WorldStep
    PROVE  ThreadInv'
<1>0. /\ pc \in [Runs -> Labels] /\ dirty \in [Runs -> BOOLEAN] /\ mem \in [Runs -> States]
      /\ Requests \subseteq Runs /\ Chat \in Runs
  BY DEF GateInv, TypeOK, Runs
<1>1. ASSUME NEW u \in Users, NEW plan \in Plans, StartChat(u, plan)
      PROVE  ThreadInv'
  <2>1. /\ pc[Chat] = "idle" /\ ckpt' = ckpt
        /\ mem' = [mem EXCEPT ![Chat] = initial_state] /\ dirty' = [dirty EXCEPT ![Chat] = TRUE]
        /\ pc' = [pc EXCEPT ![Chat] = "plan"]
    BY <1>1 DEF StartChat, Goto
  <2>2. ckpt.next \in Early
    BY <2>1 DEF GateInv, FreshInv, NoThread, Early
  <2>3. initial_state.next = "planner"
    BY DEF initial_state, NoThread
  <2> QED
    BY <1>0, <2>1, <2>2, <2>3, ChatFresh DEF ThreadInv, Saving
<1>2. ASSUME NEW r \in Requests, NEW u \in Users, NEW b \in Bodies, Arrive(r, u, b)
      PROVE  ThreadInv'
  <2>1. UNCHANGED <<ckpt, mem, dirty>> /\ pc[r] = "idle" /\ pc' = [pc EXCEPT ![r] = "lock"]
    BY <1>2 DEF Arrive, Goto
  <2> QED
    BY <1>0, <2>1, ThreadFrame DEF ThreadInv, Saving, Executing, OnTools
<1>3. ASSUME NEW w \in Workers, Crash(w)
      PROVE  ThreadInv'
  <2> DEFINE hit == {q \in Runs : WorkerOf[q] = w /\ InFlight(q)}
  <2>0. ckpt' = ckpt
    BY <1>3 DEF Crash
  <2>1. ASSUME NEW q \in Runs
        PROVE  \/ pc'[q] = "dead" /\ ~dirty'[q]
               \/ pc'[q] = pc[q] /\ dirty'[q] = dirty[q] /\ mem'[q] = mem[q]
    <3>1. CASE q \in hit
      BY <1>3, <3>1 DEF Crash
    <3>2. CASE q \notin hit
      <4>1. pc'[q] = pc[q] /\ mem'[q] = mem[q]
        BY <1>3, <3>2 DEF Crash, Forget
      <4>2. dirty'[q] = (q \notin hit /\ dirty[q])
        BY <1>3 DEF Crash
      <4>3. dirty[q] \in BOOLEAN
        BY <1>0
      <4> HIDE DEF hit
      <4>4. dirty'[q] = dirty[q]
        BY <3>2, <4>2, <4>3
      <4> QED
        BY <4>1, <4>4
    <3> QED
      BY <3>1, <3>2
  <2> QED
    BY <1>0, <2>0, <2>1, ThreadFrame DEF ThreadInv, Executing, OnTools
<1>4. CASE (\E a \in Actions : EditPolicy(a)) \/ UNCHANGED vars
  BY <1>0, <1>4, ThreadFrame DEF ThreadInv, EditPolicy, vars
<1> QED
  BY <1>1, <1>2, <1>3, <1>4 DEF WorldStep

-----------------------------------------------------------------------------
(* Each pause is consumed once                                             *)

(* The requests the gate let past.                                         *)
LetPast == {r \in Requests : status[r] \notin {"none", "404", "403", "409"}}

(* The pause is over in storage, or a request is at work to end it.        *)
Consumed ==
    \/ ckpt.next \in Resumed
    \/ \E q \in Requests : dirty[q] \/ pc[q] \in {"invoke", "approval"}

(* PauseConsumedOnce, made inductive: a further request gets past only     *)
(* after a fault undid the one before.                                     *)
PauseInv ==
    /\ \A r \in Requests : pc[r] \in InGraph \union {"finish"} => r \in LetPast
    /\ IsFiniteSet(LetPast)
    /\ Cardinality(LetPast) <= 1 + crashes + errors
    /\ Cardinality(LetPast) > crashes + errors => Consumed

(* A pause stays consumed, but for faults.                                 *)
LEMMA ConsumedKept ==
    ASSUME GateInv, ThreadInv, Consumed, NEW r \in Runs, RunStep(r)
    PROVE  Consumed'
<1>0. /\ pc \in [Runs -> Labels] /\ dirty \in [Runs -> BOOLEAN] /\ Requests \subseteq Runs
      /\ \A q \in Runs : q # r => pc'[q] = pc[q] /\ dirty'[q] = dirty[q]
  BY OtherRuns DEF GateInv, TypeOK, Runs
<1>1. CASE Flush(r)
  <2>1. pc' = pc /\ (r \in Requests \/ ckpt.next \in Resumed => ckpt'.next \in Resumed)
    BY <1>1, FlushThread DEF Flush
  <2> QED
    BY <1>0, <2>1 DEF Consumed
<1>2. CASE FinishPlanner(r) \/ FinishApproval(r) \/ FinishExecutor(r) \/ Respond(r)
  <2>1. ckpt' = ckpt /\ dirty'[r]
    BY <1>0, <1>2 DEF FinishPlanner, FinishApproval, FinishExecutor, Respond, Checkpoint
  <2> QED
    BY <1>0, <2>1 DEF Consumed
<1>3. CASE Resume(r)
  <2>1. /\ UNCHANGED <<ckpt, dirty>> /\ r \in Requests /\ pc[r] = "invoke"
        /\ pc'[r] = IF ckpt.next = "end" THEN "finish" ELSE ckpt.next
    BY <1>0, <1>3 DEF Resume, Goto, GateInv, PcInv
  <2>2. ckpt.next \in {"approval", "executor", "responder", "end"}
    BY <2>1 DEF GateInv, CheckpointInv, InGraph, Early, TypeOK, States, Nodes
  <2> QED
    BY <1>0, <2>1, <2>2 DEF Consumed, Resumed
<1>4. CASE \/ PlanAction(r) \/ Decide(r) \/ ExecCheck(r) \/ GuardReplay(r) \/ RecordOutcome(r)
           \/ AcquireLock(r) \/ GateResume(r) \/ Finish(r) \/ ReleaseLock(r)
           \/ \E performed, ok \in BOOLEAN : CallTool(r, performed, ok)
  <2>1. UNCHANGED <<ckpt, dirty>>
    BY <1>4 DEF PlanAction, Decide, ExecCheck, GuardReplay, RecordOutcome, AcquireLock, GateResume, Finish,
                ReleaseLock, CallTool
  <2>2. pc[r] \notin {"invoke", "approval"} \/ pc' = pc
    BY <1>4 DEF PlanAction, Decide, ExecCheck, GuardReplay, RecordOutcome, AcquireLock, GateResume, Finish,
                ReleaseLock, CallTool
  <2> QED
    BY <1>0, <2>1, <2>2 DEF Consumed
<1> QED
  BY <1>1, <1>2, <1>3, <1>4 DEF RunStep

(* Steps that let nobody past.                                             *)
LEMMA SamePast ==
    ASSUME GateInv, PauseInv, LetPast' = LetPast, crashes' = crashes, errors' = errors,
           Consumed => Consumed',
           \A q \in Requests : pc'[q] \in InGraph \union {"finish"} => q \in LetPast
    PROVE  PauseInv'
  BY DEF PauseInv

(* The gate opens only while the pause is not consumed: whoever could be   *)
(* consuming it holds the lock.                                            *)
LEMMA GatePause ==
    ASSUME OneProcess, GateInv, ThreadInv, LockInv, PauseInv, NEW r \in Runs, GateResume(r)
    PROVE  PauseInv'
<1>0. /\ r \in Requests /\ pc[r] = "gate" /\ pc \in [Runs -> Labels] /\ Requests \subseteq Runs
      /\ \A q \in Runs : q # r => pc'[q] = pc[q] /\ dirty'[q] = dirty[q] /\ status'[q] = status[q]
      /\ UNCHANGED <<ckpt, dirty, crashes, errors>>
      /\ crashes \in Nat /\ errors \in Nat /\ DOMAIN status = Runs
  <2>1. r \in Requests /\ pc[r] = "gate" /\ UNCHANGED <<ckpt, dirty, crashes, errors>>
    BY DEF GateResume, GateInv, PcInv
  <2>2. /\ pc \in [Runs -> Labels] /\ crashes \in Nat /\ errors \in Nat /\ DOMAIN status = Runs
    BY BoundsNat DEF GateInv, TypeOK
  <2>3. \A q \in Runs : q # r => pc'[q] = pc[q] /\ dirty'[q] = dirty[q] /\ status'[q] = status[q]
    BY OtherRuns DEF RunStep
  <2> QED
    BY <2>1, <2>2, <2>3 DEF Runs
<1>1. status'[r] = GateStatus(r) /\ pc'[r] = IF GateStatus(r) = "resuming" THEN "invoke" ELSE "release"
  BY <1>0 DEF GateResume, Goto
<1>2. IsFiniteSet(LetPast) /\ Cardinality(LetPast) \in Nat
  BY FS_CardinalityType DEF PauseInv
<1>3. CASE GateStatus(r) = "resuming"
  <2>1. ~Consumed
    <3>1. ckpt.next = "approval"
      BY <1>3 DEF GateStatus, is_awaiting_approval
    <3>2. ~dirty[r]
      BY <1>0 DEF ThreadInv, Saving
    <3>3. ASSUME NEW q \in Requests, dirty[q] \/ pc[q] \in {"invoke", "approval"}
          PROVE  FALSE
      <4>1. pc[q] \in Saving \union {"invoke"}
        BY <1>0, <3>3 DEF ThreadInv, Saving
      <4>2. pc[q] # "plan"
        BY ChatFresh, <1>0 DEF GateInv, PcInv
      <4>3. pc[q] \in Locked /\ pc[r] \in Locked
        BY <1>0, <4>1, <4>2 DEF Saving, Locked
      <4>4. q = r
        BY <1>0, <4>3, Solo
      <4> QED
        BY <1>0, <3>2, <3>3, <4>4
    <3> QED
      BY <3>1, <3>3 DEF Consumed, Resumed
  <2>2. Cardinality(LetPast) <= crashes + errors
    BY <1>0, <1>2, <2>1 DEF PauseInv
  <2>3. LetPast' = LetPast \union {r}
    BY <1>0, <1>1, <1>3 DEF LetPast
  <2>4. IsFiniteSet(LetPast') /\ Cardinality(LetPast') <= Cardinality(LetPast) + 1
        /\ Cardinality(LetPast') \in Nat
    <3>1. /\ IsFiniteSet(LetPast')
          /\ Cardinality(LetPast') = IF r \in LetPast THEN Cardinality(LetPast) ELSE Cardinality(LetPast) + 1
      BY <1>2, <2>3, FS_AddElement
    <3> QED
      BY <1>2, <3>1
  <2>5. Consumed'
    BY <1>0, <1>1, <1>3 DEF Consumed
  <2>6. \A q \in Requests : pc'[q] \in InGraph \union {"finish"} => q \in LetPast'
    BY <1>0, <2>3 DEF PauseInv
  <2> QED
    BY <1>0, <1>2, <2>2, <2>4, <2>5, <2>6 DEF PauseInv
<1>4. CASE GateStatus(r) # "resuming"
  <2>1. LetPast' = LetPast \ {r}
    BY <1>0, <1>1, <1>4 DEF LetPast, GateStatus
  <2>2. /\ IsFiniteSet(LetPast') /\ Cardinality(LetPast') <= Cardinality(LetPast)
        /\ Cardinality(LetPast') \in Nat
    <3>1. LetPast' \subseteq LetPast
      BY <2>1
    <3>2. IsFiniteSet(LetPast') /\ Cardinality(LetPast') <= Cardinality(LetPast)
      BY <1>2, <3>1, FS_Subset
    <3> QED
      BY <3>2, FS_CardinalityType
  <2>3. Consumed => Consumed'
    BY ConsumedKept DEF RunStep
  <2>4. \A q \in Requests : pc'[q] \in InGraph \union {"finish"} => q \in LetPast'
    BY <1>0, <1>1, <1>4, <2>1 DEF PauseInv, InGraph, OnTools
  <2> QED
    BY <1>0, <1>2, <2>2, <2>3, <2>4 DEF PauseInv
<1> QED
  BY <1>3, <1>4

(* An error pays for the request it ends, and for the checkpoint it loses. *)
LEMMA ErrorPause ==
    ASSUME GateInv, ThreadInv, PauseInv, NEW r \in Runs, RunError(r)
    PROVE  PauseInv'
<1>0. /\ pc \in [Runs -> Labels] /\ Requests \subseteq Runs /\ status'[r] = "500"
      /\ \A q \in Runs : q # r => pc'[q] = pc[q] /\ status'[q] = status[q] /\ dirty'[q] = dirty[q]
      /\ crashes' = crashes /\ errors' = errors + 1
      /\ crashes \in Nat /\ errors \in Nat
  <2>1. pc \in [Runs -> Labels] /\ Requests \subseteq Runs /\ crashes \in Nat /\ errors \in Nat
    BY BoundsNat DEF GateInv, TypeOK, Runs
  <2>2. status'[r] = "500" /\ crashes' = crashes /\ errors' = errors + 1
    BY DEF RunError, GateInv, TypeOK
  <2>3. \A q \in Runs : q # r => pc'[q] = pc[q] /\ status'[q] = status[q] /\ dirty'[q] = dirty[q]
    BY OtherRuns
  <2> QED
    BY <2>1, <2>2, <2>3
<1>1. IsFiniteSet(LetPast) /\ Cardinality(LetPast) \in Nat /\ Cardinality(LetPast) <= 1 + crashes + errors
  BY FS_CardinalityType DEF PauseInv
<1>2. \A q \in Requests : pc'[q] \in InGraph \union {"finish"} => q \in LetPast'
  BY <1>0 DEF PauseInv, LetPast
<1>3. CASE r \in LetPast \/ r \notin Requests
  <2>1. LetPast' = LetPast
    BY <1>0, <1>3 DEF LetPast
  <2> QED
    BY <1>0, <1>1, <1>2, <2>1 DEF PauseInv
<1>4. CASE r \in Requests /\ r \notin LetPast
  <2>1. LetPast' = LetPast \union {r}
    BY <1>0, <1>4 DEF LetPast
  <2>2. IsFiniteSet(LetPast') /\ Cardinality(LetPast') = Cardinality(LetPast) + 1
    BY <1>1, <1>4, <2>1, FS_AddElement
  <2>3. pc[r] \notin InGraph \union {"finish"} /\ pc[r] # "plan"
    BY <1>4, ChatFresh DEF PauseInv, GateInv, PcInv, Runs
  <2>4. pc[r] \notin {"invoke", "approval"} /\ ~dirty[r]
    BY <1>0, <1>4, <2>3 DEF ThreadInv, Saving, InGraph, OnTools
  <2>5. ckpt' = ckpt
    BY ErrorMoves
  <2>6. Consumed => Consumed'
    BY <1>0, <2>4, <2>5 DEF Consumed
  <2>7. Cardinality(LetPast) > crashes + errors => Consumed
    BY DEF PauseInv
  <2> QED
    BY <1>0, <1>1, <1>2, <2>2, <2>6, <2>7 DEF PauseInv
<1> QED
  BY <1>3, <1>4

(* The steps of a run.                                                     *)
LEMMA RunPause ==
    ASSUME OneProcess, GateInv, ThreadInv, LockInv, PauseInv, NEW r \in Runs, RunStep(r)
    PROVE  PauseInv'
<1>0. /\ pc \in [Runs -> Labels] /\ Requests \subseteq Runs /\ DOMAIN status = Runs
      /\ \A q \in Runs : q # r => pc'[q] = pc[q] /\ status'[q] = status[q]
  BY OtherRuns DEF GateInv, TypeOK, Runs
<1>1. CASE GateResume(r)
  BY <1>1, GatePause
<1>2. CASE ~GateResume(r)
  <2>1. crashes' = crashes /\ errors' = errors
    BY <1>2 DEF RunStep, Flush, PlanAction, FinishPlanner, AcquireLock, Resume, Decide,
                FinishApproval, ExecCheck, GuardReplay, CallTool, RecordOutcome, FinishExecutor, Respond,
                Finish, ReleaseLock
  <2>2. Consumed => Consumed'
    BY ConsumedKept
  <2>3. r \notin Requests \/ (status'[r] \in {"none", "404", "403", "409"} <=> status[r] \in {"none", "404", "403", "409"})
    <3>1. CASE Finish(r)
      <4>1. status'[r] \in {status[r], "completed"} /\ pc[r] = "finish"
        BY <1>0, <3>1 DEF Finish
      <4> QED
        BY <4>1 DEF PauseInv, LetPast
    <3>2. CASE FinishPlanner(r)
      BY <3>2, ChatFresh DEF FinishPlanner, GateInv, PcInv
    <3>3. CASE ~Finish(r) /\ ~FinishPlanner(r)
      BY <1>2, <3>3 DEF RunStep, Flush, PlanAction, AcquireLock, Resume, Decide,
                FinishApproval, ExecCheck, GuardReplay, CallTool, RecordOutcome, FinishExecutor, Respond,
                ReleaseLock
    <3> QED
      BY <3>1, <3>2, <3>3
  <2>4. LetPast' = LetPast
    BY <1>0, <2>3 DEF LetPast
  <2>5. r \in Requests /\ pc'[r] \in InGraph \union {"finish"} => pc[r] \in InGraph \union {"finish"}
    <3>1. CASE Flush(r) \/ PlanAction(r) \/ FinishPlanner(r) \/ AcquireLock(r) \/ Finish(r) \/ ReleaseLock(r)
      BY <1>0, <3>1, ChatFresh DEF Flush, PlanAction, FinishPlanner, AcquireLock, Finish, ReleaseLock, Goto,
                        InGraph, OnTools, GateInv, PcInv
    <3>2. CASE ~(Flush(r) \/ PlanAction(r) \/ FinishPlanner(r) \/ AcquireLock(r) \/ Finish(r) \/ ReleaseLock(r))
      BY <1>2, <3>2 DEF RunStep, Resume, Decide, FinishApproval, ExecCheck, GuardReplay, CallTool,
                        RecordOutcome, FinishExecutor, Respond, InGraph, OnTools
    <3> QED
      BY <3>1, <3>2
  <2>6. \A q \in Requests : pc'[q] \in InGraph \union {"finish"} => q \in LetPast
    BY <1>0, <2>5 DEF PauseInv
  <2> QED
    BY <2>1, <2>2, <2>4, <2>6, SamePast
<1> QED
  BY <1>1, <1>2

(* A crash pays for what it undoes.                                        *)
LEMMA WorldPause ==
    ASSUME GateInv, PauseInv, WorldStep
    PROVE  PauseInv'
<1>0. /\ WorldKeeps /\ Requests \subseteq Runs /\ crashes \in Nat /\ errors \in Nat
      /\ pc \in [Runs -> Labels] /\ dirty \in [Runs -> BOOLEAN]
  BY WorldFrame, BoundsNat DEF GateInv, TypeOK, Runs
<1>1. LetPast' = LetPast
  BY <1>0 DEF LetPast, WorldKeeps
<1>2. \A q \in Requests : pc'[q] \in InGraph \union {"finish"} => q \in LetPast
  BY <1>0 DEF PauseInv, WorldKeeps, InGraph, OnTools
<1>3. CASE \E w \in Workers : Crash(w)
  <2>1. crashes' = crashes + 1 /\ errors' = errors
    BY <1>3 DEF Crash
  <2>2. IsFiniteSet(LetPast) /\ Cardinality(LetPast) \in Nat /\ Cardinality(LetPast) <= 1 + crashes + errors
    BY FS_CardinalityType DEF PauseInv
  <2> QED
    BY <1>0, <1>1, <1>2, <2>1, <2>2 DEF PauseInv
<1>4. CASE ~\E w \in Workers : Crash(w)
  <2>1. crashes' = crashes /\ errors' = errors
    BY <1>4 DEF WorldStep, StartChat, Arrive, EditPolicy, vars
  <2>2. Consumed => Consumed'
    <3>1. ckpt' = ckpt
      BY <1>0 DEF WorldKeeps
    <3>2. \A q \in Requests : (dirty[q] => dirty'[q]) /\ (pc[q] \in {"invoke", "approval"} => pc'[q] = pc[q])
      <4>1. ASSUME NEW u \in Users, NEW plan \in Plans, StartChat(u, plan), NEW q \in Requests
            PROVE  (dirty[q] => dirty'[q]) /\ (pc[q] \in {"invoke", "approval"} => pc'[q] = pc[q])
        BY <1>0, <4>1, ChatFresh DEF StartChat, Goto
      <4>2. ASSUME NEW r \in Requests, NEW u \in Users, NEW b \in Bodies, Arrive(r, u, b), NEW q \in Requests
            PROVE  (dirty[q] => dirty'[q]) /\ (pc[q] \in {"invoke", "approval"} => pc'[q] = pc[q])
        BY <1>0, <4>2 DEF Arrive, Goto
      <4>3. CASE (\E a \in Actions : EditPolicy(a)) \/ UNCHANGED vars
        BY <4>3 DEF EditPolicy, vars
      <4> QED
        BY <1>4, <4>1, <4>2, <4>3 DEF WorldStep
    <3> QED
      BY <3>1, <3>2 DEF Consumed
  <2> QED
    BY <1>1, <1>2, <2>1, <2>2, SamePast
<1> QED
  BY <1>3, <1>4

(* ThreadInv holds for ever, on any number of workers.                     *)
LEMMA ThreadInvHolds == Spec => []ThreadInv
<1>1. Init => ThreadInv
  BY DEF Init, ThreadInv, Executing, OnTools, Runs
<1>2. GateInv /\ ThreadInv /\ [Next]_vars => ThreadInv'
  BY RunThread, WorldThread DEF Next, WorldStep
<1> QED
  BY <1>1, <1>2, GateInvHolds, PTL DEF Spec

(* At first nobody is past the gate.                                       *)
LEMMA PauseInit ==
    ASSUME Init
    PROVE  PauseInv
<1>1. LetPast = {} /\ crashes = 0 /\ errors = 0
  BY DEF Init, LetPast, Runs
<1>2. \A r \in Requests : pc[r] = "idle"
  BY DEF Init, Runs
<1> QED
  BY <1>1, <1>2, FS_EmptySet DEF PauseInv, InGraph, OnTools

(* Each pause is consumed once: on one worker process at most one request  *)
(* is let past gate_resume, and one more for every crash or error          *)
(* (acquire_resume_lock around is_awaiting_approval and graph.invoke), for *)
(* any number of requests.                                                 *)
THEOREM PauseConsumedOnceHolds ==
    ASSUME OneProcess
    PROVE  Spec => []PauseConsumedOnce
<1>1. Init => PauseInv
  BY PauseInit
<1>2. GateInv /\ ThreadInv /\ FinalInv /\ PauseInv /\ [Next]_vars => PauseInv'
  BY RunPause, ErrorPause, WorldPause DEF Next, WorldStep, FinalInv
<1>3. PauseInv => PauseConsumedOnce
  BY DEF PauseInv, PauseConsumedOnce, LetPast
<1> QED
  BY <1>1, <1>2, <1>3, GateInvHolds, FinalInvHolds, ThreadInvHolds, PTL DEF Spec

-----------------------------------------------------------------------------
(* No action twice in a turn                                               *)

(* The copies of a run name no action twice, nor does its loop, nor do     *)
(* loop and plan together while the plan is made.                          *)
RunDistinct(m, w, left, l) ==
    /\ Distinct(m.proposed) /\ Distinct(w.proposed)
    /\ l = "plan" =>
          /\ Distinct(left)
          /\ \A i \in DOMAIN left, j \in DOMAIN w.proposed : left[i] # w.proposed[j]
    /\ l \in Executing => Distinct(left)

(* No action twice in a turn.                                              *)
DistinctInv ==
    /\ Distinct(ckpt.proposed)
    /\ \A r \in Runs : RunDistinct(mem[r], work[r], todo[r], pc[r])

(* Dropping the first element keeps a sequence distinct, and rid of it.    *)
LEMMA DistinctTail ==
    ASSUME NEW S, NEW q \in Seq(S), q # <<>>, Distinct(q)
    PROVE  /\ Distinct(Tail(q))
           /\ \A i \in DOMAIN Tail(q) : Tail(q)[i] # Head(q)
<1>1. Len(q) \in Nat /\ DOMAIN q = 1..Len(q) /\ DOMAIN Tail(q) \subseteq Nat \ {0}
  BY LenProperties, HeadTailProperties
<1>2. \A i \in DOMAIN Tail(q) : i + 1 \in DOMAIN q /\ Tail(q)[i] = q[i + 1] /\ i \in Nat /\ i # 0
  BY <1>1, HeadTail
<1>3. 1 \in DOMAIN q /\ Head(q) = q[1]
  BY HeadTail
<1>4. ASSUME NEW i \in DOMAIN Tail(q), NEW j \in DOMAIN Tail(q), Tail(q)[i] = Tail(q)[j]
      PROVE  i = j
  <2>1. i + 1 = j + 1
    BY <1>2, <1>4 DEF Distinct
  <2> QED
    BY <1>2, <2>1
<1>5. ASSUME NEW i \in DOMAIN Tail(q), Tail(q)[i] = Head(q)
      PROVE  FALSE
  <2>1. i + 1 = 1
    BY <1>2, <1>3, <1>5 DEF Distinct
  <2> QED
    BY <1>2, <2>1
<1> QED
  BY <1>4, <1>5 DEF Distinct

(* Appending something new does too.                                       *)
LEMMA DistinctAppend ==
    ASSUME NEW S, NEW q \in Seq(S), NEW e \in S, Distinct(q), \A i \in DOMAIN q : q[i] # e
    PROVE  Distinct(Append(q, e))
<1>1. /\ Len(Append(q, e)) = Len(q) + 1 /\ Append(q, e) \in Seq(S)
      /\ \A i \in 1..Len(q) : Append(q, e)[i] = q[i]
      /\ Append(q, e)[Len(q) + 1] = e
  BY AppendProperties
<1>2. DOMAIN q = 1..Len(q) /\ Len(q) \in Nat /\ DOMAIN Append(q, e) = 1..(Len(q) + 1)
  BY <1>1, LenProperties
<1>3. \A i \in DOMAIN Append(q, e) : i = Len(q) + 1 \/ (i \in DOMAIN q /\ Append(q, e)[i] = q[i])
  BY <1>1, <1>2
<1> QED
  BY <1>1, <1>3 DEF Distinct

(* An empty thread has no actions.                                         *)
LEMMA DistinctBlank ==
    /\ Distinct(NoThread.proposed) /\ Distinct(initial_state.proposed)
    /\ NoThread.proposed = <<>> /\ initial_state.proposed = <<>>
<1>1. NoThread.proposed = <<>> /\ initial_state.proposed = <<>>
  BY DEF NoThread, initial_state
<1> QED
  BY <1>1 DEF Distinct

(* A step has to answer for its own run and for the checkpoint.            *)
LEMMA StepDistinct ==
    ASSUME GateInv, DistinctInv, NEW r \in Runs, RunStep(r) \/ RunError(r), Distinct(ckpt'.proposed),
           RunDistinct(mem'[r], work'[r], todo'[r], pc'[r])
    PROVE  DistinctInv'
  BY OtherRuns DEF DistinctInv

(* The steps of a run copy plans, extend them by the next of the loop, and *)
(* drop from the loop.                                                     *)
LEMMA RunDistinctHolds ==
    ASSUME GateInv, DistinctInv, NEW r \in Runs, RunStep(r) \/ RunError(r)
    PROVE  DistinctInv'
<1>0. /\ mem \in [Runs -> States] /\ work \in [Runs -> States] /\ DOMAIN todo = Runs
      /\ pc \in [Runs -> Labels] /\ work[r] \in States /\ work[r].proposed \in Seq(Actions)
      /\ Distinct(ckpt.proposed) /\ RunDistinct(mem[r], work[r], todo[r], pc[r])
  BY DEF GateInv, TypeOK, TodoOK, DistinctInv, States
<1>1. CASE Flush(r)
  <2>1. ckpt' = mem[r] /\ UNCHANGED <<mem, work, todo, pc>>
    BY <1>1 DEF Flush
  <2> QED
    BY <1>0, <2>1, StepDistinct DEF RunDistinct
<1>7. CASE RunError(r)
  <2>1. /\ mem'[r] = mem[r] /\ work'[r] = work[r] /\ ckpt' = ckpt
        /\ pc'[r] = "finish" \/ (pc'[r] = pc[r] /\ todo'[r] = todo[r])
    BY <1>7, ErrorMoves
  <2>2. RunDistinct(mem'[r], work'[r], todo'[r], pc'[r])
    BY <1>0, <2>1 DEF RunDistinct, Executing, OnTools
  <2> QED
    BY <1>0, <1>7, <2>1, <2>2, StepDistinct
<1>2. CASE AcquireLock(r) \/ GateResume(r) \/ Finish(r) \/ ReleaseLock(r)
  <2>1. /\ mem'[r] = mem[r] \/ mem'[r] = NoThread
        /\ work'[r] = work[r] \/ work'[r] = NoThread
        /\ pc'[r] \in {"gate", "invoke", "release", "finish", "done"}
        /\ ckpt' = ckpt
    <3>1. CASE AcquireLock(r) \/ ReleaseLock(r)
      BY <1>0, <3>1 DEF AcquireLock, ReleaseLock, Goto
    <3>2. CASE GateResume(r)
      BY <1>0, <3>2 DEF GateResume, Goto, Forget
    <3>3. CASE Finish(r)
      BY <1>0, <3>3 DEF Finish, Goto, Forget
    <3> QED
      BY <1>2, <3>1, <3>2, <3>3
  <2>2. RunDistinct(mem'[r], work'[r], todo'[r], pc'[r])
    BY <1>0, <2>1, DistinctBlank DEF RunDistinct, Executing, OnTools
  <2> QED
    BY <1>0, <1>2, <2>1, <2>2, StepDistinct DEF RunStep
<1>3. CASE Resume(r)
  <2>1. /\ ckpt' = ckpt /\ mem'[r] = ckpt /\ work'[r] = ckpt /\ r \in Requests /\ pc[r] = "invoke"
        /\ ckpt.next # "approval" => todo'[r] = ckpt.proposed
        /\ pc'[r] = IF ckpt.next = "end" THEN "finish" ELSE ckpt.next
    BY <1>0, <1>3 DEF Resume, Goto, GateInv, PcInv
  <2>2. ckpt.next \in {"approval", "executor", "responder", "end"}
    BY <2>1 DEF GateInv, CheckpointInv, InGraph, Early, TypeOK, States, Nodes
  <2>3. RunDistinct(mem'[r], work'[r], todo'[r], pc'[r])
    BY <1>0, <2>1, <2>2 DEF RunDistinct, Executing, OnTools
  <2> QED
    BY <1>0, <2>1, <2>3, <1>3, StepDistinct DEF RunStep
<1>4. CASE FinishPlanner(r) \/ FinishApproval(r) \/ FinishExecutor(r) \/ Respond(r)
  <2>1. PICK n \in Nodes : Checkpoint(r, n)
    BY <1>4 DEF FinishPlanner, FinishApproval, FinishExecutor, Respond, route_after_planner, Nodes
  <2>2. work'[r] = [work[r] EXCEPT !.next = n] /\ mem'[r] = [work[r] EXCEPT !.next = n]
    BY <1>0, <2>1 DEF Checkpoint
  <2>3. work'[r].proposed = work[r].proposed /\ mem'[r].proposed = work[r].proposed
    BY <1>0, <2>2 DEF States
  <2>4. /\ ckpt' = ckpt /\ pc'[r] \in {"finish", "executor", "responder"}
        /\ pc'[r] = "executor" => todo'[r] = work[r].proposed
    BY <1>0, <1>4 DEF FinishPlanner, FinishApproval, FinishExecutor, Respond, route_after_planner, Goto
  <2>5. RunDistinct(mem'[r], work'[r], todo'[r], pc'[r])
    BY <1>0, <2>3, <2>4 DEF RunDistinct, Executing, OnTools
  <2> QED
    BY <1>0, <1>4, <2>4, <2>5, StepDistinct DEF RunStep
<1>5. CASE PlanAction(r)
  <2>1. /\ ckpt' = ckpt /\ mem' = mem /\ pc' = pc /\ pc[r] = "plan" /\ todo[r] # <<>> /\ todo'[r] = Tail(todo[r])
    BY <1>0, <1>5 DEF PlanAction, Pop
  <2>2. todo[r] \in Seq(Actions) /\ Head(todo[r]) \in Actions /\ 1 \in DOMAIN todo[r] /\ Head(todo[r]) = todo[r][1]
    BY <2>1, AtAction
  <2>3. work'[r].proposed = work[r].proposed \/ work'[r].proposed = Append(work[r].proposed, Head(todo[r]))
    <3>1. work' = work \/ work' = [work EXCEPT ![r] = [work[r] EXCEPT !.proposed = Append(work[r].proposed, Head(todo[r]))]]
      BY <1>5 DEF PlanAction
    <3> QED
      BY <1>0, <3>1 DEF States
  <2>4. /\ Distinct(todo[r]) /\ Distinct(work[r].proposed)
        /\ \A i \in DOMAIN todo[r], j \in DOMAIN work[r].proposed : todo[r][i] # work[r].proposed[j]
    BY <1>0, <2>1 DEF RunDistinct
  <2>5. /\ Distinct(Tail(todo[r])) /\ \A i \in DOMAIN Tail(todo[r]) : Tail(todo[r])[i] # Head(todo[r])
        /\ \A i \in DOMAIN Tail(todo[r]) : i + 1 \in DOMAIN todo[r] /\ Tail(todo[r])[i] = todo[r][i + 1]
    BY <2>1, <2>2, <2>4, DistinctTail, HeadTail
  <2>6. Distinct(Append(work[r].proposed, Head(todo[r])))
    BY <1>0, <2>2, <2>4, DistinctAppend
  <2>7. \A j \in DOMAIN work'[r].proposed :
           \/ j \in DOMAIN work[r].proposed /\ work'[r].proposed[j] = work[r].proposed[j]
           \/ work'[r].proposed[j] = Head(todo[r])
    <3>1. Adds(work[r].proposed, Append(work[r].proposed, Head(todo[r])), {Head(todo[r])})
      BY <1>0, <2>2, AppendAdds
    <3> QED
      BY <2>3, <3>1 DEF Adds
  <2>8. \A i \in DOMAIN todo'[r], j \in DOMAIN work'[r].proposed : todo'[r][i] # work'[r].proposed[j]
    BY <2>1, <2>4, <2>5, <2>7
  <2>9. RunDistinct(mem'[r], work'[r], todo'[r], pc'[r])
    BY <1>0, <2>1, <2>3, <2>4, <2>5, <2>6, <2>8 DEF RunDistinct, Executing, OnTools
  <2> QED
    BY <1>0, <1>5, <2>1, <2>9, StepDistinct DEF RunStep
<1>6. CASE Decide(r) \/ ExecCheck(r) \/ GuardReplay(r) \/ RecordOutcome(r)
           \/ \E performed, ok \in BOOLEAN : CallTool(r, performed, ok)
  <2>1. ckpt' = ckpt /\ mem' = mem
    BY <1>6 DEF Decide, ExecCheck, GuardReplay, RecordOutcome, CallTool
  <2>2. work'[r].proposed = work[r].proposed
    <3>1. CASE Decide(r)
      <4> DEFINE d == Head(todo[r])
      <4>1. \/ work' = work
            \/ work' = [work EXCEPT ![r] = [work[r] EXCEPT !.approved = work[r].approved \union {d.action}]]
            \/ work' = [work EXCEPT ![r] = [work[r] EXCEPT !.rejected = work[r].rejected \union {d.action}]]
        BY <3>1 DEF Decide
      <4> HIDE DEF d
      <4> QED
        BY <1>0, <4>1 DEF States
    <3>2. CASE GuardReplay(r) \/ RecordOutcome(r)
      <4>1. PICK x : work' = work \/ work' = [work EXCEPT ![r] = [work[r] EXCEPT !.results = x]]
        BY <3>2, GuardReplayGrows, RecordGrows
      <4> QED
        BY <1>0, <4>1 DEF States
    <3>3. CASE ExecCheck(r) \/ \E performed, ok \in BOOLEAN : CallTool(r, performed, ok)
      BY <3>3 DEF ExecCheck, CallTool
    <3> QED
      BY <1>6, <3>1, <3>2, <3>3
  <2>3. pc'[r] # "plan" /\ (pc'[r] \in Executing => Distinct(todo'[r]))
    <3>1. CASE Decide(r)
      BY <3>1 DEF Decide, Executing, OnTools
    <3>2. CASE ExecCheck(r) \/ GuardReplay(r) \/ RecordOutcome(r)
      <4>1. /\ pc[r] \in Executing /\ pc[r] # "approval" /\ pc'[r] # "plan" /\ todo[r] # <<>>
            /\ todo' = todo \/ Pop(r)
        BY <1>0, <3>2, ExecCheckGrows, GuardReplayGrows, RecordGrows
           DEF ExecCheck, GuardReplay, Executing, OnTools
      <4>2. todo[r] \in Seq(Actions) /\ Distinct(todo[r])
        BY <1>0, <4>1, AtAction DEF RunDistinct
      <4>3. CASE Pop(r)
        BY <1>0, <4>1, <4>2, <4>3, DistinctTail DEF Pop
      <4> QED
        BY <4>1, <4>2, <4>3
    <3>3. CASE \E performed, ok \in BOOLEAN : CallTool(r, performed, ok)
      BY <1>0, <3>3 DEF CallTool, Goto, RunDistinct, Executing, OnTools
    <3> QED
      BY <1>6, <3>1, <3>2, <3>3
  <2>4. RunDistinct(mem'[r], work'[r], todo'[r], pc'[r])
    BY <1>0, <2>1, <2>2, <2>3 DEF RunDistinct
  <2> QED
    BY <1>0, <1>6, <2>1, <2>4, StepDistinct DEF RunStep
<1> QED
  BY <1>1, <1>2, <1>3, <1>4, <1>5, <1>6, <1>7 DEF RunStep

(* A chat starts with a plan of fresh ids.                                 *)
LEMMA WorldDistinct ==
    ASSUME FreshIds, GateInv, DistinctInv, WorldStep
    PROVE  DistinctInv'
<1>0. /\ mem \in [Runs -> States] /\ work \in [Runs -> States] /\ DOMAIN todo = Runs
      /\ pc \in [Runs -> Labels] /\ Distinct(ckpt.proposed)
      /\ \A q \in Runs : RunDistinct(mem[q], work[q], todo[q], pc[q])
  BY DEF GateInv, TypeOK, TodoOK, DistinctInv
<1>1. ASSUME NEW u \in Users, NEW plan \in Plans, StartChat(u, plan)
      PROVE  DistinctInv'
  <2>1. /\ ckpt' = ckpt /\ mem' = [mem EXCEPT ![Chat] = initial_state] /\ pc' = [pc EXCEPT ![Chat] = "plan"]
        /\ work' = [work EXCEPT ![Chat] = initial_state] /\ todo' = [todo EXCEPT ![Chat] = plan]
    BY <1>1 DEF StartChat, Goto
  <2>2. Distinct(plan)
    BY DEF FreshIds
  <2>3. RunDistinct(initial_state, initial_state, plan, "plan")
    BY <2>2, DistinctBlank DEF RunDistinct, Executing, OnTools
  <2> QED
    BY <1>0, <2>1, <2>3 DEF DistinctInv
<1>2. ASSUME NEW r \in Requests, NEW u \in Users, NEW b \in Bodies, Arrive(r, u, b)
      PROVE  DistinctInv'
  <2>1. UNCHANGED <<ckpt, mem, work, todo>> /\ pc' = [pc EXCEPT ![r] = "lock"]
    BY <1>2 DEF Arrive, Goto
  <2> QED
    BY <1>0, <2>1 DEF DistinctInv, RunDistinct, Executing, OnTools
<1>3. ASSUME NEW w \in Workers, Crash(w)
      PROVE  DistinctInv'
  <2>1. /\ ckpt' = ckpt
        /\ \A q \in Runs : \/ mem'[q] = NoThread /\ work'[q] = NoThread /\ pc'[q] = "dead"
                           \/ mem'[q] = mem[q] /\ work'[q] = work[q] /\ pc'[q] = pc[q] /\ todo'[q] = todo[q]
    BY <1>0, <1>3 DEF Crash, Forget
  <2> QED
    BY <1>0, <2>1, DistinctBlank DEF DistinctInv, RunDistinct, Executing, OnTools
<1>4. CASE (\E a \in Actions : EditPolicy(a)) \/ UNCHANGED vars
  BY <1>0, <1>4 DEF DistinctInv, EditPolicy, vars
<1> QED
  BY <1>1, <1>2, <1>3, <1>4 DEF WorldStep

(* No action comes twice in a turn, ever.                                  *)
LEMMA DistinctInvHolds ==
    ASSUME FreshIds
    PROVE  Spec => []DistinctInv
<1>1. Init => DistinctInv
  BY DistinctBlank DEF Init, DistinctInv, RunDistinct, Executing, OnTools
<1>2. GateInv /\ DistinctInv /\ [Next]_vars => DistinctInv'
  BY RunDistinctHolds, WorldDistinct DEF Next, WorldStep
<1> QED
  BY <1>1, <1>2, GateInvHolds, PTL DEF Spec

-----------------------------------------------------------------------------
(* Once per fault                                                          *)

(* The run has a call of the action ahead of it.                           *)
Ahead(left, l, a) ==
    \/ l \in {"invoke", "approval"}
    \/ l \in {"executor", "guard", "call"} /\ \E i \in DOMAIN left : left[i] = a
    \/ l = "record" /\ \E i \in DOMAIN Tail(left) : Tail(left)[i] = a

(* The requests let past the gate that will not call the action any more.  *)
Through(a) == {r \in LetPast : ~Ahead(todo[r], pc[r], a)}

(* OncePerFault, made inductive: every effect has a request of its own     *)
(* that is through with the action.  A request that has not been at the    *)
(* gate is none of them.                                                   *)
OnceInv ==
    /\ \A r \in Requests : pc[r] \in {"idle", "lock", "gate"} => status[r] = "none"
    /\ \A a \in Gated : effects[a] <= Cardinality(Through(a))

(* A set of requests that is through can be counted.                       *)
LEMMA ThroughCounts ==
    ASSUME PauseInv, NEW a
    PROVE  /\ IsFiniteSet(Through(a)) /\ Cardinality(Through(a)) \in Nat
           /\ Cardinality(Through(a)) <= Cardinality(LetPast)
<1>1. Through(a) \subseteq LetPast /\ IsFiniteSet(LetPast)
  BY DEF Through, PauseInv
<1> QED
  BY <1>1, FS_Subset, FS_CardinalityType

(* A request that is through stays through.                                *)
LEMMA RunThrough ==
    ASSUME GateInv, PauseInv, OnceInv, NEW a \in Gated, NEW r \in Runs, RunStep(r) \/ RunError(r)
    PROVE  Through(a) \subseteq Through(a)'
<1>0. /\ pc \in [Runs -> Labels] /\ DOMAIN todo = Runs /\ DOMAIN status = Runs /\ Requests \subseteq Runs
      /\ \A q \in Runs : q # r => pc'[q] = pc[q] /\ todo'[q] = todo[q] /\ status'[q] = status[q]
  BY OtherRuns DEF GateInv, TypeOK, TodoOK, Runs
<1>1. ASSUME r \in LetPast, ~Ahead(todo[r], pc[r], a)
      PROVE  r \in LetPast' /\ ~Ahead(todo'[r], pc'[r], a)
  <2>0. /\ r \in Requests /\ status[r] \notin {"none", "404", "403", "409"}
        /\ pc[r] \notin {"idle", "lock", "gate", "invoke", "approval"}
    BY <1>1 DEF LetPast, OnceInv, Ahead
  <2>1. CASE Flush(r) \/ ReleaseLock(r)
    <3>1. status' = status /\ ((pc' = pc /\ todo' = todo) \/ pc'[r] = "done")
      BY <1>0, <2>1 DEF Flush, ReleaseLock, Goto
    <3> QED
      BY <1>1, <2>0, <3>1 DEF LetPast, Ahead
  <2>2. ~(PlanAction(r) \/ FinishPlanner(r) \/ AcquireLock(r) \/ GateResume(r) \/ Resume(r) \/ Decide(r)
          \/ FinishApproval(r))
    BY <2>0, ChatFresh DEF PlanAction, FinishPlanner, AcquireLock, GateResume, Resume, Decide, FinishApproval,
                           GateInv, PcInv
  <2>3. CASE FinishExecutor(r) \/ Respond(r) \/ Finish(r)
    <3>1. pc'[r] \in {"responder", "finish", "done", "release"} /\ status'[r] \in {status[r], "completed"}
      BY <1>0, <2>3 DEF FinishExecutor, Respond, Finish, Goto
    <3> QED
      BY <2>0, <3>1 DEF Ahead, LetPast
  <2>4. CASE RunError(r)
    <3>1. status'[r] = "500"
      BY <1>0, <2>4 DEF RunError
    <3>2. pc'[r] = "finish" \/ (pc'[r] = pc[r] /\ todo'[r] = todo[r])
      BY <2>4, ErrorMoves
    <3> QED
      BY <1>1, <2>0, <3>1, <3>2 DEF Ahead, LetPast
  <2>5. CASE ExecCheck(r) \/ GuardReplay(r)
    <3>1. /\ pc[r] \in {"executor", "guard"} /\ pc'[r] \in {"executor", "guard", "call"} /\ todo[r] # <<>>
          /\ todo' = todo \/ Pop(r)
          /\ status' = status
      BY <1>0, <2>5, ExecCheckGrows, GuardReplayGrows DEF ExecCheck, GuardReplay
    <3>2. todo[r] \in Seq(Actions)
      BY <3>1, AtAction
    <3>3. \A i \in DOMAIN todo'[r] : \E j \in DOMAIN todo[r] : todo'[r][i] = todo[r][j]
      <4>1. CASE Pop(r)
        <5>1. todo'[r] = Tail(todo[r])
          BY <1>0, <4>1 DEF Pop
        <5> QED
          BY <3>1, <3>2, <5>1, HeadTail
      <4> QED
        BY <3>1, <4>1
    <3> QED
      BY <1>1, <2>0, <3>1, <3>3 DEF Ahead, LetPast
  <2>6. CASE \E performed, ok \in BOOLEAN : CallTool(r, performed, ok)
    <3>1. pc[r] = "call" /\ pc'[r] = "record" /\ todo' = todo /\ todo[r] # <<>> /\ status' = status
      BY <1>0, <2>6, CallGrows DEF CallTool
    <3>2. todo[r] \in Seq(Actions)
      BY <3>1, AtAction
    <3>3. \A i \in DOMAIN Tail(todo[r]) : i + 1 \in DOMAIN todo[r] /\ Tail(todo[r])[i] = todo[r][i + 1]
      BY <3>1, <3>2, HeadTail
    <3> QED
      BY <1>1, <2>0, <3>1, <3>3 DEF Ahead, LetPast
  <2>7. CASE RecordOutcome(r)
    <3>1. pc[r] = "record" /\ pc'[r] = "executor" /\ todo'[r] = Tail(todo[r]) /\ status' = status
      BY <1>0, <2>7, RecordGrows DEF Pop, RecordOutcome
    <3> QED
      BY <1>1, <2>0, <3>1 DEF Ahead, LetPast
  <2> QED
    BY <2>1, <2>2, <2>3, <2>4, <2>5, <2>6, <2>7 DEF RunStep
<1>2. ASSUME NEW q \in LetPast, ~Ahead(todo[q], pc[q], a)
      PROVE  q \in LetPast' /\ ~Ahead(todo'[q], pc'[q], a)
  <2>1. CASE q = r
    BY <1>1, <1>2, <2>1
  <2>2. CASE q # r
    BY <1>0, <1>2, <2>2 DEF LetPast
  <2> QED
    BY <2>1, <2>2
<1> QED
  BY <1>2 DEF Through

(* More requests are through, if anything.                                 *)
LEMMA ThroughGrows ==
    ASSUME PauseInv, PauseInv', NEW a, Through(a) \subseteq Through(a)'
    PROVE  /\ IsFiniteSet(Through(a)) /\ Cardinality(Through(a)) \in Nat
           /\ IsFiniteSet(Through(a)') /\ Cardinality(Through(a)') \in Nat
           /\ Cardinality(Through(a)) <= Cardinality(Through(a)')
<1>1. Through(a)' \subseteq LetPast' /\ IsFiniteSet(LetPast')
  BY DEF Through, PauseInv
<1>2. IsFiniteSet(Through(a)')
  BY <1>1, FS_Subset
<1> QED
  BY <1>2, ThroughCounts, FS_Subset, FS_CardinalityType

(* A request that has not been at the gate has no status yet.              *)
LEMMA StatusKept ==
    ASSUME GateInv, ThreadInv, OnceInv, NEW r \in Runs, RunStep(r) \/ RunError(r)
    PROVE  \A q \in Requests : pc'[q] \in {"idle", "lock", "gate"} => status'[q] = "none"
<1>0. /\ pc \in [Runs -> Labels] /\ Requests \subseteq Runs
      /\ \A q \in Runs : q # r => pc'[q] = pc[q] /\ status'[q] = status[q]
  BY OtherRuns DEF GateInv, TypeOK, Runs
<1>1. ASSUME r \in Requests, pc'[r] \in {"idle", "lock", "gate"}
      PROVE  status'[r] = status[r] /\ pc[r] \in {"idle", "lock", "gate"}
  <2>1. CASE Flush(r) \/ AcquireLock(r)
    BY <1>0, <1>1, <2>1 DEF Flush, AcquireLock
  <2>2. CASE Resume(r)
    <3>1. ckpt.next \in Nodes \union {"absent"}
      BY DEF GateInv, TypeOK, States
    <3> QED
      BY <1>0, <1>1, <2>2, <3>1 DEF Resume, Goto, Nodes
  <2>3. CASE RunError(r)
    <3>1. pc'[r] = pc[r] /\ dirty[r]
      BY <1>1, <2>3, ErrorMoves
    <3> QED
      BY <1>1, <3>1 DEF ThreadInv, Saving
  <2>4. CASE PlanAction(r) \/ FinishPlanner(r)
    BY <1>1, <2>4, ChatFresh DEF PlanAction, FinishPlanner, GateInv, PcInv
  <2>5. CASE GateResume(r) \/ Decide(r) \/ FinishApproval(r) \/ FinishExecutor(r) \/ Respond(r) \/ Finish(r)
             \/ ReleaseLock(r)
    BY <1>0, <1>1, <2>5 DEF GateResume, Decide, FinishApproval, FinishExecutor, Respond, Finish, ReleaseLock, Goto
  <2>6. CASE ExecCheck(r) \/ GuardReplay(r) \/ RecordOutcome(r)
             \/ \E performed, ok \in BOOLEAN : CallTool(r, performed, ok)
    BY <1>0, <1>1, <2>6 DEF ExecCheck, GuardReplay, RecordOutcome, CallTool, Goto
  <2> QED
    BY <2>1, <2>2, <2>3, <2>4, <2>5, <2>6 DEF RunStep
<1> QED
  BY <1>0, <1>1 DEF OnceInv

(* A call gets its request through with the action: its loop does not have *)
(* it twice.                                                               *)
LEMMA CallOnce ==
    ASSUME GateInv, FinalInv, DistinctInv, PauseInv, PauseInv', OnceInv, NEW r \in Runs, NEW a \in Gated,
           NEW performed \in BOOLEAN, NEW ok \in BOOLEAN, CallTool(r, performed, ok)
    PROVE  effects'[a] <= Cardinality(Through(a)')
<1>0. /\ Head(todo[r]) \in Actions /\ todo[r] # <<>> /\ pc[r] = "call" /\ todo' = todo
      /\ pc' = [pc EXCEPT ![r] = "record"]
      /\ \A b \in Actions : b # Head(todo[r]) => effects'[b] = effects[b]
      /\ effects'[Head(todo[r])] <= effects[Head(todo[r])] + 1
  BY CallGrows
<1>1. /\ a \in Actions /\ effects[a] <= Cardinality(Through(a)) /\ effects[a] \in Nat /\ effects'[a] \in Nat
      /\ pc \in [Runs -> Labels] /\ Requests \subseteq Runs
  <2>1. a \in Actions /\ effects \in [Actions -> Nat] /\ effects[a] <= Cardinality(Through(a))
    BY GatedActions DEF OnceInv, GateInv, TypeOK
  <2>2. effects' = effects \/ effects' = [effects EXCEPT ![Head(todo[r])] = effects[Head(todo[r])] + 1]
    BY DEF CallTool
  <2>3. effects'[a] \in Nat
    BY <2>1, <2>2
  <2> QED
    BY <2>1, <2>3 DEF GateInv, TypeOK, Runs
<1>2. Through(a) \subseteq Through(a)'
  BY RunThrough DEF RunStep
<1>3. /\ IsFiniteSet(Through(a)) /\ Cardinality(Through(a)) \in Nat
      /\ IsFiniteSet(Through(a)') /\ Cardinality(Through(a)') \in Nat
      /\ Cardinality(Through(a)) <= Cardinality(Through(a)')
  BY <1>2, ThroughGrows
<1>4. CASE a # Head(todo[r])
  BY <1>0, <1>1, <1>3, <1>4
<1>5. CASE a = Head(todo[r])
  <2>1. r \in Requests /\ todo[r] \in Seq(Actions) /\ 1 \in DOMAIN todo[r] /\ Head(todo[r]) = todo[r][1]
    BY <1>0, <1>5, GatedAt, AtAction DEF FinalInv, OnTools
  <2>2. r \in LetPast /\ r \in LetPast'
    <3>1. r \in LetPast
      BY <1>0, <2>1 DEF PauseInv, InGraph, OnTools
    <3>2. status' = status
      BY DEF CallTool
    <3> QED
      BY <3>1, <3>2 DEF LetPast
  <2>3. r \notin Through(a)
    BY <1>0, <1>5, <2>1 DEF Through, Ahead
  <2>4. r \in Through(a)'
    <3>1. Distinct(todo[r])
      BY <1>0, <2>1 DEF DistinctInv, RunDistinct, Executing, OnTools
    <3>2. \A i \in DOMAIN Tail(todo[r]) : Tail(todo[r])[i] # a
      BY <1>0, <1>5, <2>1, <3>1, DistinctTail
    <3>3. pc'[r] = "record"
      BY <1>0, <1>1
    <3> QED
      BY <1>0, <2>2, <3>2, <3>3 DEF Through, Ahead
  <2>5. Cardinality(Through(a) \union {r}) = Cardinality(Through(a)) + 1
    BY <1>3, <2>3, FS_AddElement
  <2>6. Cardinality(Through(a) \union {r}) <= Cardinality(Through(a)')
    BY <1>2, <1>3, <2>4, FS_Subset
  <2> QED
    BY <1>0, <1>1, <1>3, <1>5, <2>5, <2>6
<1> QED
  BY <1>4, <1>5

(* The steps of a run.                                                     *)
LEMMA RunOnce ==
    ASSUME GateInv, ThreadInv, FinalInv, DistinctInv, PauseInv, PauseInv', OnceInv, NEW r \in Runs,
           RunStep(r) \/ RunError(r)
    PROVE  OnceInv'
<1>1. ASSUME NEW a \in Gated
      PROVE  effects'[a] <= Cardinality(Through(a)')
  <2>1. CASE \E performed, ok \in BOOLEAN : CallTool(r, performed, ok)
    BY <2>1, CallOnce
  <2>2. CASE ~\E performed, ok \in BOOLEAN : CallTool(r, performed, ok)
    <3>1. effects' = effects
      BY <2>2, SilentSteps DEF RunStep, PlanAction, Decide, ExecCheck, GuardReplay, RecordOutcome
    <3>2. /\ Cardinality(Through(a)) <= Cardinality(Through(a)')
          /\ Cardinality(Through(a)) \in Nat /\ Cardinality(Through(a)') \in Nat
      BY RunThrough, ThroughGrows
    <3>3. effects[a] \in Nat
      BY GatedActions DEF GateInv, TypeOK
    <3> QED
      BY <3>1, <3>2, <3>3 DEF OnceInv
  <2> QED
    BY <2>1, <2>2
<1> QED
  BY <1>1, StatusKept DEF OnceInv

(* Clients, administrators and crashes perform nothing.                    *)
LEMMA WorldOnce ==
    ASSUME GateInv, PauseInv, PauseInv', OnceInv, WorldStep
    PROVE  OnceInv'
<1>0. /\ pc \in [Runs -> Labels] /\ Requests \subseteq Runs /\ DOMAIN todo = Runs
      /\ effects \in [Actions -> Nat] /\ Gated \subseteq Actions
  BY GatedActions DEF GateInv, TypeOK, TodoOK, Runs
<1>1. effects' = effects /\ status' = status
  BY DEF WorldStep, StartChat, Arrive, Crash, EditPolicy, vars
<1>2. ASSUME NEW q \in Requests
      PROVE  \/ pc'[q] = "dead"
             \/ pc[q] = "idle" /\ pc'[q] = "lock"
             \/ pc'[q] = pc[q] /\ todo'[q] = todo[q]
  <2>1. ASSUME NEW u \in Users, NEW plan \in Plans, StartChat(u, plan)
        PROVE  pc'[q] = pc[q] /\ todo'[q] = todo[q]
    BY <1>0, <2>1, ChatFresh DEF StartChat, Goto
  <2>2. ASSUME NEW r \in Requests, NEW u \in Users, NEW b \in Bodies, Arrive(r, u, b)
        PROVE  (pc[q] = "idle" /\ pc'[q] = "lock") \/ (pc'[q] = pc[q] /\ todo'[q] = todo[q])
    BY <1>0, <2>2 DEF Arrive, Goto
  <2>3. ASSUME NEW w \in Workers, Crash(w)
        PROVE  pc'[q] = "dead" \/ (pc'[q] = pc[q] /\ todo'[q] = todo[q])
    BY <1>0, <2>3 DEF Crash, Forget
  <2>4. CASE (\E a \in Actions : EditPolicy(a)) \/ UNCHANGED vars
    BY <2>4 DEF EditPolicy, vars
  <2> QED
    BY <2>1, <2>2, <2>3, <2>4 DEF WorldStep
<1>3. ASSUME NEW a \in Gated
      PROVE  Through(a) \subseteq Through(a)'
  <2>1. ASSUME NEW q \in LetPast, ~Ahead(todo[q], pc[q], a)
        PROVE  q \in LetPast' /\ ~Ahead(todo'[q], pc'[q], a)
    BY <1>1, <1>2, <2>1 DEF LetPast, Ahead
  <2> QED
    BY <2>1 DEF Through
<1>4. ASSUME NEW a \in Gated
      PROVE  effects'[a] <= Cardinality(Through(a)')
  <2>1. /\ Cardinality(Through(a)) <= Cardinality(Through(a)')
        /\ Cardinality(Through(a)) \in Nat /\ Cardinality(Through(a)') \in Nat
    BY <1>3, ThroughGrows
  <2>2. effects[a] \in Nat
    BY <1>0
  <2> QED
    BY <1>1, <2>1, <2>2 DEF OnceInv
<1> QED
  BY <1>1, <1>2, <1>4 DEF OnceInv

(* One worker process performs a gated action at most once, and once more  *)
(* for every crash or error: refused calls, answers lost after the         *)
(* provider acted and repeated approvals repeat nothing by themselves      *)
(* (resume_lock, GuardedExecutor.execute_guarded, the window execution.py  *)
(* documents).  Every effect is the work of a request of its own, and the  *)
(* gate lets one more past only after a fault.  For any number of          *)
(* requests, and action ids that are fresh.                                *)
THEOREM OncePerFaultHolds ==
    ASSUME OneProcess, FreshIds
    PROVE  Spec => []OncePerFault
<1>1. Init => OnceInv /\ PauseInv
  <2> SUFFICES ASSUME Init PROVE OnceInv /\ PauseInv
    OBVIOUS
  <2>1. PauseInv
    BY PauseInit
  <2>2. \A a \in Gated : effects[a] = 0 /\ Cardinality(Through(a)) \in Nat
    BY <2>1, GatedActions, ThroughCounts DEF Init
  <2>3. \A r \in Requests : status[r] = "none"
    BY DEF Init, Runs
  <2> QED
    BY <2>1, <2>2, <2>3 DEF OnceInv
<1>2. GateInv /\ ThreadInv /\ FinalInv /\ PauseInv /\ [Next]_vars => PauseInv'
  BY RunPause, ErrorPause, WorldPause DEF Next, WorldStep, FinalInv
<1>3. GateInv /\ ThreadInv /\ FinalInv /\ DistinctInv /\ PauseInv /\ PauseInv' /\ OnceInv /\ [Next]_vars => OnceInv'
  BY RunOnce, WorldOnce DEF Next, WorldStep
<1>4. GateInv /\ PauseInv /\ OnceInv => OncePerFault
  <2> SUFFICES ASSUME GateInv, PauseInv, OnceInv, NEW a \in Gated
               PROVE  effects[a] <= 1 + crashes + errors
    BY DEF OncePerFault
  <2>1. /\ effects[a] \in Nat /\ crashes \in Nat /\ errors \in Nat
        /\ effects[a] <= Cardinality(Through(a))
    BY GatedActions, BoundsNat DEF GateInv, TypeOK, OnceInv
  <2>2. /\ Cardinality(Through(a)) <= Cardinality(LetPast) /\ Cardinality(Through(a)) \in Nat
        /\ Cardinality(LetPast) \in Nat /\ Cardinality(LetPast) <= 1 + crashes + errors
    BY ThroughCounts, FS_CardinalityType DEF PauseInv
  <2> QED
    BY <2>1, <2>2
<1> QED
  BY <1>1, <1>2, <1>3, <1>4, GateInvHolds, FinalInvHolds, ThreadInvHolds, DistinctInvHolds, PTL DEF Spec
=============================================================================
