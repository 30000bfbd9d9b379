----------------------------- MODULE AgentTurn -----------------------------
(***************************************************************************)
(* One conversation thread of the agent: the turn a POST /chat starts      *)
(* (planner, approval, executor, responder) and the POST /approve requests *)
(* that resume it, on one or more API worker processes that share the      *)
(* checkpoint store, the audit ledger and the policy store.                *)
(*                                                                         *)
(* A node works on a private copy of the checkpointed state and the graph  *)
(* runtime saves a checkpoint when the node ends.  Saving is asynchronous: *)
(* the next node may start before the checkpoint is durable, a run only    *)
(* returns once it is, and a crash or an outage loses it.  Threads share   *)
(* no state but the ledger and the policy, and every chat gets a fresh     *)
(* thread id, so one thread is enough.                                     *)
(***************************************************************************)
EXTENDS Integers, Sequences, FiniteSets

CONSTANTS Requests,       \* POST /approve requests
          Chat,           \* the POST /chat request that creates the thread
          Workers,        \* API worker processes
          WorkerOf,       \* the worker that serves each request
          Users,          \* principals, Anonymous among them
          Anonymous,      \* Principal.anonymous()
          Actions,        \* action ids the planner may propose
          Gated,          \* the actions above RiskTier.READ
          Registered,     \* per worker: actions whose tool and permission resolve
          Plans,          \* what plan_fn may return: sequences of actions
          InitialGrants,  \* what the owner may do at first: sets of actions
          Bodies,         \* decisions an ApproveRequest may carry
          MaxCrashes,     \* bound: worker processes killed
          MaxErrors,      \* bound: runs ended by a database or planner error
          MaxPolicyEdits, \* bound: grants and revocations
          None            \* nobody

Runs == Requests \union {Chat}

ASSUME ChatFresh    == Chat \notin Requests
ASSUME NoneFresh    == None \notin Runs /\ None \notin Users
ASSUME GatedActions == Gated \subseteq Actions
ASSUME WorkerOfType == WorkerOf \in [Runs -> Workers]
ASSUME RegistryType == Registered \in [Workers -> SUBSET Actions]
ASSUME PlansType    == Plans \subseteq Seq(Actions)
ASSUME BodiesType   == Bodies \subseteq [blanket : BOOLEAN, approve : BOOLEAN,
                                         approved_ids : Seq(Actions), rejected_ids : Seq(Actions)]
ASSUME GrantsType   == InitialGrants \subseteq SUBSET Actions
ASSUME BoundsNat    == MaxCrashes \in Nat /\ MaxErrors \in Nat /\ MaxPolicyEdits \in Nat

VARIABLES owner,     \* the principal checkpointed with the thread
          ckpt,      \* latest durable checkpoint
          mem,       \* per run: the checkpoint its loop reached last
          dirty,     \* per run: that checkpoint is not durable yet
          work,      \* per run: the running node's copy of the state
          todo,      \* per run: what the running node has left to go through
          pc,        \* per run: where it is
          caller,    \* per request: the authenticated principal
          body,      \* per request: its decisions
          outcome,   \* per run: what the tool call in progress reported
          status,    \* per run: its HTTP outcome
          lock,      \* per worker: the request that holds the thread's resume lock
          audit,     \* the audit ledger
          effects,   \* per action: how often the provider performed it
          granted,   \* actions whose permission the owner holds now
          crashes, errors, edits   \* how much of each bound is used

runVars   == <<mem, dirty, work, todo, pc, outcome, status>>
reqVars   == <<caller, body>>
worldVars == <<granted, crashes, errors, edits>>
vars == <<owner, ckpt, runVars, reqVars, lock, audit, effects, worldVars>>

-----------------------------------------------------------------------------
(* Data                                                                    *)

(* The channels of AgentState the gate depends on, with the node to run    *)
(* next (snapshot.next).                                                   *)
NoThread == [next |-> "absent", proposed |-> <<>>, approved |-> {}, rejected |-> {}, results |-> <<>>]

initial_state == [NoThread EXCEPT !.next = "planner"]

requires_approval(a) == a \in Gated

Event(type, a, actor) == [type |-> type, action |-> a, actor |-> actor]

Logged(type, a) == \E i \in DOMAIN audit : audit[i].type = type /\ audit[i].action = a

LoggedBy(type, a, u) == \E i \in DOMAIN audit : audit[i] = Event(type, a, u)

(* Fault: any recorded attempt counts, a failed one too. *)
has_attempted(a) == Logged("EXECUTED", a) \/ Logged("FAILED", a)

has_executed(a) == Logged("EXECUTED", a)

Result(a, ok) == [action |-> a, ok |-> ok]

(* The tool is registered and the permission re-derived from the action's  *)
(* arguments agrees with the stamped one.                                  *)
Resolves(r, a) == a \in Registered[WorkerOf[r]]

Init ==
    /\ owner   = None
    /\ ckpt    = NoThread
    /\ mem     = [r \in Runs |-> NoThread]
    /\ dirty   = [r \in Runs |-> FALSE]
    /\ work    = [r \in Runs |-> NoThread]
    /\ todo    = [r \in Runs |-> <<>>]
    /\ pc      = [r \in Runs |-> "idle"]
    /\ caller  = [r \in Runs |-> None]
    /\ body    = [r \in Runs |-> None]
    /\ outcome = [r \in Runs |-> "none"]
    /\ status  = [r \in Runs |-> "none"]
    /\ lock    = [w \in Workers |-> None]
    /\ audit   = <<>>
    /\ effects = [a \in Actions |-> 0]
    /\ granted \in InitialGrants
    /\ crashes = 0
    /\ errors  = 0
    /\ edits   = 0

-----------------------------------------------------------------------------
(* Steps shared by the nodes                                               *)

Log(e) == audit' = Append(audit, e)

Goto(r, l) == pc' = [pc EXCEPT ![r] = l]

(* The run is over and its local state goes out of scope. *)
Forget(gone) ==
    /\ mem'     = [r \in Runs |-> IF r \in gone THEN NoThread ELSE mem[r]]
    /\ work'    = [r \in Runs |-> IF r \in gone THEN NoThread ELSE work[r]]
    /\ todo'    = [r \in Runs |-> IF r \in gone THEN <<>> ELSE todo[r]]
    /\ outcome' = [r \in Runs |-> IF r \in gone THEN "none" ELSE outcome[r]]
    /\ caller'  = [r \in Runs |-> IF r \in gone THEN None ELSE caller[r]]
    /\ body'    = [r \in Runs |-> IF r \in gone THEN None ELSE body[r]]

(* The running node goes on with the next element of its loop. *)
Pop(r) == todo' = [todo EXCEPT ![r] = Tail(@)]

(* The graph runtime: a node ended, its update is applied and a checkpoint  *)
(* with the next node is handed to the checkpointer.                        *)
Checkpoint(r, next) ==
    /\ work'  = [work EXCEPT ![r].next = next]
    /\ mem'   = [mem EXCEPT ![r] = [work[r] EXCEPT !.next = next]]
    /\ dirty' = [dirty EXCEPT ![r] = TRUE]

(* The checkpoint becomes durable.  Whoever writes last wins. *)
Flush(r) ==
    /\ dirty[r]
    /\ ckpt'  = mem[r]
    /\ dirty' = [dirty EXCEPT ![r] = FALSE]
    /\ UNCHANGED <<owner, mem, work, todo, pc, outcome, status, reqVars, lock, audit, effects, worldVars>>

-----------------------------------------------------------------------------
(* POST /chat: a fresh thread owned by the caller                          *)

StartChat(u, plan) ==
    /\ pc[Chat] = "idle"
    /\ owner' = u
    /\ work'  = [work EXCEPT ![Chat] = initial_state]
    /\ mem'   = [mem EXCEPT ![Chat] = initial_state]
    /\ dirty' = [dirty EXCEPT ![Chat] = TRUE]
    /\ todo'  = [todo EXCEPT ![Chat] = plan]
    /\ Goto(Chat, "plan")
    /\ UNCHANGED <<ckpt, outcome, status, reqVars, lock, audit, effects, worldVars>>

(* planner_node, one proposed action: log it, resolve its permission, and  *)
(* drop it early when it does not resolve or the principal lacks it.       *)
PlanAction(r) ==
    /\ pc[r] = "plan"
    /\ todo[r] # <<>>
    /\ LET a == Head(todo[r])
           ok == Resolves(r, a) /\ a \in granted
           log == Append(audit, Event("PROPOSED", a, None))
       IN  /\ audit' = IF ok THEN log ELSE Append(log, Event("DENIED", a, owner))
           /\ work'  = IF ok THEN [work EXCEPT ![r].proposed = Append(@, a)] ELSE work
    /\ Pop(r)
    /\ UNCHANGED <<owner, ckpt, mem, dirty, pc, outcome, status, reqVars, lock, effects, worldVars>>

route_after_planner(s) ==
    CASE \E i \in DOMAIN s.proposed : requires_approval(s.proposed[i]) -> "approval"
      [] s.proposed = <<>>                                            -> "responder"
      [] OTHER                                                        -> "executor"

(* planner_node returns.  approval_node interrupts at once, which ends the *)
(* run with the thread paused; the other nodes start.                      *)
FinishPlanner(r) ==
    /\ pc[r] = "plan"
    /\ todo[r] = <<>>
    /\ LET next == route_after_planner(work[r])
       IN  /\ Checkpoint(r, next)
           /\ status' = [status EXCEPT ![r] = IF next = "approval" /\ @ = "none" THEN "awaiting" ELSE @]
           /\ Goto(r, IF next = "approval" THEN "finish" ELSE next)
           /\ todo' = [todo EXCEPT ![r] = work[r].proposed]
    /\ UNCHANGED <<owner, ckpt, outcome, reqVars, lock, audit, effects, worldVars>>

-----------------------------------------------------------------------------
(* POST /approve: gate_resume, then graph.invoke(Command(resume=...))      *)

Arrive(r, u, b) ==
    /\ pc[r] = "idle"
    /\ caller' = [caller EXCEPT ![r] = u]
    /\ body'   = [body EXCEPT ![r] = b]
    /\ Goto(r, "lock")
    /\ UNCHANGED <<owner, ckpt, mem, dirty, work, todo, outcome, status, lock, audit, effects, worldVars>>

(* Fault: the request does not wait for the lock. *)
AcquireLockAnyway(r) ==
    /\ pc[r] = "lock"
    /\ lock' = [lock EXCEPT ![WorkerOf[r]] = r]
    /\ Goto(r, "gate")
    /\ UNCHANGED <<owner, ckpt, mem, dirty, work, todo, outcome, status, reqVars, audit, effects, worldVars>>

(* acquire_resume_lock, as ResumeMutex promises it. *)
AcquireLock(r) ==
    /\ pc[r] = "lock"
    /\ lock[WorkerOf[r]] = None
    /\ lock' = [lock EXCEPT ![WorkerOf[r]] = r]
    /\ Goto(r, "gate")
    /\ UNCHANGED <<owner, ckpt, mem, dirty, work, todo, outcome, status, reqVars, audit, effects, worldVars>>

(* Fault: any authenticated caller may resume. *)
verify_authenticated(u) == u # Anonymous /\ owner # Anonymous

verify_thread_owner(u) == u # Anonymous /\ owner # Anonymous /\ u = owner

is_awaiting_approval == ckpt.next = "approval"

(* The pre-checks, in the code's order, against the durable snapshot. *)
GateStatus(r) ==
    CASE ckpt.next = "absent"             -> "404"
      [] ~verify_thread_owner(caller[r])  -> "403"
      [] ~is_awaiting_approval            -> "409"
      [] OTHER                            -> "resuming"

GateResume(r) ==
    /\ pc[r] = "gate"
    /\ status' = [status EXCEPT ![r] = GateStatus(r)]
    /\ Goto(r, IF GateStatus(r) = "resuming" THEN "invoke" ELSE "release")
    /\ Forget(IF GateStatus(r) = "resuming" THEN {} ELSE {r})
    /\ UNCHANGED <<owner, ckpt, dirty, lock, audit, effects, worldVars>>

(* decision_payload: a blanket answer covers every proposed action (Decide *)
(* drops those that are not gated, as the code does here), else the listed *)
(* ids, approvals first.                                                   *)
Decision(a, yes) == [action |-> a, approved |-> yes]

decision_payload(b, s) ==
    LET Mark(ids, yes) == [i \in DOMAIN ids |-> Decision(ids[i], yes)]
    IN  IF b.blanket THEN Mark(s.proposed, b.approve)
                     ELSE Mark(b.approved_ids, TRUE) \o Mark(b.rejected_ids, FALSE)

(* Fault: the resume value is not translated into decisions. *)
ResumeRaw(r) ==
    /\ pc[r] = "invoke"
    /\ mem'  = [mem EXCEPT ![r] = ckpt]
    /\ work' = [work EXCEPT ![r] = ckpt]
    /\ todo' = [todo EXCEPT ![r] = ckpt.proposed]
    /\ Goto(r, IF ckpt.next = "end" THEN "finish" ELSE ckpt.next)
    /\ UNCHANGED <<owner, ckpt, dirty, outcome, status, reqVars, lock, audit, effects, worldVars>>

(* graph.invoke loads the checkpoint again and runs the node it names: the *)
(* gate's snapshot may be stale when another worker resumed the thread.    *)
Resume(r) ==
    /\ pc[r] = "invoke"
    /\ mem'  = [mem EXCEPT ![r] = ckpt]
    /\ work' = [work EXCEPT ![r] = ckpt]
    /\ todo' = [todo EXCEPT ![r] = IF ckpt.next = "approval" THEN decision_payload(body[r], ckpt)
                                   ELSE ckpt.proposed]
    /\ Goto(r, IF ckpt.next = "end" THEN "finish" ELSE ckpt.next)
    /\ UNCHANGED <<owner, ckpt, dirty, outcome, status, reqVars, lock, audit, effects, worldVars>>

(* The gated actions approval_node put before the human. *)
valid_ids(s) == {a \in Gated : \E i \in DOMAIN s.proposed : s.proposed[i] = a}

(* approval_node after the interrupt, one decision: _parse_decisions drops *)
(* one that names no pending action, any other is logged and collected.    *)
Decide(r) ==
    /\ pc[r] = "approval"
    /\ todo[r] # <<>>
    /\ LET d == Head(todo[r])
       IN  \/ /\ d.action \notin valid_ids(work[r])
              /\ UNCHANGED <<audit, work>>
           \/ /\ d.action \in valid_ids(work[r])
              /\ Log(Event(IF d.approved THEN "APPROVED" ELSE "REJECTED", d.action, caller[r]))
              /\ work' = IF d.approved
                         THEN [work EXCEPT ![r].approved = @ \union {d.action}]
                         ELSE [work EXCEPT ![r].rejected = @ \union {d.action}]
    /\ Pop(r)
    /\ UNCHANGED <<owner, ckpt, mem, dirty, pc, outcome, status, reqVars, lock, effects, worldVars>>

FinishApproval(r) ==
    /\ pc[r] = "approval"
    /\ todo[r] = <<>>
    /\ Checkpoint(r, "executor")
    /\ todo' = [todo EXCEPT ![r] = work[r].proposed]
    /\ Goto(r, "executor")
    /\ UNCHANGED <<owner, ckpt, outcome, status, reqVars, lock, audit, effects, worldVars>>

-----------------------------------------------------------------------------
(* executor_node and GuardedExecutor.execute_guarded                       *)

(* Fault: only the policy is checked. *)
ExecVerdictNoGate(r, a) ==
    IF Resolves(r, a) /\ a \in granted THEN "clear" ELSE "DENIED"

(* Fault: what was not rejected runs. *)
ExecVerdictNotRejected(r, a) ==
    CASE ~Resolves(r, a)                                      -> "DENIED"
      [] a \notin granted                                     -> "DENIED"
      [] requires_approval(a) /\ a \in work[r].rejected       -> "SKIPPED"
      [] OTHER                                                -> "clear"

(* Fault: the planner's policy check is trusted. *)
ExecVerdictNoPolicy(r, a) ==
    CASE ~Resolves(r, a)                                      -> "DENIED"
      [] requires_approval(a) /\ a \notin work[r].approved    -> "SKIPPED"
      [] OTHER                                                -> "clear"

(* The checks of executor_node on the next action, in order: the tool and  *)
(* its permission resolve, the current policy grants it, and a gated       *)
(* action carries an approval.                                             *)
ExecVerdict(r, a) ==
    CASE ~Resolves(r, a)                                      -> "DENIED"
      [] a \notin granted                                     -> "DENIED"
      [] requires_approval(a) /\ a \notin work[r].approved    -> "SKIPPED"
      [] OTHER                                                -> "clear"

ExecCheck(r) ==
    /\ pc[r] = "executor"
    /\ todo[r] # <<>>
    /\ LET a == Head(todo[r])
           verdict == ExecVerdict(r, a)
       IN  \/ /\ verdict = "clear"
              /\ Goto(r, "guard")
              /\ UNCHANGED <<audit, todo>>
           \/ /\ verdict # "clear"
              /\ Log(Event(verdict, a, IF verdict = "DENIED" THEN owner ELSE None))
              /\ Pop(r)
              /\ UNCHANGED pc
    /\ UNCHANGED <<owner, ckpt, mem, dirty, work, outcome, status, reqVars, lock, effects, worldVars>>

(* Fault: the ledger is not consulted. *)
GuardNothing(r) ==
    /\ pc[r] = "guard"
    /\ Goto(r, "call")
    /\ UNCHANGED <<owner, ckpt, mem, dirty, work, todo, outcome, status, reqVars, lock, audit, effects, worldVars>>

(* Idempotency: a gated action with an EXECUTED event is reported, not run *)
(* again.  The ledger is read here and written only in RecordOutcome.      *)
GuardReplay(r) ==
    /\ pc[r] = "guard"
    /\ LET a == Head(todo[r])
           replay == requires_approval(a) /\ has_executed(a)
       IN  \/ /\ replay
              /\ Log(Event("REPLAY_SKIPPED", a, None))
              /\ work' = [work EXCEPT ![r].results = Append(@, Result(a, TRUE))]
              /\ Pop(r)
              /\ Goto(r, "executor")
           \/ /\ ~replay
              /\ Goto(r, "call")
              /\ UNCHANGED <<audit, work, todo>>
    /\ UNCHANGED <<owner, ckpt, mem, dirty, outcome, status, reqVars, lock, effects, worldVars>>

(* Fault: a call that raised is tried once more. *)
CallToolRetried(r, performed, ok) ==
    /\ pc[r] = "call"
    /\ ok => performed
    /\ effects' = IF performed THEN [effects EXCEPT ![Head(todo[r])] = @ + IF ok THEN 1 ELSE 2] ELSE effects
    /\ outcome' = [outcome EXCEPT ![r] = IF ok THEN "EXECUTED" ELSE "FAILED"]
    /\ Goto(r, "record")
    /\ UNCHANGED <<owner, ckpt, mem, dirty, work, todo, status, reqVars, lock, audit, worldVars>>

(* ToolRegistry.execute: the provider performs the action or not, and the  *)
(* call reports success or an exception.  An exception after acceptance (a *)
(* timeout on the answer) reads like a failure although the effect is real.*)
CallTool(r, performed, ok) ==
    /\ pc[r] = "call"
    /\ ok => performed
    /\ effects' = IF performed THEN [effects EXCEPT ![Head(todo[r])] = @ + 1] ELSE effects
    /\ outcome' = [outcome EXCEPT ![r] = IF ok THEN "EXECUTED" ELSE "FAILED"]
    /\ Goto(r, "record")
    /\ UNCHANGED <<owner, ckpt, mem, dirty, work, todo, status, reqVars, lock, audit, worldVars>>

(* Fault: every attempt is recorded as a success. *)
RecordSuccess(r) ==
    /\ pc[r] = "record"
    /\ Log(Event("EXECUTED", Head(todo[r]), None))
    /\ work' = [work EXCEPT ![r].results = Append(@, Result(Head(todo[r]), TRUE))]
    /\ outcome' = [outcome EXCEPT ![r] = "none"]
    /\ Pop(r)
    /\ Goto(r, "executor")
    /\ UNCHANGED <<owner, ckpt, mem, dirty, status, reqVars, lock, effects, worldVars>>

(* audit.executed or audit.failed, and the result joins the node's list. *)
RecordOutcome(r) ==
    /\ pc[r] = "record"
    /\ LET a == Head(todo[r])
       IN  /\ Log(Event(outcome[r], a, None))
           /\ work' = [work EXCEPT ![r].results = Append(@, Result(a, outcome[r] = "EXECUTED"))]
    /\ outcome' = [outcome EXCEPT ![r] = "none"]
    /\ Pop(r)
    /\ Goto(r, "executor")
    /\ UNCHANGED <<owner, ckpt, mem, dirty, status, reqVars, lock, effects, worldVars>>

FinishExecutor(r) ==
    /\ pc[r] = "executor"
    /\ todo[r] = <<>>
    /\ Checkpoint(r, "responder")
    /\ Goto(r, "responder")
    /\ UNCHANGED <<owner, ckpt, todo, outcome, status, reqVars, lock, audit, effects, worldVars>>

(* responder_node: a summary; it decides and performs nothing, and a       *)
(* narrator that fails falls back to the deterministic text.               *)
Respond(r) ==
    /\ pc[r] = "responder"
    /\ Checkpoint(r, "end")
    /\ Goto(r, "finish")
    /\ UNCHANGED <<owner, ckpt, todo, outcome, status, reqVars, lock, audit, effects, worldVars>>

-----------------------------------------------------------------------------
(* The end of a run                                                        *)

(* graph.invoke returns when its checkpoints are durable; /approve then    *)
(* runs its finally, /chat answers.                                        *)
Finish(r) ==
    /\ pc[r] = "finish"
    /\ ~dirty[r]
    /\ status' = [status EXCEPT ![r] = IF @ \in {"none", "resuming"} THEN "completed" ELSE @]
    /\ Goto(r, IF r = Chat THEN "done" ELSE "release")
    /\ Forget({r})
    /\ UNCHANGED <<owner, ckpt, dirty, lock, audit, effects, worldVars>>

(* Fault: the lease is not released. *)
ReleaseForgotten(r) ==
    /\ pc[r] = "release"
    /\ Goto(r, "done")
    /\ UNCHANGED <<owner, ckpt, mem, dirty, work, todo, outcome, status, reqVars, lock, audit, effects, worldVars>>

(* lease.release(), on every way out of /approve. *)
ReleaseLock(r) ==
    /\ pc[r] = "release"
    /\ lock' = [lock EXCEPT ![WorkerOf[r]] = None]
    /\ Goto(r, "done")
    /\ UNCHANGED <<owner, ckpt, mem, dirty, work, todo, outcome, status, reqVars, audit, effects, worldVars>>

(* A database, checkpointer or planner call raises and the run is answered *)
(* 500.  In a node the exception leaves the node and the graph, and the    *)
(* thread stays at the node it had reached; when the checkpoint before it  *)
(* is still to be saved, that may work or fail with the same outage.  An   *)
(* exception of the checkpointer alone is raised when the run ends: the    *)
(* nodes go on, with a checkpoint less.  Tool calls and the narrator are   *)
(* not among them: both catch.                                             *)
RunError(r) ==
    /\ errors < MaxErrors
    /\ errors' = errors + 1
    /\ status' = [status EXCEPT ![r] = "500"]
    /\ \/ /\ pc[r] \in {"plan", "gate", "invoke", "approval", "executor", "guard", "record"}
          /\ dirty' \in {dirty, [dirty EXCEPT ![r] = FALSE]}
          /\ todo'  = [todo EXCEPT ![r] = <<>>]
          /\ Goto(r, "finish")
       \/ /\ dirty[r]
          /\ dirty' = [dirty EXCEPT ![r] = FALSE]
          /\ UNCHANGED <<todo, pc>>
    /\ UNCHANGED <<owner, ckpt, mem, work, outcome, reqVars, lock, audit, effects, granted, crashes, edits>>

-----------------------------------------------------------------------------
(* The environment                                                         *)

(* A worker process dies and is restarted: its runs, their unsaved         *)
(* checkpoints and its in-memory locks are gone.                           *)
InFlight(r) == pc[r] \notin {"idle", "done", "dead"}

Crash(w) ==
    LET hit == {r \in Runs : WorkerOf[r] = w /\ InFlight(r)}
    IN  /\ crashes < MaxCrashes
        /\ hit # {}
        /\ crashes' = crashes + 1
        /\ pc'    = [r \in Runs |-> IF r \in hit THEN "dead" ELSE pc[r]]
        /\ dirty' = [r \in Runs |-> r \notin hit /\ dirty[r]]
        /\ lock'  = [lock EXCEPT ![w] = None]
        /\ Forget(hit)
        /\ UNCHANGED <<owner, ckpt, status, audit, effects, granted, errors, edits>>

(* An administrator grants or revokes the permission an action needs. *)
EditPolicy(a) ==
    /\ edits < MaxPolicyEdits
    /\ edits' = edits + 1
    /\ granted' = IF a \in granted THEN granted \ {a} ELSE granted \union {a}
    /\ UNCHANGED <<owner, ckpt, runVars, reqVars, lock, audit, effects, crashes, errors>>

-----------------------------------------------------------------------------
RunStep(r) ==
    \/ Flush(r)
    \/ PlanAction(r)   \/ FinishPlanner(r)
    \/ AcquireLock(r)  \/ GateResume(r)     \/ Resume(r)
    \/ Decide(r)       \/ FinishApproval(r)
    \/ ExecCheck(r)    \/ GuardReplay(r)
    \/ \E performed, ok \in BOOLEAN : CallTool(r, performed, ok)
    \/ RecordOutcome(r) \/ FinishExecutor(r) \/ Respond(r)
    \/ Finish(r)       \/ ReleaseLock(r)

Next ==
    \/ \E u \in Users, plan \in Plans : StartChat(u, plan)
    \/ \E r \in Requests, u \in Users, b \in Bodies : Arrive(r, u, b)
    \/ \E r \in Runs : RunStep(r) \/ RunError(r)
    \/ \E w \in Workers : Crash(w)
    \/ \E a \in Actions : EditPolicy(a)

Spec == Init /\ [][Next]_vars

(* Server threads keep running and the checkpointer keeps writing; clients, *)
(* administrators and faults owe nothing.                                   *)
FairSpec == Spec /\ \A r \in Runs : WF_vars(RunStep(r))

-----------------------------------------------------------------------------
(* Properties                                                              *)

Nodes == {"planner", "approval", "executor", "responder", "end"}

ResultType == [action : Actions, ok : BOOLEAN]

States == [next : Nodes \union {"absent"}, proposed : Seq(Actions), approved : SUBSET Actions,
           rejected : SUBSET Actions, results : Seq(ResultType)]

DecisionType == [action : Actions, approved : BOOLEAN]

Labels == {"idle", "plan", "lock", "gate", "invoke", "approval", "executor", "guard", "call",
           "record", "responder", "finish", "release", "done", "dead"}

EventTypes == {"PROPOSED", "DENIED", "APPROVED", "REJECTED", "SKIPPED", "EXECUTED", "FAILED",
               "REPLAY_SKIPPED"}

EventType == [type : EventTypes, action : Actions, actor : Users \union {None}]

(* approval_node goes through decisions, the other nodes through actions. *)
TodoOK ==
    /\ DOMAIN todo = Runs
    /\ \A r \in Runs : todo[r] \in IF pc[r] = "approval" THEN Seq(DecisionType) ELSE Seq(Actions)

TypeOK ==
    /\ owner \in Users \union {None}
    /\ ckpt \in States
    /\ mem \in [Runs -> States] /\ work \in [Runs -> States]
    /\ dirty \in [Runs -> BOOLEAN]
    /\ TodoOK
    /\ pc \in [Runs -> Labels]
    /\ caller \in [Runs -> Users \union {None}]
    /\ body \in [Runs -> Bodies \union {None}]
    /\ outcome \in [Runs -> {"none", "EXECUTED", "FAILED"}]
    /\ status \in [Runs -> {"none", "404", "403", "409", "500", "resuming", "awaiting", "completed"}]
    /\ lock \in [Workers -> Requests \union {None}]
    /\ audit \in Seq(EventType)
    /\ effects \in [Actions -> Nat]
    /\ granted \subseteq Actions
    /\ crashes \in 0..MaxCrashes /\ errors \in 0..MaxErrors /\ edits \in 0..MaxPolicyEdits

(* The approval gate: a gated action reaches its provider only after the   *)
(* owner of the thread approved that very action, on record, whatever      *)
(* requests, workers, crashes and retries came in between.                 *)
ApprovedBeforeEffect ==
    \A a \in Gated : effects[a] > 0 => LoggedBy("APPROVED", a, owner)

(* The stage an action has reached, as far as ledger and provider show. *)
Stage(a) ==
    IF effects[a] > 0 THEN "performed"
    ELSE IF LoggedBy("APPROVED", a, owner) THEN "approved"
    ELSE IF Logged("PROPOSED", a) THEN "proposed"
    ELSE "unknown"

Gate == INSTANCE ApprovalGate WITH stage <- [a \in Actions |-> Stage(a)]

(* Refinement: seen through ledger and provider, every run of the system   *)
(* moves actions through the stages of ApprovalGate, never skipping one.   *)
ImplementsGate == Gate!Spec

(* Nobody but the thread's owner decides: every decision on record carries *)
(* the owner's identity, and the owner is authenticated.                   *)
OnlyOwnerDecides ==
    \A i \in DOMAIN audit :
        audit[i].type \in {"APPROVED", "REJECTED"} =>
            audit[i].actor = owner /\ owner # Anonymous

(* The ledger is true and complete.  An EXECUTED event is the truth: the   *)
(* provider performed the action at least as often as the ledger says it   *)
(* did.  And no action gets lost: when a thread has left the executor,     *)
(* each of its actions has an outcome on the ledger.                       *)
Count(type, a) == Cardinality({i \in DOMAIN audit : audit[i].type = type /\ audit[i].action = a})

Accounted(a) == \E type \in {"EXECUTED", "FAILED", "SKIPPED", "DENIED", "REPLAY_SKIPPED"} : Logged(type, a)

LedgerFaithful ==
    /\ \A a \in Actions : Count("EXECUTED", a) <= effects[a]
    /\ ckpt.next \in {"responder", "end"} =>
        \A i \in DOMAIN ckpt.proposed : Accounted(ckpt.proposed[i])

(* What the caller is told is the truth: a successful result in the        *)
(* thread's state, replayed ones included, stands for a performed action.  *)
ResultsTruthful ==
    \A i \in DOMAIN ckpt.results : ckpt.results[i].ok => effects[ckpt.results[i].action] > 0

(* Once the ledger says EXECUTED, a gated action is never performed again: *)
(* the idempotency of GuardedExecutor, on one worker process, across       *)
(* crashes, restarts and repeated approvals.                               *)
ExecutedIsFinal ==
    [][\A a \in Gated : has_executed(a) => effects'[a] = effects[a]]_vars

(* One worker process performs a gated action at most once, but for one    *)
(* repetition per crash (the window execution.py documents) or error: an   *)
(* outage after the provider acted may take the checkpoint and the ledger  *)
(* entry with it.                                                          *)
OncePerFault ==
    \A a \in Gated : effects[a] <= 1 + crashes + errors

(* A permission taken away while the thread is paused or queued stops the  *)
(* action: with no check already passed, no provider call follows.         *)
Cleared(r, a) == pc[r] \in {"guard", "call"} /\ Head(todo[r]) = a

RevocationStops ==
    [][\A a \in Actions :
          a \notin granted /\ (\A r \in Runs : ~Cleared(r, a)) =>
              effects'[a] = effects[a] /\ (a \notin granted' => \A r \in Runs : ~Cleared(r, a)')]_vars

(* Each pause is consumed once: without faults, at most one request of a   *)
(* thread is let past the gate, the others get 404, 403 or 409.            *)
PauseConsumedOnce ==
    Cardinality({r \in Requests : status[r] \notin {"none", "404", "403", "409"}})
        <= 1 + crashes + errors

(* Nobody is left waiting: every request that reached the server is        *)
(* answered or dies with its worker, none waits for the resume lock for    *)
(* ever, and a turn that the gate let resume runs to its end unless a      *)
(* fault stops it.                                                         *)
TurnsEnd ==
    \A r \in Requests :
        /\ pc[r] = "lock" ~> pc[r] \in {"done", "dead"}
        /\ status[r] = "resuming" ~> ckpt.next = "end" \/ crashes + errors > 0

(* "Duplicate side effects from a cross-worker double resume are           *)
(* independently prevented by the durable audit-ledger idempotency"        *)
(* (interface/resume_lock.py): without crashes a gated action would be     *)
(* performed at most once.                                                 *)
NoDuplicateSideEffect ==
    \A a \in Gated : effects[a] <= 1
=============================================================================
