# Atlas: a verification project in TLA+

Atlas is an agent service. A user sends a request; a planner proposes tool calls;
calls with side effects wait for the user's approval; an executor runs what was
approved; a responder summarises. The promise that matters is the *approval
gate*: nothing with a side effect happens unless the owner of the conversation
approved that very action, and what happened is on a tamper-evident record.
Source paths below are relative to `src/src/atlas/`.

## Inventory

| Part | State | Operations | What makes it hard | What makes it correct |
|---|---|---|---|---|
| Resume lock (`interface/resume_lock.py`) | `_entries`: thread id to refcounted lock; one `ResumeLease` per request | `acquire_resume_lock`, `ResumeLease.release` | entries are deleted and minted again while requests queue; a lease is released from several threads | one resume per thread, no lost or leaked entry, no waiter left behind |
| Agent turn (`orchestration/nodes.py`, `graph.py`, `state.py`) | checkpointed `AgentState` and the next node | planner, approval, executor, responder, routing | pause and resume in another request or process, much later; crash between nodes; checkpoints become durable late | only approved actions run, each has an outcome, the turn ends |
| Guarded execution (`execution.py`, `tools.py`) | the ledger and the outside world | `execute_guarded`, `ToolRegistry.execute` | check, effect and record are three steps; a call can succeed and still raise | truthful ledger, no repetition without a crash or an error |
| API (`interface/routes.py`, `security.py`, `schemas.py`) | none of its own | `/chat`, `/approve`, their streams, `/threads` | concurrent approvals, several workers, any caller | owner only, one resume per pause, every request answered |
| Audit log (`governance/audit.py`, `persistence/audit_store.py`) | hash-chained rows | `record`, `link`, `verify_chain`, `has_executed` | concurrent writers of several processes, failed transactions | chain never forks, acknowledged events stay, tampering shows |
| Policy store (`governance/policy.py`, `persistence/policy_store.py`) | role permissions | `can`, `effective_permissions`, `grant`, `revoke` | edited while turns are paused and queries run | a revocation stops what has not started |
| RBAC (`governance/rbac.py`) | none | permission matching, `can_read` and its SQL form | wildcards, resource scopes, identity entries | the SQL filter and `can_read` agree |
| SSE streaming (`interface/sse.py`, `routes.py`) | bounded buffer, producer task, lease | `run_graph_stream`, `_stream_lifecycle` | disconnects, full buffer, three owners of one lease | the lease outlives the run, the run outlives the client |
| Credentials and OAuth (`governance/credentials.py`, `persistence/hashicorp_vault.py`, `interface/oauth_*.py`, `integrations/oauth*.py`) | vault entries, OAuth states, pending cookies | connect, callback, refresh, revoke | a refresh racing a revocation or another refresh, an authorization URL opened by somebody else, a vault that fails halfway | the stored account is its owner's, a revoked one stays away, a rotated token is not lost |
| Knowledge and ingestion (`knowledge/`, `persistence/knowledge_store.py`, `interface/kg_routes.py`) | entities with acl and vector, relations | ingest, extract, backfill, query | versions of one document at the same time, a policy edited between two statements of a query, vectors written late | an answer holds what its reader may read, a new extraction replaces the old one |
| Rate limit (`interface/rate_limit.py`) | a counter per caller and window | `acquire` | keys of like-named callers, an outage | a budget per caller |
| Adapter engine and egress (`adapter_engine.py`, `tool_egress.py`) | schemas read at start-up | validate, `assert_allowed`, resolve, post | what a host name resolves to, redirects, a proxy | requests with a token go to allowed public hosts only |
| Authentication (`interface/auth.py`, `security.py`) | none | bearer token or headers to principal | optional parts | a configured token decides |
| Configuration and wiring (`config.py`, `tools.py`, `interface/app.py`, factories) | the environment | validators, factories, `build_registry` | many optional variables that must fit together | nothing irreversible is live over a log that forgets |
| Integrations, LLM, confidence | none or external | I/O, a score | | not modelled, or as one call |

Interactions: `/approve` takes the resume lock, reads the checkpoint, verifies
owner and pause, and resumes the graph with the caller's decisions while it
holds the lease. The nodes write the audit log as they go and read the policy
store twice, before the pause and after it. The audit log is also the
idempotency record of the executor. All processes share the database; the lock
and everything in a running node belong to one process. The planner asks
the knowledge graph with the caller's roles; tools act with the credentials of the
principal they run for, which the vault gives out and refreshes on the way.

`PROJECT.json` lists the components with their status and, under `hazards`, what
in this code a test would hardly reach, each at its line with the properties
that would catch it.

## Modules

- **ResumeMutex** is the abstract promise of the resume lock: a holder per
  thread, and a request that has finished never holds again.
- **ResumeLock** is the lock map. A section under a guard lock is one step,
  because nothing blocks inside it; `Lock.acquire` and `Lock.release` are one
  step each. `Paths` are the cleanup paths of a lease, each of which calls
  `release()` once, on any thread and in any order. An entry object is named by
  the request that created it. **ResumeLockProofs** holds its theorems.
- **ApprovalGate** is the abstract promise of the agent: an action goes from
  unknown to proposed, to approved if it is gated, to performed.
- **AgentTurn** is one conversation thread: the run of `/chat` and the runs of
  the `/approve` requests, each with a program counter through lock, gate, graph
  nodes, guarded executor and release. It uses the resume lock as `ResumeMutex`
  promises it. Every loop iteration of a node that writes the ledger is a step
  of its own; in the executor the idempotency check, the provider call and the
  record are three steps, as they are in the code. **AgentTurnProofs** has the proofs
  about the approval gate, **AgentLedgerProofs** those about ledger, results and
  revocation, **AgentOnceProofs** those about doing things once.
- **AuditChain** has `link`, `compute_event_hash` and `verify_chain`. A hash is
  the term of its input, so different inputs have different hashes.
- **PostgresAuditLog** is `_append_event` by concurrent writers: pool, advisory
  lock, tail, insert, commit, rollback, and a commit whose acknowledgement is
  lost. **PostgresAuditLogProofs** holds its theorems.
- **StreamLifecycle** is `/chat/stream` and `/approve/stream`: the response, the
  generator `_stream_lifecycle`, the producer task `run_graph_stream` and the
  background task, with the buffer and the lease they share. What a coroutine
  does between two awaits is one step. `out` is what the generator yielded,
  `left` what the graph has not produced yet. **StreamLifecycleProofs** holds its
  theorems.
- **Rbac** is permission matching as operators: a permission is the sequence of its
  segments. `matches`, `expand_roles`, `can`, `can_read` and, next to it,
  `sql_readable`, the predicate that the store compiles into SQL.
- **Knowledge** is ingestion, the Postgres knowledge store, the backfill of a
  starting worker, the policy CLI and queries. `entities` and `relations` are the
  tables, `job` the program counters of the ingest calls. Connections are
  autocommit, so a statement is a step. In `persist_extraction` the statements share
  a transaction: each `DELETE` takes a snapshot (`found`) and locks its rows one by
  one (`LockRow`), each `INSERT` waits for its key (`Insert`), and what was deleted
  and written (`gone`, `put`) is held, and shown to others, until `Commit` or
  `Rollback`. An id is the sequence of its segments: the code joins user, source and
  number with `:`, the model concatenates, so the ids of two sources may be equal, or
  one lie under the prefix of the other (`OfSource`), as they may in the database.
  `MemoryPersist` is the in-memory store, the reference for what an extraction
  leaves behind. `latest`, `overlapped`, `overtaken` and `unembedded` remember for
  the properties what was committed last and what went wrong on the way.
  **KnowledgeProofs** holds its theorems and those about Rbac.
- **Settings** has no state. `env` is the environment a process is started with, the
  operators are the validators of `config.py`, the checks of the adapter schemas and
  the egress policy, the factories, and `Registry(env)`, the tools with their
  address, provider, scopes and whether they are live. `Boots(env)` is whether the
  application starts.
- **Service** is a booted deployment: `vault`, the providers' refresh tokens (`issued`,
  `accepted`), OAuth states, codes and cookies, the rate limiter's window (`hits`), and
  per slot the request under way (`req`). A request is one step up to the first call that leaves
  the process and one step per call after that. The resolver's refresh is three
  steps, as in the code: the vault is read (`CallTool`), the provider is asked
  (`Refresh`), the vault is written (`StoreRefreshed`). `acked`, `revoked`,
  `raced`, `lost` and `overtaken` remember for the properties what became of a
  connection, `asked`, `passed` and `down` what the limiter saw. **ServiceProofs**
  holds its theorems.
- `MC*` modules give the constants of the runs their values.

Operators whose comment starts with "Fault:" are wrong variants of the
definition that follows them. No specification uses them; they show that a
property would notice the mistake.

### What AgentTurn takes from LangGraph

The graph runtime is not part of the repository. From how `graph.py` and
`routes.py` use it the model assumes: a node works on a copy of the state and
its update is applied when it returns; a checkpoint is handed over after every
node and becomes durable later, before `invoke` returns (`Flush`, `Finish`); the
last checkpoint written wins; a node interrupted by a crash runs again from its
start; resuming a thread runs the node its latest checkpoint names, even if that
is no longer `approval`. A tool call may perform its effect or not and report
success or an exception; it never reports a success it did not have.

### What StreamLifecycle takes from asyncio, anyio and sse-starlette

The memory object stream: a full buffer blocks the sender, a closed receiver
breaks it, a receiver ends when the buffer is empty and the sender closed. The
response iterates over the generator and writes each event. When the client is
gone the response is cancelled (`Disconnect`): a generator that waits is cancelled
there and at every later await, so its `finally` block gets no further than
closing the receiver; one that is suspended at a `yield` notices nothing and is
closed later as garbage (`Collect`). Either way the response is over and its
background task runs. Cancelling a task that awaits another cancels that one too
(`Kill`); the worker thread it was waiting for runs on. A write that exceeds the
timeout closes the generator, waits for it, and fails the response, which then
runs no background task (`SendTimeout`). The checkpoint that ends a pause is taken
to be durable with the first chunk; AgentTurn has the finer picture.

### What Knowledge takes from PostgreSQL, and Service from the providers

READ COMMITTED: a statement sees what was committed when it began, waits for a row
another transaction holds, and skips it if it is gone afterwards or is another row
by then. An `INSERT ... ON CONFLICT` waits for another transaction's uncommitted key,
then updates the row or does nothing; an edge that is there is not locked. A `DELETE`
takes its rows in any order. Transactions that wait in a circle are found, and one of
them is rolled back (`DeadlockDetected`), which the ingest survives like any other
store error (`ingestion.py:294`). Embedding and extraction models answer or fail.

A provider issues a code for the account that consented, exchanges it once, and
either replaces the refresh token at each use (`Rotating`) or keeps it. A call may
fail before or after it took effect, and the vault may answer 503 whether it has
stored or deleted or not. Signatures, states and cookies cannot be forged. Upstash
counts within a window. A host name resolves to any set of addresses, each time
anew. A callback's code comes with the state it was issued for, from the browser that
consented, though the routes take both as they come: the exchange is what ties a code
to an account, and `BoundAccount` rests on comparing that account with the state.

### What is abstracted

Messages, arguments, rationales and the knowledge context are left out: no
property depends on them. An action stands for its id; its risk tier is
membership in `Gated`, its permission whether it is in `granted`, the tool and
the re-derived permission whether it is in `Registered` of the worker. A
principal is its user and organisation. One thread is modelled, since threads
share only the ledger and the policy, and `/chat` makes a fresh id each time.

In Knowledge a text is named by its document and window, a vector by the text it was
computed from; the digest in an entity's id stands for the folded name. Any
ranking is possible, so fusion and distances are a choice of as many rows as the
limit allows. The pages of the full-text statement and the check of each candidate are
one step, though the code reads the policy once per candidate. In Service a
credential is its account, scopes and refresh token; when an access token expires is
a choice. In Settings a URL is a record, an address a range, and a group of variables
the set of those that are given; empty values are told from missing ones only where
the code does (`DATABASE_URL`, `VAULT_TOKEN`).

## Runs

| Run | Shows | Bounds |
|---|---|---|
| `resume_lock` | mutual exclusion, entry lifetime, safe double release, refinement of ResumeMutex, every waiter served | 3 requests, 2 threads, 2 cleanup paths: a holder, a waiter and a latecomer, and both paths racing |
| `agent_gate` | gate, owner, refinement of ApprovalGate, revocation | 2 approvals by an owner, a stranger or nobody on one worker; plans with none, a read, a read and two sends; one policy edit |
| `agent_faults` | truthful results, a truthful and complete ledger (`LedgerFaithful`), one repetition per crash or error (`OncePerFault`), one resume per pause, requests answered and resumed turns ended (`TurnsEnd`) | 2 approvals, 2 crashes, 1 error on one worker: enough for a crash or an outage after the effect, a re-run and another crash |
| `agent_double_resume` | *violated*: two workers perform one action twice without any crash | 2 workers, 2 approvals |
| `stream` | the lease covers the run, events in order and none lost, no false or missing end (`EndReported`), what may stop a run; runs drained, leases freed, streams ended (`StreamEnds`) | 2 streamed approvals of 3 chunks over a buffer of 1, or 1 chat that pauses, completes or is empty; an error, a disconnect and a timeout |
| `stream_disconnect` | *violated*: after a disconnect the lease is released under the running graph | 2 approvals, 1 disconnect |
| `audit_chain` | chain intact, tail stable, acknowledged means stored once, tampering detected, every append ends | 4 writers in 2 processes, pool of 2 for three of them, 3 events: a chain whose first, inner and last record can be tampered with |
| `knowledge` | answers hold what their authors meant for the reader, SQL and `can_read` agree, vectors belong to their text, an acknowledged ingest is stored and equals the reference store, every ingest and backfill ends | 5 documents: one stored before, two later versions of it for different readers, and the notes of two people whose joined ids are equal, with entities in opposite orders; 2 ingest calls, 1 event (policy edit, worker start or failure) |
| `knowledge_nested` | *violated*: replacing the extraction of `wiki` deletes the chunks of `wiki:entity:x` | a document, a later version of it and one of source `wiki:entity:x`; 2 ingest calls |
| `knowledge_mixture` | *violated*: two overlapping extractions of one source leave a mixture | 2 ingest calls |
| `service` | the stored account is its owner's, revocations and rotations are kept, egress stays contained, a budget per caller, durability agrees, every request ends | about 2700 environments booted, requests in 5 of them; 3 principals, 2 slots, 4 requests, 2 connects, 2 consents, 1 event |
| `settings_blank` | *violated*: with an empty `DATABASE_URL` the deployment's senders are live over an audit log in memory | the environments of `service` |

Three runs restrict the next-state relation in their MC modules. `MCKnowledge`: a query or a
backfill runs while at most one ingest does, and not both at once, since two overlapping
ingests are interesting for what they store and how they wait, a query or a backfill for
what one of them changes under it; and an answer is consumed at once, because nothing else
reads it. `MCService`: environments outside
`Busy` are only booted; a request that would change nothing but the counter of requests
is left out (`Matters`); slots are taken in order (`FirstFree`), as they differ only by
name. `MCStreamLifecycle`: a chat runs without approvals beside it (`ChatAlone`), since a
fresh thread has nothing to approve until the chat has paused. Two slots suffice for
a refresh against a revocation, a reconnection or another refresh; four requests for
connect, callback, and two of those. With two events `service` has 447,907 states and
passed as well, in about five minutes; the run has one.

Some properties name the ways in which the code does not keep a stronger promise, so that
everything else is checked. `RevokedStaysRevoked`: a refresh that read the credential
before it was revoked stores it again. `RotationKept`: the provider's answer or the vault's
write is lost after the provider has replaced the token. `EmbeddingFresh`: an upsert whose
embedding failed keeps the vector of the old text, and a backfill overtaken by an upsert
writes one. `AckedIngestStored`: an extraction also deletes rows of other sources under its
prefix, and two overlapping extractions of one source leave a mixture; `knowledge_nested`
and `knowledge_mixture` show that this contradicts what the interface promises.
`TamperEvident`: a chain whose newest records are gone verifies, since nothing keeps its
length, although `verify_chain` (`audit.py:127`) claims to detect deleted records.
`FilterParity`: a role that was granted a user's identity entry sees that user's rows in
SQL, which `can_read` then removes. `BudgetPerCaller`: the limiter fails open.
`AnswersIsolated` holds although the ids of two people may be equal (`alice` with source
`b:log`, `alice:b` with `log`; `ingestion.py:255` says they never collide): the later ingest
replaces the row of the earlier, text and readers together, so a note may get lost but
is not shown to the wrong person.

The two named principals are symmetric in `agent_gate`; no other run uses
symmetry, since most check liveness too. Deadlock checking is off where the
system may stop: when every request has been answered and nobody sends another.

The five violated properties state what a comment or document of the
repository says; `PROJECT.json` quotes each under `findings`. `execution.py`
itself declares concurrent executors out of scope, so the first one is a
disagreement between two documents that the code decides in favour of
`execution.py`. `stream_disconnect` means that what AgentTurn shows of one worker
under its resume lock (`PauseConsumedOnce`, `ExecutedIsFinal`)
holds for `/approve`, and for `/approve/stream` only while the client stays;
what is proved of the ledger without a common lock (`LedgerFaithfulHolds`) holds in any
case.

### Fairness

`ResumeLock!Fairness` and `AgentTurn!FairSpec`: a server thread that can take its
next step takes it, and the checkpointer writes what it was given. The lock needs
no strong fairness because requests are finite and each acquires once. Clients,
administrators, crashes and errors owe nothing. `PostgresAuditLog!Fairness`: the
pool and PostgreSQL's lock manager queue their waiters, hence strong fairness of
`Connect` and `TakeLock`; a statement that can run does. Failures may happen at
any time and never have to. `StreamLifecycle!Fairness`: the event loop runs every
task that can run, a node ends, an abandoned generator is collected, and a write
ends because `send_timeout` bounds it. `Knowledge!Fairness`: some
ingest that has begun and can go on does, where PostgreSQL grants a lock when its holder is
gone and looks for circles of waiting transactions, and a backfill goes on; queries and edits
owe nothing. Two notes that insert the same keys in opposite orders do wait in a circle
in `knowledge`, and `IngestEnds` holds because the one rolled back goes on to its audit entry
and the other gets its keys. `Service!Fairness`: a
request goes on, since every call that leaves the process has a timeout.

## Proofs

`ResumeLockProofs` proves, for every set of requests (finite), threads and
cleanup paths: `TypeOK`, `MutualExclusion`, `OwnerSafe`, `EntryKept`, `NoLeak`,
`RefCount`, and that ResumeLock implements ResumeMutex. Mutual exclusion is not
inductive: two requests on one thread exclude each other only because they wait
on the same entry, which is so because the entry is not deleted while anyone is
counted in, which needs the count to be exact. `IndInv` is that chain:
`Arrived` and `MapThread` tie entries to threads, `OneClaim` says that at most
one cleanup path is past the claim, `OneOwner` that a lock has one owner from
`Lock` to `Unlock`, and `EntryKept`, `RefCount` and `NoLeak` are the bookkeeping.
The refinement maps the holder of a thread to the lease whose release is not
claimed.

`PostgresAuditLogProofs` proves, for every set of writers, processes, events and
every pool size: `ChainIntact`, `TailStable` and `AckedStored`. The argument: a
writer past `TakeLock` holds the advisory lock (`LockHeld`), so nobody commits
between its `ReadTail` and its `Commit` (`TailStable`), so its row is the `link`
of the current tail and extends a chain that verifies (`LinkExtends`); an event
under way is in no row and with no other writer (`Recorded`). `TamperEvident` follows for
chains of any length. A hash is the term of its input, and no event is recorded twice, so
the hashes of two records of a chain differ (`HashesApart`); each kind of tampering then
leaves a record whose `prev_hash` is not the hash before it, or whose hash is not that of
its content. `GenesisNoHash` is the one assumption: 64 zeros are the hash of no first event.

`AgentTurnProofs` proves, for every set of requests, workers, principals, actions,
plans and decisions and every number of crashes, errors and policy edits:
`TypeOK`, `OnlyOwnerDecides`, `ApprovedBeforeEffect`, and that AgentTurn implements
ApprovalGate. None of them follows from the executor's check alone, since it
reads a copy of a checkpoint that another process may have written. `GateInv`
carries what makes every copy trustworthy. `FreshInv`: before the chat there is
nothing to resume, so the owner is set once. `CheckpointInv`: a thread never falls
back behind its planner, so the planner runs only in the chat. `CallerInv`: past
the gate the caller is the owner, even when the snapshot the gate read is stale.
`KnownInv`: whatever a durable, unsaved or running copy of the state calls
approved is on the ledger with the owner's name, and what it calls proposed is on
the ledger too. `ToolInv`: an action between its check and its provider call is in
the approvals of its run's copy if it is gated. `OnlyGatedDecided` rules out an
approval of an action that needs none, which the refinement would otherwise see as
a step of its own. The refinement then has one lemma per kind of step: planner,
decision and provider call move one action by one stage, everything else none.

`AgentLedgerProofs` proves, under the same constants and without any assumption about
how requests are spread over workers, `RevocationStops`, `ResultsTruthful` and
`LedgerFaithful`. Each step's effect on ledger and provider is a lemma (`Grows`: nothing
is taken back; `Quiet`: no execution is recorded). `SoundInv` says of the durable
checkpoint, of every checkpoint still to be saved and of every running copy that its
successful results stand for effects and that each of its actions has an outcome or is
still in the executor's loop. It must speak of them all, since any of them may be
saved last or be resumed after a crash. `LedgerFaithful` counts, and is not inductive: a
call has taken effect before it is recorded. `CountInv` adds the performances not yet
recorded to those on the ledger.

`AgentOnceProofs` proves `ExecutedIsFinal`, `PauseConsumedOnce` and `OncePerFault` under the
hypothesis `OneProcess`: the requests of a thread are served by one process, the scope
`resume_lock.py` states for its lock (and `agent_double_resume` shows why it is needed).
`OncePerFault` also has `FreshIds`, that a plan names no action twice, which holds since
`_new_action_id` draws a uuid. Both are true of the instances the runs check. `LockInv`:
a request between gate and release holds the lock, so there is one at a time.
`FinalInv` adds that a chat executes reads only and that what the replay check read is
still so at the call. `ThreadInv`, which needs no hypothesis, is about checkpoints that
become durable late: a request only ever saves a node behind the gate, so a flush
never takes a thread back to its pause. `PauseInv` then counts the requests let past
against crashes and errors, and says that the pause is consumed when the count is at
its limit. `OnceInv` ties every effect of an action to a request of its own that was let
past the gate and has no call of the action ahead of it (`Through`): a call puts its
request among them, since no loop has an action twice (`DistinctInv`). So there are no more
effects than requests let past, which `PauseInv` bounds by one plus the crashes and
errors. Both count: a crash loses a checkpoint that was still to be saved, and so does an
outage that also keeps the EXECUTED entry from the ledger; either way the thread is at its
pause again, with the effect done and nothing that says so.

`StreamLifecycleProofs` proves `LeaseCoversRun`, `EndReported` and `OnlyTeardownKills`
for every number of streams, turns, buffer sizes and faults. `LeaseInv` ties the actors
to each other: the generator of a connected client is finished only when its
producer is, the response is over only when its generator is, so the two release
paths that do not belong to the producer come after it; and a worker thread nobody
waits for exists only after a disconnect. `EndOf` says what the client has been told at
each place of the generator and what the generator may conclude there of the
producer. `KillOf` says how much of the run is left when the generator awaits the
producer, the only place where a cancellation of the one reaches the other; it rests on
`InterruptLast`, that an interrupt is the last chunk of a run. `EventsFaithful` is also
proved for runs of any length. It says that there is an order-preserving map from the
events shown onto those among the first `n` chunks of the run. `PipeInv` names `n`, the chunks the
generator has taken: while it listens, buffer, producer's hand and what the graph has
left are the rest of the run in order (`Piped`); once it stops listening `n` stays, and
it is the whole run when the generator goes on to report a completion or a pause.

`KnowledgeProofs` proves, for every set of documents, policies, principals, chunk sizes
and caps: `TypeOK`, `FilterParity`, `AnswersIsolated`, `EmbeddingFresh` and
`AckedIngestStored`. `KInv` says that
every row carries the readers its last document has by construction, through
re-ingestion, extraction, backfill and rollback, and that a query under way holds such
rows only; isolation then follows because the last step of a query evaluates
`can_read` under the policy of that moment. The assumptions are that what an author
passes as acl are permissions (`DocAcls`), that what was stored before the start was
accepted and not empty (`PriorAccepted`), that `None` is no acl, and that lengths, limits,
windows and caps are numbers (an overlap is smaller than its window, as `chunk_text`
requires).

`AckedIngestStored` needs three arguments more. `WindowsCover`: every position of a text is in a
window, namely in the first that reaches it, which exists because the numbers are well
ordered; for this `chunk_text` is given as a function in closed form, and the entities and
edges kept of an extraction as sets. The prefix lemmas (`PrefixesMeet`, `PrefixOfChunk`,
`EntityApart`, `ChunkApart`, `EdgeApart`) say what joined ids do and do not tell apart: two sources
neither of which lies under the prefix of the other (`Lone`) share no extracted entity
and no edge, and no chunk of theirs is under either prefix; of others nothing of the kind
is true. `AckInv` is the invariant of the tables. `CallsOk`: the chunks come one after the other
and go only by a `DELETE` under whose prefix they fall (`Covered`); what a `DELETE` found or
locked is under the prefix of its source (`Claims`); and a transaction that is alone on a
lone source has found every row of it, and its `INSERT`s all insert (`Thorough`). `Apart`:
transactions of one source are open together only if the source is in `overlapped`.
`Latest` and `Whole`: all entities of the last extraction committed are there, whatever ran beside
it. `Exact`: of a lone source that is not in `overlapped` the tables hold that
extraction and nothing else. Ids are assumed to be sequences of strings, and a proposed
name to have a key that is not empty (`IdSegments`, `NameKeys`); nothing is assumed of
which ids are equal.

`ServiceProofs` proves all six safety properties of Service for every set of people,
browsers, accounts, slots, environments and schemas: `BoundAccount`, `RevokedStaysRevoked`,
`RotationKept`, `EgressContained`, `BudgetPerCaller` and `DurabilityAgrees`. `BaseInv` says what
the requests under way and the vault are made of: a callback acts for the principal of
its state, a call for the principal whose credential it read. On it rests one
invariant per property: `Overtaken` (a refresh of a credential revoked since is known
to be overtaken), `Reached` (where a request has gone), `Counted` (the window holds what
each caller asked for), `Durable` (who was acknowledged is in a durable vault), and
`TokenInv`, the longest: two holders of a refresh token hold it for one key, none of
them is the fresh one, and what is about to be stored is accepted by the provider. The
assumptions `PeopleRecords`, `AddressRecords` and `ConfigFields` say that principals,
addresses and configurations have the fields the code gives them.

Every safety property a passing run checks is proved. Only model-checked is liveness
(`WaiterServed`, `TurnsEnd`, `AppendEnds`, `StreamEnds`, `IngestEnds`, `RequestEnds`), which rests
on fairness and is out of the prover's reach. The type invariants of ResumeLock, AgentTurn,
PostgresAuditLog and Knowledge are proved; those of StreamLifecycle and Service are
part of the inductive invariants. The models of the runs that find a violation have no
theorem beyond what they share with the others.

## Not modelled

- `governance/confidence.py`: a floating-point score without state, on which no action depends.
- LLM, embedding and extraction clients, and the providers' request and answer bodies:
  text and I/O; that they fail or what they choose is a choice of the models.
- Cryptography (HMAC of states, JWT verification, key fetching): taken as unforgeable.
- The in-memory audit log: the log of a process without a database. It appends without a
  lock, so two server threads may fork its chain, which `audit.py:154` rules out; only the
  Postgres log is relied on.
- Seeding of an empty policy table and its drift warning; the checkpoint serializer;
  `GET /threads` and the other reads that change nothing.
- `evals/`, `demo` and deployment scripts.

## What could come next

1. The hazards of `PROJECT.json` that no property covers: a checkpoint left at a node that
   no request resumes, the rows that a shorter version or a failed extraction leaves
   behind, a revocation overtaken by a refresh, and vectors of an older text. They need a
   decision about what the code should promise before they can be stated. So does a hybrid
   search without full-text rows, which finds nothing although near vectors were read.
2. `AckedIngestStored` of nested sources, and of those whose extractions overlapped: which
   rows may remain.
3. A closer model of the checkpoint's durability under a streamed approval, shared by
   AgentTurn and StreamLifecycle.
