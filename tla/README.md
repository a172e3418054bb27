# A specification of CausalAgent

CausalAgent lets a user ask for a causal analysis of an uploaded table. A web
process (Flask) writes the request as a *job* into MySQL, a pool of agent
workers claims jobs under a lease and runs a LangGraph agent whose checkpoints
live in PostgreSQL, the agent calls algorithms in a separate MCP service, and
the browser follows the job over server-sent events. Beside that, the web
process evaluates and publishes the knowledge base the agent retrieves from,
and administrators change accounts and files.

These modules model the protocol of all that: what happens to a job between the
click and the last event the browser shows, under crashes, lost leases, retries,
questions, cancellations and broken connections; which file and which
parameters an analysis is about while nodes are retried and taken over; how an
algorithm call travels to its process and back; what a deletion leaves to be
cleaned up; how evaluation runs and releases change hands; and what concurrent
administrators may do to one another.

Source paths are relative to `src/`.

## 1. Inventory

| component | state it keeps | operations | hard behaviour | module |
|---|---|---|---|---|
| **Analysis job lifecycle** `app/agent/job_service.py`, `checkpoint_recovery.py` | `analysis_jobs`, `analysis_job_inputs`, `analysis_job_events`, `chat_messages` (MySQL) | create, claim, stale recovery, exhaustion, interrupt repair, write event, complete, fail, resume, cancel, release, reap | leases lost while work goes on; two databases; idempotent replays; one active job per session | `JobLifecycle` |
| **Worker slot execution** `app/agent/worker/{execution,graph_runner,event_writer,execution_guard,bootstrap}.py` | a slot's invocation, its guard, its heartbeat task, its event writer | claim loop, guard check, graph step, emit, clean-up, shutdown | state read before an `await` and used after it; crash at any point; unfenced PostgreSQL writes | `JobLifecycle` |
| **Job API and event stream** `app/agent/routes.py`, `public_events.py` | an SSE generator per connection | create / resume / cancel routes, the stream | events and status are two queries; pages; reconnection | `EventStream` |
| **Chat client's job subscription** `chat-frontend/src/runtime/jobs`, `stores/jobs.store.ts` | `JobRecord` (uiState, cursor, cancel call), transport | send, answer, cancel, subscribe, reconnect | replies racing with the stream; replayed interrupts; bounded retries; a second tab | `EventStream` |
| **Causal graph agent, analysis contexts** `Agent/causal_agent`, `Database/analysis_contexts.py` | `analysis_contexts`, the session's active context, the job's binding, the graph's state | route, switch, fold, preprocess, deep agent, gate, report | nodes replayed, retried and timed out while their transaction goes on; four records of one choice | `AnalysisGraph` |
| Deep agent `Agent/deep_agent*` | its own thread, results, decision | tools, decision, finalization gate | results of several leases in one thread | `AnalysisGraph` (results and decision) |
| **MCP client pool** `app/agent/worker/mcp_client_pool.py` | clients, places in flight, generations | acquire, release, reconnect | pools at their limit; a call keeps an old client | `McpClientPool` |
| **MCP algorithm calls** `Agent/deep_agent_tools/mcp_algorithm_executor.py`, `Agent/CausalAgentMCP` | invocations, handles, semaphores, processes | execute, retry, cancel, disconnect | retries of what is running; cancellation; restart forgets | `McpCalls` |
| **Cleanup outboxes** `app/agent/persistence_cleanup.py`, `Database/agent_persistence_cleanup_worker.py`, `Database/lifecycle_repair.py` | two outbox tables, `admin_operations`, PostgreSQL threads | enqueue, claim, mark, expire, repair | lease expiry, partial deletes, late writers | `CleanupOutbox` |
| Chat sessions `app/chat` | `sessions`, `chat_messages` | create, rename, delete | deletion against active jobs | `CleanupOutbox` (deletion) |
| **Administration** `app/admin/write_service.py` | `users`, `user_roles`, `admin_operations`, audit | set active, role, password, delete user, delete file | row locks one by one, deadlocks, lost replies, last administrator | `AdminWrites` |
| **Uploaded files** `app/files/routes.py` | `user_files`, `file_objects` | upload, delete | shared content-addressed objects, files in use | `AdminWrites`, `AnalysisGraph` |
| Authentication `app/auth` | `users.auth_version`, cookies | login, guard, promotion | a login that has read an old row | `AdminWrites` |
| **RAG evaluation queue** `app/rag_eval` | `rag_eval_jobs`, one `run.json` per run | start, claim, execute, cancel, reconcile, read, delete | each run is kept twice; two heartbeats; capacity | `RagEvalRuns` |
| **Knowledge-base releases** `Agent/knowledge_base/multimodal/release.py`, `rag_runtime.py` | the pointer file, release directories | seal, publish, roll back, recover, open | crash between copy and switch; use after removal | `ReleasePointer` |
| Post-processing, dependency planner `Agent/Postprocessing` | none | cycle repair, edge evaluation | termination | - |
| Database access and monitoring `app/db.py`, `Database/monitor*.py` | pools, snapshots | routing of reads | observation only | - |
| Index building and retrieval `Agent/knowledge_base` | indexes | build, query | data processing | - |
| Migrations, front-end pages, Windows client | - | - | - | - |

How they interact. The routes and the workers share nothing but MySQL rows;
every transaction of `job_service` locks the job's row first, so it is atomic
with respect to the others. Workers and the claim's recovery share the
PostgreSQL checkpoint of the job's thread, which nothing fences. The browser
sees only the row's status and the event log, through separate queries. A graph
node changes contexts in a MySQL transaction that is fenced by the job's lease.
The worker's executor and the MCP service share no state but the job's lease,
which the service reads three times. A deletion (of a session or of a user)
commits its rows and one outbox row per thread and memory in one transaction;
the cleanup workers delete the PostgreSQL data later. A RAG run's row and its
file are written by the web process and by the worker, never in one step. Web
requests, the maintenance CLI and the agent workers share the release pointer
under a file lock that covers the switch only.

What makes the system correct, and where it is stated:

* jobs: a session has one unfinished job (`OneActiveJobPerSession`), every claim
  is accounted for (`ClaimsAccountedFor`), stale workers are fenced
  (`EventsInLeaseOrder`), a log is closed by the one event its status names
  (`TerminalClosesLog`), questions are published before they can be answered
  (`AnswersWereAsked`), replays do not repeat themselves in the chat
  (`ChatMirrorsLedgers`), a client cannot tell a recovered job from one that ran
  once (`KeepsContract`), jobs and draining occupations end (`JobSettles`,
  `DrainingEnds`);
* the client: no event is skipped or repeated (`NoEventSkipped`), what it shows
  is true (`ShownEndIsReal`, `NoStaleQuestion`), it gives up only with a reason
  (`ErrorNeedsLongLog`) and does not wait for ever (`SubscriptionEnds`);
* analyses: state, row and contexts name the same file and parameters
  (`StateFollowsRow`), results land where they were computed
  (`RecordedWhereComputed`), accepted conclusions are recorded (`AcceptedIsRecorded`);
* algorithm calls: one attempt at a time (`OneAttemptPerInvocation`), who is told
  canceled is told when the process is gone, three leftovers excepted by name
  (`CanceledIsStopped`), and the service runs no later attempt (`CanceledStaysCanceled`); every
  permit is accounted for, those granted to a coroutine just cancelled as lost
  (`CapacityKept`); no call on a closed client (`CallsOnLiveClients`), no answer
  taken that came after the lease was lost (`LateAnswersAreDropped`);
* deletions: what is left is still registered (`NothingOrphaned`), the living are
  spared (`SparesTheLiving`), the administrator is told the truth
  (`OperationTracksItems`) and in the end something (`OperationEnds`);
* evaluation runs: nothing runs twice (`NeverRerun`), limits hold
  (`KindsWithinLimit`), lost and canceled results are discarded
  (`NoFencedSuccess`), rows end once (`RowsEndOnce`) and do end (`RowsSettle`);
* releases: the pointer's release is whole (`PointerResolves`), a worker's
  release outlives the next switch (`ServedReleaseStays`), what is published has
  passed its gate (`PublishedAsGated`);
* administration: an administrator remains (`AdminRemains`), an operation is done
  once (`AppliedOnce`), by whom may do it at that moment (`ChangesAreAuthorised`), old
  passwords open no session (`LiveSessionsAreProved`), contents, files, owners and
  jobs fit together (`LibraryIsWhole`).

## 2. Modules

```
JobContract            what the API promises of one job: status + public log
   ^        ^
   |        +--------- EventStream           EXTENDS it: a browser follows a job
   | refinement            ^-- MCEventStream
   |                       ^-- EventStreamProofs
JobLifecycle           the jobs in MySQL/PostgreSQL and the worker slots
   ^-- MCJobLifecycle
   ^-- JobLifecycleProofs   types, safety, the chat, and: it implements JobContract
CleanupOutbox          deletions, the cleanup outboxes and the cleaners
   ^-- MCCleanupOutbox
   ^-- CleanupProofs
AnalysisGraph          the jobs of a session in the graph, and its contexts
   ^-- MCAnalysisGraph
   ^-- GraphProofs
McpClientPool          the worker's MCP clients
   ^-- McpCalls             EXTENDS it: algorithm calls to the service and back
         ^-- MCMcp
         ^-- McpProofs
RagEvalRuns            evaluation runs: files, queue, slots, requests
   ^-- MCRagEvalRuns
   ^-- RagEvalProofs
ReleasePointer         releases of the knowledge base
   ^-- MCReleasePointer
   ^-- ReleaseProofs
AdminWrites            accounts, logins, files, row lock by row lock
   ^-- MCAdminWrites
   ^-- AdminProofs
```

Each component has its model, a module that instantiates it for TLC and a module of
theorems about it. The proofs only use the model and the standard library.

The modules after `CleanupOutbox` take from the job protocol what they need:
a job of `AnalysisGraph` is a status, a lease counter and a binding, one of
`McpCalls` a lease that may be lost, one of `AdminWrites` a file that is in use.

### JobLifecycle

| variable | code |
|---|---|
| `job` | `analysis_jobs` row of each job. `epoch` stands for both `attempt_count` and `lease_epoch`: both start at 0 and only `claim_next_job` increments them, together. `heartbeat` is the age class of `heartbeat_at`: `fresh`, `stale` (`JOB_STALE_AFTER_SECONDS`), `expired` (`JOB_DRAINING_STALE_AFTER_SECONDS`). |
| `inputs`, `events`, `chat` | the input ledger, the event log in id order, the chat messages of the job |
| `ckpt`, `pgUp` | the root thread's latest checkpoint (external: LangGraph) and whether PostgreSQL answers |
| `slot` | a slot's memory: which lease it holds, how far the invocation is, `JobExecutionGuard.revoked`, whether its heartbeat task still loops |

Actions, one per transaction or per stretch of worker code between two
suspension points: `Create`, `Resume`, `Cancel` (routes); `Claim` - the whole of
`claim_next_job`: reaping, one exhausted job, one claim, with the repair of
unanswered interrupts - and `ClaimRaises`; `Start`, `Inspect`, `NodeStart`,
`NodeCommit`, `Emit`, `WriteProgress`, `Complete`, `Fail`, `Release` (a slot runs a job);
`Heartbeat`, `Age`, `Abandon`, `Crash`, `Restart`, `PgToggle` (time and failure).
The guard check (`ensure_active`) and the write it protects are different
actions, so a lease can be lost between them; only the fence inside the MySQL
transaction (`HasAuthority`) is atomic with the write.

Abstractions. Payloads are reduced to what idempotency compares: the question
and the writer's attempt. A replayed idempotency key returns the stored result
and changes nothing, so it is a stutter; a refused request likewise. Which row
`ORDER BY ... SKIP LOCKED` picks within a class is left open. An interrupt's id
is its position along the checkpoint lineage, because LangGraph derives it from
the checkpoint it is raised from. `complete_job`'s implicit success for a graph
that ends without a result is unreachable from `_run_job` and left out. `heartbeat_at` of
finished rows is written but never read and is not kept.

`LeftToRightSet` says how `UPDATE ... SET` reads a column that the same
statement has already assigned. `TRUE` is MySQL's single-table UPDATE, `FALSE` is
what `cancel_job`'s statement is written for. The runs about the deployed
system's safety use `TRUE`; those about draining use `FALSE`, since with `TRUE`
nothing ever drains.

### JobContract

One job as a client sees it: a status and the public events. It has no leases,
attempts or workers. `JobLifecycle` defines `Contract(j)`, an instance for every
job whose `log` is the job's events with the attempt removed, and
`KeepsContract`, which says that all of them are behaviours of the contract.

### EventStream

Extends the contract with one browser tab and one connection at a time (a new
subscription aborts the old one). `server` is the generator of
`stream_analysis_job_events`, stopped between its event query (`Read`), each
yield (`Send`) and its status query (`Check`). `wire` is what it has sent and
the client has not read. `transport` is `JobSseTransport.stream` with its
attempts. `record` is the `JobRecord`: uiState, last known backend status,
cursor and the cancel call in flight, whose commit (`CommitCancel`), reply
(`CancelReply`) and loss (`LoseCancel`, `CancelGivenUp`) are separate steps. A
second tab answers and cancels as well, at most `MaxOthers` times.
Event ids are log positions. The replies of create and resume arrive with the
commit: until the client has one, it has no subscription whose behaviour could
differ. The heartbeat comment events, the rendering, a reload of the page and the loading
of a session are not modelled.

### CleanupOutbox

| variable | code |
|---|---|
| `sessions`, `users`, `job` | the rows a deletion removes. A job is reduced to what a deletion asks of it: unfinished, finished, or deleted, whether a slot occupies it, and (a history variable) whether some slot lost it while it may still run (`outlived`) |
| `item` | the rows of `checkpoint_cleanup_outbox` (a task is a job) and `user_memory_cleanup_outbox` (a task is a user); `due` stands for `available_at <= now`, `lease` for `lease_expires_at` |
| `operation` | `admin_operations` of the `user.delete` of each user |
| `thread`, `memory` | PostgreSQL: the root ("parent") and the deep agent's ("child") thread of a job, the users that have a memory |
| `cleaner` | a cleanup process: the claimed task and how far it is |

`DeleteSession` and `DeleteUser` are the two deletions of the code; each is one
MySQL transaction, and so are `Claim` (with `_release_expired_leases` and the
recount of the operations it touches), `MarkSucceeded`, `MarkFailed` and
`Repair`. `DeleteParent`, `DeleteChild` and `PurgeMemory` are calls to
PostgreSQL, each an action that may also fail. A cleaner may be unable to
report, or die and be started again, at any of these points (`Restart`).
`Take`, `Wait`, `Finish`, `Cancel` and `Release` are what `JobLifecycle` does to a job, as
far as a deletion sees it; `Cancel` depends on `LeftToRightSet` as it does there.

Abstractions. The workers' ids and lease times are not kept: `mark_cleanup_*`
compare neither, only the row's status. Backoff is `due` becoming true later.
`SKIP LOCKED` may pass over rows, so any due row may be claimed, and the turn the
cleaner takes between the two tables (`_claim_rotation`) is left open. That
`delete_session` reads its jobs and removes them atomically rests on InnoDB's
locking reads (the gap locks of REPEATABLE READ), and `delete_user` on the lock of the
user's row; the model takes both as one action. The branch of `_enqueue` for a row that exists
is translated, although no caller reaches it: each task is registered once,
by the transaction that removes its owner.

### AnalysisGraph

The jobs of one chat session, one after the other, in the graph of
`build_deep_agent_parent_graph`.

| variable | code |
|---|---|
| `contexts`, `active` | the session's `analysis_contexts` by age, and `active_analysis_context_id` |
| `library`, `job` | the user's files; the row of the latest job: its file, its bound context, its lease |
| `graph` | the saved state: the next node, context, file, parameters, results, decision, the gate's verdict and its retries |
| `child` | the results in the deep agent's own thread, each with the lease that computed it |
| `run` | the invocation in memory: before, in, or after the node's transaction |
| `pending`, `late`, `timeouts` | a transaction whose node has timed out, and whether one was committed under a lease that still held |

A node is entered, calls MySQL and leaves in three steps, so that the lease can
be lost, the node retried (`RetryPolicy`) and the thread of a timed-out node go on
between them. `CreateJob`, `JobIsLost`, `TakeOver`, `Resume`, `DeleteFile` come
from the job's life; `NodeStep` is one step of the node at hand, with the fence
of `_lock_running_job` in its transaction; `LateCommit` is the abandoned thread.

Abstractions. A state is saved with the node's end (LangGraph saves it before the
next node; its asynchronous durability may lag by one step, which is a replay
the model has by other means). Every context may be chosen by its file and
parameters, where the code lists the 8 or 20 newest and takes the newest match.
Of several results, assessments and references the gate sees only whether they
fit (`fits`). The identity of a frozen input is that of the row's file. What a
job leaves when it ends is one transaction. Lease numbers count all jobs of the session. The
older `build_graph` with its tool subgraphs is not modelled, nor is the branch of
the failed analysis, which no path of this graph reaches. The commit of a late transaction of the *same*
lease is not fenced by the code; `late` records it and the properties except
these behaviours.

### McpClientPool and McpCalls

`client` is the sequence of all client objects ever made, `current` the one each
member has, `call` the coroutine of each caller with the client object it holds:
`Acquire`, `Answer`, `CallFails`, `GetsLock`, and the reconnection that drains,
stops and replaces a client. Round robin is any least-loaded client.

`McpCalls` puts the executor on top (`exec`: attempts with one invocation id,
revocation, remote cancel) and the service below: a request (`req`, per
invocation and retry) passes three reads of the job's lease, registers a handle,
passes semaphores and runs in a process of its own. `handle`, `terminal` and
`cancelSet` are the `BoundedProcessPool`'s dictionaries, `free` its semaphores, `cancelReq`
the cancel call. `proc` is the process of each request. It has a life of its own: it
gives a value or an exception (`Computes`) and exits later (`Exits`), a thread
may be stopping it, and it may outlive its request, because a runner raised, or the
coroutine was cancelled while it waited for the join or for the stop. `Confirm` and
`Accept` are the two sides of the `await` behind `check_after_call`: a thread has read the
lease, the coroutine takes the answer; between them the lease may be lost, also noticed
to be. `exec.late` remembers whether the answer came after the loss.
Requests may arrive late, connections break, the service restart and
forget, a coroutine be cancelled with a permit just granted (`lostPermits`:
the permit that asyncio hands to a waiter which never sees it).

Abstractions. The code has three semaphores, the run two: the middle one adds the
same step again. Of `TakesLock`, the branch that finds a newer client behind the lock is
translated, although a member's object keeps its generation, so it is not
reached. Giving up a call (`AbandonCall`) is one step: the bounded wait for its end is not cut
short by a second cancellation of the caller. Signatures and identity checks always match. `recycle()` and `close()`
of the pools and the results' payloads are not modelled.

### RagEvalRuns

| variable | code |
|---|---|
| `file` | `run.json` of each run; each read-modify-write holds the run's file lock and is one action. `quiet` is the age of its last activity |
| `sql` | `rag_eval_jobs`; `stale` is the age of `heartbeat_at` |
| `slot`, `beat` | a slot thread of the one worker process in `_run_slot`, and the heartbeat thread of its run |
| `claimLock` | the named lock `rag_eval_job_claim` |
| `web` | the web requests in progress |
| `source` | the uploaded source exists |

The starts of the six kinds of runs, the import of a candidate, `Cancel`, `Read` (which
fails runs without activity), three deletions and `DeleteSource` are the web's;
`SlotStep` is the worker: sweep of stale rows, count, claim, execute (one of the
executors, from `begin` to `ended`), complete or fail, realign the file. Between any two of
them other requests come. `Crash` kills the worker process, `ThreadDies` one
thread, and `DatabaseFails` has a statement of `_run_one` raise, before or after its
commit: the end of the row, the look at the row for the file, the last `fail_job`. An executor is reduced to its first status, whether it looks for a
cancellation, its last status, and raising: what it computes is data. A database
error while the worker polls a candidate's forked child (`worker.py:110`), which leaves
the child running, is not modelled.

### ReleasePointer

`pointer` (generation, active, fallback), `dir` (the release directories),
`staged` (candidates with their evaluation binding), `lock` (`.release.lock`), `job` (a
publication or rollback), `worker` (an agent worker that resolves, recovers,
opens). `SealReads` to `Leave` publish: seal, write the binding, verify, copy to `.incoming`,
then under the lock check, move, switch and clean up. A crash frees the lock and leaves
what it leaves. `hurt` says of each release whether its directory was damaged from outside or
removed by halves (`hurt`) and whether a later copy made it whole again (`mended`): the
properties except a release only while it is, or since it was, damaged itself, never all of them.
`enforce_production_policy` is not modelled: it compares fields of the manifest that
no step changes with the deployed configuration, and every publication has demanded the same, so it
can refuse only after a deployment with another configuration.

### AdminWrites

A request (`req`) is a call that reads, then locks rows one by one in the code's
order and sees at each statement what is committed (READ COMMITTED); `lock` is
who holds which row. `Look` and `Prove` read before the transaction (replayed
keys, the reauthentication), the phases `actor` ... `count` lock, `write` is the rest
of the transaction with its commit. Two calls that wait for one another: InnoDB
rolls one back, or its wait times out (`GiveUp`); a connection breaks before or after the
commit (`Broken`); `Retry` sends the same body with the same key. `users`,
`files`, `objects`, `job`, `ops`, `audit` are the tables; `cookie` and `login` the browser's
session and a login between its read and its cookie. `job` has, per user, the
jobs that are unfinished or still draining, each with its file; deleting a user
leaves it as it is, so a deletion under a job would show. A running job turns to another file
(`Refreeze`: `_refreeze_job_input`, one step under the locks of the session, the file and
the content), is canceled and drains (`JobDrains`, with the intended UPDATE; at most one
drains per user), and ends (`JobEnds`).

Abstractions. A password is the count of its changes. The files of a user share
one content, each user has one session. `user_roles` changes with `users.role`. The statuses of an
operation after its commit belong to `CleanupOutbox`. Gap locks, registration,
logout, cookies issued before `auth_version` existed, previews and monitoring
settings are not modelled.

## 3. Runs

| run | question | bounds |
|---|---|---|
| `jobs_core` | do the job's safety invariants and the refinement hold, also with PostgreSQL outages? | 1 job, 2 slots, 2 attempts, 1 question, 3 inputs, 1 progress event |
| `jobs_live` | one unfinished job per session? does every job settle and every draining end? | 2 jobs of a session, 1 slot, 1 attempt, 1 question, 2 inputs, the intended UPDATE |
| `jobs_cancel_drain` | with MySQL's UPDATE, does a canceled job stay occupied? **violated** | 1 job, 1 slot |
| `jobs_repair_conflict` | is the repair of an interrupt idempotent? **violated** | 1 job, 1 slot, 1 question |
| `stream_client` | does a browser see the job as it is, and does its subscription end? | 2 questions, pages of 2, 2 reconnections, log of 4 + questions + end, 1 failure, 2 calls of another tab |
| `agent_graph` | do graph, row and contexts agree, and do results land where they belong? | 2 files, 1 parameter pair, 2 contexts, 2 leases, 2 visits of agent, 1 result, 1 late transaction |
| `mcp_calls` | do attempts, cancellations, permits and clients fit together? | 2 callers, 1 client per lane with 1 and 2 places, 3 clients, 1 retry, 2 semaphores of 1 permit, 1 remembered, 1 fault |
| `cleanup_core` | is nothing orphaned, nobody living touched, and does every user deletion end truthfully? | 1 job, 1 session, 1 user, 2 cleaners, 2 attempts, 1 repair, the intended UPDATE |
| `rag_runs` | are ends final and honest, and does every run end? | 1 run (ingestion, candidates, query or evaluation) and a given ingestion, 1 slot, 2 requests, 2 cancellations or deletions, 1 fault (a death, a lost heartbeat or a raised statement) |
| `rag_slots` | is no run done twice, and do the limits hold? | 2 governances, or one of them a tuning, each kind with limit 1, 2 slots, 2 faults |
| `releases` | is what the pointer names whole and gated, and what a worker serves kept? | 3 releases (1 built by the CLI), 2 evaluations, 1 web thread, 1 CLI, 1 worker, 3 switches, 1 fault |
| `admin_writes` | do the rules about administrators, sessions, operations and files hold under concurrent writes? | 3 users of which 2 administrators, 2 files of one content, 2 calls tried twice, 1 key, 1 broken connection, 1 login |

Why they are enough. A lease race needs two slots on one job; a third adds no
new relation, since every fence compares one slot with the row, and the proofs
cover any number. Two attempts let a job be claimed, lost, recovered, asked,
answered and lost again, and reach `max_attempts`; one question with three
inputs lets it be asked, answered and repaired again. Jobs interact only
through the session key and the claim's choice, for which two suffice. Pages
and reconnections are small so that both limits are reached. Two cleanup
attempts (the code's `MAX_CLEANUP_ATTEMPTS` is 3) tell a first from a last one; two
cleaners are what a late report needs. In the graph two files and two contexts
are what a switch needs, and two leases a takeover in the middle of it; a
second parameter pair only doubles a choice that the first (named or not named)
already makes. Two invocations compete for one permit and one place; one retry
overlaps with its first attempt. One RAG run meets every other party (an older
run it builds on, a second request, the sweep); two of a kind compete for one
place. Three releases are the active one, its fallback and the next; three
switches let the first be removed. Two administrators are the fewest of which
one must remain, two calls the fewest that block or overtake one another.
`MaxRepairs`, `MaxFaults`, `MaxLate`, `MaxLogins`, `MaxOthers` bound only how often something
goes wrong or somebody intervenes; one fault at any point finds what depends on its point.

Symmetry (`SlotSymmetry`, `AnyCaller`, `AnySlot`, `AnyOf`, `AnyCall`) is used in safety
runs only. Deadlock checking is off where the system may stop: with all jobs
finished, all calls made and the bounded inputs used up there is nothing left
to do. It is on in `cleanup_core`, `rag_runs`, `rag_slots` and `releases`, where
somebody always polls again.

Fairness. `JobLifecycle`: slots step (LLM and MCP calls have timeouts, so a node
ends), idle slots poll, exited processes are restarted by the supervisor, and
clocks advance. Nothing obliges a user to answer or cancel, a slot to crash or
PostgreSQL to come back; the liveness run has PostgreSQL up, because the code
promises no progress behind an outage. `EventStream`: the fetch, the
generator's loop and the reader are scheduled; the job, the user and the network
owe nothing. `CleanupOutbox`: a cleaner polls and is restarted by the container
runtime (`restart: unless-stopped`), leases expire and `available_at` is
reached; nobody owes a deletion, a repair, or a success of PostgreSQL: a cleanup that
fails each time ends as `failed`. `RagEvalRuns`: slot and heartbeat threads go on, the
worker's container is restarted, requests are served to their end, and a row
without a heartbeat grows old; no user owes a request. The other modules promise
no progress that does not rest on a language model, an operator or a caller's retry, and state none.

Every property of a passing run has a mutant in `PROJECT.json`: a plausible bug
in a named definition (a fence that compares only the status, a recovery count
tested with `>`, a row that is not locked, a cursor reset on resume) that
makes TLC find the property violated. The mutated forms stand next to the
definitions, marked `Mutant`.

## 4. What the runs found

* **A canceled running job does not drain** (`jobs_cancel_drain`). `cancel_job`
  assigns `status = 'canceled'` first and tests `status = 'running'` in the
  same UPDATE; MySQL evaluates left to right, so `execution_state` and
  `worker_id` become NULL at once. Deleting the session or the file, which waits
  for draining executions, does not wait. With the intended semantics
  (`jobs_live`) the occupation is kept, and ends.
* **An answered question can make claims fail for good** (`jobs_repair_conflict`).
  The worker logs an interrupt with its attempt in the payload, the stale
  repair without. When a resumed attempt dies before its next checkpoint, the
  repair finds the same event key with another payload, `claim_next_job` raises,
  and the slot's process exits, each time it picks that job.

What the properties had to say to be true, or what reading the code for them showed:

* A stream can end before the last event: events and status are two queries, and
  a page has 100 events. The client reconnects, at most three times per
  subscription: `ErrorNeedsLongLog` says how long a log must be before that is
  not enough.
* `NothingOrphaned` excuses exactly the slots that were let go while they may
  still run (an expired lease, or a cancellation under MySQL's UPDATE): nothing
  registers a thread again that such a slot saves after the cleanup. An
  operation's success says nothing about the threads of sessions deleted before
  the user: their rows carry no operation. After a repair an operation may show
  `failed` until one of its rows is reported.
* `Document/architecture/agent-runtime.md:43` says the outbox does not delete the deep
  agent's thread yet; `_cleanup_checkpoint_task` does, as `job-file-lifecycle.md:91-92` says.
* A decision the gate has refused twice still names the result the context shows
  afterwards (`analysis_context.py:379`), also instead of an earlier valid one, which
  `analysis_contexts.py:550` says a failing path does not erase. `AcceptedIsRecorded` therefore speaks of accepted
  decisions only.
* A node that times out may be retried while its first transaction is still open
  under the same lease (`late`): the fence cannot tell them apart, and results
  may be written to a context they were not computed for.
* When two calls fail on one client, the second may close the client that has
  just replaced it: `ensure_reconnected` compares the generation of the object it
  looked up (`mcp_client_pool.py:502`), where `Document/architecture/mcp-runtime.md:57` says that the generation keeps coroutines that saw the same fault from reconnecting twice. `CallsOnLiveClients` shows that its calls end first.
* `mcp-runtime.md:165-167` of `Document/architecture` has a running invocation's executor closed and its child
  terminated, and `cancel_pending` for a clean-up that is not over. The service may
  say `canceled` while a child lives: when the runner raised, nobody stops its executor
  (`executor_pool.py:347-352`); when the coroutine is cancelled while it waits for the
  join of a successful one, the thread goes on joining and `_finish` does not wait
  for it (`:353-355`, `:393`); and so when it is cancelled a second time while the
  child is being stopped (`:343`). `LeftOver` names the three, and
  `CanceledIsStopped` says that there is no other: each of them has ended or is being terminated.
* The lease is read in a thread (`execution_guard.py:78-105`) and the result used after that
  `await` (`mcp_algorithm_executor.py:262-291`). A lease lost in between lets the
  result in; what keeps it out of the analysis is the fence at the commit
  (`AnalysisGraph`). An answer that *came* after the loss is always dropped
  (`LateAnswersAreDropped`), because the read comes after the answer.
* A RAG run may be canceled in its file after its row has succeeded
  (`isolated_runs.py:2642`), and a worker that dies between the two writes, or whose statement
  raises there (`worker.py:240-268`), leaves them apart until the next read:
  `NoFencedSuccess` is stated without such a death or error.
* A publication that finds its release in the root before it copies switches to it without
  another look (`release.py:677`, `release.py:843` takes the manifest as it is then). If the
  maintenance CLI has built that release anew in the meantime, the pointer names another
  evaluation than the one whose gates were checked: `PublishedAsGated` is stated for a
  publication that brought its own copy, or of a release the CLI does not build.
* `delete_file` locks the owner before the file, as its comment says user deletion
  and job creation do (`write_service.py:1412`), but `create_job` locks the session and the file before the
  owner (`job_service.py:444-512`): the two can deadlock, InnoDB resolves it, and
  `AppliedOnce` and `LibraryIsWhole` hold through it.

## 5. Proofs

Every safety property and every action property that a run checks is also a theorem
of its module's `Spec`, for any sets of jobs, slots, users, files, releases and
so on and without the bounds of the runs. The assumptions are those the modules
name on their constants (`NoneAssumption`, `BoundsAssumption`, ...: numbers are
natural, `None` is not one of the values it stands beside, and what a module's
comment says of the rest), which TLC evaluates on every run. The listed theorems
are in `PROJECT.json`; below is along which argument they go, because in each module the
checked properties alone are not inductive.

### JobLifecycleProofs

For every set of jobs and slots, every session assignment, and all limits, for both
values of `LeftToRightSet` and `PgMayFail`.

*Types.* `TypeOK` needs: a slot that works has a job (`SlotsHaveJobs`), a job that
exists an input (`JobsHaveInputs`), and `EventId`'s CHOOSE a witness (`LogIsOpen`: an
unfinished job's log has no terminal event). From it: `TypeCorrect`.

*Safety.* Every step, seen from one job, is one of eight *moves* of its row and
log - `Rests`, `Submitted`, `Answered`, `CanceledBy`, `Leased`, `Reported`, `Asked`,
`Finished` - (`StepMoves`): the slots and the checkpoint disappear, and what
remains is that `Reported`, `Asked` and `Finished` carry the row's own epoch, or no
epoch: that is the fence. `AskInv` is about the workers: question numbers stay
within `MaxQuestions`, and a pending question, or one a slot is about to
publish, has a number (without it `Asked` could log question 0). `SafetyInv` is the
conjunction of `TypeInv`, `AskInv`, `RowConsistent`, `OneActiveJobPerSession`,
`ClaimsAccountedFor` (which needs `AbsentIsBlank`: a row that does not exist has
empty ledgers), `EventsInLeaseOrder` (which needs `EpochsBounded`: no logged
epoch exceeds the row's), `TerminalClosesLog` and `AnswersWereAsked`; its
preservation is proved once per move and conjunct. From it: `RowsConsistent`,
`SessionHasOneActiveJob`, `ClaimsAreAccountedFor`, `LogIsInLeaseOrder`,
`TerminalEventClosesLog`, `AnsweredQuestionsWereAsked`, and the action property
`FinishedStaysFinished`.

*The chat.* A second, coarser set of moves: the three ledgers rest, an input is
stored with the user's message (`Hears`), or a lifecycle event with the
assistant's (`Replies`). A replayed event conflicts with nothing and adds nothing, in
the log or in the chat, because `EventId` gives the position the event already has.
From it: `ChatShowsEverythingOnce`.

*Refinement.* Each move maps to a step of the contract or to a stutter
(`MoveContract`), with the facts about the public log it needs: `JobsKeepTheContract`,
`Spec => KeepsContract`.

### EventStreamProofs

For any page, number of reconnections, questions and interventions. The heart is
`Continuous`: the ids on the wire, then those of the generator's page, go on where the
client's cursor is, one by one, and end within the log. Each step of the generator
and of the reader takes from one end or adds to the other, and a cut drops everything
after the cursor; so the cursor only ever moves to the next id (`EventsAreTakenInOrder`).
`RecordTellsEnd` and `LogTellsEnd` tie what the client shows to an event it took or to a reply
that was true (`ShownEndsAreReal`): a cancellation's reply is only believed if it names an
end. Without another tab, an interrupt the client has not taken, or has taken last, is
the last event of the log (`QuestionIsOpen`), unless the job was canceled:
`ShownQuestionsAreOpen`. `GivingUpNeedsALongLog` counts pages: without a failing
connection a stream ends only for a cause (`EndedForCause`), the job is finished at
the first reconnection, and each reconnection but the last has brought a whole page
(`PagesTaken`).

### GraphProofs

For any files and parameters, and contexts, leases, visits, results and timeouts without bound.
A node's step in memory is one of five (`NodeMoves`): it opens a transaction
(`Opened`), goes on without anything computed (`Shallow`), binds what its fold has
committed (`Binds`), goes on with the same analysis (`Deepens`), or starts
again (`Restarts`). `Extends` says what any transaction may make of the contexts: none
is lost, a result stays where it is, and only parameters nobody has named are
filled in. The invariant has two parts. What holds whatever happens: types, transactions
that name contexts there are, results numbered as they came, and which nodes can have
results and a verdict. What holds until a transaction is committed late (`InStep`): a
row with a file is bound to a context of that file, which is the session's active one
(`RowIsBound`); a fold works on the row's file and what it bound is what its context
says (`FoldFollowsRow`); from `preprocess` to the end the state names the row's
context, file and parameters, and so do all results of the thread (`DeepFollowsRow`).
From it: `GraphTypes`, `WorkFollowsTheRow`, `ResultsStayWithTheirContext`, and the action property
`ConclusionsAreRecorded`, where the numbering of the results makes the one the
decision names unique.

### McpProofs

For any callers, members, lanes, clients, retries, semaphores and permits. The pool: a client's count
is the number of the calls on it, and a stopped client was closed to new calls and has none
(`Counted`), hence `ClientsOutliveCalls`, also where a caller drains a client that had just
replaced another one. The service: an attempt that is admitted is so under its handle (`ReqInv`), so
two attempts of an invocation cannot both be admitted: `OneAttemptAtATime`. What its process may be doing
in each phase of an attempt is `Procs`: it computes only while the attempt runs, has ended
only where the attempt joins it or has failed or gone, and is being stopped only for one that waits for
that or has gone. So an attempt that is not admitted has a leftover at most; and who is told is told when
no handle is registered, which leaves no admitted attempt: `ToldWhenStopped`.
An answer that came late finds no lease to confirm it (`Lates`): `LateAnswersNeverTaken`. An attempt still to be
made has left no trace (`Untried`), however late the earlier ones are. A step of the service moves one request,
in one of five ways (`ServiceMove`: passes, registers, is granted a permit, leaves, or
loses one to a cancelled coroutine), and the permits' ledger is kept by each:
`PermitsAreKept`. Also `CallsTypes` and `CanceledAreRefused`.

### CleanupProofs

For all jobs, sessions, users, cleaners and limits. `CleanupInv` adds to the
checked properties what makes them inductive: a deleted job is not occupied
and its user's jobs are gone with him (`DeadAreFree`), the outbox has a row for
exactly what is deleted and the rows of an operation belong to a deleted user
(`RowsOfTheDead`), a cleaner's task has a row (`CleanersHaveRows`), and the two parts the
argument turns on: what a cleaner has deleted so far is gone
(`CleanedIsGone`), hence what a succeeded row stands for is gone
(`SucceededIsGone`), where gone means: no data, or a slot that outlived its job. Since a
slot may write for a living job or as such a slot only, gone data stays gone
(`GoneStays`), and a late report of success is true whoever holds the row by then.
From it: `CleanupTypeCorrect`, `OrphansAreOwed`, `OperationsAreHonest`,
`AttemptsAreBounded`, and the action properties `LivingAreSpared` (a cleaner's
task belongs to the dead) and `SuccessStays` (with `LivingUnasked`, no
operation before its user is deleted).

### RagEvalProofs

For all runs, slots, requests and limits. `RagTypeOK` needs that a slot in
the middle of a run has one, and that the status it is about to mark it
with is an end (`SlotsHaveRuns`).

Every step moves a row along one path, or not at all (`RowsMove`): a request enqueues a
row that is not there, a slot takes a queued one, and whoever else writes ends a row that
has not ended, or refreshes a running one. Enqueueing is the delicate one: its INSERT has no
guard, and what makes it safe is that a run id is new and that each request has
its own (`PendingApart`). From it: `EndsAreFinal`. Only a claim puts a run into a slot
(`HoldsMove`), and a claim finds a run that was never claimed and that nobody holds
(`HeldOnce`): `RunsAreHandedOutOnce`. Limits: the kind of a run that has a row is
fixed (`KindsAreFixed`), the runs running of a kind grow by claims only
(`RunningGrows`), and what a slot has counted stays true until it claims, because it
holds the claim lock till then (`CountsHold`); hence `LimitsHold`. The number of runs
need not be finite.

Results: a file that shows a success is backed by its row, by a slot on its way from the file to the
row (`Vouches`), or because the run is an import without a row (`Backed`). A slot that finds its row
ended otherwise goes on to mark the file; so once nobody holds the run, the row is the
only one left to vouch, as long as no process has died and no statement raised:
`FencedResultsAreTakenBack`. A statement that raised moves its row along the same paths, and its
slot to the end of the run or of the thread (`ErrorsMove`).

### ReleaseProofs

For any releases, publishers, workers, switches and faults. What the pointer names is in the root
with the manifest it names (`Named`); whoever switches, cleans up or quarantines has the lock
(`LockHeld`); what a clean-up may remove, or a failed switch takes back, is not named by the pointer (`JobInOrder`),
which nobody else can switch meanwhile; and a worker that has read the pointer
has read the present one if the generation is the same (`SeenInOrder`), so it moves away only what
is no longer named. Hence `PointerAlwaysResolves`. `EntryKept` carries a worker's release through one
switch: `ServedReleasesStay`. `PublicationsAreGated` follows a binding from the candidate through its copy into
the root: `GatedJob`, `GatedRelease`.

### AdminProofs

For any users, files, requests, keys and bodies; ids of rows are positive numbers, and every owner has
a content of his own, as in `AdminWrites`. The argument is that of two-phase locking: `Holds` says
which rows a request has locked at each phase, `Sees` that what it has read of them is still true,
since whoever writes a row holds it. At the commit the request therefore knows what it checked
before: that it comes from an enabled administrator with today's password (`WritersAreAuthorised`),
that another one, whose row it holds, remains (`AnAdminRemains`), that the key is unknown (with `Registers`
and `Told`: `OperationsApplyOnce`), that a file is in use by no job, also none that turns to it meanwhile, that a user to be deleted
has no job (`AfterVictim`), and whether the file is the last of its content
(with `JobsOwn`, every job's file is its user's: `TheLibraryStaysWhole`). A cookie never proves a later version than the password it was got with
(`Proved`): `SessionsAreProved`.

### Only model-checked

The liveness properties (`JobSettles`, `DrainingEnds`, `OperationEnds`, `SubscriptionEnds`,
`RowsSettle`): they rest on fairness and ENABLED, which TLAPS cannot handle here. The two
violations are behaviours, and shown by TLC.

Proved and no longer run, because the proofs cover every instance: the type invariants of
the modules, `RowConsistent`, `FinishedForGood`, `RetriesAreCounted`, `SuccessIsFinal`.

## 6. Not modelled, and the plan

Not modelled for good: migrations, monitoring, presentation, the numerical
algorithms, retrieval, index building and the metrics of the evaluations (data
processing with no protocol state). They are most of the repository's lines;
what coordinates several processes, stores or requests is in the modules above.

Not modelled yet:

1. `EventWriter` - the buffering, ordering and flush of `OrderedEventWriter`
   with the guard, as a refinement of `JobLifecycle`'s `Emit`/`WriteProgress`.
2. The reviews and datasets of candidate runs in `RagEvalRuns`, the CLI's and the Web's
   release builds as runs of their own.
3. Algorithms against reference definitions: the dependency planner's layers and
   the cycle repair's termination.

Proofs to come:

1. From the invariants there are: that a job's occupation and its slot agree (the safety part
   of `DrainingEnds`), that a cancelled analysis leaves its contexts as they were, and which
   lease's results a gate may accept.
2. The pool on its own as an abstract specification of what `McpCalls` needs of it (a call holds a
   live client), and the queue of `RagEvalRuns` as one of claims and ends, each shown to
   be implemented.
3. The ranking arguments behind the liveness properties, as action properties: which
   step of a slot, a cleaner or a stream brings its end nearer and which may not take it away.
