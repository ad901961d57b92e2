# Verification of ReqSys v2: TLA+ models, TLC runs, TLAPS proofs

ReqSys v2 is a requirements-management suite with a FastAPI backend, an
asynchronous runtime, a worker pool for automated development, and scripts that
supervise them. Its own logic, as opposed to CRUD, is in its queues: work is
accepted once, leased to workers that may die, retried a bounded number of
times, validated by somebody else, and quarantined when it fails. This
directory models those queues.

Paths below are relative to the repository root. `PROJECT.json` records, for
every definition, the lines it stands for, and for every property the hazards
it guards against.

## 1. Inventory

| Component | Code | State | Operations | What is hard |
|---|---|---|---|---|
| Worker pool store | `services/codex-worker-pool/app/store.py` | SQLite tables `workers`, `repository_lanes`, `worker_repository_affinity`, `tasks`, `quarantine` | register, heartbeat, configure lane, affinities, enqueue, claim, renew, start, submit for validation, complete, fail, block, requeue, two recoveries | concurrent transactions, expiring leases, late calls, a watchdog that reroutes or blocks, one attempt counter for two roles |
| Worker pool API | `services/codex-worker-pool/app/main.py` | none | one endpoint per store method; `GET` views run the recoveries | threads of the server interleave store calls |
| Runtime jobs | `runtime/app/application/services/job_service.py`, `runtime/app/workers/processar_jobs.py`, `runtime/app/infrastructure/queue/redis_queue.py`, `runtime/app/infrastructure/repositories/job_repository_redis.py` | Redis lists (ready, processing, dead letter), delayed set, lease keys, job documents | create, publish, consume, renew, confirm, retry, quarantine, recover at start | a sequence of separate Redis commands that a crash may cut anywhere; leases that expire while the job still runs |
| Central of work requests | `runtime/app/application/services/central_service.py`, `central_worker.py`, `runtime/app/infrastructure/repositories/central_store.py`, `runtime/app/domain/central/` | requests, evidence ledger | register, apply admission (WIP), transition, record evidence | replicas that apply plans computed from different states; evidence read before a compare-and-set |
| Operational queue | `backend/app/core/operational_queue.py`, `operational_worker*.py`, `operational_recovery_worker.py` | Redis stream with its pending entries, retry set, processing hash, dead-letter stream, idempotency keys, task documents | enqueue, promote retries, dequeue, complete, fail, claim abandoned messages | crashes and errors between commands, messages claimed from a slow consumer, loops that end unnoticed |
| Circuit breaker | `backend/app/core/resilience.py` | failure count, opening time | guard, success, failure, retries | threads in the middle of an operation, calls behind the guard when it opens, the probe after the cooldown |
| Pentaho batches | `backend/app/services/pentaho_integration.py`, `backend/app/workers/pentaho_integration_worker.py` | batch rows | receive, claim, process, recover abandoned, requeue | abandonment against a slow worker, status read before it is written |
| Redmine queue | `backend/app/services/redmine_sync_queue.py`, `github_redmine.py` | Dataverse rows, planner rows, issues | release, reserve, create issue, mark, tell the planner | reservation without a condition, an effect that is not idempotent, every write may be refused |
| Daily report mails | `backend/app/services/movimento_email/` | dispatch rows, a circuit breaker per process | queue a report, release, reserve a lot, send, mark | reservation without a condition, lost answers, a circuit that opens within a lot |
| Service cases | `backend/app/api/service_cases.py`, `service_case_operations.py`, `change_evidence.py`, `backend/app/domain/` | cases with a version, events, approvals, links, SLA, assignments, evidence | create, transition, link, record, assign, approve, decide | handlers in threads that read, decide and commit, guards on rows the version does not cover, replays |
| Teams gateway | `backend/app/services/teams_gateway.py` | breakers | choose a channel, send, fall back | partial failure of one channel of several |
| Supervisor, bridge | `scripts/codex_pc24x7_supervisor.py`, `scripts/pending_development_worker_pool_bridge.py` | local files | clients of the pool | - |

The components are loosely coupled. The bridge enqueues into the worker pool,
workers on several hosts call its API, the supervisor watches them; the runtime
and the Central share a Redis; the backend's queues are independent of both.

What makes each one correct:

* *pool*: a worker has at most one task; a lease excludes everybody else and a
  late call changes nothing; handed-over work is never lost or rebuilt and is
  approved by somebody else; attempts are bounded; every failure is quarantined
  once; lanes keep their limits; every accepted task settles;
* *runtime*: an accepted job is executed, and ends completed or in the dead
  letter, across crashes; a job is not run by two workers that both record a
  result;
* *Central*: no more causes in progress than the WIP limit; nothing is
  concluded without valid evidence;
* *operational queue*: interleaving alone cannot be told from the in-memory
  provider's lock; a task is not lost, not finished twice, and buried once;
* *batches, issues, mails*: who is answered finds his payload stored; what is
  marked as sent was sent; the attempts bound the effects, but for the faults;
  what is reserved is released; everything settles;
* *circuit breaker*: it is open when the failures say so, shields the service
  while it is, and lets calls through again once the service answers;
* *service cases*: cases move along the matrix of the domain whoever races; the
  history explains the state; gates are passed on approvals and on the latest
  evidence; an answer means an effect.

## 2. Modules

| Module | Models | Role |
|---|---|---|
| `WorkerPool` | the store and its API | specification |
| `WorkerPoolProperties` | | its properties |
| `TaskContract` | | abstract specification of a task |
| `LeaseClock` | deadlines as text in `store.py` | specification and properties |
| `RuntimeJobs` | the runtime's jobs, command by command | specification |
| `Central` | work requests, WIP plan, workers, evidence | specification |
| `OperationalMemory` | the in-memory operational queue | abstract specification |
| `OperationalRedis` | the Redis operational queue, its loops and process | specification, refines `OperationalMemory` |
| `PentahoBatches` | Pentaho batches | specification |
| `RedmineQueue` | Redmine queue | specification |
| `Circuit` | the circuit breaker as a value | operators, shared by the next two |
| `CircuitBreaker` | concurrent calls around one breaker | specification and properties |
| `EmailQueue` | mail queue, with a breaker in every process | composition with `Circuit` |
| `CaseLifecycle` | the transition matrix of the domain | abstract specification |
| `ServiceCases` | the RSM handlers | specification, refines `CaseLifecycle` |
| `MCWorkerPool`, `MCLeaseClock` | | instances for TLC |
| `MCRuntimeJobs`, `MCCentral`, `MCOperationalRedis`, `MCPentahoBatches`, `MCRedmineQueue`, `MCEmailQueue`, `MCServiceCases` | | properties and instances for TLC |
| `WorkerPoolProofs` (with `LeaseClock`), `RuntimeJobsProofs`, `CentralProofs`, `OperationalProofs`, `PentahoProofs`, `RedmineProofs`, `EmailProofs` (with `CircuitBreaker`), `ServiceCasesProofs` | | theorems |

Operators named as variants ("Variant: ...") are plausible mistakes in the
definition that follows. No specification uses them. Each property is run
against a version of the model in which one of them replaces the definition,
and must then be violated.

### 2.1 `WorkerPool`

*One action is one transaction.* Every writing method of `WorkerPoolStore` opens
`BEGIN IMMEDIATE`, so the transactions are serial whatever the threads do, and an
exception undoes all of it. A call that is refused is therefore no step at all,
the recoveries that `claim_task` has run before it refuses included. The exception
is `heartbeat_worker`, which reads the worker before its transaction: it is the
two actions `HeartbeatRead` and `HeartbeatWrite`, with the pending report kept
in `beats`, one per server thread.

*State.* `worker`, `lane`, `affinity` and `task` are the tables.
`quarantined`, in the row of a task, counts its quarantine rows. `requeues`,
`declared` and `overtaken` are history that no guard reads, except that `requeues`
is bounded: `declared` is the profile a worker last named in a committed call, and
`overtaken` says that a heartbeat which names none, and had read another profile,
was still to write when that call committed. The pair `gateway_ok`, `state_validated`, always read together, is
`governed`; `rules` says whether `rules_sha` is the expected one.

*Clocks.* A lease is `live` or `expired`, a task `stalled` or not, a heartbeat
`fresh` or not. Each may lapse at any moment. This covers every value of the
three timeouts and also the fact that the code reads the clock before it waits
for the database lock. `renew_lease` and heartbeats leave `stalled` alone, as in
the code, and only the operations that write `last_material_progress_at` reset it.

*Tokens.* The code draws a uuid for each lease; the model uses the number of the
attempt, which is as fresh. `LeaseCall` is tried with every token the task has
ever had, so late and repeated calls are part of the model. A produced SHA is
identified by the token under which it was published.

*Watchdog.* `_recover_stalled` loops over rows in an order the query does not
fix and updates the table while it asks whether other workers are idle.
`RecoverStalled(tab, pos)` is the result for the loop order `pos`; all orders are
explored.

*Choice of a task.* `First` is the `ORDER BY` of `claim_task`: claim count of the
lane, then the time of its last claim, then priority. Those times are read
before the lock is taken and do not order the claims, so the model lets lanes
with equal positive counts come in any order.

*Environment.* `RegisterWorker` may be sent again at any time with another role
or another readiness; operators pause lanes, change affinities and requeue
blocked tasks at any time.

### 2.2 `LeaseClock`

`lease_expires_at` is ISO text. `_recover` compares it in SQL as text, `_lease`
parses it. Python's `isoformat` omits the fraction when the microsecond is zero, and
`Z` sorts after `.`. The module keeps one lease, the wall clock, and both
comparisons.

### 2.3 `TaskContract`

What a client of the pool may rely on: a task is absent, open, built, approved
or abandoned; it becomes built when an author hands work over and never goes
back to open; only another worker approves it; approved and abandoned are final.
`WorkerPoolProperties` maps the tables to these phases (`PhaseOf`, `AuthorOf`,
`ApproverOf`); a blocked task is open or built depending on `produced_sha`.

### 2.4 `RuntimeJobs`

One action is one Redis command, script or transaction. A worker's program
counter (`wk[w].pc`) says between which two commands it is, and `wk[w]` keeps
the copy of the job it read. `ready`, `delayed`, `processing`, `dlq`, `lease` and
`doc` are the Redis keys. The faults are `crash` (the process ends where it is; it
starts again, with the two recoveries of the start-up), `interrupt` (the task is
cancelled, so that the `finally` of `executar_worker_local` still runs) and
`lapse` (a lease expires under a process that works); `faults` counts each kind.
`severed` remembers the jobs a fault met between the two commands that move
their entry, and the jobs that were withdrawn by a refused creation; `robbed`
those whose entry the orphan sweep of a starting worker took from a worker that
lives, has popped it and has not leased it yet. `accepted` remembers the events
whose sender was told they are accepted, and `contested` those that were replayed
while the request that created them had neither published nor given up.

### 2.5 `Central`

Whoever applies the plan is a replica: the worker's loop, a cycle asked for with
`POST /worker/cycle`, and `GET /admission-plan` and `GET /next`, which take the
first steps of a cycle and then stop, as `Abort` does.
`Planejar` with `CausasAdmitidas` is `wip_policy.py` over sets: causes in progress keep their place,
waiting causes are ordered by priority, age and rank. A replica reads, plans and
then updates request by request with compare-and-set; clients register, move and
report at any moment. `Abort` is the end of a process, or a compare-and-set that
lost five times. What an executor reports is one of a constant set of check
results (`Reports`), and the SHAs a request may be registered with are
`Declared`. Three histories say under which conditions the properties are
claimed: `admit` (who has planned), `reopen` (requests a client put back, declared
executed or recorded evidence for) and `passed` (checks ever recorded as passed for a SHA).

### 2.6 `OperationalMemory`, `OperationalRedis`

The in-memory provider, one lock and so one action per operation, is what the
provider protocol promises. The Redis provider is modelled command by command:
`idem`, `task`, `stream`, `pel`, `retry`, `processing`, `dlq`. Each process runs a
consumer and a recovery loop and restarts both when it ends. In the
refinement a task waits from the transaction that creates it, or puts it back,
until the one that marks it as running, wherever its message is meanwhile, and a
key whose task is not stored yet is free.
Faults: `crash`, `api_crash`, `error` (a command fails, with or without its effect)
and `slow` (a message is idle long enough while its task is executed).

### 2.7 `PentahoBatches`, `RedmineQueue`, `EmailQueue`

Three tables used as queues. Time is a mark on a row that has been reserved or
claimed long enough to count as abandoned; without the fault `slow` a row is
marked only when nobody works on it. `PentahoBatches` claims by a conditional
update, the other two by an unconditional write, so the models differ in that
step and in what the properties can demand: a call that starts while another
is under way counts as the fault `overlap`, since nothing but the scheduler's
habit prevents it. In `RedmineQueue` each request to
Dataverse may be refused and each branch of the handling is an action. `attempts`
counts the calls of `criar_issue_generica`, which is what the code's retry count
stands for: such a call may be several requests to Redmine, or none when the
circuit is open or nothing is configured. `agile` has the row of the planner that
the correlation id of each item finds, chosen in the initial state (none, or one
that items share), and the status of each row.
`EmailQueue` composes the queue with one `Circuit` per process: the sender's retry
consults it once before its attempts, and its exception leaves the lot. Its rows are
written back column by column (`Flush`), as the ORM session does.

### 2.8 `Circuit`, `CircuitBreaker`

`Circuit` is the data type: `IsOpen`, `RecordSuccess`, `RecordFailure`, and the two
halves of the latter. When `threads`, chosen in the initial state, is true the
halves are separate steps of `CircuitBreaker`; otherwise `record_failure` is one
step, as among coroutines of one event loop. The count stops at the threshold and
the age at the cooldown, the only values they are compared with.

### 2.9 `CaseLifecycle`, `ServiceCases`

A handler is two actions, the reads with their checks and the commit. The
commit of a transition is conditional on the version; the others are protected
by unique keys only, and their `IntegrityError` branches are part of the action.
`seen`, in a handler, is history: the rows of the case that were stored when the
handler read it. It tells what a guard overlooked from what was stored too late
for it. Clients choose any event id, used or not, and may never hear the answer. The
constant `Scopes` bounds what they ask for: a scope is a set of keys, types,
target states, operations and event ids, and one of them is chosen in the
initial state. Nothing else depends on it.

## 3. Runs

| Run | Instance | Checks | Distinct states |
|---|---|---|---|
| `pool` | 2 tasks in one lane beside an idle one, 2 workers in either role, affinities, 2 attempts, 1 task requeued once | `TypeOK`, `RowsSound`, `OneActivePerWorker`, `NewWorkFitsLane`, `HandoffFenced`, `ImplementsContract`, `BlockedForCause` | 0.6 million |
| `liveness` | 1 task with 2 intents, a validator, a builder that registers in either profile with 2 heartbeats under way at once, a lane that is widened, `FairSpec` | `NoWorkInStudy`, `Settles` | 73 thousand |
| `lease_clock` | 3 instants a second, 4 seconds, leases of 1 and 2 seconds, `ClockSpec` | `WithinOneSecond` | 177 |
| `runtime_jobs` | 1 job, 2 workers, a queue of 1 place, 2 attempts, 2 requests that overlap, 1 fault, `FairSpec` | `NeverLost`, `OneExecution`, `AttemptsPerFault`, `TerminalIsFinal`, `AcceptedSettles` | 1.6 million |
| `central` | 2 requests of 2 causes (one for a person), limit 1, 2 replicas, 1 client with 2 calls, 2 SHAs, 2 checks, 1 abort | `WipLimit`, `OneExecutor`, `ConcludedOnEvidence` | 4.1 million |
| `central_liveness` | 2 requests, one without executor, 1 replica, 1 client call, 1 abort, `FairSpec` | `Decided` | 35 thousand |
| `operational_redis` | 2 tasks, 2 requests with one key and 2 intents, 1 process of 2 loops, batches of 2, 2 attempts, 1 fault, `FairSpec` | `RequestHonoured`, `TerminalIsQuiet`, `ExecutionsGuarded`, `MemorySpec`, `TaskSettles` | 0.7 million |
| `pentaho_batches` | 1 key, 2 payloads (one unusable), 2 requests, 3 executors, 2 attempts, 3 faults, 2 requeues, `FairSpec` | `AnswerIsStored`, `OneClaimant`, `BatchSettles` | 74 thousand |
| `redmine_queue` | 2 items that share a row of the planner or of which one finds none, 2 calls, lots of 2, 2 attempts, 2 faults, `FairSpec` | `IssueStatusIsTrue`, `EffectsPerFault`, `ItemSettles` | 0.8 million |
| `circuit_breaker` | 3 threads or coroutines, threshold 2, cooldown 2, 2 tries, `CircuitFairSpec` | `OpenedByFailures`, `ShieldedService`, `Recovers` | 4 thousand |
| `email_queue` | 2 mails, lots of 2, 2 processes, 2 retries of 2 attempts, threshold 2, cooldown 1, 1 fault, `FairSpec` | `MailStatusIsTrue`, `SendsPerFault`, `MailSettles` | 0.8 million |
| `service_cases` | 4 scopes, 2 handlers: a request with approvals (6 event ids), a change with evidence (7), a problem with all states, SLA and assignments (4), an incident linked to a problem with root causes (4) | `HistoryMatches`, `GatesHold`, `AcknowledgedIsStored`, `LifecycleSpec` | 0.6 million |

Several properties are conjunctions of parts, each with its own comment:
`RowsSound` is `LeaseIsWhole`, `QuarantinedOnce`, `HandoffSurvives`,
`IndependentValidation` and `AttemptBudget`; `NeverLost` is what becomes of an
accepted, a started and a dead-lettered job; `Decided` is the absence of
starvation and of silence.

Where the code cannot do better, a property names the fault it gives way to:
`OneExecution` and `AttemptsPerFault` hold until a lease expires under its
worker, `WipLimit` while one replica plans, `TerminalIsQuiet` without slow
executions and lost answers, `EffectsPerFault` and `SendsPerFault` up to the
number of faults. Where no fault is needed, only an order of steps, the property
names the order: `NoWorkInStudy` a heartbeat overtaken by the declaration (`overtaken`),
`NeverLost` a replay that overtook the creation (`contested`), `GatesHold` and
`AcknowledgedIsStored` a row that another handler stored after the case was read
(`seen`). The instances contain these orders: without the clause, TLC finds each
property violated. The one exception is an approval replaced between gate and
move, which takes a seventh event id; the theorem covers it. Each such clause was put there by a counterexample; they are
collected under *Where the code departs from its documents*.

Bounds. In the pool, `MaxRequeues` and `MaxRequeued` bound only the operator's
requeues and `MaxBeats` only the heartbeats in flight; attempts are bounded by the code
itself, which is part of what `RowsSound` shows. Two workers that take either
role give a task a builder, a validator, and the same worker as both in turn.
Two attempts and a requeue allow a failed build, a build, a validation and a
second round. Two tasks are the least that compete for a worker, a lane and a
place in the watchdog's loop. No instance pauses a lane or registers a worker
that is not ready: both only refuse claims, and the theorems cover them.

In the other modules `MaxFaults` bounds the faults, `MaxRequests` and `MaxCalls`
what clients send, `MaxMessages` the messages of one task; the attempts are
bounded by the code where it does so. One fault of any kind is
what the instances of `RuntimeJobs` and `OperationalRedis` afford together with
liveness; the safety properties of `RuntimeJobs` also hold with `MaxFaults = 2`
(4.5 million states), where a fault meets the recovery from another. Two
attempts give a retry and a last failure. Two
workers, processes or handlers are the least that race; where a third could
matter (an executor that recovers what two others left) there are three. Six
event ids are the least that take a request through the approval gate and leave
one to race with, seven the least that close a change on evidence and record
more of it. Two mails in one lot are the least of which one is sent and the other
left reserved when the circuit opens; with them one fault is affordable, and the
same properties also hold for one mail and three faults (0.3 million states).

Deadlock is checked wherever something can always step. In `RuntimeJobs`,
`Central` and `OperationalRedis` a behaviour that has used up its requests with
everything settled rests, so their configurations say `CHECK_DEADLOCK FALSE`;
that nothing rests too early is what their liveness properties show.

Symmetry. `pool` treats its workers alike, and its tasks, which are in one lane
with the same possible intents; `central` its replicas, `service_cases` its
handlers. No definition chooses among them, and these runs check invariants and
action properties only. The runs of liveness use none.

### Fairness

*Pool.* `FairSpec` assumes that time passes (`ProgressLapses`), that workers keep
registering and polling for work (`RegisterWorker` weakly, `ClaimTask` strongly fair: a poll
comes right after a heartbeat, so one that is possible again and again is
eventually made), and that the recoveries are polled: `/v1/watchdog/recover`,
`/v1/snapshot`, `/v1/workers` and `/v1/repositories` all run them. Nothing is
assumed of a worker that holds a lease: it may renew for ever, answer late or
vanish. In the run of liveness no operator pauses a lane, requeues or binds a worker
elsewhere: doing so for ever can of course keep a task from settling.

*The other modules.* A process that is at work goes on, request handlers finish,
a process that ended is started again by its supervisor, and a scheduler calls
the endpoints that process a lot again: weak fairness of each worker, loop,
handler and call. Time passes: weak fairness of `LeaseExpires`, `Envelhecer`,
`Esfriar` and `Tick`. Loops that poll for one due item or batch among several get
to each: strong fairness of `PromoverAtrasados`, `PromoteZrem` and `Reivindicar`, as
each poll takes the oldest or all of them. Nothing is assumed of clients, of the
outcome of an execution, or of faults, which are bounded. `Recovers` assumes,
in its own statement, that the service answers for good from some point on.

### Where the code departs from its documents

Stated without the clauses that the properties carry, the following are false.
TLC found a counterexample to each while the properties were stated; the runs
check what holds instead.

Pool (`store.py`):

* *Lane limit* (757). `requeue_blocked` puts a handed-over task back to
  `validating`, which is in flight, without asking the lane. What does hold is
  `NewWorkFitsLane`: tasks that nobody requeued never exceed the limit.
* *Own alternative* (489). The watchdog excludes the holder of the lease but not
  the builder of the task; the claim excludes the builder. A validation can be
  rerouted towards a worker that may not take it, where the service's README
  promises that it is blocked. The opposite error does not happen:
  `BlockedForCause`.
* *Lost ESTUDO* (357). "Worker em `ESTUDO`, offline/stale ou não governado não pode
  receber desenvolvimento" (`.sdd/specs/codex-worker-pool.requirements.md:16`,
  `docs/runbooks/codex-worker-pool.md:30`). A heartbeat that names no profile writes
  back the one it read before its transaction, so one that overlaps the
  heartbeat, or the registration, that declares `ESTUDO` undoes it, and the worker
  is given work. `NoWorkInStudy` shows that nothing else gives it any, and that
  declaring `ESTUDO` again without an overlap is enough.
* *Early recovery* (471). In the microsecond zero of a second, every deadline in
  that second is recovered, up to a second early, and never earlier:
  `WithinOneSecond`.

Runtime jobs:

* The orphan sweep (`redis_queue.py:206`) and `consumir`, when the job is leased
  (`redis_queue.py:159`), move an entry with `LREM` and `LPUSH`; a
  process that ends in between loses a job in progress. `NeverLost` names these
  jobs, and those of a cancelled worker, by `severed`; everything else keeps the job.
* With three workers the sweep of one that starts can take the entry of a live one
  that has popped it and not leased it yet (`redis_queue.py:206`). The job then has
  one entry and two takers; when the slower one gives up, it removes the entry
  its replacement works on, and a crash of that one loses the job. `NeverLost`
  names these jobs by `robbed`.
* A cancelled worker confirms a job whose document says `PROCESSING`
  (`processar_jobs.py:50`).
* A worker that outlived its lease overwrites the terminal document of its
  successor (`job_service.py:148`). Without lapses it is final: `TerminalIsFinal`.
* The limit of attempts is compared at a failure only (`job_service.py:137`): a
  crash gives one attempt more, and never more than one (`AttemptsPerFault`).
* The creator, refused for lack of capacity, removes the document
  (`job_service.py:114`) that a concurrent replay was promised: "O evento já está
  duravelmente persistido como QUEUED" (`job_service.py:95-97`). The run has both
  requests; `NeverLost` names these jobs by `contested`, and shows that no job is
  removed that was accepted, or found by a replay, in any other order.
* A worker that restarts within its old lease skips its orphan, and no later
  sweep comes.

Central:

* Two replicas together admit more causes than the limit
  (`central_service.py:141`), where "rodar em duas réplicas converge para a mesma
  decisão" (`central_service.py:138-139`); so do a worker and a `GET` of the plan. One
  planner never does: `WipLimit`.
* Evidence for another SHA between gate and compare-and-set
  (`central_service.py:185`): the request is concluded on checks that had passed
  (`ConcludedOnEvidence`), but the record says otherwise by then.
* A late worker moves a request from `AWAITING_EVIDENCE` back to `EXECUTING` and
  runs it again; two never run it at once (`OneExecutor`), unless a client declares
  a request that is executed as waiting for its evidence, or reports it itself.
* A replay is acknowledged from the key, before the request is in the index
  (`central_store.py:161`).
* A worker that ends leaves its request `EXECUTING`. So does a check that failed
  for the same SHA before and is not repeated: the merged record is `BLOCKED`,
  and neither `registrar_evidencia` (`central_service.py:225`) nor `_concluir`
  (`central_worker.py:138`) then moves the request, against "nenhuma falha vira
  silêncio" (`central_worker.py:13`, `docs/central-plano-de-controle.md:65`).

Operational queue:

* A process that ends between `ZREM` and `XADD` loses a retry
  (`operational_queue.py:349`); nothing else loses a task (`RequestHonoured`).
* Claims after crashes are not counted against `max_attempts`.
* A key whose request ended before its task was stored refuses every replay
  (`operational_queue.py:318`).
* A loop that ended leaves the process healthy (`operational_worker.py:84`).
* `fail` writes a completed task back when a slow execution was repeated
  (`operational_queue.py:409`). Crashes alone do not.

Batches, issues, mails and the breaker:

* The second of two requeues runs a concluded batch again
  (`pentaho_integration.py:375`).
* Overlapping calls both get the reservation (`redmine_sync_queue.py:198`), and the
  fall-back drops the count (246). Both are faults to `EffectsPerFault`.
* An error status that a gateway returns although Redmine created the issue is
  taken for a refusal, and the retry creates it again (`github_redmine.py:54`): the
  fault `lost`. An open circuit uses up the attempts of an item without a request
  (`github_redmine.py:88`). Items with one correlation id share a row of the planner,
  which shows the last of them only, and an item without one is never shown
  (`redmine_sync_queue.py:95`); `PlannerAgrees` says what can be relied on.
* A failed probe does not open the circuit again (`resilience.py:64`), and a
  success between test and assignment (65) leaves a circuit open without
  failures. Coroutines cannot do the latter, which is proved.
* An open circuit leaves the rest of a lot reserved (`consumer.py:82`); `MailSettles`
  shows that the release gets it back. The daily job is not idempotent
  (`jobs.py:39`).

Service cases, each a guard on rows that the version of the case does not cover:

* "Evidência pós-deploy com status `FAILED` deve manter o fechamento bloqueado"
  (`.sdd/specs/rsm-07-change-traceability.requirements.md:21`): the guard reads the
  evidence before the conditional `UPDATE` (`service_cases.py:409`), so a change
  closes over `FAILED` evidence that commits in between. Over evidence that was
  stored when the case was read it never does: `GatesHold`. Evidence is also
  recorded for a change that is no longer `RESOLVED`.
* "A decisão é terminal: aprovação já decidida não pode ser alterada"
  (`.sdd/specs/rsm-04-service-operations.requirements.md:31-32`): of two decisions
  that both read `PENDING` the second overwrites the first
  (`service_case_operations.py:594-598`). One that was stored before is never
  replaced: `AcknowledgedIsStored`.
* "segunda política divergente no mesmo caso retorna 409" (the same file, criterion
  5): the loser of a race is answered 200 with the policy of the winner
  (`service_case_operations.py:434-438`). Nobody else is: `AcknowledgedIsStored`.
* Two assignments get one place in the history.

## 4. What is proved

Every theorem holds for all values of the constants that satisfy the
assumptions below: any number of workers, tasks, requests, handlers, processes,
any limits, and any number of faults.

| Module | Theorem | States |
|---|---|---|
| `WorkerPoolProofs` | `PoolInvariant` | the inductive invariant `PoolInv` |
| | `TypeCorrect`, `Exclusion` | `TypeOK`, `OneActivePerWorker` |
| | `WholeLeases`, `SingleQuarantine`, `HandoffKept`, `NoSelfValidation`, `BoundedAttempts` | the parts of `RowsSound` |
| | `RowsStaySound` | `RowsSound` |
| | `FencedHandoff`, `AcceptedWorkKept` | `HandoffFenced`, `AcceptedWorkIsKept` |
| | `PoolRefinesContract` | `ImplementsContract` |
| | `BlockedWithCause` | `BlockedForCause` |
| | `NewWorkFits` | `NewWorkFitsLane`, for finitely many tasks |
| | `StudyGetsNoWork` | `NoWorkInStudy` |
| | `ClockTyped`, `DisagreementWithinOneSecond` | `ClockTypeOK`, `WithinOneSecond` |
| `RuntimeJobsProofs` | `JobsInvariant` | the inductive invariant `JobsInv` |
| | `LeaseIsExclusive`, `AttemptsAreCounted`, `TerminalStays` | `OneExecution`, `AttemptsPerFault`, `TerminalIsFinal` |
| | `StartedIsKept` | what `NeverLost` says of started and dead-lettered jobs |
| | `NothingIsLost` | `NeverLost` |
| `CentralProofs` | `CentralInvariant` | the inductive invariant `CentralInv` |
| | `LimitKept`, `ExecutorIsAlone`, `ConclusionsProven` | `WipLimit`, `OneExecutor`, `ConcludedOnEvidence` |
| `OperationalProofs` | `RequestsHonoured` | `RequestHonoured` |
| | `ExecutionsAreGuarded`, `TerminalStaysQuiet` | `ExecutionsGuarded`, `TerminalIsQuiet` |
| | `DurableRefinesMemory` | `MemorySpec`: up to the first fault, `OperationalRedis` implements `OperationalMemory` |
| `PentahoProofs` | `PentahoInvariant` | the inductive invariant `PentahoInv` |
| | `AnswersAreStored`, `ClaimIsExclusive` | `AnswerIsStored`, `OneClaimant` |
| `RedmineProofs` | `RedmineTyped` | its `TypeOK`: rows, counts, and what a call holds at each point |
| | `RedmineStatusIsTrue`, `RedmineEffectsPaid` | `IssueStatusIsTrue`, `EffectsPerFault` |
| `EmailProofs` | `EmailTyped` | its `TypeOK`: rows, breakers, counts, and what a session has loaded at each point |
| | `EmailStatusIsTrue`, `EmailSendsPaid` | `MailStatusIsTrue`, `SendsPerFault` |
| | `CircuitTyped` | `CircuitTypeOK`, for threads and coroutines |
| | `CoroutinesOpenByFailures` | `OpenedByFailures`, which is about coroutines |
| | `OpenCircuitShields` | `ShieldedService` |
| `ServiceCasesProofs` | `PreparedMovesPermitted`, `RowsAreSound` | the inductive invariants `RsmInv` and `StoreInv` |
| | `HandlersImplementLifecycle` | `LifecycleSpec`: the handlers implement `CaseLifecycle` |
| | `GatesAlwaysHold`, `HistoryExplainsCase`, `AnswersHaveEffect` | `GatesHold`, `HistoryMatches`, `AcknowledgedIsStored` |

### Assumptions

TLC evaluates all of them in the runs of their modules.

* *Pool*: `NullAssumption` (NULL is none of the values), `IntentAssumption` (`RepoOf`,
  `Priority` and `MaxAttempts` are functions, attempts are positive: the code refuses
  others), `RequestAssumption` (calls carry values the API's schemas accept; a
  lane's limit is in 1..100), `BoundAssumption`; `ClockAssumption` for the lease clock.
* *Runtime*: `JobsAssumption` (finitely many workers, none of them the mark of a lease
  whose worker has ended), `JobsBoundAssumption`, `NoneIsNoDoc`.
* *Central*: `CentralAssumption` (finitely many requests, the ranks of causes are
  distinct numbers, replicas are not clients, NULL is no status and no request).
* *Operational queue*: `OperationalAssumption` and `NoneIsNoDoc`.
* *Batches*: `PentahoAssumption` and `NoneIsNoRow`.
* *Issues and mails*: `RedmineAssumption` and `EmailAssumption` (limits and lots are
  positive, the calls and the processes are finitely many: they are counted), and
  `NoneIsNoRow` in both.
* *Breaker*: `CircuitAssumption` and `CallsAssumption` (threshold, cooldown and tries are
  positive, the calls are finitely many). The mail queue needs the former too.
* *Service cases*: `ServiceCasesAssumption` (NULL is no row, event ids and instants are
  numbers, scopes are made of the types, states and operations of the domain).

One theorem has a hypothesis of its own: `NewWorkFits` counts tasks, so there must
be finitely many.

### The arguments

*Pool.* All invariants but one speak of a single row. `RowInv` is their
conjunction: well formed, whole lease, quarantine, handoff, independence,
budget. They need each other. That a handed-over task has an author
(`HandoffMatches`) needs the whole lease of the `running` state; independence
needs that author; the budget needs to know that only handed-over tasks are
validated and that `queued` ones have a claim left, which is why `Overdraft` is
stated per state. One lemma per way of writing a row (`ReleaseKeepsRow`,
`FailureKeepsRow`, `ClaimKeepsRow`, ...) shows that it keeps `RowInv`. Exclusion
is the only invariant on two rows. `SweepKeepsTable` shows it for both
recoveries, which only clear holders, and `WriteKeepsTable` for a single row
whose holder stays, goes, or is a worker with no task, which is what `Ready`
tests after the recoveries.

For the action properties and the refinement, `RowStep` says what one
transaction may do to one row, and `RowKept` what a recovery or a claim may do.
`RowKept` is transitive, so that the three parts of `claim_task` compose, and it
implies `RowStep`; the rest is one case per action. Lanes, watchdog and study mode
need two more such relations, also transitive: a `Calm` write adds no attempt and
puts nothing in flight that was not requeued, an `Unblocked` one blocks nothing
that is stalled. Everything but a claim is calm, and a claim finds room in the
lane after its recoveries, which only make room. Only the
watchdog blocks what is stalled, and along its loop workers only become idle.
For study mode, a worker that was not overtaken has the profile it declared, and
every heartbeat of it that is still to write, and names no profile, read that one.

*Runtime jobs.* Without a lapse, who is in service owns the lease (`OwnLease`), so it
alone writes the document (`WorkersDoc`), and the copies count the attempts
(`Attempts`). Where a job's entry is takes two arguments. Without a crash, a
started job is in a list or in the hands of a worker that will push it
(`CarriedWithoutCrash`). With crashes, the processing list has one entry for each
worker that holds one (`HeldEntries`, a cardinality) and one more besides the entry
that a worker is about to confirm (`SpareEntry`); a sweep that takes a live worker's
entry breaks this, which is what `robbed` records. What becomes of an accepted
event is a separate invariant (`Promises`): a job that is accepted, or that a replay
has in hand, is contested or has a document that nobody is about to withdraw
(`Kept`), and a document under creation has one creator.

*Central.* What a step does to statuses, histories and its actor is stated once
(`StatusStep`, `WorkStep`); every action is shown to be one of these. From taking a
request up to aligning it with its evidence a worker is alone with it (`Alone`),
because nobody takes up a request in the statuses it can then have. For the limit,
causes at work and causes about to be admitted together keep to it (`WithinLimit`):
the order of causes is total, so the number of better causes is different for
each admitted one and below the number of places left. Evidence is recorded as
passed before a record shows it (`Recorded`), and who is about to conclude has seen
such a record (`Gated`), whatever replaces it meanwhile.

*Operational queue.* The invariant has four layers, each for fewer faults.
`CoreInv` holds whatever goes wrong: keys, hands, and messages that are in the
stream or read, never both. With it an unfinished task stays deliverable step by
step (`TaskAttended`). While no execution outlives the idle time, `SteadyInv` says of
each task that it has one token (in the stream, pending, in the retry set or
being promoted), one loop that serves it, a message noted that is the one in
hand, and executions paid for by attempts and faults. Each step concerns one
task; for all others `Aside` says why nothing changes. Without errors `CleanInv` adds
that a loop's message is pending and a finished task has no token. Without any
fault, `Untouched` adds that every pending message is in somebody's hands, so that
nothing is ever claimed, and that the status follows the place of the token. The
refinement is then one case per transaction: the one that creates a task is
`Enqueue`, the one that marks it `Dequeue`, the two that end it `Complete` and `Fail`,
and every other command is a stutter, the reservation of a key included.

*Pentaho batches.* A row that the recovery has listed is, as long as its revision is
the same, still the abandoned batch it saw (`SeenRow`); so a batch that was not
disturbed has one claimant (`Claim`). The attempts of a batch and the requeues that
are under way stay within the limit and the requeues counted (`Budget`, a
cardinality of requests).

*Issues and mails.* The bounds on effects are not inductive: a call that has not yet
asked may still ask, and a call may write back a retry count that others have
passed. Both proofs therefore keep accounts (`Paid`). A call that starts while
another works is charged as an overlap, so `faults` pays for every call but one,
and a call asks for a row once. For each row, the requests made and the calls
that may still make one (`AheadOf`, a cardinality) stay within `n + 1 + faults` for
every retry count `n` that may yet be stored: the one in the row, and those that
calls hold (in the lot, for issues; in the session, for mails). The same sum is
kept for issues and mails made and calls that may still make one (`PendingOf`). Once
a row is settled and no call can make it say otherwise (`Quiet`), only the totals
matter. The other direction is `Recorded`: retry counts never exceed the requests
made, and a call about to say "sent" has sent. In the mail queue the session adds a
case. A call that loads a row another has settled meanwhile (`Late`, `Stale`) still
sends it, but its commit finds no column changed and writes nothing, so it must be
counted apart. `StrandedHasCause` needs `Reserved`: until a fault or an open circuit one
call works at a time, and the reserved rows are exactly those it has still to do.
The planner's part of `IssueStatusIsTrue` is an invariant of its own (`Planner`):
without a fault one call works at a time, so a row of the planner shows what became
of an item but for the one item whose result is not told yet. Both strengthened invariants were checked with TLC before they were proved.

*Circuit.* `OpenedByFailures` is inductive together with the type and with the fact
that nobody is between the test and the assignment of `record_failure`
(`NobodyOpening`), which is where it matters that the calls are coroutines: a
thread can be overtaken there. For the shield, the attempts that calls past `guard`
have left form a set of pairs (`Left`). A request takes one pair out, an open circuit
lets none in, and when it opens the call that opened it has none.

*Service cases.* A move is decided on one state and written in another. `MoveOK` says
that the version a handler read is not ahead of the case, and that if it is
still current the case permits the move in hand. A commit that changes the
state raises the version, so it leaves the second part vacuous for everybody
else; a commit with the current version is therefore a move of the matrix. The
other operations leave the cases alone (`QuietStep`, `RecordsStep`). For the gates and
the histories, every step of a handler ends without writing, prepares a row that
is sound, or inserts the row in hand (`Ends`, `Prepares`, `Inserts`). Rows and the types
of cases never change, so a sound row stays sound until it is inserted, although
what it was checked against may have moved on. What stands among the rows in `seen`
stands for ever, since rows are only added, but for a decision, which may be
replaced by one that is not in `seen`. Histories are
cardinalities: the version of a case is the number of its moves, and a state has
been entered once more than left if the case is in it, else as often
(`HistoryOK`).

## 5. What is only model-checked

* Liveness (`Settles`, `AcceptedSettles`, `Decided`, `TaskSettles`, `BatchSettles`,
  `ItemSettles`, `Recovers`, `MailSettles`): fairness is outside the prover's
  reach.

Every invariant and every action property that a run checks is also proved. The order of deadlines is proved on texts as tuples of numbers,
not on characters.

## 6. Abstractions

Left out because no property tells them apart: correlation ids, audit records,
error texts, CPU and memory figures, host and branch names, workspace keys
(one per task, so the second unique index cannot fire), the JSON of the read
views. A task's identity (repository, issue, request id) is its model value, and
everything else an enqueue carries is its intent; the code compares exactly
those fields. A lane that does not exist yet reads as the defaults it would be
created with. Time is never rolled back.

In the other modules payloads, results, texts, correlation ids, audit rows and
metrics are left out; so are backoff delays (a retry may be due at any moment)
and the expiry of documents in Redis, which takes far longer than a lease.
`listar` of the Central, which reads the index and then the requests, is one
step, and so is that of the runtime's repository (`Listar`: `SMEMBERS` and a `GET` per
job), whose result is a hint that only leads to another publication; the order in which a pass updates the requests of its plan is left open.
`is_open` of the breaker reads the opening time twice (`resilience.py:45-48`); among
threads a success in between makes the subtraction raise a `TypeError`, which the
model (`GuardCall`) leaves out: that call ends without a request.
An event row of a service case stands for the row its transaction inserts in
another table. A creation is not refused for an inactive service
(`service_cases.py:294`), and a decision reads the approval and its event in one
step, where a twin request may in fact get 409 instead of a replay: both only
refuse more. External services (Redmine, Dataverse, the mail provider,
executors) answer, refuse, or lose their answer.

## 7. Not modelled

Authentication, schemas and health of the pool's API keep no state. The runtime
in-memory queue is a stand-in for development. The lease SLO and the Central's
metrics are arithmetic for dashboards. The operational queue's heartbeat and its
health check look at no task. The Teams gateway chooses among channels
and keeps nothing but breakers. Of the service cases, the catalogue of SLA
policies, the contents of evidence and the read endpoints are left out. The
frontend, the .NET backend, workflows and CRUD handlers have no protocol of
their own; they, with scripts that read GitHub and write reports, are most of the
repository's lines. The supervisor and the bridge are clients of the pool, and
the pool model already allows its clients any behaviour.

## 8. Plan

The fall-back of the Teams gateway over several breakers: a composition of
`CircuitBreaker` instances, with the property that a message is delivered by one
channel at most unless an answer is lost.
