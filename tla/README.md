# Formal model of crJobQueueService

TLA+ modules, TLC configurations and TLAPS proofs for the job queue service in `src/codebase`.
Paths below are relative to the repository; line numbers refer to `src/...`.

## 1. The system

Three kinds of processes, all built from one NestJS code base, share two stores and nothing else.

| part | state it keeps | operations |
| --- | --- | --- |
| **jobs table** (PostgreSQL; `job.entity.ts`, the statements of `jobs.service.ts`) | one row per job: `status`, `attempts`, `createdAt`, `processingStartedAt`, `finishedAt`, `cancelledAt`, ... | INSERT of one or many rows; the conditional UPDATEs of `claimJob`, `completeJob`, `cancelJob`, `reEnqueueJob`; the unconditional UPDATE of `failJob`; the two SELECTs over abandoned jobs; the DELETE of the TTL cleanup; TRUNCATE |
| **BullMQ queue `jobs`** (Redis; a library) | one entry per job id (`jobId: savedJob.id`): waiting, active with a lock, or failed | `add`, `addBulk`, `remove`, `retry`, `getFailed`, `obliterate`; fetching, completing and failing of entries by the library's worker; lock expiry and the stalled check |
| **API** (`jobs.controller.ts`) | requests in flight | `POST /jobs`, `POST /jobs/bulk`, `DELETE /jobs/:id`: a statement on the table, **then** a call of the queue |
| **worker** (`jobs.processor.ts`, `processor.service.ts`) | `concurrency` running calls of `process()`, each with what it has read so far | claim, run the handler, complete; on failure isJobCancelled, failJob (read, write, re-read), back off and run again |
| **monitor, recovery** (`monitor.service.ts`) | running sweeps, each with its snapshot | by cron (every two minutes): reset and re-enqueue abandoned PROCESSING jobs, re-enqueue old PENDING jobs, retry or reconcile failed entries; the cleanup of old rows |
| **monitor, debug** (`debug.controller.ts`) | a running `clean/stats`; a running `run_test` with its ids, poll and counts | `clean/queue`, `clean/table`, `clean/all`, `clean/stats`; `run_test` submits 100 jobs and polls them over HTTP |
| **worker statistics** (`worker-stats.service.ts`) | counters in each worker, reports in Redis with a TTL | count around `process()`, publish, expire; read by `getWorkerMetrics` |
| **metrics** (`monitor.service.ts`) | the answers so far of a running request | `GET /metrics/jobs` (three queries), `/metrics/queue`, `/metrics/workers`, `/metrics/system` |
| **monitor UI** (`monitorUI/src/App.vue`) | selected environment, rounds of requests in flight, figures shown, spinner, test button and its timers | refresh by interval, selection of an environment, `run_test` |
| **health** | none | `GET /health` |
| **handlers and registry** (`job-handlers`, `gpu-processor`) | none | `execute(class, type, payload)`, which resolves or rejects |

How they interact: the API inserts a row, then an entry. BullMQ gives the entry to a worker, which
claims the row with a conditional UPDATE; the row, not the entry, decides who executes. The entry is
removed when `process()` resolves and kept in the failed set when it rejects. The monitor compares
timestamps of rows, without asking whether a worker is alive, and writes to both stores.

What is hard about it: every method sends several statements with awaits in between, so table and
queue disagree all the time; any process can die between two of them; `failJob` writes a value
computed from an earlier read, whatever the row has become; sweeps work on snapshots and can overlap
(cron does not await them); a worker can live on after BullMQ has given its entry away;
and an id that still has an entry makes `queue.add` a no-op.

What makes each part correct:

* **table**: a finished job stays finished; `attempts` and `FAILED` agree; a row waiting for a sweep
  has the timestamp the sweep compares.
* **API, worker and monitor together**: every accepted job is finished in the end; only one worker
  executes a job at a time; no recorded failure is overwritten in `attempts`, and without an interruption each failure is
  recorded once before the handler runs again; a job that has failed for good is
  not executed again.
* **handlers**: a job that no handler can execute never becomes COMPLETED.
* **metrics and run_test**: what is put together from several reads is not contradicted by what happens
  between them; `run_test` always gives an answer.
* **UI**: late answers, overlapping rounds and timers do not leave the page with the figures of another
  environment, a turning spinner or an old verdict.
* **statistics**: the gauge of active jobs does not drift; a finished job is in the totals; what the monitor shows becomes right
  when the work stays as it is, although reports outlive the processes that wrote them.

## 2. The modules

| module | models | state |
| --- | --- | --- |
| `Environment` | job ids, budgets of faults | `faults` |
| `JobsTable` | the table and every statement sent to it | `jobs` |
| `BullQueue` | BullMQ, as the code uses it (external) | `bull` |
| `JobHandlers` | the registry and how a handler may settle, by kind of job | - |
| `Worker` | `JobsProcessor` and `ProcessorService`, one pc per slot | `slots` |
| `Monitor` | `MonitorService`: sweeps, cleanup, `getQueueMetrics` | `mon` |
| `Api` | create, bulk create, cancel | `batches`, `removing` |
| `DebugController` | `clean/queue`, `clean/table` (and so `clean/all`) | - |
| `JobQueueService` | the composition, fairness, properties | - |
| `JobLifecycle` | abstract specification: statuses and attempts of a job, no queue, workers or sweeps | `status`, `attempts` |
| `JobExecution` | abstract specification, on top of `JobLifecycle`: exclusive executors, each failure of a handler counted once before it runs again, and counted interruptions as the only exceptions | `executor`, `phase`, `interruptions` |
| `RunTest` | `run_test`, against `JobLifecycle` | `test`, and the history variable `past` |
| `JobMetrics` | `getJobMetrics`, against `JobLifecycle` | `metrics` |
| `Clients` | `RunTest` and `JobMetrics` with the service as `JobLifecycle` describes it | `client` |
| `Dashboard` | the script of `App.vue` | `environment`, `rounds`, `shown`, ... |
| `WorkerStats` | counters, published reports, `clean/stats`, `getWorkerMetrics`, on top of `JobQueueService` | `counters`, `renamed`, `reports`, `cleaning` |
| `MCJobQueueService`, `MCWorkerStats`, `MCClients` | the instances of the runs: kinds of jobs, fault budgets | - |
| `Totals` | the sum of figures over a set, used by `WorkerStats` and `JobMetrics` | - |
| `JobQueueService_proofs` | theorems: types, rows, life cycle, locks | - |
| `Attempts_proofs` | theorems: who may write COMPLETED, FAILED and `attempts` | - |
| `Execution_proofs` | theorem: the service implements `JobExecution` | - |
| `WorkerStats_proofs`, `Clients_proofs`, `Dashboard_proofs` | theorems about these modules | - |
| `Totals_proofs` | lemmas: induction over finite sets, and sums | - |

`Worker`, `Api`, `Monitor` and `DebugController` extend the two stores; `JobQueueService` extends
all of them; `WorkerStats` extends `JobQueueService` and conjoins counting to the worker's actions.
`RunTest` and `JobMetrics` know a job by its row alone, so they extend `JobLifecycle`, the abstract
specification that the service is proved to implement: what holds of them there holds with the service.

**State and code.** An `await` is where processes interleave, so one action is what runs from
one await to the next, and a pc names the await a process stands before. A worker slot is
`claim -> execute -> complete -> return`, or
`execute -> checkCancel -> failRead -> failWrite -> failReread -> backoff -> execute`, and
`failReread -> return` when the attempts are used up; `throw` is a rejection that leaves
`process()`. `slots[s].attempts` is what `failJob` has read and not yet written back. A sweep keeps
the snapshot it still has to work through (`todo`) and the job it is working on. `batches` and `removing` are
requests that have changed the table and not yet the queue.

**Abstractions.**

* A timestamp is *none*, *fresh* or *stale* against the one limit it is compared with; `Tick`
  makes a fresh one stale. Every setting of the limits gives a subset of these behaviours.
* Class, type and payload decide only how the handler may settle: a job has a *kind* (`delay`, `flaky`,
  `inference`, `invalid`, `unknown`). Result, metadata and error text are left out; a failed call has one of two kinds of message, the ones `recoverFailedQueueJobs` lists
  (*transient*) and all others (*permanent*).
* An error of an UPDATE may come before or after its commit.
* A handler of a flaky job may resolve or reject, each time. The backoff is an await without a duration.
* `QueueMetrics` has both outcomes of `getQueueMetrics`, the counts of BullMQ and the zeros of its `catch` block.
* A worker's id is its place and how often it came back with a new one (`renamed`): the default id contains the pid, so a
  restarted worker has a new one unless `WORKER_ID` is set. No two workers share an id.
* `past` remembers which of COMPLETED and FAILED each job of a test has ever been. No action depends on it.
* FIFO order of the queue is a set of waiting entries plus strong fairness.
* `cancelJob`'s `findOne` is one step with its UPDATE, because the UPDATE tests the same condition.
* Which of more failed entries than the window has room for `getFailed` returns is left open.
* An action of `Dashboard` is one event of the page with the microtasks that follow it. A monitor answers
  requests while it is up; the test's duration is left out (a passed test always has one). A reload is a
  new start with the environment kept in `localStorage`; `Init` allows every environment.
* One `run_test` at a time is modelled: tests share nothing but the service, which `JobLifecycle` leaves
  free to do anything it promises.
* A handler that starts after the cancellation of its job still runs; the code has no check there.

**Bounds.** `MaxFaults` limits how often each kind of fault happens: `transient` and `permanent`
failed calls, `crash`es, `lockLoss` (a live worker does not renew a lock in time), `overrun` (a sweep
resets a job that a live slot works on), `clean` (a debug endpoint). `Ageing` names the columns that
may grow stale in an instance; keys are not reused, so `JobIds` bounds the number of submissions.
`attempts` is bounded by the code itself (`MaxAttempts`), `stalls` by `MaxStalledCount`. `FailedWindow` is the limit of
`getFailed` (1001 in the code), `MaxPolls` the polls of `run_test` (28 in the code), `TestIds` its jobs (100 in the code).
`MaxRounds` and `MaxTimers` bound the overlapping rounds and pending timers of the page. Nothing else is bounded (`renamed` is by the crashes, the counters by the calls). The theorems hold for all
values of these constants.

## 3. The runs

Jobs interact only through slots, sweeps and the window of failed entries, never with each other's rows or
entries, so most runs have one job and put their size into workers, sweeps and faults; `two_jobs` has the competition for a
slot and for the window. `MaxAttempts = 2` has a first failure that is retried and a last one that is not.

| run | instance | question and answer |
| --- | --- | --- |
| `locks_held` | 2 workers, 2 sweeps, 1 permanent error, 1 crash, 1 overrun; 858,894 states | As long as live workers keep their locks: no two slots work on one job (`OneWorkerPerJob`), and `queue_active` is not less than the running calls, whenever Redis answers (`QueueShowsWork`). As long, besides, as no call fails with a transient message or only one sweep runs (here: no transient error; `overlapping_sweeps` has the other case): FAILED means used up (`FailedIsExhausted`), nobody executes a FAILED job (`NoWorkOnFailedJobs`), an answered UPDATE of `failJob` raises `attempts` by one over what the row has by then and nothing else changes it (`NoAttemptLost`). All hold. |
| `deletion` | 1 worker with 2 slots, 1 lost lock, 1 overrun, 1 clean; TTLs age; 763,528 states | Rows and entries vanish under everybody, and two slots do work on one job. `TypeOK`, `TimestampsMatchStatus`, `ExhaustedIsFailed`, `FinishedStaysFinished` and the refinement `ImplementsLifecycle` hold all the same. |
| `recovery` | 2 workers, 1 sweep, 1 transient error, 1 crash, 1 overrun; finished rows are deleted; fair; 148,512 states | `EventuallyFinished`: every accepted job gets finished. The executions implement `JobExecution` (`ImplementsExecution`): a failure that is not counted, or counted twice, or a handler that runs again without a counted failure, needs an interruption of its own. Both hold. |
| `two_jobs` | 2 jobs, one of kind `unknown`, 1 slot, 2 attempts, a window of 1 failed entry, 1 transient and 1 permanent error, no row ages; fair; 129,400 states | Without the recovery by age, what is not finished has lost its entry or sits in the failed set for good (`FinishedUnlessStranded`); a transient failure is retried unless the window is full (`TransientIsRetried`); the unknown job is never COMPLETED (`CompletedWasExecuted`). All hold. |
| `worker_stats` | 1 worker with 2 slots, 1 transient error, 1 crash with the old or a new id, 1 lost lock; fair publishing; 666,578 states | The gauge is the number of running calls (`ActiveIsInFlight`). While nothing has crashed, jobs that ended, COMPLETED or FAILED, are no more than the running calls, the processed ones and the calls of the stores that failed (`FinishedAreProcessed`). The jobs in processing that `getWorkerMetrics` shows become as many as there are, once the calls stay the same, and neither a report of a dead process nor a deletion keeps them wrong (`FiguresCatchUp`). All hold. |
| `clients` | a test of 4 jobs, one of them no sample, 2 polls; or metrics of 2 jobs in 2 classes; any behaviour of `JobLifecycle`; 427,283 states | A passed test means that every job was COMPLETED at some moment (`PassedIsCompleted`), a failed one that each was COMPLETED or FAILED and one was FAILED (`FailedIsReal`); the test is answered (`TestAnswers`); the figures of `getJobMetrics` differ by deletions only, in one direction (`FiguresFitTogether`). All hold. |
| `dashboard` | 2 environments, 2 endpoints, 2 overlapping rounds, 2 timers, monitors go up and down; fair; 104,128 states | `SpinnerIsFetching`, `ShowsSelected`, `TestEnds`, `VerdictLeaves`. All hold. |
| `valid_transitions` | 1 worker, no faults | `OnlyValidTransitions` of the documentation is violated. |
| `exactly_once` | 2 workers, 1 lost lock, 1 overrun | `OneWorkerPerJob` without the locks is violated. |
| `stuck_pending` | 1 permanent error; fair | `EventuallyFinished` is violated. |
| `pending_sweep` | 1 overrun | `PendingRecoveryKeepsRow` is violated. |
| `overlapping_sweeps` | 2 sweeps, a transient and a permanent error | `FailedIsExhausted` is violated. |

Why these bounds are enough to be interesting: one overrun plus a second worker gives the redelivery of a
job under a running one; one lost lock makes two executors; two sweeps are the least that can race
each other; one worker that comes back with a new id leaves a report
of a dead process beside its own; four jobs are the least of which `run_test` leaves one out of its samples; two rounds and two
environments are enough for an answer of an environment that is no longer selected; one error is enough for each way out of the worker's `try` block and for a failed
entry. Under TLC's nested coverage every action of every module fires in at least one passing run
(`CleanQueue`, `CleanTable`, `RowMissing`, `ReconcileGone`, `HeldLockExpires` and `Cleanup` in `deletion`,
`RetryFailed` in `recovery`, ...). Deadlock is checked in all runs but `clients`: after the verdict, and when
all jobs have been deleted, nothing is left to do there.

### Fairness

`FairSpec` adds, and each run with a liveness property uses it:

* weak fairness of every slot's and sweep's own steps: awaits are settled (a database or Redis call
  resolves or rejects), handlers settle, cron keeps ticking, BullMQ redelivers and restarts;
* weak fairness of a create request's second step;
* strong fairness of fetching an entry: BullMQ is FIFO, so an entry that waits each time a slot
  becomes free is fetched, although other entries come first now and then;
* weak fairness of lock expiry and stalled check, and of the clock for the columns in `Ageing`.

There is none for client requests, cancellations, faults, the TTL cleanup and the debug endpoints.
A handler may fail every time: the attempts then end the job.

`ClientsSpec` has weak fairness of the running test only: its timers fire and its requests are answered, while nothing is assumed of the
service. `StatsFairSpec` has weak fairness of each worker's `publishStats`, which an interval repeats, and of the TTL of the
ids that no running worker has; there is none for the service, for `clean/stats`, or for the expiry of an id in use, which
happens only when Redis fails for a TTL. `DashSpec` has it for every request (answered or rejected), the interval and the timers;
the step that follows the verdict is strongly fair because an instance has few rounds, and the interval
must not take each free one for ever.

### What the code does and the documentation excludes

1. **CANCELLED becomes FAILED** (`valid_transitions`). `failJob`'s UPDATE
   (`jobs.service.ts:249`) has only the id in its WHERE; a cancellation that comes after
   `isJobCancelled` is overwritten. `docs/ARCHITECTURE.md` lists no transition out of CANCELLED.
2. **Not exactly once** (`exactly_once`). The reset of a PROCESSING row (`jobs.service.ts:291`) does not
   know whether its worker lives. Together with a lock that is not renewed in time, two workers execute
   the job. The theorem `OneWorkerAlways` says that the lost lock is necessary.
3. **A PENDING job can be stranded** (`stuck_pending`). A claim that rejects with an unlisted message
   leaves a failed entry; from then on `queue.add` with that id is ignored in every sweep
   (`jobs.service.ts:303`). The reconciliation logs "Reconciled job ... as FAILED in DB" but leaves the row as it is,
   since failJob writes FAILED only when `attempts` has reached `maxAttempts`.
4. **Recovery of PENDING jobs resets running ones** (`pending_sweep`), since it works on a snapshot and
   `reEnqueueJob` updates PROCESSING rows.
5. **FAILED with attempts left** (`overlapping_sweeps`). A reconciliation writes the attempts it has read
   before another sweep's retry let the worker record the final failure.
6. **A FAILED job is counted as processed** (no run of its own; `FinishedAreProcessed` in `worker_stats` holds). `processJob` resolves when it gives a job up, so
   `jobs.processor.ts:44` counts it in `worker_processed_jobs_total`; `worker_failed_jobs_total` counts calls that reject.
   `docs/MONITORING.md:32-33` has jobs completed and jobs failed.

## 4. The proofs

Every safety property that a run checks, invariant, action property or refinement, is also a theorem, for every number of jobs,
workers, slots, sweeps, attempts, environments, endpoints and faults:

| theorem | statement | assumes, beyond the constants' ASSUMEs |
| --- | --- | --- |
| `JobQueueService_proofs` | | |
| `TypeCorrect` | `Spec => []TypeOK` | |
| `TimestampsAlwaysMatch` | `Spec => []TimestampsMatchStatus` | |
| `ExhaustedAlwaysFailed` | `Spec => []ExhaustedIsFailed` | |
| `FinishedAlwaysStays` | `Spec => FinishedStaysFinished` | |
| `LifecycleImplemented` | `Spec => ImplementsLifecycle` | |
| `OneWorkerAlways` | `Spec => []OneWorkerPerJob` | `NoLockLoss` |
| `QueueAlwaysShowsWork` | `Spec => []QueueShowsWork` | `NoLockLoss`, finitely many jobs |
| `Attempts_proofs` | | |
| `CompletedAlwaysExecuted` | `Spec => []CompletedWasExecuted` | |
| `FailedAlwaysExhausted` | `Spec => []FailedIsExhausted` | `NoLockLoss`, `NoStaleRetry` |
| `NeverWorkOnFailedJobs` | `Spec => []NoWorkOnFailedJobs` | `NoLockLoss`, `NoStaleRetry` |
| `AttemptsNeverLost` | `Spec => NoAttemptLost` | `NoLockLoss`, `NoStaleRetry` |
| `Execution_proofs` | | |
| `ExecutionImplemented` | `Spec => ImplementsExecution` | `NoLockLoss`, `NoStaleRetry` |
| `WorkerStats_proofs` | | |
| `StatsKeepService` | `StatsSpec => Spec` | |
| `ActiveAlwaysInFlight` | `StatsSpec => []ActiveIsInFlight` | |
| `FinishedAlwaysProcessed` | `StatsSpec => []FinishedAreProcessed` | finitely many workers |
| `Clients_proofs` | | |
| `ClientsTypeCorrect` | `ClientsSpec => []ClientsTypeOK` | finitely many jobs |
| `PassedAlwaysCompleted` | `ClientsSpec => []PassedIsCompleted` | |
| `FailedAlwaysReal` | `ClientsSpec => []FailedIsReal` | |
| `FiguresAlwaysFit` | `ClientsSpec => []FiguresFitTogether` | finitely many jobs |
| `RightWithAnyService` | `OpenSpec => [](PassedIsCompleted /\ FailedIsReal /\ FiguresFitTogether)` | finitely many jobs |
| `Dashboard_proofs` | | |
| `DashTypeCorrect` | `DashSpec => []DashTypeOK` | |
| `SpinnerAlwaysFetching` | `DashSpec => []SpinnerIsFetching` | |

The assumptions:

* `NoLockLoss`: `MaxFaults["lockLoss"] = 0` and `MaxFaults["clean"] = 0`, so no live worker fails to renew a lock and nobody
  calls the debug clean endpoints for queue and table. Without it two slots work on one job (`exactly_once`).
* `NoStaleRetry`: no call fails with a transient message, or at most one sweep runs at a time. Without it the run
  `overlapping_sweeps` violates `FailedIsExhausted`: an entry that one sweep has read as failed is retried by another one,
  and a worker runs the job that the first sweep reconciles. Any number of sweeps, permanent failures, crashes and overruns remain.
* A set is finite only where its elements are counted or summed. The job ids that an execution has used, the workers
  of an installation are.

### The arguments

*Rows.* All actions change the table by one of the statements of `JobsTable`. One lemma shows that
every step of `Next` does (`TableStep`), another that such a step changes each row in one of a few ways
(`RowStep`). Timestamps, exhausted attempts and finished rows then need one case per way and no
more case over the actions. That a deleted row does not come back needs that keys without a
row stay blank (`NoRowAlwaysVoid`). The refinement maps the table's statement to the abstract action
of the same meaning; steps that leave the table alone stutter.

*Locks.* `OneWorkerPerJob` is not inductive: nothing in it says that a second worker cannot claim the row
of a running job after a sweep has reset it. What prevents it is BullMQ: `LocksHeld` says that the entry of every
busy slot's job is active and owned by that very slot. It is inductive under `NoLockLoss`: an entry with an owner is
neither fetched, nor removed, retried, added again or found stalled. Two slots on one job would own one entry, so they are one;
and busy slots map one-to-one to active entries, which is `QueueShowsWork`.

*Who writes.* `Attempts_proofs` classifies a step by its sender (`StatementOf`) and by what it does to
each slot (`SlotMove`), sweep (`SweepMove`) and entry (`EntryMove`). `CompletedWasExecuted` follows with `CompletionsAreReal`, that a
slot before `completeJob` has a job of a kind some handler can execute.

*Attempts.* `failJob` writes what it has computed from an earlier read. `AttemptsInv` has, besides
`LocksHeld` and the rows' invariants, that what a slot before its UPDATE has read is what the row has
(`SlotReads`), unless the row is gone, and the same for a sweep (`SweepReads`). A slot's count is disturbed only by another writer of the
same row, and there is none: another slot would own the same entry, and a job that a sweep reconciles is
*doomed* (`ReconciledAreDoomed`): its entry is failed, or its row is over and nobody works on it, so no
slot can get it. That an entry read as failed stays so is where `NoStaleRetry` comes in. It needs, in turn, that queue, slots,
sweeps and requests mention only keys that have been inserted (`OnlySubmitted`). `ImplementsExecution` maps a step of the slot that executes a job to
the abstract step of the same meaning, by the same invariant: that `failJob` writes one more than the row has is what makes its UPDATE the abstract `CountOne`.
A step that spends a fault maps to an interruption; the rest stutters.

*Statistics.* `StatsInv` is the type and `ActiveIsInFlight`. `FinishedAreProcessed` says nothing of who made a job end, so it is not
inductive. A job is *settled* when its row, its entry or a sweep shows that a call of `process()` has had it (`Executed`), and no call
that can still resolve has it now. `SettledAreProcessed` says that settled jobs are no more than the processed calls and the interruptions: a job gets
settled only by the slot that closes its call (`OnlyClosingSettles`), one job at a time, and closing is a resolution, which is
counted, or the `throw` of a rejected database call, which is an interruption (`ClosingCounts`). A finished job is settled or in a busy slot, and the busy slots are the sum of the
gauges (`BusyAreCounted`).

*Clients.* `past` is a history variable, so it only grows, and it has what each job is now (`Remembered`). `TestInv` says of a test that fetches all jobs: the jobs
left are the end of the list; if as many jobs were counted as were fetched, each has an ending in its past; if all were counted as COMPLETED, each has COMPLETED in
it; and if one was counted as FAILED, one has FAILED in it.
`MetricsInv` compares each answer with the rows as they are now until the next query has answered: rows leave the
statuses of a figure only by deletion (`StatusesMoved`), so what is counted later lacks the deleted rows at most. `OpenSpec` lets the service take
any step of `JobLifecycle`, where `ClientsSpec` bounds the failures recorded at once and leaves the test's jobs to the test.

*The page.* `DashInv` has, besides `SpinnerIsFetching`, that a test before its verdict has disabled the button and leaves room for its timer.

*Sums.* The induction theorems of the library take the property as an operator, which the provers cannot
instantiate. `Totals_proofs` states induction over the subsets of a finite set for a *set* of subsets instead (`SubsetInduction`), from the
well-foundedness of strict inclusion, shows that the fold behind `Total` exists and unfolds, and proves what the
others cite: a sum of bounded numbers is bounded, one changed summand changes the sum by as much, and the sizes of
disjoint parts add up.

*Only model-checked.* The liveness properties (`EventuallyFinished`, `FinishedUnlessStranded`, `TransientIsRetried`,
`FiguresCatchUp`, `TestAnswers`, `ShowsSelected`, `TestEnds`, `VerdictLeaves`), which need fairness and ENABLED and are out of the prover's reach.

## 5. Not modelled

* `getSystemMetrics` and the monitor's own totals (`abandonedJobsRecovered`, ...): they grow without bound and
  decide nothing; how they count too much or too little is in the hazards list.
* the health endpoints: they answer from no state of their own.
* of the UI, the template, formatting, error texts and the duration of a test. Of `Test Failed`, the label that the page
  has before any test (`testSuccess` starts as false), only the value of `testSuccess` is kept.
* the scripts in `src/tests`: clients of the API without state of their own.
* parsing of the configuration, dependency injection, bootstrap, logging: no state.
* CPU, memory and pool figures in the workers' reports.
* a crash of a worker without running jobs (it changes nothing but its counters).

## 6. Plan

Done: table and queue; worker; monitor; API; composition; abstract life cycle and refinement; statistics;
the bounded window of failed entries; handlers and kinds of jobs; exclusive executors as a second abstract specification; `run_test` and
the metrics over the life cycle; the page; theorems for all safety properties. Next:

1. the step lemmas of the liveness arguments, as far as they are safety: a fair step of a slot or a sweep is not disabled by anyone
   else, and each one lowers a measure of what is left to do;
2. weaker assumptions: `FailedIsExhausted` and `NoAttemptLost` for rows whose entry has not been retried, instead of `NoStaleRetry` for all.
