--------------------------- MODULE JobQueueService ---------------------------
(***************************************************************************)
(* The whole service: API, workers and monitor, which share the jobs table *)
(* and the BullMQ queue and nothing else.                                  *)
(***************************************************************************)
EXTENDS Monitor, Api, DebugController

vars == <<faults, jobs, bull, slots, mon, batches, removing>>

Init ==
    /\ FaultsInit /\ JobsInit /\ BullInit
    /\ WorkerInit /\ MonInit /\ ApiInit

\* Time passes a limit of some row.
Tick ==
    /\ \E j \in JobIds, c \in Columns : Age(j, c)
    /\ UNCHANGED <<faults, bull, slots, mon, batches, removing>>

Next ==
    \/ WorkerNext /\ UNCHANGED <<mon, batches, removing>>
    \/ MonitorNext /\ UNCHANGED <<batches, removing>>
    \/ ApiNext /\ UNCHANGED <<slots, mon>>
    \/ DebugNext /\ UNCHANGED <<slots, mon, batches, removing>>
    \/ Tick

Spec == Init /\ [][Next]_vars

-----------------------------------------------------------------------------
(* Fairness: pending awaits are eventually resolved, handlers settle, an   *)
(* idle worker fetches a waiting entry, cron ticks, locks expire, clocks   *)
(* advance.  No fairness for client requests, faults and the TTL cleanup.  *)

FairWorker(s) == WF_vars(SlotStep(s) /\ UNCHANGED <<mon, batches, removing>>)
FairSweep(m) == WF_vars(SweepStep(m) /\ UNCHANGED <<batches, removing>>)
FairEnqueue(S) == WF_vars(Enqueue(S) /\ UNCHANGED <<slots, mon>>)
FairClock(j, c) == WF_vars(Age(j, c) /\ UNCHANGED <<faults, bull, slots, mon, batches, removing>>)

\* The queue is FIFO, so an entry that waits again and again is fetched.
FairEntry(j) ==
    /\ SF_vars((\E s \in Slots : Take(s, j)) /\ UNCHANGED <<mon, batches, removing>>)
    /\ WF_vars(LockStep(j) /\ UNCHANGED <<mon, batches, removing>>)

FairSpec ==
    /\ Spec
    /\ \A s \in Slots : FairWorker(s)
    /\ \A m \in Sweeps : FairSweep(m)
    /\ \A S \in SUBSET JobIds : FairEnqueue(S)
    /\ \A j \in JobIds : FairEntry(j) /\ \A c \in Columns : FairClock(j, c)

-----------------------------------------------------------------------------
(* Properties that hold under any faults. *)

\* Every variable has its type.
TypeOK ==
    /\ FaultsTypeOK /\ JobsTypeOK /\ BullTypeOK
    /\ SlotsTypeOK /\ MonTypeOK /\ ApiTypeOK

\* What the monitor's SELECTs and the TTL's DELETE rely on: a row that waits for
\* one of them has the timestamp they compare.  A NULL there compares to
\* nothing: the job would never be recovered, or the row never deleted.
TimestampsMatchStatus ==
    \A j \in JobIds :
        /\ RowExists(j) => jobs[j].at["createdAt"] # "none"
        /\ jobs[j].status = "PROCESSING" => jobs[j].at["processingStartedAt"] # "none"
        /\ jobs[j].status \in {"COMPLETED", "FAILED"} => jobs[j].at["finishedAt"] # "none"
        /\ jobs[j].status = "CANCELLED" => jobs[j].at["cancelledAt"] # "none"

\* A job that has used up its attempts is FAILED: no interleaving of failJob
\* with a claim, a reset, a cancellation or a completion brings it back.
ExhaustedIsFailed ==
    \A j \in JobIds : jobs[j].attempts >= MaxAttempts => jobs[j].status = "FAILED"

\* A job that is COMPLETED, FAILED or CANCELLED never runs again for its client:
\* only a late failJob can still change the status (to FAILED), or its row is
\* deleted; and a deleted row does not come back.
FinishedStaysFinished ==
    [][\A j \in JobIds :
          /\ jobs[j].status \in Finished => jobs'[j].status \in {jobs[j].status, "FAILED", "DELETED"}
          /\ jobs[j].status = "DELETED" => jobs'[j] = jobs[j]]_jobs

\* A job without a handler, or whose handler refuses its payload, is never COMPLETED:
\* not by a retry, a redelivery, a late completion of another worker or a
\* reconciliation.
CompletedWasExecuted ==
    \A j \in JobIds : jobs[j].status = "COMPLETED" => Kind[j] \notin {"invalid", "unknown"}

\* The service implements the abstract life cycle of a job.
Lifecycle == INSTANCE JobLifecycle WITH
    status <- [j \in JobIds |-> jobs[j].status],
    attempts <- [j \in JobIds |-> jobs[j].attempts]

ImplementsLifecycle == Lifecycle!Spec

-----------------------------------------------------------------------------
(* Properties that need BullMQ's locks: no lock of a live worker is lost    *)
(* and nobody obliterates the queue.                                        *)

\* No two slots work on one job, whatever claims, resets, re-enqueues, crashes
\* and stalled entries come together.
OneWorkerPerJob ==
    \A s, t \in Slots :
        /\ slots[s].pc \in WorkingPCs
        /\ slots[t].pc \in WorkingPCs
        /\ slots[s].job = slots[t].job
        => s = t

\* Conversely to ExhaustedIsFailed, a job is FAILED only when it has used up its
\* attempts: neither the monitor's reconciliation nor another worker writes an
\* older count over the final one.
FailedIsExhausted ==
    \A j \in JobIds : jobs[j].status = "FAILED" => jobs[j].attempts >= MaxAttempts

\* No slot runs, or is about to run again, the handler of a job that is FAILED.
NoWorkOnFailedJobs ==
    \A s \in Slots :
        slots[s].pc \in {"execute", "complete", "backoff"} => jobs[slots[s].job].status # "FAILED"

\* Slot s ends failJob's UPDATE of job j, answered ("failReread") or not ("throw").
EndsUpdate(s, j) ==
    /\ slots[s].job = j /\ slots[s].pc = "failWrite"
    /\ slots'[s].pc \in {"failReread", "throw"}

\* No failure that failJob's UPDATE has recorded is overwritten: an answered UPDATE
\* raises attempts by one over what the row has by then, though it writes a value
\* computed from an earlier read, and nothing else changes attempts, in particular
\* no reconciliation.
NoAttemptLost ==
    [][\A j \in JobIds :
          RowExists(j) /\ RowExists(j)' =>
              /\ \A s \in Slots : EndsUpdate(s, j) /\ slots'[s].pc = "failReread" =>
                                    jobs'[j].attempts = jobs[j].attempts + 1
              /\ jobs'[j].attempts # jobs[j].attempts =>
                    /\ \E s \in Slots : EndsUpdate(s, j)
                    /\ jobs'[j].attempts = jobs[j].attempts + 1]_vars

\* Who executes job j, of those who have claimed it and not given it up.
ExecutorOf(j) ==
    IF WorkingOn(j) THEN CHOOSE s \in Slots : slots[s].job = j /\ slots[s].pc \in WorkingPCs ELSE NoSlot

\* How far a slot at pc is with the execution of its job.
PhaseAt(pc) ==
    CASE pc \in {"execute", "backoff"} -> "executing"
      [] pc = "complete" -> "succeeded"
      [] pc \in {"checkCancel", "failRead", "failWrite"} -> "failing"
      [] pc = "failReread" -> "counted"
      [] pc \in WorkerPCs \ WorkingPCs -> "none"

PhaseOf(j) == IF WorkingOn(j) THEN PhaseAt(slots[ExecutorOf(j)].pc) ELSE "none"

\* The failing calls and dying processes; a sweep that overruns a worker is none.
Interruptions == faults["transient"] + faults["permanent"] + faults["crash"]

\* Queue, claims, sweeps and redeliveries together implement exclusive executions:
\* except for interruptions every failure of a handler is counted once, and the
\* handler runs again only after a counted failure that was not the last one.
Execution == INSTANCE JobExecution WITH
    Executors <- Slots,
    NoExecutor <- NoSlot,
    status <- [j \in JobIds |-> jobs[j].status],
    attempts <- [j \in JobIds |-> jobs[j].attempts],
    executor <- [j \in JobIds |-> ExecutorOf(j)],
    phase <- [j \in JobIds |-> PhaseOf(j)],
    interruptions <- Interruptions

ImplementsExecution == Execution!ExecutionSpec

\* "Jobs currently being processed": whenever Redis answers, queue_active does not fall
\* short of the calls of process() that are running, so redeliveries and re-enqueues
\* give a running job neither a second call nor a state of its entry in which it is
\* not counted.  (When Redis does not answer, the figure is 0.)
QueueShowsWork ==
    Cardinality({s \in Slots : slots[s].pc # "idle"}) <= QueueMetrics(FALSE).queue_active

-----------------------------------------------------------------------------
(* Liveness, under FairSpec. *)

\* Every accepted job is finished in the end, through crashes, failed calls and
\* failed enqueues, by retries and by the monitor's sweeps.
EventuallyFinished ==
    \A j \in JobIds : jobs[j].status = "PENDING" ~> jobs[j].status \in Finished \cup {"DELETED"}

\* A failed entry that no sweep retries: its message is not in the list of
\* recoverFailedQueueJobs, or such entries can fill the window of getFailed.
Unretriable == {j \in FailedEntries : bull[j].reason # "transient"}
WindowFull == Cardinality(Unretriable) >= FailedWindow

\* An entry that has failed with a transient message is retried, unless entries
\* that stay for good can fill the window.
TransientIsRetried ==
    \A j \in JobIds :
        bull[j].st = "failed" /\ bull[j].reason = "transient" ~> bull[j].st # "failed" \/ WindowFull

\* A live row has lost its entry and no request will add one: only its age can
\* bring the job back.
LeftToAge(j) == jobs[j].status \in Live /\ bull[j].st = "none" /\ \A S \in batches : j \notin S

\* Even if no row ever grows old: a job is finished, unless it has lost its entry
\* or the entry is stuck in the failed set, by its own message or, when the window
\* is full, by those of others.  Jobs that compete for a slot all get it.
FinishedUnlessStranded ==
    \A j \in JobIds :
        jobs[j].status = "PENDING" ~>
            \/ jobs[j].status \in Finished \cup {"DELETED"}
            \/ LeftToAge(j)
            \/ j \in Unretriable
            \/ j \in FailedEntries /\ WindowFull

-----------------------------------------------------------------------------
(* What the documentation says and the code does not do. *)

\* "Valid Transitions" of docs/ARCHITECTURE.md.
ValidTransitions ==
    {<<"PENDING", "PROCESSING">>, <<"PENDING", "CANCELLED">>,
     <<"PROCESSING", "COMPLETED">>, <<"PROCESSING", "FAILED">>,
     <<"PROCESSING", "CANCELLED">>, <<"PROCESSING", "PENDING">>}

\* Every change of a row's status is one of the documented transitions.
OnlyValidTransitions ==
    [][\A j \in JobIds :
          RowExists(j) /\ RowExists(j)' /\ jobs'[j].status # jobs[j].status =>
              <<jobs[j].status, jobs'[j].status>> \in ValidTransitions]_jobs

\* Recovery of abandoned PENDING jobs: "No database update needed (already
\* PENDING)", so it leaves the row as it is.
PendingRecoveryKeepsRow ==
    [][\A m \in Sweeps, j \in JobIds :
          mon[m].pc = "pending" /\ Reset(m, j) => jobs'[j] = jobs[j]]_vars
=============================================================================
