------------------------------- MODULE Monitor -------------------------------
(***************************************************************************)
(* The monitor process: handleAbandonedJobs and handleCleanup, which cron  *)
(* calls.  The cron callback does not await the sweep, so the next tick    *)
(* starts another one while the first still runs: each element of Sweeps   *)
(* is a sweep that can run at the same time as the others.                 *)
(*                                                                         *)
(* A sweep takes the rows or entries of a SELECT into memory (todo) and    *)
(* then handles them one by one, each with further awaits:                 *)
(*                                                                         *)
(*   processing     recoverAbandonedProcessingJobs, between two jobs       *)
(*   processingAdd  ... reEnqueueJob, between the UPDATE and queue.add     *)
(*   pending, pendingAdd   recoverAbandonedPendingJobs, likewise           *)
(*   failed         recoverFailedQueueJobs, between two entries            *)
(*   reconcileRead  ... failJob, before its findOne                        *)
(*   reconcileWrite ... failJob, before its UPDATE                         *)
(***************************************************************************)
EXTENDS Worker

CONSTANTS
    Sweeps,         \* invocations of handleAbandonedJobs that can overlap
    FailedWindow    \* failed entries that one sweep reads (1001 in the code)

ASSUME FailedWindowAssumption == FailedWindow \in Nat \ {0}

VARIABLE mon            \* for each sweep its pc, snapshot and current job

SweepPCs == {"idle", "processing", "processingAdd", "pending", "pendingAdd",
             "failed", "reconcileRead", "reconcileWrite"}

\* retriable: the entries of todo whose failedReason is transient.
Sweep == [pc : SweepPCs, todo : SUBSET JobIds, retriable : SUBSET JobIds,
          job : JobIds \cup {NoJob}, attempts : Nat]

MonTypeOK ==
    /\ mon \in [Sweeps -> Sweep]
    /\ \A m \in Sweeps : mon[m].job = NoJob <=> mon[m].pc \in {"idle", "processing", "pending", "failed"}

IdleSweep == [pc |-> "idle", todo |-> {}, retriable |-> {}, job |-> NoJob, attempts |-> 0]

MonInit == mon = [m \in Sweeps |-> IdleSweep]

\* The next phase starts with the snapshot S, of which R is retriable.
BeginPhase(m, pc, S, R) ==
    mon' = [mon EXCEPT ![m] = [pc |-> pc, todo |-> S, retriable |-> R,
                               job |-> NoJob, attempts |-> 0]]

\* Job j is dealt with: sweep m goes on with the rest of its snapshot.
Done(m, pc, j) ==
    mon' = [mon EXCEPT ![m].pc = pc, ![m].job = NoJob, ![m].attempts = 0,
                       ![m].todo = @ \ {j}]

\* The await of sweep m that follows for job j.
Await(m, pc, j) == mon' = [mon EXCEPT ![m].pc = pc, ![m].job = j]

-----------------------------------------------------------------------------
\* The cron tick: findAbandonedProcessingJobs.
StartSweep(m) ==
    /\ mon[m].pc = "idle"
    /\ BeginPhase(m, "processing", AbandonedProcessingJobs, {})
    /\ UNCHANGED <<faults, jobs, bull, slots>>

\* The first phase is over: findAbandonedPendingJobs.
FindPending(m) ==
    /\ mon[m].pc = "processing"
    /\ mon[m].todo = {}
    /\ BeginPhase(m, "pending", AbandonedPendingJobs, {})
    /\ UNCHANGED <<faults, jobs, bull, slots>>

\* Mutant: the message is looked for where BullMQ does not put it.
Retriable_None(S) == {}

\* isTransient, for the failedReason of the entries S.
Retriable(S) == {j \in S : bull[j].reason = "transient"}

\* The second phase is over: getFailed, which is limited.
GetFailed(m) ==
    /\ mon[m].pc = "pending"
    /\ mon[m].todo = {}
    /\ \E S \in FailedWindows(FailedWindow) : BeginPhase(m, "failed", S, Retriable(S))
    /\ UNCHANGED <<faults, jobs, bull, slots>>

EndSweep(m) ==
    /\ mon[m].pc = "failed"
    /\ mon[m].todo = {}
    /\ BeginPhase(m, "idle", {}, {})
    /\ UNCHANGED <<faults, jobs, bull, slots>>

\* reEnqueueJob's UPDATE, for a job of the snapshot.  Resetting a job that a
\* slot is working on is bounded by the budget "overrun".
Reset(m, j) ==
    /\ mon[m].pc \in {"processing", "pending"}
    /\ j \in mon[m].todo
    /\ ResetJob(j)
    /\ IF jobs[j].status = "PROCESSING" /\ WorkingOn(j) THEN Spend("overrun") ELSE UNCHANGED faults
    /\ Await(m, IF mon[m].pc = "processing" THEN "processingAdd" ELSE "pendingAdd", j)
    /\ UNCHANGED <<bull, slots>>

\* reEnqueueJob's queue.add, whatever the UPDATE has affected.
ReEnqueue(m) ==
    /\ mon[m].pc \in {"processingAdd", "pendingAdd"}
    /\ AddEntries({mon[m].job})
    /\ Done(m, IF mon[m].pc = "processingAdd" THEN "processing" ELSE "pending", mon[m].job)
    /\ UNCHANGED <<faults, jobs, slots>>

\* A failed entry with a transient reason: bullJob.retry().
RetryFailed(m, j) ==
    /\ mon[m].pc = "failed"
    /\ j \in mon[m].todo \cap mon[m].retriable
    /\ RetryEntry(j)
    /\ Done(m, "failed", j)
    /\ UNCHANGED <<faults, jobs, slots>>

\* Any other failed entry whose row is there and not FAILED: call failJob.
Reconcile(m, j) ==
    /\ mon[m].pc = "failed"
    /\ j \in mon[m].todo \ mon[m].retriable
    /\ RowExists(j) /\ jobs[j].status # "FAILED"
    /\ Await(m, "reconcileRead", j)
    /\ UNCHANGED <<faults, jobs, bull, slots>>

\* findById throws, or the row is FAILED already.
SkipReconcile(m, j) ==
    /\ mon[m].pc = "failed"
    /\ j \in mon[m].todo \ mon[m].retriable
    /\ ~RowExists(j) \/ jobs[j].status = "FAILED"
    /\ Done(m, "failed", j)
    /\ UNCHANGED <<faults, jobs, bull, slots>>

\* failJob(.., incrementAttempts = false): findOne.
ReconcileRead(m) ==
    /\ mon[m].pc = "reconcileRead"
    /\ RowExists(mon[m].job)
    /\ mon' = [mon EXCEPT ![m].pc = "reconcileWrite",
                          ![m].attempts = jobs[mon[m].job].attempts]
    /\ UNCHANGED <<faults, jobs, bull, slots>>

\* ... or NotFoundException, which the inner catch swallows.
ReconcileGone(m) ==
    /\ mon[m].pc = "reconcileRead"
    /\ ~RowExists(mon[m].job)
    /\ Done(m, "failed", mon[m].job)
    /\ UNCHANGED <<faults, jobs, bull, slots>>

\* Mutant: failJob is called with its default, incrementAttempts = true.
ReconcileWrite_Increments(m) ==
    /\ mon[m].pc = "reconcileWrite"
    /\ WriteFailure(mon[m].job, mon[m].attempts + 1)
    /\ Done(m, "failed", mon[m].job)
    /\ UNCHANGED <<faults, bull, slots>>

\* ... and its UPDATE, with attempts as read.
ReconcileWrite(m) ==
    /\ mon[m].pc = "reconcileWrite"
    /\ WriteFailure(mon[m].job, mon[m].attempts)
    /\ Done(m, "failed", mon[m].job)
    /\ UNCHANGED <<faults, bull, slots>>

\* handleCleanup: one DELETE.
Cleanup ==
    /\ OldJobs # {}
    /\ DeleteJobs(OldJobs)
    /\ UNCHANGED <<faults, bull, slots, mon>>

\* A call for one job rejects: its catch block goes on with the next job.
JobErrs(m, j) ==
    /\ \/ mon[m].pc \in {"processing", "pending", "failed"} /\ j \in mon[m].todo
       \/ mon[m].pc \in {"processingAdd", "pendingAdd", "reconcileRead", "reconcileWrite"}
             /\ j = mon[m].job
    /\ \E k \in DbErrors : Spend(k)
    /\ Done(m, CASE mon[m].pc \in {"processing", "processingAdd"} -> "processing"
                 [] mon[m].pc \in {"pending", "pendingAdd"} -> "pending"
                 [] OTHER -> "failed", j)
    /\ UNCHANGED <<jobs, bull, slots>>

\* A query for a snapshot rejects and the sweep ends.
QueryErrs(m) ==
    /\ mon[m].pc \in {"processing", "pending"}
    /\ mon[m].todo = {}
    /\ \E k \in DbErrors : Spend(k)
    /\ BeginPhase(m, "idle", {}, {})
    /\ UNCHANGED <<jobs, bull, slots>>

\* The monitor process dies in the middle of its sweeps and is restarted.
CrashMonitor ==
    /\ \E m \in Sweeps : mon[m].pc # "idle"
    /\ Spend("crash")
    /\ mon' = [m \in Sweeps |-> IdleSweep]
    /\ UNCHANGED <<jobs, bull, slots>>

\* getQueueMetrics; when getJobCounts rejects, its catch block answers with zeros.
QueueMetrics(rejects) ==
    LET Count(st) == IF rejects THEN 0 ELSE JobCounts(st)
    IN  [queue_depth |-> Count("wait") + Count("active"), queue_waiting |-> Count("wait"),
         queue_active |-> Count("active"), queue_failed |-> Count("failed")]

-----------------------------------------------------------------------------
\* What sweep m does next by itself.
SweepStep(m) ==
    \/ StartSweep(m) \/ FindPending(m) \/ GetFailed(m) \/ EndSweep(m)
    \/ ReEnqueue(m)
    \/ ReconcileRead(m) \/ ReconcileGone(m) \/ ReconcileWrite(m)
    \/ \E j \in JobIds : Reset(m, j) \/ RetryFailed(m, j) \/ Reconcile(m, j) \/ SkipReconcile(m, j)

MonitorFault ==
    \/ \E m \in Sweeps : QueryErrs(m) \/ \E j \in JobIds : JobErrs(m, j)
    \/ CrashMonitor

MonitorNext ==
    \/ \E m \in Sweeps : SweepStep(m)
    \/ Cleanup
    \/ MonitorFault
=============================================================================
