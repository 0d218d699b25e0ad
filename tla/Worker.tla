-------------------------------- MODULE Worker --------------------------------
(***************************************************************************)
(* The worker processes: JobsProcessor.process and, below it,              *)
(* ProcessorService.processJob and executeJobWithRetry.  Each slot runs    *)
(* one BullMQ entry; its pc is the await it stands before:                 *)
(*                                                                         *)
(*   claim       claimJob                 failWrite   failJob: the UPDATE  *)
(*   execute     the handler              failReread  failJob: re-read     *)
(*   complete    completeJob              backoff     sleep                *)
(*   checkCancel isJobCancelled           return      process() resolves   *)
(*   failRead    failJob: findOne         throw       process() rejects    *)
(***************************************************************************)
EXTENDS JobsTable, BullQueue, JobHandlers

CONSTANT NoJob          \* an idle slot has no job

ASSUME NoJobAssumption == NoJob \notin JobIds

VARIABLE slots          \* for each slot: pc, job, the attempts failJob has
                        \* read, and why process() rejects

WorkerPCs == {"idle", "claim", "execute", "complete", "checkCancel", "failRead",
              "failWrite", "failReread", "backoff", "return", "throw"}

\* Between claiming the job and giving it up.
WorkingPCs == WorkerPCs \ {"idle", "claim", "return", "throw"}

Slot == [pc : WorkerPCs, job : JobIds \cup {NoJob}, attempts : Nat, reason : Reasons]

SlotsTypeOK ==
    /\ slots \in [Slots -> Slot]
    /\ \A s \in Slots : slots[s].pc = "idle" <=> slots[s].job = NoJob

IdleSlot == [pc |-> "idle", job |-> NoJob, attempts |-> 0, reason |-> "none"]

WorkerInit == slots = [s \in Slots |-> IdleSlot]

\* Slot s goes on with its job at pc.
Resume(s, pc, attempts, reason) ==
    slots' = [slots EXCEPT ![s] = [pc |-> pc, job |-> slots[s].job,
                                   attempts |-> attempts, reason |-> reason]]

\* Slot s moves from one await to the next.
Goto(s, from, to) == slots[s].pc = from /\ Resume(s, to, 0, "none")

\* The rejection of an await outside the try block leaves process().
Throw(s, why) == Resume(s, "throw", 0, why)

\* Slot s has claimed job j and not given it up yet.
WorkingOn(j) == \E s \in Slots : slots[s].job = j /\ slots[s].pc \in WorkingPCs

-----------------------------------------------------------------------------
\* BullMQ hands a waiting entry to an idle slot and calls process().
Take(s, j) ==
    /\ slots[s].pc = "idle"
    /\ TakeEntry(j, s)
    /\ slots' = [slots EXCEPT ![s] = [IdleSlot EXCEPT !.pc = "claim", !.job = j]]
    /\ UNCHANGED <<faults, jobs>>

\* claimJob affects one row: this slot executes the job.
Claim(s) ==
    /\ Goto(s, "claim", "execute")
    /\ ClaimJob(slots[s].job)
    /\ UNCHANGED <<faults, bull>>

\* claimJob affects no row: "already claimed or cancelled, skipping".
ClaimMisses(s) ==
    /\ Goto(s, "claim", "return")
    /\ jobs[slots[s].job].status # "PENDING"
    /\ UNCHANGED <<faults, jobs, bull>>

\* The handler resolves.
HandlerSucceeds(s) ==
    /\ Goto(s, "execute", "complete")
    /\ "resolves" \in Outcomes(Kind[slots[s].job])
    /\ UNCHANGED <<faults, jobs, bull>>

\* The handler rejects: on to the catch block.
HandlerFails(s) ==
    /\ Goto(s, "execute", "checkCancel")
    /\ "rejects" \in Outcomes(Kind[slots[s].job])
    /\ UNCHANGED <<faults, jobs, bull>>

Complete(s) ==
    /\ Goto(s, "complete", "return")
    /\ CompleteJob(slots[s].job)
    /\ UNCHANGED <<faults, bull>>

\* completeJob affects no row: logged as "cancelled during processing".
CompleteMisses(s) ==
    /\ Goto(s, "complete", "return")
    /\ jobs[slots[s].job].status # "PROCESSING"
    /\ UNCHANGED <<faults, jobs, bull>>

\* completeJob rejects inside the try block, before or after the commit, and
\* the catch block treats it as a failure of the handler.
CompleteErrs(s) ==
    /\ Goto(s, "complete", "checkCancel")
    /\ \E k \in DbErrors : Spend(k)
    /\ CompleteJob(slots[s].job) \/ UNCHANGED jobs
    /\ UNCHANGED bull

\* isJobCancelled is true: stop without retrying.
CancelSeen(s) ==
    /\ Goto(s, "checkCancel", "return")
    /\ jobs[slots[s].job].status = "CANCELLED"
    /\ UNCHANGED <<faults, jobs, bull>>

\* isJobCancelled is false, also when there is no row.
CancelNotSeen(s) ==
    /\ Goto(s, "checkCancel", "failRead")
    /\ jobs[slots[s].job].status # "CANCELLED"
    /\ UNCHANGED <<faults, jobs, bull>>

\* failJob reads the row and remembers attempts across its next await.
FailRead(s) ==
    /\ slots[s].pc = "failRead"
    /\ RowExists(slots[s].job)
    /\ Resume(s, "failWrite", jobs[slots[s].job].attempts, "none")
    /\ UNCHANGED <<faults, jobs, bull>>

\* Mutant: the failure is not counted, as if incrementAttempts were false.
FailWrite_NotCounted(s) ==
    /\ Goto(s, "failWrite", "failReread")
    /\ WriteFailure(slots[s].job, slots[s].attempts)
    /\ UNCHANGED <<faults, bull>>

\* failJob writes attempts + 1, and FAILED when that reaches maxAttempts.
FailWrite(s) ==
    /\ Goto(s, "failWrite", "failReread")
    /\ WriteFailure(slots[s].job, slots[s].attempts + 1)
    /\ UNCHANGED <<faults, bull>>

\* Mutant: one retry too many.
Retry_OffByOne(s) ==
    /\ Goto(s, "failReread", "backoff")
    /\ RowExists(slots[s].job)
    /\ jobs[slots[s].job].attempts <= MaxAttempts
    /\ UNCHANGED <<faults, jobs, bull>>

\* The re-read row decides: below maxAttempts the job is retried.
Retry(s) ==
    /\ Goto(s, "failReread", "backoff")
    /\ RowExists(slots[s].job)
    /\ jobs[slots[s].job].attempts < MaxAttempts
    /\ UNCHANGED <<faults, jobs, bull>>

\* "permanently failed": process() resolves, so that BullMQ drops the entry.
GiveUp(s) ==
    /\ Goto(s, "failReread", "return")
    /\ RowExists(slots[s].job)
    /\ jobs[slots[s].job].attempts >= MaxAttempts
    /\ UNCHANGED <<faults, jobs, bull>>

\* The row is gone: failJob throws NotFoundException, or its re-read returns
\* null and reading job.attempts throws a TypeError.
RowMissing(s) ==
    /\ slots[s].pc \in {"failRead", "failReread"}
    /\ ~RowExists(slots[s].job)
    /\ Throw(s, "permanent")
    /\ UNCHANGED <<faults, jobs, bull>>

\* sleep ends and executeJobWithRetry calls itself; the job is not re-claimed.
BackoffEnds(s) ==
    /\ Goto(s, "backoff", "execute")
    /\ UNCHANGED <<faults, jobs, bull>>

\* A database call of the claim or of the catch block rejects, an UPDATE
\* before or after its commit, and process() rejects with it.
DbErrs(s) ==
    /\ \/ /\ slots[s].pc \in {"claim", "checkCancel", "failRead", "failWrite", "failReread"}
          /\ UNCHANGED jobs
       \/ slots[s].pc = "claim" /\ ClaimJob(slots[s].job)
       \/ slots[s].pc = "failWrite" /\ WriteFailure(slots[s].job, slots[s].attempts + 1)
    /\ \E k \in DbErrors : Spend(k) /\ Throw(s, k)
    /\ UNCHANGED bull

\* Mutant: the entry is completed but the slot is not given back.
Return_KeepsSlot(s) ==
    /\ slots[s].pc = "return"
    /\ CompleteEntry(slots[s].job, s)
    /\ UNCHANGED <<faults, jobs, slots>>

\* process() resolved: BullMQ completes the entry, and the slot is free.
Return(s) ==
    /\ slots[s].pc = "return"
    /\ CompleteEntry(slots[s].job, s)
    /\ slots' = [slots EXCEPT ![s] = IdleSlot]
    /\ UNCHANGED <<faults, jobs>>

\* process() rejected: BullMQ moves the entry to the failed set.
Reject(s) ==
    /\ slots[s].pc = "throw"
    /\ FailEntry(slots[s].job, s, slots[s].reason)
    /\ slots' = [slots EXCEPT ![s] = IdleSlot]
    /\ UNCHANGED <<faults, jobs>>

\* A worker process dies with all its slots and is restarted.
CrashWorker(w) ==
    /\ \E s \in Slots : s[1] = w /\ slots[s].pc # "idle"
    /\ Spend("crash")
    /\ slots' = [s \in Slots |-> IF s[1] = w THEN IdleSlot ELSE slots[s]]
    /\ UNCHANGED <<jobs, bull>>

\* Nobody renews the lock any more: its slot is gone, or has moved on.
OrphanedLockExpires(j) ==
    /\ ExpireLock(j)
    /\ slots[bull[j].owner].job # j
    /\ UNCHANGED <<faults, jobs, slots>>

\* The slot is alive but does not renew in time (a blocked event loop).
HeldLockExpires(j) ==
    /\ ExpireLock(j)
    /\ slots[bull[j].owner].job = j
    /\ Spend("lockLoss")
    /\ UNCHANGED <<jobs, slots>>

EntryStalls(j) ==
    /\ StalledCheck(j)
    /\ UNCHANGED <<faults, jobs, slots>>

-----------------------------------------------------------------------------
\* What slot s does next by itself; the handler may take either outcome.
SlotStep(s) ==
    \/ Claim(s) \/ ClaimMisses(s)
    \/ HandlerSucceeds(s) \/ HandlerFails(s)
    \/ Complete(s) \/ CompleteMisses(s)
    \/ CancelSeen(s) \/ CancelNotSeen(s)
    \/ FailRead(s) \/ FailWrite(s) \/ Retry(s) \/ GiveUp(s) \/ RowMissing(s)
    \/ BackoffEnds(s) \/ Return(s) \/ Reject(s)

LockStep(j) == OrphanedLockExpires(j) \/ EntryStalls(j)

WorkerFault ==
    \/ \E s \in Slots : CompleteErrs(s) \/ DbErrs(s)
    \/ \E w \in Workers : CrashWorker(w)
    \/ \E j \in JobIds : HeldLockExpires(j)

WorkerNext ==
    \/ \E s \in Slots : SlotStep(s)
    \/ \E s \in Slots, j \in JobIds : Take(s, j)
    \/ \E j \in JobIds : LockStep(j)
    \/ WorkerFault
=============================================================================
