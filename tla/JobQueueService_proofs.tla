----------------------- MODULE JobQueueService_proofs -----------------------
(***************************************************************************)
(* Theorems about JobQueueService for every value of its constants.        *)
(*                                                                         *)
(* Every step of the service is, on the table, at most one statement of    *)
(* JobsTable and, on the queue, at most one operation of BullQueue (lemma  *)
(* StepType).  What is about rows alone follows from the statements        *)
(* (TableStepRows), whoever sends them; what is about locks, from the      *)
(* operations and the actions that call them.                              *)
(***************************************************************************)
EXTENDS JobQueueService, FiniteSetTheorems, TLAPS

\* What one step does to the table.
TableStep ==
    \/ UNCHANGED jobs
    \/ \E S \in SUBSET JobIds : InsertJobs(S)
    \/ \E S \in SUBSET JobIds : (\A j \in S : RowExists(j)) /\ DeleteJobs(S)
    \/ \E j \in JobIds : ClaimJob(j) \/ CompleteJob(j) \/ CancelJob(j) \/ ResetJob(j)
    \/ \E j \in JobIds, n \in Nat : WriteFailure(j, n)
    \/ \E j \in JobIds, c \in Columns : Age(j, c)

\* What one step does to the queue.
QueueStep ==
    \/ UNCHANGED bull
    \/ Obliterate
    \/ \E S \in SUBSET JobIds : AddEntries(S)
    \/ \E j \in JobIds : RemoveEntry(j) \/ RetryEntry(j) \/ ExpireLock(j) \/ StalledCheck(j)
    \/ \E j \in JobIds, s \in Slots :
          \/ TakeEntry(j, s)
          \/ CompleteEntry(j, s)
          \/ \E why \in Reasons : FailEntry(j, s, why)

-----------------------------------------------------------------------------
(* Types. *)

\* Setting a status and a timestamp leaves a row well typed.
LEMMA MoveType ==
    ASSUME NEW row \in Job, NEW status \in JobStatus, NEW c \in Columns, NEW a \in Ages
    PROVE  Move(row, status, c, a) \in Job
BY DEF Move, Stamp, Job

\* A statement leaves the table well typed.
LEMMA TableStepType ==
    ASSUME JobsTypeOK, TableStep
    PROVE  JobsTypeOK'
<1> USE DEF JobsTypeOK
<1>0. /\ "none" \in Ages /\ "fresh" \in Ages /\ "stale" \in Ages
      /\ "createdAt" \in Columns /\ "processingStartedAt" \in Columns
      /\ "finishedAt" \in Columns /\ "cancelledAt" \in Columns
      /\ NoTimes \in [Columns -> Ages]
      /\ {"PENDING", "PROCESSING", "COMPLETED", "FAILED", "CANCELLED"} = JobStatus
  BY DEF Ages, Columns, NoTimes, JobStatus, Live, Finished
<1>1. CASE UNCHANGED jobs
  BY <1>1
<1>2. ASSUME NEW S \in SUBSET JobIds, InsertJobs(S)
      PROVE  JobsTypeOK'
  <2>1. NewRow \in Job
    BY <1>0 DEF NewRow, Stamp, Job
  <2> QED BY <1>2, <2>1 DEF InsertJobs
<1>3. ASSUME NEW S \in SUBSET JobIds, DeleteJobs(S)
      PROVE  JobsTypeOK'
  <2>1. NoRow("DELETED") \in Job
    BY <1>0 DEF NoRow, Job, NoRowStatus
  <2> QED BY <1>3, <2>1 DEF DeleteJobs
<1>4. ASSUME NEW j \in JobIds, ClaimJob(j) \/ CompleteJob(j) \/ CancelJob(j) \/ ResetJob(j)
      PROVE  JobsTypeOK'
  <2>1. \A status \in JobStatus, c \in Columns, a \in Ages : Move(jobs[j], status, c, a) \in Job
    BY MoveType
  <2>2. PICK row \in Job : jobs' = [jobs EXCEPT ![j] = row]
    <3>1. CASE ClaimJob(j)
      BY <1>0, <2>1, <3>1 DEF ClaimJob
    <3>2. CASE CompleteJob(j)
      BY <1>0, <2>1, <3>2 DEF CompleteJob
    <3>3. CASE CancelJob(j)
      BY <1>0, <2>1, <3>3 DEF CancelJob
    <3>4. CASE ResetJob(j)
      BY <1>0, <2>1, <3>4 DEF ResetJob
    <3> QED BY <1>4, <3>1, <3>2, <3>3, <3>4
  <2> QED BY <2>2
<1>5. ASSUME NEW j \in JobIds, NEW n \in Nat, WriteFailure(j, n)
      PROVE  JobsTypeOK'
  <2>1. [jobs[j] EXCEPT !.attempts = n] \in Job
    BY DEF Job
  <2>2. FailedRow(jobs[j], n) \in Job
    BY <1>0, <2>1, MoveType DEF FailedRow
  <2> QED BY <1>5, <2>2 DEF WriteFailure
<1>6. ASSUME NEW j \in JobIds, NEW c \in Columns, Age(j, c)
      PROVE  JobsTypeOK'
  BY <1>0, <1>6 DEF Age, Stamp, Job
<1> QED BY <1>1, <1>2, <1>3, <1>4, <1>5, <1>6 DEF TableStep

\* An operation leaves the queue well typed.
LEMMA QueueStepType ==
    ASSUME BullTypeOK, QueueStep
    PROVE  BullTypeOK'
<1> USE DEF BullTypeOK, Entry, EntryStates, Reasons, NoEntry, NewEntry
<1>1. CASE UNCHANGED bull
  BY <1>1
<1>2. CASE Obliterate
  BY <1>2 DEF Obliterate
<1>3. ASSUME NEW S \in SUBSET JobIds, AddEntries(S)
      PROVE  BullTypeOK'
  BY <1>3 DEF AddEntries
<1>4. ASSUME NEW j \in JobIds, RemoveEntry(j) \/ RetryEntry(j) \/ ExpireLock(j) \/ StalledCheck(j)
      PROVE  BullTypeOK'
  <2>1. CASE RemoveEntry(j)
    BY <2>1 DEF RemoveEntry
  <2>2. CASE RetryEntry(j)
    BY <2>2 DEF RetryEntry
  <2>3. CASE ExpireLock(j)
    BY <2>3 DEF ExpireLock
  <2>4. CASE StalledCheck(j)
    <3>0. bull[j] \in Entry /\ bull[j].stalls + 1 \in Nat
      OBVIOUS
    <3>1. [bull[j] EXCEPT !.st = "wait", !.stalls = bull[j].stalls + 1] \in Entry
      BY <3>0
    <3>2. [bull[j] EXCEPT !.st = "failed", !.reason = "permanent"] \in Entry
      OBVIOUS
    <3> QED BY <2>4, <3>1, <3>2 DEF StalledCheck
  <2> QED BY <1>4, <2>1, <2>2, <2>3, <2>4
<1>5. ASSUME NEW j \in JobIds, NEW s \in Slots, TakeEntry(j, s) \/ CompleteEntry(j, s)
      PROVE  BullTypeOK'
  BY <1>5 DEF TakeEntry, CompleteEntry
<1>6. ASSUME NEW j \in JobIds, NEW s \in Slots, NEW why \in Reasons, FailEntry(j, s, why)
      PROVE  BullTypeOK'
  BY <1>6 DEF FailEntry
<1> QED BY <1>1, <1>2, <1>3, <1>4, <1>5, <1>6 DEF QueueStep

\* One more fault is still a count of faults.
LEMMA SpendType ==
    ASSUME FaultsTypeOK, NEW k \in FaultKinds, Spend(k)
    PROVE  FaultsTypeOK'
BY DEF FaultsTypeOK, Spend

\* What a step may do to the variables that the components share.
SharedStep == TableStep /\ QueueStep /\ FaultsTypeOK'

\* A slot that is not idle has a job.
LEMMA BusySlotHasJob ==
    ASSUME SlotsTypeOK, NEW s \in Slots, slots[s].pc # "idle"
    PROVE  slots[s].job \in JobIds
BY DEF SlotsTypeOK, Slot

\* A slot that goes on with its job stays well typed.
LEMMA ResumeType ==
    ASSUME SlotsTypeOK, NEW s \in Slots, slots[s].pc # "idle",
           NEW pc \in WorkerPCs \ {"idle"}, NEW n \in Nat, NEW why \in Reasons,
           Resume(s, pc, n, why)
    PROVE  SlotsTypeOK'
BY NoJobAssumption DEF SlotsTypeOK, Slot, Resume

\* A slot that is given back stays well typed.
LEMMA IdleSlotType ==
    ASSUME SlotsTypeOK, NEW s \in Slots, slots' = [slots EXCEPT ![s] = IdleSlot]
    PROVE  SlotsTypeOK'
BY DEF SlotsTypeOK, Slot, IdleSlot, WorkerPCs, Reasons

\* Moving a slot between two awaits.
LEMMA GotoType ==
    ASSUME SlotsTypeOK, NEW s \in Slots, NEW from, NEW to \in WorkerPCs \ {"idle"},
           from # "idle", Goto(s, from, to)
    PROVE  SlotsTypeOK'
BY ResumeType DEF Goto, Reasons

\* A step that leaves the shared variables alone.
LEMMA SilentStep ==
    ASSUME FaultsTypeOK, UNCHANGED <<faults, jobs, bull>>
    PROVE  SharedStep
BY DEF SharedStep, TableStep, QueueStep, FaultsTypeOK

\* A step that changes only the table.
LEMMA OnlyTable ==
    ASSUME FaultsTypeOK, TableStep, UNCHANGED <<faults, bull>>
    PROVE  SharedStep
BY DEF SharedStep, QueueStep, FaultsTypeOK

\* A step that changes only the queue.
LEMMA OnlyQueue ==
    ASSUME FaultsTypeOK, QueueStep, UNCHANGED <<faults, jobs>>
    PROVE  SharedStep
BY DEF SharedStep, TableStep, FaultsTypeOK

\* What a slot does by itself is one statement or one operation, and well typed.
LEMMA SlotStepType ==
    ASSUME TypeOK, NEW s \in Slots, SlotStep(s)
    PROVE  SharedStep /\ SlotsTypeOK'
<1> DEFINE j == slots[s].job
<1>0. SlotsTypeOK /\ FaultsTypeOK /\ JobsTypeOK
  BY DEF TypeOK
<1>1. slots[s].pc # "idle" => j \in JobIds
  BY <1>0, BusySlotHasJob
<1>2. CASE \/ ClaimMisses(s) \/ HandlerSucceeds(s) \/ HandlerFails(s) \/ CompleteMisses(s)
           \/ CancelSeen(s) \/ CancelNotSeen(s) \/ Retry(s) \/ GiveUp(s) \/ BackoffEnds(s)
  <2>1. UNCHANGED <<faults, jobs, bull>>
    BY <1>2 DEF ClaimMisses, HandlerSucceeds, HandlerFails, CompleteMisses, CancelSeen,
                CancelNotSeen, Retry, GiveUp, BackoffEnds
  <2>2. PICK from \in WorkerPCs \ {"idle"}, to \in WorkerPCs \ {"idle"} : Goto(s, from, to)
    BY <1>2 DEF ClaimMisses, HandlerSucceeds, HandlerFails, CompleteMisses, CancelSeen,
                CancelNotSeen, Retry, GiveUp, BackoffEnds, WorkerPCs
  <2> QED BY <1>0, <2>1, <2>2, GotoType, SilentStep
<1>3. CASE Claim(s)
  <2>1. SlotsTypeOK' /\ j \in JobIds
    BY <1>0, <1>1, <1>3, GotoType DEF Claim, Goto, WorkerPCs
  <2>2. TableStep /\ UNCHANGED <<faults, bull>>
    BY <1>3, <2>1 DEF Claim, TableStep
  <2> QED BY <1>0, <2>1, <2>2, OnlyTable
<1>4. CASE Complete(s)
  <2>1. SlotsTypeOK' /\ j \in JobIds
    BY <1>0, <1>1, <1>4, GotoType DEF Complete, Goto, WorkerPCs
  <2>2. TableStep /\ UNCHANGED <<faults, bull>>
    BY <1>4, <2>1 DEF Complete, TableStep
  <2> QED BY <1>0, <2>1, <2>2, OnlyTable
<1>5. CASE FailRead(s)
  <2>1. j \in JobIds /\ jobs[j].attempts \in Nat /\ slots[s].pc # "idle"
    BY <1>0, <1>1, <1>5 DEF FailRead, JobsTypeOK, Job
  <2>2. SlotsTypeOK'
    BY <1>0, <1>5, <2>1, ResumeType DEF FailRead, WorkerPCs, Reasons
  <2> QED BY <1>0, <1>5, <2>2, SilentStep DEF FailRead
<1>6. CASE FailWrite(s)
  <2>1. j \in JobIds /\ slots[s].attempts + 1 \in Nat
    BY <1>0, <1>1, <1>6 DEF FailWrite, Goto, SlotsTypeOK, Slot
  <2>2. SlotsTypeOK'
    BY <1>0, <1>6, GotoType DEF FailWrite, WorkerPCs
  <2>3. TableStep /\ UNCHANGED <<faults, bull>>
    BY <1>6, <2>1 DEF FailWrite, TableStep
  <2> QED BY <1>0, <2>2, <2>3, OnlyTable
<1>7. CASE RowMissing(s)
  <2>1. SlotsTypeOK'
    BY <1>0, <1>7, ResumeType DEF RowMissing, Throw, WorkerPCs, Reasons
  <2> QED BY <1>0, <1>7, <2>1, SilentStep DEF RowMissing
<1>8. CASE Return(s)
  <2>1. j \in JobIds /\ SlotsTypeOK'
    BY <1>0, <1>1, <1>8, IdleSlotType DEF Return
  <2>2. QueueStep /\ UNCHANGED <<faults, jobs>>
    BY <1>8, <2>1 DEF Return, QueueStep
  <2> QED BY <1>0, <2>1, <2>2, OnlyQueue
<1>9. CASE Reject(s)
  <2>1. j \in JobIds /\ SlotsTypeOK' /\ slots[s].reason \in Reasons
    BY <1>0, <1>1, <1>9, IdleSlotType DEF Reject, SlotsTypeOK, Slot
  <2>2. QueueStep /\ UNCHANGED <<faults, jobs>>
    BY <1>9, <2>1 DEF Reject, QueueStep
  <2> QED BY <1>0, <2>1, <2>2, OnlyQueue
<1> QED BY <1>2, <1>3, <1>4, <1>5, <1>6, <1>7, <1>8, <1>9 DEF SlotStep


\* A database error is a kind of fault.
LEMMA SpendDbError ==
    ASSUME FaultsTypeOK, \E k \in DbErrors : Spend(k)
    PROVE  FaultsTypeOK'
BY SpendType DEF DbErrors, FaultKinds

\* The same for everything else that happens to the workers.
LEMMA WorkerNextType ==
    ASSUME TypeOK, WorkerNext
    PROVE  SharedStep /\ SlotsTypeOK'
<1>0. SlotsTypeOK /\ FaultsTypeOK /\ JobsTypeOK
  BY DEF TypeOK
<1>1. ASSUME NEW s \in Slots, SlotStep(s)
      PROVE  SharedStep /\ SlotsTypeOK'
  BY <1>1, SlotStepType
<1>2. ASSUME NEW s \in Slots, NEW j \in JobIds, Take(s, j)
      PROVE  SharedStep /\ SlotsTypeOK'
  <2>1. [IdleSlot EXCEPT !.pc = "claim", !.job = j] \in Slot
    BY DEF IdleSlot, Slot, WorkerPCs, Reasons
  <2>2. SlotsTypeOK'
    BY <1>0, <1>2, <2>1, NoJobAssumption DEF Take, SlotsTypeOK, IdleSlot
  <2>3. QueueStep /\ UNCHANGED <<faults, jobs>>
    BY <1>2 DEF Take, QueueStep
  <2> QED BY <1>0, <2>2, <2>3, OnlyQueue
<1>3. ASSUME NEW j \in JobIds, LockStep(j)
      PROVE  SharedStep /\ SlotsTypeOK'
  <2>1. QueueStep /\ UNCHANGED <<faults, jobs, slots>>
    BY <1>3 DEF LockStep, OrphanedLockExpires, EntryStalls, QueueStep
  <2> QED BY <1>0, <2>1, OnlyQueue DEF SlotsTypeOK
<1>4. ASSUME NEW s \in Slots, CompleteErrs(s)
      PROVE  SharedStep /\ SlotsTypeOK'
  <2>1. SlotsTypeOK' /\ slots[s].job \in JobIds
    BY <1>0, <1>4, GotoType, BusySlotHasJob DEF CompleteErrs, Goto, WorkerPCs
  <2>2. FaultsTypeOK' /\ TableStep
    BY <1>0, <1>4, <2>1, SpendDbError DEF CompleteErrs, TableStep
  <2> QED BY <1>4, <2>1, <2>2 DEF CompleteErrs, SharedStep, QueueStep
<1>5. ASSUME NEW s \in Slots, DbErrs(s)
      PROVE  SharedStep /\ SlotsTypeOK'
  <2>1. slots[s].pc # "idle" /\ slots[s].job \in JobIds
    BY <1>0, <1>5, BusySlotHasJob DEF DbErrs
  <2>2. PICK k \in DbErrors : Spend(k) /\ Throw(s, k)
    BY <1>5 DEF DbErrs
  <2>3. SlotsTypeOK'
    BY <1>0, <2>1, <2>2, ResumeType DEF Throw, WorkerPCs, Reasons, DbErrors
  <2>4. slots[s].attempts + 1 \in Nat
    BY <1>0 DEF SlotsTypeOK, Slot
  <2>5. TableStep
    BY <1>5, <2>1, <2>4 DEF DbErrs, TableStep
  <2>6. FaultsTypeOK'
    BY <1>0, <2>2, SpendDbError
  <2> QED BY <1>5, <2>3, <2>5, <2>6 DEF DbErrs, SharedStep, QueueStep
<1>6. ASSUME NEW w \in Workers, CrashWorker(w)
      PROVE  SharedStep /\ SlotsTypeOK'
  <2>1. SlotsTypeOK'
    BY <1>0, <1>6 DEF CrashWorker, SlotsTypeOK, IdleSlot, Slot, WorkerPCs, Reasons
  <2>2. FaultsTypeOK'
    BY <1>0, <1>6, SpendType DEF CrashWorker, FaultKinds
  <2> QED BY <1>6, <2>1, <2>2 DEF CrashWorker, SharedStep, TableStep, QueueStep
<1>7. ASSUME NEW j \in JobIds, HeldLockExpires(j)
      PROVE  SharedStep /\ SlotsTypeOK'
  <2>1. FaultsTypeOK'
    BY <1>0, <1>7, SpendType DEF HeldLockExpires, FaultKinds
  <2>2. QueueStep
    BY <1>7 DEF HeldLockExpires, QueueStep
  <2> QED BY <1>0, <1>7, <2>1, <2>2 DEF HeldLockExpires, SharedStep, TableStep, SlotsTypeOK
<1> QED BY <1>1, <1>2, <1>3, <1>4, <1>5, <1>6, <1>7 DEF WorkerNext, WorkerFault

-----------------------------------------------------------------------------
\* A sweep that is at a pc that has a job, has one.
LEMMA AwaitingSweepHasJob ==
    ASSUME MonTypeOK, NEW m \in Sweeps,
           mon[m].pc \in {"processingAdd", "pendingAdd", "reconcileRead", "reconcileWrite"}
    PROVE  mon[m].job \in JobIds
BY DEF MonTypeOK, Sweep

\* Going on with the snapshot keeps a sweep well typed.
LEMMA DoneType ==
    ASSUME MonTypeOK, NEW m \in Sweeps, NEW pc \in {"processing", "pending", "failed"},
           NEW j, Done(m, pc, j)
    PROVE  MonTypeOK'
<1>1. mon' = [mon EXCEPT ![m] = [mon[m] EXCEPT !.pc = pc, !.job = NoJob, !.attempts = 0,
                                             !.todo = mon[m].todo \ {j}]]
  BY DEF Done
<1>2. mon[m] \in Sweep /\ mon[m].todo \ {j} \in SUBSET JobIds
  BY DEF MonTypeOK, Sweep
<1> DEFINE new == [mon[m] EXCEPT !.pc = pc, !.job = NoJob, !.attempts = 0, !.todo = mon[m].todo \ {j}]
<1>3. new \in Sweep /\ new.job = NoJob /\ new.pc = pc
  BY <1>2 DEF Sweep, SweepPCs
<1> QED BY <1>1, <1>3 DEF MonTypeOK


\* An await for a job of the snapshot keeps a sweep well typed.
LEMMA AwaitType ==
    ASSUME MonTypeOK, NEW m \in Sweeps, NEW j \in JobIds,
           NEW pc \in {"processingAdd", "pendingAdd", "reconcileRead"}, Await(m, pc, j)
    PROVE  MonTypeOK'
<1> DEFINE new == [mon[m] EXCEPT !.pc = pc, !.job = j]
<1>1. mon' = [mon EXCEPT ![m] = new]
  BY DEF Await
<1>2. new \in Sweep /\ new.job # NoJob /\ new.pc = pc
  BY NoJobAssumption DEF MonTypeOK, Sweep, SweepPCs
<1> QED BY <1>1, <1>2 DEF MonTypeOK

\* A new phase, with its snapshot, keeps a sweep well typed.
LEMMA PhaseType ==
    ASSUME MonTypeOK, NEW m \in Sweeps, NEW pc \in {"idle", "processing", "pending", "failed"},
           NEW S \in SUBSET JobIds, NEW R \in SUBSET JobIds,
           BeginPhase(m, pc, S, R)
    PROVE  MonTypeOK'
BY DEF BeginPhase, MonTypeOK, Sweep, SweepPCs

\* What a sweep does by itself.
LEMMA SweepStepType ==
    ASSUME TypeOK, NEW m \in Sweeps, SweepStep(m)
    PROVE  SharedStep /\ MonTypeOK' /\ UNCHANGED slots
<1>0. MonTypeOK /\ FaultsTypeOK /\ JobsTypeOK
  BY DEF TypeOK
<1>1. CASE StartSweep(m) \/ FindPending(m) \/ GetFailed(m) \/ EndSweep(m)
  <2>1. UNCHANGED <<faults, jobs, bull, slots>>
    BY <1>1 DEF StartSweep, FindPending, GetFailed, EndSweep
  <2>2. /\ AbandonedProcessingJobs \in SUBSET JobIds
        /\ AbandonedPendingJobs \in SUBSET JobIds
        /\ {} \in SUBSET JobIds
        /\ \A S \in FailedWindows(FailedWindow) :
              S \in SUBSET JobIds /\ Retriable(S) \in SUBSET JobIds
    BY DEF AbandonedProcessingJobs, AbandonedPendingJobs, FailedWindows, FailedEntries, Retriable
  <2>3. ASSUME GetFailed(m) PROVE MonTypeOK'
    <3>1. PICK S \in FailedWindows(FailedWindow) : BeginPhase(m, "failed", S, Retriable(S))
      BY <2>3 DEF GetFailed
    <3> QED BY <1>0, <2>2, <3>1, PhaseType
  <2>4. ASSUME StartSweep(m) \/ FindPending(m) \/ EndSweep(m) PROVE MonTypeOK'
    BY <1>0, <2>2, <2>4, PhaseType DEF StartSweep, FindPending, EndSweep
  <2>5. MonTypeOK'
    BY <1>1, <2>3, <2>4
  <2> QED BY <1>0, <2>1, <2>5, SilentStep
<1>2. CASE ReEnqueue(m)
  <2>1. mon[m].job \in JobIds
    BY <1>0, <1>2, AwaitingSweepHasJob DEF ReEnqueue
  <2>2. MonTypeOK'
    BY <1>0, <1>2, DoneType DEF ReEnqueue
  <2>3. QueueStep /\ UNCHANGED <<faults, jobs, slots>>
    BY <1>2, <2>1 DEF ReEnqueue, QueueStep
  <2> QED BY <1>0, <2>2, <2>3, OnlyQueue
<1>3. CASE ReconcileRead(m)
  <2>1. mon[m].job \in JobIds /\ jobs[mon[m].job].attempts \in Nat
    BY <1>0, <1>3, AwaitingSweepHasJob DEF ReconcileRead, JobsTypeOK, Job
  <2>2. MonTypeOK'
    BY <1>0, <1>3, <2>1 DEF ReconcileRead, MonTypeOK, Sweep, SweepPCs
  <2> QED BY <1>0, <1>3, <2>2, SilentStep DEF ReconcileRead
<1>4. CASE ReconcileGone(m)
  <2>1. MonTypeOK'
    BY <1>0, <1>4, DoneType DEF ReconcileGone
  <2> QED BY <1>0, <1>4, <2>1, SilentStep DEF ReconcileGone
<1>5. CASE ReconcileWrite(m)
  <2>1. mon[m].job \in JobIds /\ mon[m].attempts \in Nat
    BY <1>0, <1>5, AwaitingSweepHasJob DEF ReconcileWrite, MonTypeOK, Sweep
  <2>2. MonTypeOK'
    BY <1>0, <1>5, DoneType DEF ReconcileWrite
  <2>3. TableStep /\ UNCHANGED <<faults, bull, slots>>
    BY <1>5, <2>1 DEF ReconcileWrite, TableStep
  <2> QED BY <1>0, <2>2, <2>3, OnlyTable
<1>6. ASSUME NEW j \in JobIds, Reset(m, j)
      PROVE  SharedStep /\ MonTypeOK' /\ UNCHANGED slots
  <2>1. FaultsTypeOK'
    <3>1. CASE UNCHANGED faults
      BY <1>0, <3>1 DEF FaultsTypeOK
    <3>2. CASE Spend("overrun")
      BY <1>0, <3>2, SpendType DEF FaultKinds
    <3> QED BY <1>6, <3>1, <3>2 DEF Reset
  <2>2. MonTypeOK'
    BY <1>0, <1>6, AwaitType DEF Reset
  <2>3. TableStep
    BY <1>6 DEF Reset, TableStep
  <2> QED BY <1>6, <2>1, <2>2, <2>3 DEF Reset, SharedStep, QueueStep
<1>7. ASSUME NEW j \in JobIds, RetryFailed(m, j)
      PROVE  SharedStep /\ MonTypeOK' /\ UNCHANGED slots
  <2>1. MonTypeOK'
    BY <1>0, <1>7, DoneType DEF RetryFailed
  <2>2. QueueStep /\ UNCHANGED <<faults, jobs, slots>>
    BY <1>7 DEF RetryFailed, QueueStep
  <2> QED BY <1>0, <2>1, <2>2, OnlyQueue
<1>8. ASSUME NEW j \in JobIds, Reconcile(m, j) \/ SkipReconcile(m, j)
      PROVE  SharedStep /\ MonTypeOK' /\ UNCHANGED slots
  <2>1. MonTypeOK'
    BY <1>0, <1>8, DoneType, AwaitType DEF Reconcile, SkipReconcile
  <2> QED BY <1>0, <1>8, <2>1, SilentStep DEF Reconcile, SkipReconcile
<1> QED BY <1>1, <1>2, <1>3, <1>4, <1>5, <1>6, <1>7, <1>8 DEF SweepStep

\* The same for everything else that happens to the monitor.
LEMMA MonitorNextType ==
    ASSUME TypeOK, MonitorNext
    PROVE  SharedStep /\ MonTypeOK' /\ UNCHANGED slots
<1>0. MonTypeOK /\ FaultsTypeOK /\ JobsTypeOK
  BY DEF TypeOK
<1>1. ASSUME NEW m \in Sweeps, SweepStep(m)
      PROVE  SharedStep /\ MonTypeOK' /\ UNCHANGED slots
  BY <1>1, SweepStepType
<1>2. CASE Cleanup
  <2>1. OldJobs \in SUBSET JobIds /\ \A j \in OldJobs : RowExists(j)
    BY DEF OldJobs, RowExists, NoRowStatus
  <2>2. TableStep /\ UNCHANGED <<faults, bull, slots, mon>>
    BY <1>2, <2>1 DEF Cleanup, TableStep
  <2> QED BY <1>0, <2>2, OnlyTable DEF MonTypeOK
<1>3. ASSUME NEW m \in Sweeps, QueryErrs(m)
      PROVE  SharedStep /\ MonTypeOK' /\ UNCHANGED slots
  <2>1. FaultsTypeOK' /\ UNCHANGED <<jobs, bull, slots>>
    BY <1>0, <1>3, SpendDbError DEF QueryErrs
  <2>2. MonTypeOK'
    BY <1>0, <1>3, PhaseType DEF QueryErrs
  <2> QED BY <2>1, <2>2 DEF SharedStep, TableStep, QueueStep
<1>4. ASSUME NEW m \in Sweeps, NEW j \in JobIds, JobErrs(m, j)
      PROVE  SharedStep /\ MonTypeOK' /\ UNCHANGED slots
  <2>1. FaultsTypeOK' /\ UNCHANGED <<jobs, bull, slots>>
    BY <1>0, <1>4, SpendDbError DEF JobErrs
  <2>2. PICK pc \in {"processing", "pending", "failed"} : Done(m, pc, j)
    BY <1>4 DEF JobErrs
  <2>3. MonTypeOK'
    BY <1>0, <2>2, DoneType
  <2> QED BY <2>1, <2>3 DEF SharedStep, TableStep, QueueStep
<1>5. CASE CrashMonitor
  <2>1. FaultsTypeOK' /\ UNCHANGED <<jobs, bull, slots>>
    BY <1>0, <1>5, SpendType DEF CrashMonitor, FaultKinds
  <2>2. MonTypeOK'
    BY <1>5 DEF CrashMonitor, MonTypeOK, IdleSweep, Sweep, SweepPCs
  <2> QED BY <2>1, <2>2 DEF SharedStep, TableStep, QueueStep
<1> QED BY <1>1, <1>2, <1>3, <1>4, <1>5 DEF MonitorNext, MonitorFault


-----------------------------------------------------------------------------
\* What the API does.
LEMMA ApiNextType ==
    ASSUME TypeOK, ApiNext
    PROVE  SharedStep /\ ApiTypeOK'
<1>0. ApiTypeOK /\ FaultsTypeOK
  BY DEF TypeOK
<1>1. ASSUME NEW S \in SUBSET JobIds, Create(S)
      PROVE  SharedStep /\ ApiTypeOK'
  <2>1. TableStep /\ UNCHANGED <<faults, bull>>
    BY <1>1 DEF Create, TableStep
  <2> QED BY <1>0, <1>1, <2>1, OnlyTable DEF Create, ApiTypeOK
<1>2. ASSUME NEW S \in SUBSET JobIds, Enqueue(S)
      PROVE  SharedStep /\ ApiTypeOK'
  <2>1. QueueStep /\ UNCHANGED <<faults, jobs>>
    BY <1>2 DEF Enqueue, QueueStep
  <2> QED BY <1>0, <1>2, <2>1, OnlyQueue DEF Enqueue, ApiTypeOK
<1>3. ASSUME NEW j \in JobIds, Cancel(j)
      PROVE  SharedStep /\ ApiTypeOK'
  <2>1. TableStep /\ UNCHANGED <<faults, bull>>
    BY <1>3 DEF Cancel, TableStep
  <2> QED BY <1>0, <1>3, <2>1, OnlyTable DEF Cancel, ApiTypeOK
<1>4. ASSUME NEW j \in JobIds, RemoveCancelled(j)
      PROVE  SharedStep /\ ApiTypeOK'
  <2>1. QueueStep /\ UNCHANGED <<faults, jobs>>
    BY <1>4 DEF RemoveCancelled, QueueStep
  <2> QED BY <1>0, <1>4, <2>1, OnlyQueue DEF RemoveCancelled, ApiTypeOK
<1>5. CASE ApiFault
  <2>1. FaultsTypeOK'
    BY <1>0, <1>5, SpendType, SpendDbError
       DEF ApiFault, EnqueueErrs, RemoveErrs, CrashApi, FaultKinds
  <2>2. UNCHANGED <<jobs, bull>> /\ ApiTypeOK'
    BY <1>0, <1>5 DEF ApiFault, EnqueueErrs, RemoveErrs, CrashApi, ApiTypeOK
  <2> QED BY <2>1, <2>2 DEF SharedStep, TableStep, QueueStep
<1> QED BY <1>1, <1>2, <1>3, <1>4, <1>5 DEF ApiNext

\* What the clean endpoints do.
LEMMA DebugNextType ==
    ASSUME TypeOK, DebugNext
    PROVE  SharedStep
<1>1. FaultsTypeOK'
  BY SpendType DEF TypeOK, DebugNext, CleanQueue, CleanTable, FaultKinds
<1>2. TableStep
  <2>1. CASE CleanQueue
    BY <2>1 DEF CleanQueue, TableStep
  <2>2. CASE CleanTable
    BY <2>2 DEF CleanTable, TableStep
  <2> QED BY <2>1, <2>2 DEF DebugNext
<1>3. QueueStep
  BY DEF DebugNext, CleanQueue, CleanTable, QueueStep
<1> QED BY <1>1, <1>2, <1>3 DEF SharedStep

\* Every step of the service is one statement and one operation at most, and
\* leaves the types as they are.
LEMMA StepType ==
    ASSUME TypeOK, [Next]_vars
    PROVE  SharedStep /\ TypeOK'
<1> USE DEF TypeOK
<1>1. SharedStep /\ SlotsTypeOK' /\ MonTypeOK' /\ ApiTypeOK'
  <2>1. CASE WorkerNext /\ UNCHANGED <<mon, batches, removing>>
    BY <2>1, WorkerNextType DEF MonTypeOK, ApiTypeOK
  <2>2. CASE MonitorNext /\ UNCHANGED <<batches, removing>>
    BY <2>2, MonitorNextType DEF SlotsTypeOK, ApiTypeOK
  <2>3. CASE ApiNext /\ UNCHANGED <<slots, mon>>
    BY <2>3, ApiNextType DEF SlotsTypeOK, MonTypeOK
  <2>4. CASE DebugNext /\ UNCHANGED <<slots, mon, batches, removing>>
    BY <2>4, DebugNextType DEF SlotsTypeOK, MonTypeOK, ApiTypeOK
  <2>5. CASE Tick
    BY <2>5, OnlyTable DEF Tick, TableStep, SlotsTypeOK, MonTypeOK, ApiTypeOK
  <2>6. CASE UNCHANGED vars
    BY <2>6, SilentStep DEF vars, SlotsTypeOK, MonTypeOK, ApiTypeOK
  <2> QED BY <2>1, <2>2, <2>3, <2>4, <2>5, <2>6 DEF Next
<1>2. JobsTypeOK' /\ BullTypeOK' /\ FaultsTypeOK'
  BY <1>1, TableStepType, QueueStepType DEF SharedStep
<1> QED BY <1>1, <1>2

\* The initial states are well typed.
LEMMA InitType == Init => TypeOK
<1> SUFFICES ASSUME Init PROVE TypeOK
  OBVIOUS
<1> USE DEF Init
<1>1. FaultsTypeOK
  BY DEF FaultsInit, FaultsTypeOK
<1>2. JobsTypeOK
  <2>1. NoRow("ABSENT") \in Job
    BY DEF NoRow, NoTimes, Job, NoRowStatus, Columns, Ages
  <2> QED BY <2>1 DEF JobsInit, JobsTypeOK
<1>3. BullTypeOK
  BY DEF BullInit, BullTypeOK, NoEntry, Entry, EntryStates, Reasons
<1>4. SlotsTypeOK
  BY DEF WorkerInit, SlotsTypeOK, IdleSlot, Slot, WorkerPCs, Reasons
<1>5. MonTypeOK
  BY DEF MonInit, MonTypeOK, IdleSweep, Sweep, SweepPCs
<1>6. ApiTypeOK
  BY DEF ApiInit, ApiTypeOK
<1> QED BY <1>1, <1>2, <1>3, <1>4, <1>5, <1>6 DEF TypeOK

\* Every variable always has its type, whatever fails and however often.
THEOREM TypeCorrect == Spec => []TypeOK
BY InitType, StepType, PTL DEF Spec


-----------------------------------------------------------------------------
(* Rows.  What a statement makes of one row, and what follows for each row *)
(* invariant.                                                              *)

\* A step inserts, moves, fails, ages or deletes a row, or leaves it alone.
RowStep(row, new) ==
    \/ new = row
    \/ row.status = "ABSENT" /\ new = NewRow
    \/ row.status = "PENDING" /\ new = Move(row, "PROCESSING", "processingStartedAt", "fresh")
    \/ row.status = "PROCESSING" /\ new = Move(row, "COMPLETED", "finishedAt", "fresh")
    \/ row.status = "PROCESSING" /\ new = Move(row, "PENDING", "processingStartedAt", "none")
    \/ row.status \in Live /\ new = Move(row, "CANCELLED", "cancelledAt", "fresh")
    \/ row.status \notin NoRowStatus /\ \E n \in Nat : new = FailedRow(row, n)
    \/ row.status \notin NoRowStatus /\ new = NoRow("DELETED")
    \/ \E c \in Columns : row.at[c] = "fresh" /\ new = [row EXCEPT !.at = Stamp(row.at, c, "stale")]

\* Every statement does that, to every row.
LEMMA TableStepRows ==
    ASSUME JobsTypeOK, TableStep, NEW j \in JobIds
    PROVE  RowStep(jobs[j], jobs'[j])
<1>1. CASE UNCHANGED jobs
  BY <1>1 DEF RowStep
<1>2. ASSUME NEW S \in SUBSET JobIds, InsertJobs(S)
      PROVE  RowStep(jobs[j], jobs'[j])
  BY <1>2 DEF InsertJobs, RowStep
<1>3. ASSUME NEW S \in SUBSET JobIds, \A i \in S : RowExists(i), DeleteJobs(S)
      PROVE  RowStep(jobs[j], jobs'[j])
  BY <1>3 DEF DeleteJobs, RowStep, RowExists
<1>4. ASSUME NEW i \in JobIds, ClaimJob(i) \/ CompleteJob(i) \/ CancelJob(i) \/ ResetJob(i)
      PROVE  RowStep(jobs[j], jobs'[j])
  <2>1. CASE ClaimJob(i)
    BY <2>1 DEF ClaimJob, RowStep, JobsTypeOK
  <2>2. CASE CompleteJob(i)
    BY <2>2 DEF CompleteJob, RowStep, JobsTypeOK
  <2>3. CASE CancelJob(i)
    BY <2>3 DEF CancelJob, RowStep, JobsTypeOK
  <2>4. CASE ResetJob(i)
    BY <2>4 DEF ResetJob, RowStep, JobsTypeOK
  <2> QED BY <1>4, <2>1, <2>2, <2>3, <2>4
<1>5. ASSUME NEW i \in JobIds, NEW n \in Nat, WriteFailure(i, n)
      PROVE  RowStep(jobs[j], jobs'[j])
  BY <1>5 DEF WriteFailure, RowExists, RowStep, JobsTypeOK
<1>6. ASSUME NEW i \in JobIds, NEW c \in Columns, Age(i, c)
      PROVE  RowStep(jobs[j], jobs'[j])
  BY <1>6 DEF Age, RowStep, JobsTypeOK
<1> QED BY <1>1, <1>2, <1>3, <1>4, <1>5, <1>6 DEF TableStep

\* What Move leaves in the fields of a row.
LEMMA MoveFields ==
    ASSUME NEW row \in Job, NEW status, NEW c \in Columns, NEW a
    PROVE  LET new == Move(row, status, c, a)
           IN  /\ new.status = status
               /\ new.attempts = row.attempts
               /\ new.at[c] = a
               /\ \A d \in Columns \ {c} : new.at[d] = row.at[d]
BY DEF Move, Stamp, Job

\* What failJob's UPDATE leaves in the fields of a row.
LEMMA FailedRowFields ==
    ASSUME NEW row \in Job, NEW n \in Nat
    PROVE  LET new == FailedRow(row, n)
           IN  /\ new.attempts = n
               /\ n >= MaxAttempts => new.status = "FAILED" /\ new.at["finishedAt"] = "fresh"
               /\ n < MaxAttempts => new.status = row.status /\ new.at = row.at
               /\ \A d \in Columns \ {"finishedAt"} : new.at[d] = row.at[d]
<1> DEFINE counted == [row EXCEPT !.attempts = n]
<1>1. counted \in Job /\ counted.status = row.status /\ counted.at = row.at /\ counted.attempts = n
  BY DEF Job
<1>2. n >= MaxAttempts \/ n < MaxAttempts
  BY MaxAttemptsAssumption
<1>3. CASE n >= MaxAttempts
  <2>1. FailedRow(row, n) = Move(counted, "FAILED", "finishedAt", "fresh")
    BY <1>3 DEF FailedRow
  <2>2. ~(n < MaxAttempts)
    BY <1>3, MaxAttemptsAssumption
  <2> HIDE DEF counted
  <2> QED BY <1>1, <2>1, <2>2, MoveFields DEF Columns
<1>4. CASE n < MaxAttempts
  <2>1. ~(n >= MaxAttempts) /\ FailedRow(row, n) = counted
    BY <1>4, MaxAttemptsAssumption DEF FailedRow
  <2> HIDE DEF counted
  <2> QED BY <1>1, <2>1
<1> QED BY <1>2, <1>3, <1>4

\* The row invariants, of one row.
StampedRow(row) ==
    /\ row.status \notin NoRowStatus => row.at["createdAt"] # "none"
    /\ row.status = "PROCESSING" => row.at["processingStartedAt"] # "none"
    /\ row.status \in {"COMPLETED", "FAILED"} => row.at["finishedAt"] # "none"
    /\ row.status = "CANCELLED" => row.at["cancelledAt"] # "none"

CountedRow(row) == row.attempts >= MaxAttempts => row.status = "FAILED"

\* A row keeps the timestamp that goes with its status.
LEMMA RowStepStamped ==
    ASSUME NEW row \in Job, NEW new, RowStep(row, new), StampedRow(row)
    PROVE  StampedRow(new)
<1> USE DEF StampedRow, Columns, NoRowStatus
<1>1. CASE new = row
  BY <1>1
<1>2. CASE new = NewRow
  BY <1>2 DEF NewRow, Stamp, NoTimes
<1>3. CASE row.status = "PENDING" /\ new = Move(row, "PROCESSING", "processingStartedAt", "fresh")
  BY <1>3, MoveFields
<1>4. CASE row.status = "PROCESSING" /\ new = Move(row, "COMPLETED", "finishedAt", "fresh")
  BY <1>4, MoveFields
<1>5. CASE row.status = "PROCESSING" /\ new = Move(row, "PENDING", "processingStartedAt", "none")
  BY <1>5, MoveFields
<1>6. CASE row.status \in Live /\ new = Move(row, "CANCELLED", "cancelledAt", "fresh")
  BY <1>6, MoveFields DEF Live
<1>7. ASSUME row.status \notin NoRowStatus, NEW n \in Nat, new = FailedRow(row, n)
      PROVE  StampedRow(new)
  BY <1>7, FailedRowFields, MaxAttemptsAssumption
<1>8. CASE new = NoRow("DELETED")
  BY <1>8 DEF NoRow
<1>9. ASSUME NEW c \in Columns, row.at[c] = "fresh", new = [row EXCEPT !.at = Stamp(row.at, c, "stale")]
      PROVE  StampedRow(new)
  BY <1>9 DEF Stamp, Job
<1> QED BY <1>1, <1>2, <1>3, <1>4, <1>5, <1>6, <1>7, <1>8, <1>9 DEF RowStep

\* A row with too many attempts stays FAILED.
LEMMA RowStepCounted ==
    ASSUME NEW row \in Job, NEW new, RowStep(row, new), CountedRow(row)
    PROVE  CountedRow(new)
<1> USE MaxAttemptsAssumption DEF CountedRow
<1>1. CASE new = row
  BY <1>1
<1>2. CASE new = NewRow
  BY <1>2 DEF NewRow
<1>3. CASE row.status = "PENDING" /\ new = Move(row, "PROCESSING", "processingStartedAt", "fresh")
  BY <1>3, MoveFields DEF Columns
<1>4. CASE row.status = "PROCESSING" /\ new = Move(row, "COMPLETED", "finishedAt", "fresh")
  BY <1>4, MoveFields DEF Columns
<1>5. CASE row.status = "PROCESSING" /\ new = Move(row, "PENDING", "processingStartedAt", "none")
  BY <1>5, MoveFields DEF Columns
<1>6. CASE row.status \in Live /\ new = Move(row, "CANCELLED", "cancelledAt", "fresh")
  BY <1>6, MoveFields DEF Columns, Live
<1>7. ASSUME NEW n \in Nat, new = FailedRow(row, n)
      PROVE  CountedRow(new)
  BY <1>7, FailedRowFields
<1>8. CASE new = NoRow("DELETED")
  BY <1>8 DEF NoRow
<1>9. ASSUME NEW c \in Columns, new = [row EXCEPT !.at = Stamp(row.at, c, "stale")]
      PROVE  CountedRow(new)
  BY <1>9 DEF Job
<1> QED BY <1>1, <1>2, <1>3, <1>4, <1>5, <1>6, <1>7, <1>8, <1>9 DEF RowStep

\* Every step of the service is a RowStep of every row, well typed before and after.
LEMMA StepRows ==
    ASSUME TypeOK, [Next]_vars, NEW j \in JobIds
    PROVE  jobs[j] \in Job /\ jobs'[j] \in Job /\ RowStep(jobs[j], jobs'[j])
<1>1. TableStep /\ JobsTypeOK /\ JobsTypeOK'
  BY StepType DEF SharedStep, TypeOK
<1> QED BY <1>1, TableStepRows DEF JobsTypeOK

\* The timestamps match the status, one row at a time.
LEMMA TimestampsAreRows ==
    TimestampsMatchStatus <=> \A j \in JobIds : StampedRow(jobs[j])
BY DEF TimestampsMatchStatus, StampedRow, RowExists

\* A row that a SELECT of the monitor or the DELETE of the cleanup waits for
\* always has the timestamp that the statement compares.
THEOREM TimestampsAlwaysMatch == Spec => []TimestampsMatchStatus
<1>1. Init => TypeOK /\ TimestampsMatchStatus
  BY InitType DEF Init, JobsInit, NoRow, TimestampsMatchStatus, RowExists, NoRowStatus
<1>2. TypeOK /\ TimestampsMatchStatus /\ [Next]_vars => TimestampsMatchStatus'
  <2> SUFFICES ASSUME TypeOK, TimestampsMatchStatus, [Next]_vars, NEW j \in JobIds
               PROVE  StampedRow(jobs'[j])
    BY DEF TimestampsMatchStatus, StampedRow, RowExists
  <2>1. StampedRow(jobs[j])
    BY TimestampsAreRows
  <2> QED BY <2>1, StepRows, RowStepStamped
<1> QED BY <1>1, <1>2, TypeCorrect, PTL DEF Spec

\* A job that has used up its attempts is FAILED, and stays so.
THEOREM ExhaustedAlwaysFailed == Spec => []ExhaustedIsFailed
<1>1. Init => TypeOK /\ ExhaustedIsFailed
  <2>1. ~(0 >= MaxAttempts)
    BY MaxAttemptsAssumption
  <2> QED BY <2>1, InitType DEF Init, JobsInit, NoRow, ExhaustedIsFailed
<1>2. TypeOK /\ ExhaustedIsFailed /\ [Next]_vars => ExhaustedIsFailed'
  <2> SUFFICES ASSUME TypeOK, ExhaustedIsFailed, [Next]_vars, NEW j \in JobIds
               PROVE  CountedRow(jobs'[j])
    BY DEF ExhaustedIsFailed, CountedRow
  <2>1. CountedRow(jobs[j])
    BY DEF ExhaustedIsFailed, CountedRow
  <2> QED BY <2>1, StepRows, RowStepCounted
<1> QED BY <1>1, <1>2, TypeCorrect, PTL DEF Spec

-----------------------------------------------------------------------------
(* Action properties. *)

\* A key without a row has no attempts and no timestamps, so that time does not
\* change it.
VoidRow(row) == row.status \in NoRowStatus => row.attempts = 0 /\ row.at = NoTimes

NoRowIsVoid == \A j \in JobIds : VoidRow(jobs[j])

\* No statement writes to a key without a row, but the INSERT.
LEMMA RowStepVoid ==
    ASSUME NEW row \in Job, NEW new, RowStep(row, new), VoidRow(row)
    PROVE  VoidRow(new)
<1> USE DEF VoidRow, NoRowStatus
<1>1. CASE new = row
  BY <1>1
<1>2. CASE new = NewRow
  BY <1>2 DEF NewRow
<1>3. ASSUME NEW status \in JobStatus, NEW c \in Columns, NEW a, new = Move(row, status, c, a)
      PROVE  VoidRow(new)
  BY <1>3, MoveFields DEF JobStatus, Live, Finished
<1>4. ASSUME row.status \notin NoRowStatus, NEW n \in Nat, new = FailedRow(row, n)
      PROVE  VoidRow(new)
  BY <1>4, FailedRowFields, MaxAttemptsAssumption
<1>5. CASE new = NoRow("DELETED")
  BY <1>5 DEF NoRow
<1>6. ASSUME NEW c \in Columns, row.at[c] = "fresh", new = [row EXCEPT !.at = Stamp(row.at, c, "stale")]
      PROVE  VoidRow(new)
  BY <1>6 DEF Job, NoTimes
<1>7. /\ {"PENDING", "PROCESSING", "COMPLETED", "CANCELLED"} \subseteq JobStatus
      /\ {"createdAt", "processingStartedAt", "finishedAt", "cancelledAt"} \subseteq Columns
  BY DEF JobStatus, Live, Finished, Columns
<1> HIDE DEF VoidRow
<1> QED BY <1>1, <1>2, <1>3, <1>4, <1>5, <1>6, <1>7 DEF RowStep

\* A key without a row stays blank until an INSERT uses it.
LEMMA NoRowAlwaysVoid == Spec => []NoRowIsVoid
<1>1. Init => NoRowIsVoid
  BY DEF Init, JobsInit, NoRow, NoRowIsVoid, VoidRow
<1>2. TypeOK /\ NoRowIsVoid /\ [Next]_vars => NoRowIsVoid'
  <2> SUFFICES ASSUME TypeOK, NoRowIsVoid, [Next]_vars, NEW j \in JobIds
               PROVE  VoidRow(jobs'[j])
    BY DEF NoRowIsVoid, VoidRow
  <2> QED BY StepRows, RowStepVoid DEF NoRowIsVoid
<1> QED BY <1>1, <1>2, TypeCorrect, PTL DEF Spec

-----------------------------------------------------------------------------
(* Action properties. *)

\* What a statement can make of a finished row, and of a deleted one.
LEMMA RowStepFinished ==
    ASSUME NEW row \in Job, NEW new, RowStep(row, new), VoidRow(row)
    PROVE  /\ row.status \in Finished => new.status \in {row.status, "FAILED", "DELETED"}
           /\ row.status = "DELETED" => new = row
<1> USE DEF Finished, Live, NoRowStatus
<1>1. CASE new = row
  BY <1>1
<1>2. CASE row.status \in {"ABSENT", "PENDING", "PROCESSING"}
  BY <1>2
<1>3. ASSUME row.status \notin NoRowStatus, NEW n \in Nat, new = FailedRow(row, n)
      PROVE  new.status \in {row.status, "FAILED"}
  BY <1>3, FailedRowFields, MaxAttemptsAssumption
<1>4. CASE row.status \notin NoRowStatus /\ new = NoRow("DELETED")
  BY <1>4 DEF NoRow
<1>5. ASSUME NEW c \in Columns, row.at[c] = "fresh", new = [row EXCEPT !.at = Stamp(row.at, c, "stale")]
      PROVE  new.status = row.status /\ row.status \notin NoRowStatus
  BY <1>5 DEF Job, VoidRow, NoTimes
<1> QED BY <1>1, <1>2, <1>3, <1>4, <1>5 DEF RowStep

\* A finished job is never claimed, reset or cancelled again: its status only
\* becomes FAILED, by a late failJob, or its row is deleted for good.
THEOREM FinishedAlwaysStays == Spec => FinishedStaysFinished
<1> DEFINE A == \A j \in JobIds :
                  /\ jobs[j].status \in Finished => jobs'[j].status \in {jobs[j].status, "FAILED", "DELETED"}
                  /\ jobs[j].status = "DELETED" => jobs'[j] = jobs[j]
<1>1. TypeOK /\ NoRowIsVoid /\ [Next]_vars => [A]_jobs
  <2> SUFFICES ASSUME TypeOK, NoRowIsVoid, [Next]_vars, NEW j \in JobIds
               PROVE  /\ jobs[j].status \in Finished => jobs'[j].status \in {jobs[j].status, "FAILED", "DELETED"}
                      /\ jobs[j].status = "DELETED" => jobs'[j] = jobs[j]
    OBVIOUS
  <2> QED BY StepRows, RowStepFinished DEF NoRowIsVoid
<1>2. [][A]_jobs <=> FinishedStaysFinished
  BY DEF FinishedStaysFinished
<1> HIDE DEF A
<1> QED BY <1>1, <1>2, TypeCorrect, NoRowAlwaysVoid, PTL DEF Spec

-----------------------------------------------------------------------------
(* The service implements JobLifecycle. *)

statuses == [j \in JobIds |-> jobs[j].status]
failures == [j \in JobIds |-> jobs[j].attempts]

\* An UPDATE that sets the status of one row, seen from the life cycle.
LEMMA OneRowMoves ==
    ASSUME JobsTypeOK, NEW j \in JobIds, NEW status, NEW c \in Columns, NEW a,
           jobs' = [jobs EXCEPT ![j] = Move(jobs[j], status, c, a)]
    PROVE  statuses' = [statuses EXCEPT ![j] = status] /\ failures' = failures
<1>1. jobs[j] \in Job /\ jobs'[j] = Move(jobs[j], status, c, a)
      /\ \A i \in JobIds \ {j} : jobs'[i] = jobs[i]
  BY DEF JobsTypeOK
<1>2. jobs'[j].status = status /\ jobs'[j].attempts = jobs[j].attempts
  BY <1>1, MoveFields
<1>3. [statuses EXCEPT ![j] = status] = [i \in JobIds |-> IF i = j THEN status ELSE jobs[i].status]
  BY DEF statuses
<1>4. \A i \in JobIds : jobs'[i].status = IF i = j THEN status ELSE jobs[i].status
  BY <1>1, <1>2
<1>5. \A i \in JobIds : jobs'[i].attempts = jobs[i].attempts
  BY <1>1, <1>2
<1> QED BY <1>3, <1>4, <1>5 DEF statuses, failures

\* Every statement is a step of the life cycle, or is not seen there.
LEMMA TableStepRefines ==
    ASSUME JobsTypeOK, NoRowIsVoid, TableStep
    PROVE  Lifecycle!Next \/ (statuses' = statuses /\ failures' = failures)
<1> USE DEF JobsTypeOK
<1>0. {"createdAt", "processingStartedAt", "finishedAt", "cancelledAt"} \subseteq Columns
  BY DEF Columns
<1>1. CASE UNCHANGED jobs
  BY <1>1 DEF statuses, failures
<1>2. ASSUME NEW S \in SUBSET JobIds, InsertJobs(S)
      PROVE  Lifecycle!Next
  <2>1. \A j \in S : jobs[j].status = "ABSENT" /\ jobs[j].attempts = 0
    BY <1>2 DEF InsertJobs, NoRowIsVoid, VoidRow, NoRowStatus
  <2>2. NewRow.status = "PENDING" /\ NewRow.attempts = 0
    BY DEF NewRow
  <2>3. \A j \in JobIds : /\ jobs'[j].status = IF j \in S THEN "PENDING" ELSE jobs[j].status
                          /\ jobs'[j].attempts = jobs[j].attempts
    BY <1>2, <2>1, <2>2 DEF InsertJobs
  <2>4. Lifecycle!Submit(S)
    BY <2>1, <2>3 DEF Lifecycle!Submit
  <2> QED BY <2>4 DEF Lifecycle!Next
<1>3. ASSUME NEW S \in SUBSET JobIds, \A j \in S : RowExists(j), DeleteJobs(S)
      PROVE  Lifecycle!Next
  <2>1. Lifecycle!Delete(S)
    BY <1>3 DEF DeleteJobs, RowExists, NoRowStatus, NoRow, Lifecycle!Delete, Lifecycle!Exists
  <2> QED BY <2>1 DEF Lifecycle!Next
<1>4. ASSUME NEW j \in JobIds, ClaimJob(j) \/ CompleteJob(j) \/ CancelJob(j) \/ ResetJob(j)
      PROVE  Lifecycle!Next \/ (statuses' = statuses /\ failures' = failures)
  <2>1. ASSUME ClaimJob(j)
        PROVE  Lifecycle!Start(j)
    BY <1>0, <2>1, OneRowMoves DEF ClaimJob, Lifecycle!Start, Lifecycle!Move, statuses, failures
  <2>2. ASSUME CompleteJob(j)
        PROVE  Lifecycle!Complete(j)
    BY <1>0, <2>2, OneRowMoves DEF CompleteJob, Lifecycle!Complete, Lifecycle!Move, statuses, failures
  <2>3. ASSUME CancelJob(j)
        PROVE  Lifecycle!Cancel(j)
    BY <1>0, <2>3, OneRowMoves DEF CancelJob, Live, Lifecycle!Cancel, Lifecycle!Move, statuses, failures
  <2>4. ASSUME ResetJob(j), jobs[j].status = "PROCESSING"
        PROVE  Lifecycle!Requeue(j)
    BY <1>0, <2>4, OneRowMoves DEF ResetJob, Lifecycle!Requeue, Lifecycle!Move, statuses, failures
  <2>5. ASSUME ResetJob(j), jobs[j].status # "PROCESSING"
        PROVE  UNCHANGED jobs
    BY <2>5 DEF ResetJob
  <2> QED BY <1>4, <2>1, <2>2, <2>3, <2>4, <2>5 DEF Lifecycle!Next, statuses, failures
<1>5. ASSUME NEW j \in JobIds, NEW n \in Nat, WriteFailure(j, n)
      PROVE  Lifecycle!Next \/ (statuses' = statuses /\ failures' = failures)
  <2>1. CASE ~RowExists(j)
    BY <1>5, <2>1 DEF WriteFailure, statuses, failures
  <2>2. CASE RowExists(j)
    <3>1. jobs'[j] = FailedRow(jobs[j], n) /\ \A i \in JobIds \ {j} : jobs'[i] = jobs[i]
      BY <1>5, <2>2 DEF WriteFailure
    <3>2. /\ jobs'[j].attempts = n
          /\ jobs'[j].status = IF n >= MaxAttempts THEN "FAILED" ELSE jobs[j].status
      BY <3>1, FailedRowFields, MaxAttemptsAssumption
    <3>3. Lifecycle!RecordFailure(j)
      BY <2>2, <3>1, <3>2
         DEF RowExists, NoRowStatus, Lifecycle!RecordFailure, Lifecycle!Exists
    <3> QED BY <3>3 DEF Lifecycle!Next
  <2> QED BY <2>1, <2>2
<1>6. ASSUME NEW j \in JobIds, NEW c \in Columns, Age(j, c)
      PROVE  statuses' = statuses /\ failures' = failures
  BY <1>6 DEF Age, Job, statuses, failures
<1> QED BY <1>1, <1>2, <1>3, <1>4, <1>5, <1>6 DEF TableStep

\* The service implements the abstract life cycle of a job, whatever fails: a
\* client sees only its steps.
THEOREM LifecycleImplemented == Spec => ImplementsLifecycle
<1>1. Init => Lifecycle!Init
  BY DEF Init, JobsInit, NoRow, Lifecycle!Init
<1>2. TypeOK /\ NoRowIsVoid /\ [Next]_vars => [Lifecycle!Next]_<<statuses, failures>>
  BY StepType, TableStepRefines DEF SharedStep, TypeOK
<1>3. [Lifecycle!Next]_<<statuses, failures>> => [Lifecycle!Next]_Lifecycle!lifecycle_vars
  BY DEF Lifecycle!lifecycle_vars, statuses, failures
<1> QED BY <1>1, <1>2, <1>3, TypeCorrect, NoRowAlwaysVoid, PTL DEF Spec, ImplementsLifecycle, Lifecycle!Spec

-----------------------------------------------------------------------------
(* One slot per job, when no live worker loses a lock.                     *)
(*                                                                         *)
(* OneWorkerPerJob speaks of slots and is not inductive: what keeps a      *)
(* second slot away is the entry, which is active and locked by the slot   *)
(* that works on it.  The table alone does not: a sweep can reset the row  *)
(* while the slot works, but its queue.add then finds the entry there.     *)

\* No live worker loses a lock, and nobody obliterates the queue.
NoLockLoss == MaxFaults["lockLoss"] = 0 /\ MaxFaults["clean"] = 0

\* Slot s holds the entry of its job.
Holds(s) ==
    slots[s].pc # "idle" =>
        bull[slots[s].job].st = "active" /\ bull[slots[s].job].owner = s

\* The inductive invariant: every slot holds the entry of its job.
LocksHeld == \A s \in Slots : Holds(s)

\* A step that starts no job and leaves the entries that slots hold alone.
HoldersKept ==
    \A s \in Slots :
        slots'[s].pc # "idle" => /\ slots[s].pc # "idle"
                                /\ slots'[s].job = slots[s].job
                                /\ bull'[slots[s].job] = bull[slots[s].job]

\* Such a step keeps the invariant.
LEMMA KeptIsHeld ==
    ASSUME LocksHeld, HoldersKept
    PROVE  LocksHeld'
BY DEF LocksHeld, Holds, HoldersKept

\* A fault without a budget does not happen.
LEMMA NoBudget ==
    ASSUME FaultsTypeOK, NEW k \in FaultKinds, MaxFaults[k] = 0
    PROVE  ~Spend(k)
BY DEF FaultsTypeOK, Spend

\* The queue operations of the API and the sweeps spare a held entry.
LEMMA HeldIsSpared ==
    ASSUME BullTypeOK, NEW s \in Slots, NEW i \in JobIds,
           bull[i].st = "active", bull[i].owner = s,
           \/ \E S \in SUBSET JobIds : AddEntries(S)
           \/ \E j \in JobIds : RemoveEntry(j) \/ RetryEntry(j) \/ StalledCheck(j)
           \/ UNCHANGED bull
    PROVE  bull'[i] = bull[i]
<1>0. s # NoSlot
  BY NoSlotAssumption
<1>1. ASSUME NEW S \in SUBSET JobIds, AddEntries(S)
      PROVE  bull'[i] = bull[i]
  BY <1>1 DEF AddEntries
<1>2. ASSUME NEW j \in JobIds, RemoveEntry(j) \/ RetryEntry(j)
      PROVE  bull'[i] = bull[i]
  BY <1>0, <1>2 DEF RemoveEntry, RetryEntry, BullTypeOK
<1>3. ASSUME NEW j \in JobIds, StalledCheck(j)
      PROVE  bull'[i] = bull[i]
  <2>1. i # j
    BY <1>0, <1>3 DEF StalledCheck, Locked
  <2> QED BY <1>3, <2>1 DEF StalledCheck, BullTypeOK
<1> QED BY <1>1, <1>2, <1>3

\* A step of the API, the sweeps or the stalled check keeps every holder.
LEMMA SparedIsKept ==
    ASSUME TypeOK, LocksHeld, UNCHANGED slots,
           \/ \E S \in SUBSET JobIds : AddEntries(S)
           \/ \E j \in JobIds : RemoveEntry(j) \/ RetryEntry(j) \/ StalledCheck(j)
           \/ UNCHANGED bull
    PROVE  HoldersKept
<1>1. ASSUME NEW s \in Slots, slots'[s].pc # "idle"
      PROVE  bull'[slots[s].job] = bull[slots[s].job]
  <2>1. slots[s].job \in JobIds
    BY <1>1, BusySlotHasJob DEF TypeOK
  <2>2. bull[slots[s].job].st = "active" /\ bull[slots[s].job].owner = s
    BY <1>1 DEF LocksHeld, Holds
  <2> QED BY <2>1, <2>2, HeldIsSpared DEF TypeOK
<1> QED BY <1>1 DEF HoldersKept

\* Slots that stay where they are, are given back or go on with their jobs.
LEMMA OnlySlots ==
    ASSUME UNCHANGED bull,
           \A s \in Slots : slots'[s].pc # "idle" =>
                               slots[s].pc # "idle" /\ slots'[s].job = slots[s].job
    PROVE  HoldersKept
BY DEF HoldersKept

\* A slot that goes on keeps the jobs of all slots.
LEMMA ResumeKeepsJobs ==
    ASSUME SlotsTypeOK, NEW s \in Slots, slots[s].pc # "idle",
           NEW pc, NEW n, NEW why, Resume(s, pc, n, why), UNCHANGED bull
    PROVE  HoldersKept
<1>1. \A t \in Slots : slots'[t].job = slots[t].job /\ (t # s => slots'[t] = slots[t])
  BY DEF Resume, SlotsTypeOK
<1> QED BY <1>1, OnlySlots

\* process() settles: the slot gives up the entry it holds, and no other.
LEMMA SettledIsHeld ==
    ASSUME TypeOK, LocksHeld, NEW s \in Slots, slots[s].pc # "idle",
           slots' = [slots EXCEPT ![s] = IdleSlot],
           CompleteEntry(slots[s].job, s) \/ \E why \in Reasons : FailEntry(slots[s].job, s, why)
    PROVE  HoldersKept
<1> SUFFICES ASSUME NEW t \in Slots, slots'[t].pc # "idle"
             PROVE  /\ slots[t].pc # "idle"
                    /\ slots'[t].job = slots[t].job
                    /\ bull'[slots[t].job] = bull[slots[t].job]
  BY DEF HoldersKept
<1>1. t # s /\ slots'[t] = slots[t]
  BY DEF TypeOK, SlotsTypeOK, IdleSlot
<1>2. slots[t].job # slots[s].job
  BY <1>1 DEF LocksHeld, Holds
<1>3. slots[t].job \in JobIds /\ slots[s].job \in JobIds
  BY <1>1, BusySlotHasJob DEF TypeOK
<1>4. bull'[slots[t].job] = bull[slots[t].job]
  BY <1>2, <1>3 DEF CompleteEntry, FailEntry, TypeOK, BullTypeOK
<1> QED BY <1>1, <1>4

\* BullMQ hands out an entry that no slot holds.
LEMMA TakeKeepsLocks ==
    ASSUME TypeOK, LocksHeld, NEW s \in Slots, NEW j \in JobIds, Take(s, j)
    PROVE  LocksHeld'
<1> SUFFICES ASSUME NEW t \in Slots, slots'[t].pc # "idle"
             PROVE  bull'[slots'[t].job].st = "active" /\ bull'[slots'[t].job].owner = t
  BY DEF LocksHeld, Holds
<1>1. bull'[j].st = "active" /\ bull'[j].owner = s /\ bull[j].st = "wait"
      /\ \A i \in JobIds \ {j} : bull'[i] = bull[i]
  BY DEF Take, TakeEntry, TypeOK, BullTypeOK, Entry
<1>2. CASE t = s
  <2>1. slots'[t].job = j
    BY <1>2 DEF Take, TypeOK, SlotsTypeOK, IdleSlot
  <2> QED BY <1>1, <1>2, <2>1
<1>3. CASE t # s
  <2>1. slots'[t] = slots[t]
    BY <1>3 DEF Take, TypeOK, SlotsTypeOK
  <2>2. slots[t].job \in JobIds
    BY <2>1, BusySlotHasJob DEF TypeOK
  <2>3. bull[slots[t].job].st = "active" /\ bull[slots[t].job].owner = t
    BY <2>1 DEF LocksHeld, Holds
  <2> QED BY <1>1, <2>1, <2>2, <2>3
<1> QED BY <1>2, <1>3

\* What a slot does by itself.
LEMMA SlotStepKeeps ==
    ASSUME TypeOK, LocksHeld, NEW s \in Slots, SlotStep(s)
    PROVE  HoldersKept
<1>0. SlotsTypeOK
  BY DEF TypeOK
<1>1. CASE Return(s)
  <2>1. slots[s].pc # "idle"
    BY <1>1 DEF Return
  <2> QED BY <1>1, <2>1, SettledIsHeld DEF Return
<1>2. CASE Reject(s)
  <2>1. slots[s].pc # "idle" /\ slots[s].reason \in Reasons
    BY <1>0, <1>2 DEF Reject, SlotsTypeOK, Slot
  <2> QED BY <1>2, <2>1, SettledIsHeld DEF Reject
<1>3. CASE \/ Claim(s) \/ ClaimMisses(s) \/ HandlerSucceeds(s) \/ HandlerFails(s)
           \/ Complete(s) \/ CompleteMisses(s) \/ CancelSeen(s) \/ CancelNotSeen(s)
           \/ FailWrite(s) \/ Retry(s) \/ GiveUp(s) \/ BackoffEnds(s)
  <2>1. UNCHANGED bull
    BY <1>3 DEF Claim, ClaimMisses, HandlerSucceeds, HandlerFails, Complete, CompleteMisses,
                CancelSeen, CancelNotSeen, FailWrite, Retry, GiveUp, BackoffEnds
  <2>2. PICK from \in WorkerPCs \ {"idle"}, to \in WorkerPCs : Goto(s, from, to)
    BY <1>3 DEF Claim, ClaimMisses, HandlerSucceeds, HandlerFails, Complete, CompleteMisses,
                CancelSeen, CancelNotSeen, FailWrite, Retry, GiveUp, BackoffEnds, WorkerPCs
  <2> QED BY <1>0, <2>1, <2>2, ResumeKeepsJobs DEF Goto
<1>4. CASE FailRead(s)
  BY <1>0, <1>4, ResumeKeepsJobs DEF FailRead
<1>5. CASE RowMissing(s)
  BY <1>0, <1>5, ResumeKeepsJobs DEF RowMissing, Throw
<1> QED BY <1>1, <1>2, <1>3, <1>4, <1>5 DEF SlotStep

\* Everything that happens to the workers.
LEMMA WorkerNextKeeps ==
    ASSUME NoLockLoss, TypeOK, LocksHeld, WorkerNext
    PROVE  LocksHeld'
<1>0. SlotsTypeOK /\ FaultsTypeOK
  BY DEF TypeOK
<1>1. ASSUME NEW s \in Slots, SlotStep(s)
      PROVE  LocksHeld'
  BY <1>1, SlotStepKeeps, KeptIsHeld
<1>2. ASSUME NEW s \in Slots, NEW j \in JobIds, Take(s, j)
      PROVE  LocksHeld'
  BY <1>2, TakeKeepsLocks
<1>3. ASSUME NEW j \in JobIds, OrphanedLockExpires(j)
      PROVE  LocksHeld'
  <2>1. \A s \in Slots : slots[s].pc # "idle" => slots[s].job \in JobIds \ {j}
    <3> TAKE s \in Slots
    <3> HAVE slots[s].pc # "idle"
    <3>1. slots[s].job # j
      BY <1>3 DEF OrphanedLockExpires, LocksHeld, Holds
    <3> QED BY <1>0, <3>1, BusySlotHasJob
  <2>2. \A i \in JobIds \ {j} : bull'[i] = bull[i]
    BY <1>3 DEF OrphanedLockExpires, ExpireLock, TypeOK, BullTypeOK
  <2>3. HoldersKept
    BY <1>3, <2>1, <2>2 DEF HoldersKept, OrphanedLockExpires
  <2> QED BY <2>3, KeptIsHeld
<1>4. ASSUME NEW j \in JobIds, EntryStalls(j)
      PROVE  LocksHeld'
  BY <1>4, SparedIsKept, KeptIsHeld DEF EntryStalls
<1>5. ASSUME NEW s \in Slots, CompleteErrs(s) \/ DbErrs(s)
      PROVE  LocksHeld'
  <2>1. UNCHANGED bull /\ slots[s].pc # "idle"
    BY <1>5 DEF CompleteErrs, DbErrs, Goto
  <2>2. \E pc, why : Resume(s, pc, 0, why)
    BY <1>5 DEF CompleteErrs, DbErrs, Goto, Throw
  <2> QED BY <1>0, <2>1, <2>2, ResumeKeepsJobs, KeptIsHeld
<1>6. ASSUME NEW w \in Workers, CrashWorker(w)
      PROVE  LocksHeld'
  <2>1. HoldersKept
    BY <1>6 DEF CrashWorker, HoldersKept, IdleSlot
  <2> QED BY <2>1, KeptIsHeld
<1>7. ASSUME NEW j \in JobIds, HeldLockExpires(j)
      PROVE  FALSE
  BY <1>0, <1>7, NoBudget DEF HeldLockExpires, NoLockLoss, FaultKinds
<1> QED BY <1>1, <1>2, <1>3, <1>4, <1>5, <1>6, <1>7 DEF WorkerNext, LockStep, WorkerFault

\* The sweeps, the API, the clean endpoints and the clock.
LEMMA OthersKeep ==
    ASSUME NoLockLoss, TypeOK, LocksHeld, MonitorNext \/ ApiNext \/ DebugNext \/ Tick \/ UNCHANGED vars,
           UNCHANGED slots
    PROVE  LocksHeld'
<1>0. FaultsTypeOK /\ MonTypeOK /\ ApiTypeOK
  BY DEF TypeOK
<1>1. CASE MonitorNext
  <2>1. \/ UNCHANGED bull
        \/ \E S \in SUBSET JobIds : AddEntries(S)
        \/ \E j \in JobIds : RetryEntry(j)
    <3>1. ASSUME NEW m \in Sweeps, ReEnqueue(m)
          PROVE  \E S \in SUBSET JobIds : AddEntries(S)
      BY <1>0, <3>1, AwaitingSweepHasJob DEF ReEnqueue
    <3>2. ASSUME NEW m \in Sweeps, SweepStep(m), ~ReEnqueue(m)
          PROVE  UNCHANGED bull \/ \E j \in JobIds : RetryEntry(j)
      BY <3>2 DEF SweepStep, StartSweep, FindPending, GetFailed, EndSweep, ReconcileRead,
                  ReconcileGone, ReconcileWrite, Reset, RetryFailed, Reconcile, SkipReconcile
    <3>3. ASSUME MonitorFault \/ Cleanup
          PROVE  UNCHANGED bull
      BY <3>3 DEF MonitorFault, Cleanup, QueryErrs, JobErrs, CrashMonitor
    <3> QED BY <1>1, <3>1, <3>2, <3>3 DEF MonitorNext
  <2> QED BY <2>1, SparedIsKept, KeptIsHeld
<1>2. CASE ApiNext
  <2>1. \/ UNCHANGED bull
        \/ \E S \in SUBSET JobIds : AddEntries(S)
        \/ \E j \in JobIds : RemoveEntry(j)
    BY <1>2 DEF ApiNext, ApiFault, Create, Enqueue, Cancel, RemoveCancelled, EnqueueErrs,
                RemoveErrs, CrashApi
  <2> QED BY <2>1, SparedIsKept, KeptIsHeld
<1>3. ~DebugNext
  BY <1>0, NoBudget DEF DebugNext, CleanQueue, CleanTable, NoLockLoss, FaultKinds
<1>4. CASE Tick \/ UNCHANGED vars
  <2>1. UNCHANGED bull
    BY <1>4 DEF Tick, vars
  <2> QED BY <2>1, SparedIsKept, KeptIsHeld
<1> QED BY <1>1, <1>2, <1>3, <1>4

\* A slot whose job two slots would share would have to own its entry twice.
LEMMA HeldByOne ==
    ASSUME LocksHeld
    PROVE  OneWorkerPerJob
BY DEF LocksHeld, Holds, OneWorkerPerJob, WorkingPCs

\* Every step keeps the invariant, and so does every behaviour.
LEMMA LocksStep ==
    ASSUME NoLockLoss, TypeOK, LocksHeld, [Next]_vars
    PROVE  LocksHeld'
<1>1. CASE WorkerNext
  BY <1>1, WorkerNextKeeps
<1>2. CASE MonitorNext
  <2>1. UNCHANGED slots
    BY <1>2, MonitorNextType
  <2> QED BY <1>2, <2>1, OthersKeep
<1>3. CASE ~WorkerNext /\ ~MonitorNext
  <2>1. (ApiNext \/ DebugNext \/ Tick \/ UNCHANGED vars) /\ UNCHANGED slots
    BY <1>3 DEF Next, Tick, vars
  <2> QED BY <2>1, OthersKeep
<1> QED BY <1>1, <1>2, <1>3

LEMMA LocksAlwaysHeld ==
    ASSUME NoLockLoss
    PROVE  Spec => []LocksHeld
<1>1. Init => LocksHeld
  BY DEF Init, WorkerInit, IdleSlot, LocksHeld, Holds
<1>2. TypeOK /\ LocksHeld /\ [Next]_vars => LocksHeld'
  BY LocksStep
<1> QED BY <1>1, <1>2, TypeCorrect, PTL DEF Spec

\* While locks are held, no two slots, of one worker or of two, ever work on the
\* same job: resets of the row under a running worker do not start another one.
THEOREM OneWorkerAlways ==
    ASSUME NoLockLoss
    PROVE  Spec => []OneWorkerPerJob
BY LocksAlwaysHeld, HeldByOne, PTL

\* The busy slots hold different active entries: there are as many.
LEMMA BusyAreActive ==
    ASSUME IsFiniteSet(JobIds), TypeOK, LocksHeld
    PROVE  QueueShowsWork
<1> DEFINE busy == {s \in Slots : slots[s].pc # "idle"}
           active == {j \in JobIds : bull[j].st = "active"}
           held == [s \in busy |-> slots[s].job]
<1>1. ASSUME NEW s \in busy
      PROVE  held[s] \in active /\ bull[held[s]].owner = s
  <2>1. slots[s].job \in JobIds
    BY BusySlotHasJob DEF TypeOK
  <2> QED BY <2>1 DEF LocksHeld, Holds
<1>2. held \in Injection(busy, active)
  <2>1. held \in [busy -> active]
    BY <1>1
  <2>2. \A s, t \in busy : held[s] = held[t] => s = t
    <3> TAKE s, t \in busy
    <3> HAVE held[s] = held[t]
    <3>1. bull[held[s]].owner = s /\ bull[held[t]].owner = t
      BY <1>1
    <3> HIDE DEF held
    <3> QED BY <3>1
  <2> HIDE DEF held
  <2> QED BY <2>1, <2>2 DEF Injection, IsInjective
<1>3. IsFiniteSet(active)
  BY FS_Subset
<1> HIDE DEF busy, active, held
<1>4. Cardinality(busy) <= Cardinality(active)
  BY <1>2, <1>3, FS_Injection
<1> QED BY <1>4 DEF QueueShowsWork, QueueMetrics, JobCounts, busy, active

\* While locks are held, queue_active counts every call of process() that is running,
\* whenever Redis answers.
THEOREM QueueAlwaysShowsWork ==
    ASSUME NoLockLoss, IsFiniteSet(JobIds)
    PROVE  Spec => []QueueShowsWork
<1>1. TypeOK /\ LocksHeld => QueueShowsWork
  BY BusyAreActive
<1> QED BY <1>1, TypeCorrect, LocksAlwaysHeld, PTL
=============================================================================
