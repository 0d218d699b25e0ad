--------------------------- MODULE Execution_proofs ---------------------------
(***************************************************************************)
(* The service implements JobExecution.                                    *)
(*                                                                         *)
(* A step changes the slots, of which at most one has the job, and the     *)
(* rows, of which at most one gets another count.  The first half of this  *)
(* module says what the executor and the phase of a job are before and     *)
(* after a step (HolderShows, OneSlotMoves) and what the statements make   *)
(* of the rows, the second half takes the actions one by one.              *)
(***************************************************************************)
EXTENDS Attempts_proofs

\* What the abstract specification sees, beside statuses and failures.
executors == [j \in JobIds |-> ExecutorOf(j)]
phases == [j \in JobIds |-> PhaseOf(j)]

\* ... of a job that slot s holds at pc.
Executor(s, pc) == IF pc \in WorkingPCs THEN s ELSE NoSlot

LEMMA PhaseValues ==
    /\ \A pc \in WorkerPCs : PhaseAt(pc) = "none" <=> pc \notin WorkingPCs
    /\ PhaseAt("execute") = "executing" /\ PhaseAt("backoff") = "executing"
    /\ PhaseAt("complete") = "succeeded" /\ PhaseAt("failReread") = "counted"
    /\ \A pc \in {"checkCancel", "failRead", "failWrite"} : PhaseAt(pc) = "failing"
    /\ \A pc \in {"idle", "claim", "return", "throw"} : PhaseAt(pc) = "none"
BY DEF PhaseAt, WorkerPCs, WorkingPCs

HolderShows ==
    \A s \in Slots :
        slots[s].pc # "idle" => /\ ExecutorOf(slots[s].job) = Executor(s, slots[s].pc)
                               /\ PhaseOf(slots[s].job) = PhaseAt(slots[s].pc)

NobodyShows ==
    \A j \in JobIds :
        (\A s \in Slots : slots[s].job = j => slots[s].pc \notin WorkingPCs) =>
            ExecutorOf(j) = NoSlot /\ PhaseOf(j) = "none"

\* The slot that holds the entry of a job is its executor, while it works.
LEMMA ShownWhileHeld == LocksHeld /\ SlotsTypeOK => HolderShows /\ NobodyShows
<1> SUFFICES ASSUME LocksHeld, SlotsTypeOK
             PROVE  HolderShows /\ NobodyShows
  OBVIOUS
<1>1. ASSUME NEW s \in Slots, slots[s].pc # "idle"
      PROVE  /\ ExecutorOf(slots[s].job) = Executor(s, slots[s].pc)
             /\ PhaseOf(slots[s].job) = PhaseAt(slots[s].pc)
  <2>1. \A t \in Slots : slots[t].job = slots[s].job /\ slots[t].pc \in WorkingPCs => t = s
    BY <1>1 DEF LocksHeld, Holds, WorkingPCs
  <2>2. CASE slots[s].pc \in WorkingPCs
    <3>1. WorkingOn(slots[s].job)
      BY <2>2 DEF WorkingOn
    <3>2. ExecutorOf(slots[s].job) = s
      BY <2>1, <2>2, <3>1 DEF ExecutorOf
    <3> QED BY <2>2, <3>1, <3>2 DEF PhaseOf, Executor
  <2>3. CASE slots[s].pc \notin WorkingPCs
    <3>1. ~WorkingOn(slots[s].job)
      BY <2>1, <2>3 DEF WorkingOn
    <3>2. PhaseAt(slots[s].pc) = "none"
      BY <2>3, PhaseValues DEF SlotsTypeOK, Slot
    <3> QED BY <2>3, <3>1, <3>2 DEF ExecutorOf, PhaseOf, Executor
  <2> QED BY <2>2, <2>3
<1>2. NobodyShows
  BY DEF NobodyShows, WorkingOn, ExecutorOf, PhaseOf
<1> QED BY <1>1, <1>2 DEF HolderShows

\* The same after a step.
LEMMA ShownAfter == LocksHeld' /\ SlotsTypeOK' => HolderShows' /\ NobodyShows'
BY ShownWhileHeld, PTL

\* A step of slot s changes the executor and the phase of its own job only.
LEMMA OneSlotMoves ==
    ASSUME LocksHeld, LocksHeld', SlotsTypeOK, SlotsTypeOK', NEW s \in Slots, slots[s].pc # "idle",
           NEW j \in JobIds, slots[s].job = j,
           slots'[s].pc # "idle" => slots'[s].job = j,
           \A t \in Slots \ {s} : slots'[t] = slots[t]
    PROVE  /\ executors[j] = Executor(s, slots[s].pc) /\ phases[j] = PhaseAt(slots[s].pc)
           /\ executors' = [executors EXCEPT ![j] = Executor(s, slots'[s].pc)]
           /\ phases' = [phases EXCEPT ![j] = PhaseAt(slots'[s].pc)]
<1>1. HolderShows /\ NobodyShows /\ HolderShows' /\ NobodyShows'
  BY ShownWhileHeld, ShownAfter
<1>2. ExecutorOf(j) = Executor(s, slots[s].pc) /\ PhaseOf(j) = PhaseAt(slots[s].pc)
  BY <1>1 DEF HolderShows
<1>3. ExecutorOf(j)' = Executor(s, slots'[s].pc) /\ PhaseOf(j)' = PhaseAt(slots'[s].pc)
  <2>1. CASE slots'[s].pc # "idle"
    BY <1>1, <2>1 DEF HolderShows
  <2>2. CASE slots'[s].pc = "idle"
    <3>1. \A t \in Slots : slots'[t].job = j => slots'[t].pc \notin WorkingPCs
      BY <2>2 DEF LocksHeld, Holds, WorkingPCs
    <3>2. ExecutorOf(j)' = NoSlot /\ PhaseOf(j)' = "none"
      BY <1>1, <3>1 DEF NobodyShows
    <3> QED BY <2>2, <3>2, PhaseValues DEF Executor, WorkingPCs
  <2> QED BY <2>1, <2>2
<1>4. ASSUME NEW i \in JobIds \ {j}
      PROVE  ExecutorOf(i)' = ExecutorOf(i) /\ PhaseOf(i)' = PhaseOf(i)
  <2>1. ASSUME NEW t \in Slots, slots[t].job = i, slots[t].pc \in WorkingPCs
        PROVE  ExecutorOf(i)' = ExecutorOf(i) /\ PhaseOf(i)' = PhaseOf(i)
    <3>1. slots'[t] = slots[t] /\ slots[t].pc # "idle"
      BY <2>1 DEF WorkingPCs
    <3>2. ExecutorOf(i) = Executor(t, slots[t].pc) /\ PhaseOf(i) = PhaseAt(slots[t].pc)
      BY <1>1, <2>1, <3>1 DEF HolderShows
    <3>3. ExecutorOf(i)' = Executor(t, slots'[t].pc) /\ PhaseOf(i)' = PhaseAt(slots'[t].pc)
      BY <1>1, <2>1, <3>1 DEF HolderShows
    <3> QED BY <3>1, <3>2, <3>3
  <2>2. ASSUME \A t \in Slots : slots[t].job = i => slots[t].pc \notin WorkingPCs
        PROVE  ExecutorOf(i)' = ExecutorOf(i) /\ PhaseOf(i)' = PhaseOf(i)
    <3>1. \A t \in Slots : slots'[t].job = i => slots'[t].pc \notin WorkingPCs
      BY <2>2 DEF WorkingPCs
    <3> QED BY <1>1, <2>2, <3>1 DEF NobodyShows
  <2> QED BY <2>1, <2>2
<1> QED BY <1>2, <1>3, <1>4 DEF executors, phases

\* A step that leaves the work of every slot as it is.
LEMMA WorkKept ==
    ASSUME LocksHeld, LocksHeld', SlotsTypeOK, SlotsTypeOK',
           \A t \in Slots : /\ PhaseAt(slots'[t].pc) = PhaseAt(slots[t].pc)
                            /\ slots[t].pc \in WorkingPCs => slots'[t].job = slots[t].job
    PROVE  executors' = executors /\ phases' = phases
<1>1. HolderShows /\ NobodyShows /\ HolderShows' /\ NobodyShows'
  BY ShownWhileHeld, ShownAfter
<1>2. \A t \in Slots : slots'[t].pc \in WorkingPCs <=> slots[t].pc \in WorkingPCs
  BY PhaseValues DEF SlotsTypeOK, Slot
<1>3. ASSUME NEW i \in JobIds
      PROVE  ExecutorOf(i)' = ExecutorOf(i) /\ PhaseOf(i)' = PhaseOf(i)
  <2>1. ASSUME NEW t \in Slots, slots[t].job = i, slots[t].pc \in WorkingPCs
        PROVE  ExecutorOf(i)' = ExecutorOf(i) /\ PhaseOf(i)' = PhaseOf(i)
    <3>1. slots'[t].job = i /\ slots[t].pc # "idle" /\ slots'[t].pc # "idle"
      BY <1>2, <2>1 DEF WorkingPCs
    <3>2. ExecutorOf(i) = Executor(t, slots[t].pc) /\ PhaseOf(i) = PhaseAt(slots[t].pc)
      BY <1>1, <2>1, <3>1 DEF HolderShows
    <3>3. ExecutorOf(i)' = Executor(t, slots'[t].pc) /\ PhaseOf(i)' = PhaseAt(slots'[t].pc)
      BY <1>1, <2>1, <3>1 DEF HolderShows
    <3> QED BY <1>2, <3>2, <3>3 DEF Executor
  <2>2. ASSUME \A t \in Slots : slots[t].job = i => slots[t].pc \notin WorkingPCs
        PROVE  ExecutorOf(i)' = ExecutorOf(i) /\ PhaseOf(i)' = PhaseOf(i)
    <3>1. ASSUME NEW t \in Slots, slots'[t].job = i
          PROVE  slots'[t].pc \notin WorkingPCs
      BY <1>2, <2>2, <3>1
    <3> QED BY <1>1, <2>2, <3>1 DEF NobodyShows
  <2> QED BY <2>1, <2>2
<1> QED BY <1>3 DEF executors, phases

-----------------------------------------------------------------------------
(* Rows. *)

RowsKept == statuses' = statuses /\ failures' = failures

LEMMA RowsKeptShown == RowsKept => UNCHANGED Execution!lifecycle_vars
BY DEF RowsKept, Execution!lifecycle_vars, statuses, failures

LEMMA TableKept ==
    ASSUME JobsTypeOK, UNCHANGED jobs \/ \E j \in JobIds, c \in Columns : Age(j, c)
    PROVE  RowsKept
<1>1. \A i \in JobIds : jobs'[i].status = jobs[i].status /\ jobs'[i].attempts = jobs[i].attempts
  BY DEF Age, JobsTypeOK, Job
<1> QED BY <1>1 DEF RowsKept, statuses, failures

\* The statements that set the status of one row.
LEMMA StatusShown ==
    ASSUME JobsTypeOK, NEW j \in JobIds
    PROVE  /\ ClaimJob(j) => Execution!Start(j)
           /\ CompleteJob(j) => Execution!Complete(j)
           /\ CancelJob(j) => Execution!Cancel(j)
           /\ ResetJob(j) => Execution!Requeue(j) \/ RowsKept
<1>0. {"createdAt", "processingStartedAt", "finishedAt", "cancelledAt"} \subseteq Columns
  BY DEF Columns
<1>1. ASSUME ClaimJob(j)
      PROVE  Execution!Start(j)
  BY <1>0, <1>1, OneRowMoves DEF ClaimJob, Execution!Start, Execution!Move, statuses, failures
<1>2. ASSUME CompleteJob(j)
      PROVE  Execution!Complete(j)
  BY <1>0, <1>2, OneRowMoves DEF CompleteJob, Execution!Complete, Execution!Move, statuses, failures
<1>3. ASSUME CancelJob(j)
      PROVE  Execution!Cancel(j)
  BY <1>0, <1>3, OneRowMoves DEF CancelJob, Live, Execution!Cancel, Execution!Move, statuses, failures
<1>4. ASSUME ResetJob(j), jobs[j].status = "PROCESSING"
      PROVE  Execution!Requeue(j)
  BY <1>0, <1>4, OneRowMoves DEF ResetJob, Execution!Requeue, Execution!Move, statuses, failures
<1>5. ASSUME ResetJob(j), jobs[j].status # "PROCESSING"
      PROVE  RowsKept
  <2>1. jobs' = [jobs EXCEPT ![j] = jobs[j]]
    BY <1>5 DEF ResetJob
  <2> QED BY <2>1, TableKept DEF JobsTypeOK
<1> QED BY <1>1, <1>2, <1>3, <1>4, <1>5

LEMMA InsertShown ==
    ASSUME JobsTypeOK, NoRowIsVoid, NEW S \in SUBSET JobIds, InsertJobs(S)
    PROVE  Execution!Submit(S)
<1>1. \A j \in S : jobs[j].status = "ABSENT" /\ jobs[j].attempts = 0
  BY DEF InsertJobs, NoRowIsVoid, VoidRow, NoRowStatus
<1>2. NewRow.status = "PENDING" /\ NewRow.attempts = 0
  BY DEF NewRow
<1>3. \A j \in JobIds : /\ jobs'[j].status = IF j \in S THEN "PENDING" ELSE jobs[j].status
                        /\ jobs'[j].attempts = jobs[j].attempts
  BY <1>1, <1>2 DEF InsertJobs
<1> QED BY <1>1, <1>3 DEF Execution!Submit

LEMMA DeleteShown ==
    ASSUME NEW S \in SUBSET JobIds, \A j \in S : RowExists(j), DeleteJobs(S)
    PROVE  Execution!Delete(S)
BY DEF DeleteJobs, RowExists, NoRowStatus, NoRow, Execution!Delete, Execution!Exists

\* failJob's UPDATE by slot s counts one failure more, since the slot has read what
\* the row still says.
LEMMA FailureShown ==
    ASSUME AttemptsInv, NEW s \in Slots, slots[s].pc = "failWrite", NEW j \in JobIds,
           slots[s].job = j, WriteFailure(j, slots[s].attempts + 1)
    PROVE  Execution!CountOne(j)
<1> USE DEF AttemptsInv
<1>0. JobsTypeOK /\ slots[s].attempts \in Nat
  BY DEF TypeOK, SlotsTypeOK, Slot
<1>1. CASE ~RowExists(j)
  <2>1. RowsKept
    BY <1>1 DEF WriteFailure, RowsKept, statuses, failures
  <2> QED BY <1>1, <2>1, RowsKeptShown DEF Execution!CountOne, Execution!Exists, RowExists, NoRowStatus
<1>2. CASE RowExists(j)
  <2>1. PICK n \in Nat : n = slots[s].attempts + 1
    BY <1>0
  <2>2. jobs'[j] = FailedRow(jobs[j], n) /\ \A i \in JobIds \ {j} : jobs'[i] = jobs[i]
    BY <1>0, <1>2, <2>1 DEF WriteFailure, JobsTypeOK
  <2>3. /\ jobs'[j].attempts = n
        /\ jobs'[j].status = IF n >= MaxAttempts THEN "FAILED" ELSE jobs[j].status
    BY <1>0, <2>2, FailedRowFields, MaxAttemptsAssumption DEF JobsTypeOK
  <2>4. Execution!RecordFailure(j)
    BY <1>2, <2>2, <2>3 DEF RowExists, NoRowStatus, Execution!RecordFailure, Execution!Exists
  <2>5. n = jobs[j].attempts + 1
    BY <1>2, <2>1 DEF SlotReads
  <2> QED BY <2>3, <2>4, <2>5 DEF Execution!CountOne
<1> QED BY <1>1, <1>2

\* A reconciliation writes the count that the row has.
LEMMA ReconciliationKeeps ==
    ASSUME AttemptsInv, NEW m \in Sweeps, ReconcileWrite(m)
    PROVE  RowsKept
<1> USE DEF AttemptsInv
<1>0. JobsTypeOK /\ MonTypeOK
  BY DEF TypeOK
<1>1. /\ mon[m].job \in JobIds /\ mon[m].attempts \in Nat
      /\ WriteFailure(mon[m].job, mon[m].attempts)
      /\ mon[m].pc = "reconcileWrite"
  BY <1>0, AwaitingSweepHasJob DEF ReconcileWrite, MonTypeOK, Sweep
<1>2. ASSUME NEW j \in JobIds
      PROVE  jobs'[j].attempts = jobs[j].attempts /\ jobs'[j].status = jobs[j].status
  <2>1. CASE jobs'[j] = jobs[j]
    BY <2>1
  <2>2. CASE /\ mon[m].job = j /\ RowExists(j)
             /\ jobs'[j].attempts = mon[m].attempts
             /\ jobs'[j].status = IF mon[m].attempts >= MaxAttempts THEN "FAILED" ELSE jobs[j].status
    <3>1. mon[m].attempts = jobs[j].attempts
      BY <1>1, <2>2 DEF SweepReads
    <3> QED BY <2>2, <3>1 DEF ExhaustedIsFailed
  <2> QED BY <1>0, <1>1, <2>1, <2>2, WriteFailureRow
<1> QED BY <1>2 DEF RowsKept, statuses, failures

-----------------------------------------------------------------------------
(* Interruptions, and the parts of the abstract actions. *)

Uninterrupted == Interruptions' = Interruptions

LEMMA NoFault == UNCHANGED faults => Uninterrupted
BY DEF Uninterrupted, Interruptions

LEMMA FaultInterrupts ==
    ASSUME FaultsTypeOK, NEW k \in FaultKinds, Spend(k)
    PROVE  IF k \in {"transient", "permanent", "crash"}
           THEN Interruptions' = Interruptions + 1 ELSE Uninterrupted
<1>1. /\ faults \in [FaultKinds -> Nat]
      /\ faults' = [faults EXCEPT ![k] = faults[k] + 1]
      /\ {"transient", "permanent", "crash"} \subseteq FaultKinds
  BY DEF FaultsTypeOK, Spend, FaultKinds
<1>2. /\ faults["transient"] \in Nat /\ faults["permanent"] \in Nat /\ faults["crash"] \in Nat
      /\ \A l \in FaultKinds : faults'[l] = IF l = k THEN faults[l] + 1 ELSE faults[l]
  BY <1>1
<1> QED BY <1>1, <1>2 DEF Interruptions, Uninterrupted

LEMMA DbErrorInterrupts ==
    ASSUME FaultsTypeOK, NEW k \in DbErrors, Spend(k)
    PROVE  Interruptions' = Interruptions + 1
BY FaultInterrupts DEF DbErrors, FaultKinds

Stutters == UNCHANGED <<statuses, failures, executors, phases, Interruptions>>

LEMMA Reaches ==
    ASSUME NEW j \in JobIds, NEW from, NEW to, phases[j] = from,
           executors' = executors, phases' = [phases EXCEPT ![j] = to]
    PROVE  Execution!Reach(j, from, to)
BY DEF Execution!Reach, executors, phases

LEMMA Leaves ==
    ASSUME NEW S \in SUBSET JobIds, \A j \in S : executors[j] # NoSlot,
           executors' = [j \in JobIds |-> IF j \in S THEN NoSlot ELSE executors[j]],
           phases' = [j \in JobIds |-> IF j \in S THEN "none" ELSE phases[j]]
    PROVE  Execution!Leave(S)
BY DEF Execution!Leave, executors, phases

\* One job loses its executor.
LEMMA LeavesOne ==
    ASSUME NEW j \in JobIds, NEW s \in Slots, executors[j] = s,
           executors' = [executors EXCEPT ![j] = NoSlot], phases' = [phases EXCEPT ![j] = "none"]
    PROVE  Execution!Leave({j})
<1>1. /\ executors' = [i \in JobIds |-> IF i \in {j} THEN NoSlot ELSE executors[i]]
      /\ phases' = [i \in JobIds |-> IF i \in {j} THEN "none" ELSE phases[i]]
  BY DEF executors, phases
<1>2. \A i \in {j} : executors[i] # NoSlot
  BY NoSlotAssumption
<1> QED BY <1>1, <1>2, Leaves

\* Calls that are nobody's fail, or a process that executes nothing dies.
LEMMA NobodyLeaves ==
    ASSUME executors' = executors, phases' = phases, RowsKept, Interruptions' = Interruptions + 1
    PROVE  Execution!ExecutionNext
<1>1. /\ executors' = [j \in JobIds |-> IF j \in {} THEN NoSlot ELSE executors[j]]
      /\ phases' = [j \in JobIds |-> IF j \in {} THEN "none" ELSE phases[j]]
  BY DEF executors, phases
<1>2. Execution!Leave({})
  BY <1>1, Leaves
<1>3. Execution!BreakOff({})
  BY <1>2, RowsKeptShown DEF Execution!BreakOff
<1> QED BY <1>3 DEF Execution!Interruption, Execution!ExecutionNext
-----------------------------------------------------------------------------
(* The actions. *)

\* What a step of slot s for job j shows, whatever the slot does to the queue.
LEMMA SlotStepRefines ==
    ASSUME AttemptsInv, LocksHeld', SlotsTypeOK', NEW s \in Slots, SlotStep(s)
    PROVE  Execution!ExecutionNext \/ Stutters
<1> USE DEF AttemptsInv
<1>0. SlotsTypeOK /\ JobsTypeOK
  BY DEF TypeOK
<1>1. slots[s].pc # "idle" /\ \A t \in Slots \ {s} : slots'[t] = slots[t]
  <2>1. CASE Return(s) \/ Reject(s)
    BY <1>0, <2>1 DEF Return, Reject, SlotsTypeOK
  <2>2. CASE ~(Return(s) \/ Reject(s))
    <3>1. slots[s].pc # "idle" /\ \E pc, n, why : Resume(s, pc, n, why)
      BY <2>2 DEF SlotStep, Claim, ClaimMisses, HandlerSucceeds, HandlerFails, Complete, CompleteMisses,
                  CancelSeen, CancelNotSeen, FailRead, FailWrite, Retry, GiveUp, RowMissing,
                  BackoffEnds, Goto, Throw
    <3> QED BY <1>0, <3>1, ResumeFields
  <2> QED BY <2>1, <2>2
<1>2. PICK j \in JobIds : j = slots[s].job
  BY <1>0, <1>1, BusySlotHasJob
<1>3. slots'[s].pc # "idle" => slots'[s].job = j
  BY <1>1, <1>2, SlotStepMoves DEF SlotMove
<1>4. /\ executors[j] = Executor(s, slots[s].pc) /\ phases[j] = PhaseAt(slots[s].pc)
      /\ executors' = [executors EXCEPT ![j] = Executor(s, slots'[s].pc)]
      /\ phases' = [phases EXCEPT ![j] = PhaseAt(slots'[s].pc)]
  BY <1>0, <1>1, <1>2, <1>3, OneSlotMoves
<1>5. executors = [executors EXCEPT ![j] = executors[j]] /\ phases = [phases EXCEPT ![j] = phases[j]]
  BY DEF executors, phases
<1>6. Uninterrupted
  BY NoFault DEF SlotStep, Claim, ClaimMisses, HandlerSucceeds, HandlerFails, Complete, CompleteMisses,
                 CancelSeen, CancelNotSeen, FailRead, FailWrite, Retry, GiveUp, RowMissing,
                 BackoffEnds, Return, Reject
<1>7. UNCHANGED jobs => RowsKept /\ UNCHANGED Execution!lifecycle_vars
  BY <1>0, TableKept, RowsKeptShown
<1>8. CASE Claim(s)
  <2>1. slots[s].pc = "claim" /\ slots'[s].pc = "execute" /\ ClaimJob(j)
    BY <1>0, <1>2, <1>8, GotoFields DEF Claim
  <2>2. Execution!Start(j)
    BY <1>0, <2>1, StatusShown
  <2>3. executors[j] = NoSlot /\ Executor(s, slots'[s].pc) = s /\ PhaseAt(slots'[s].pc) = "executing"
    BY <1>4, <2>1, PhaseValues DEF Executor, WorkingPCs, WorkerPCs
  <2>4. Execution!Begin(j, s)
    BY <1>4, <2>2, <2>3 DEF Execution!Begin, executors, phases
  <2> QED BY <1>6, <2>4 DEF Execution!ExecutionNext, Uninterrupted
<1>9. CASE HandlerSucceeds(s) \/ HandlerFails(s)
  <2>1. slots[s].pc = "execute" /\ slots'[s].pc \in {"complete", "checkCancel"} /\ UNCHANGED jobs
    BY <1>0, <1>9, GotoFields DEF HandlerSucceeds, HandlerFails
  <2>2. /\ executors[j] = Executor(s, slots'[s].pc)
        /\ phases[j] = "executing" /\ PhaseAt(slots'[s].pc) \in {"succeeded", "failing"}
    BY <1>4, <2>1, PhaseValues DEF Executor, WorkingPCs, WorkerPCs
  <2>3. Execution!Reach(j, "executing", PhaseAt(slots'[s].pc))
    BY <1>4, <1>5, <2>2, Reaches
  <2>4. Execution!Settle(j)
    BY <1>7, <2>1, <2>2, <2>3 DEF Execution!Settle
  <2> QED BY <1>6, <2>4 DEF Execution!ExecutionNext, Uninterrupted
<1>10. CASE Complete(s) \/ CompleteMisses(s)
  <2>1. /\ slots[s].pc = "complete" /\ slots'[s].pc = "return"
        /\ CompleteJob(j) \/ (jobs[j].status # "PROCESSING" /\ UNCHANGED jobs)
    BY <1>0, <1>2, <1>10, GotoFields DEF Complete, CompleteMisses
  <2>2. /\ executors[j] = s /\ Executor(s, slots'[s].pc) = NoSlot
        /\ phases[j] = "succeeded" /\ PhaseAt(slots'[s].pc) = "none"
    BY <1>4, <2>1, PhaseValues DEF Executor, WorkingPCs, WorkerPCs
  <2>3. Execution!Leave({j})
    BY <1>4, <2>2, LeavesOne
  <2>4. Execution!Finish(j)
    BY <1>0, <1>7, <2>1, <2>2, <2>3, StatusShown DEF Execution!Finish, phases
  <2> QED BY <1>6, <2>4 DEF Execution!ExecutionNext, Uninterrupted
<1>11. CASE CancelSeen(s) \/ GiveUp(s) \/ RowMissing(s)
  <2>1. /\ \/ slots[s].pc = "checkCancel" /\ jobs[j].status = "CANCELLED"
           \/ slots[s].pc = "failReread" /\ jobs[j].attempts >= MaxAttempts
           \/ slots[s].pc \in {"failRead", "failReread"} /\ ~RowExists(j)
        /\ slots'[s].pc \in {"return", "throw"} /\ UNCHANGED jobs
    BY <1>0, <1>2, <1>11, GotoFields, ResumeFields DEF CancelSeen, GiveUp, RowMissing, Throw
  <2>2. /\ executors[j] = s /\ Executor(s, slots'[s].pc) = NoSlot /\ PhaseAt(slots'[s].pc) = "none"
        /\ phases[j] = PhaseAt(slots[s].pc)
    BY <1>4, <2>1, PhaseValues DEF Executor, WorkingPCs, WorkerPCs
  <2>3. \/ phases[j] = "counted" /\ jobs[j].attempts >= MaxAttempts
        \/ phases[j] = "failing" /\ jobs[j].status = "CANCELLED"
        \/ phases[j] \in {"failing", "counted"} /\ ~RowExists(j)
    BY <2>1, <2>2, PhaseValues
  <2>4. Execution!Leave({j})
    BY <1>4, <2>2, LeavesOne
  <2>5. Execution!Stop(j)
    BY <1>7, <2>1, <2>3, <2>4 DEF Execution!Stop, Execution!Exists, phases, RowExists, NoRowStatus
  <2> QED BY <1>6, <2>5 DEF Execution!ExecutionNext, Uninterrupted
<1>12. CASE \/ ClaimMisses(s) \/ CancelNotSeen(s) \/ FailRead(s) \/ BackoffEnds(s)
            \/ Return(s) \/ Reject(s)
  <2>1. /\ UNCHANGED jobs
        /\ \/ slots[s].pc = "claim" /\ slots'[s].pc = "return"
           \/ slots[s].pc = "checkCancel" /\ slots'[s].pc = "failRead"
           \/ slots[s].pc = "failRead" /\ slots'[s].pc = "failWrite"
           \/ slots[s].pc = "backoff" /\ slots'[s].pc = "execute"
           \/ slots[s].pc \in {"return", "throw"} /\ slots'[s].pc = "idle"
    <3>1. CASE ClaimMisses(s) \/ CancelNotSeen(s) \/ BackoffEnds(s)
      BY <1>0, <3>1, GotoFields DEF ClaimMisses, CancelNotSeen, BackoffEnds
    <3>2. CASE FailRead(s)
      BY <1>0, <3>2, ResumeFields DEF FailRead
    <3>3. CASE Return(s) \/ Reject(s)
      BY <1>0, <3>3 DEF Return, Reject, SlotsTypeOK, IdleSlot
    <3> QED BY <1>12, <3>1, <3>2, <3>3
  <2>2. Executor(s, slots'[s].pc) = executors[j] /\ PhaseAt(slots'[s].pc) = phases[j]
    BY <1>4, <2>1, PhaseValues DEF Executor, WorkingPCs, WorkerPCs
  <2> QED BY <1>4, <1>5, <1>6, <1>7, <2>1, <2>2 DEF Stutters, RowsKept, Uninterrupted
<1>13. CASE FailWrite(s)
  <2>1. /\ slots[s].pc = "failWrite" /\ slots'[s].pc = "failReread"
        /\ WriteFailure(j, slots[s].attempts + 1)
    BY <1>0, <1>2, <1>13, GotoFields DEF FailWrite
  <2>2. Execution!CountOne(j)
    BY <1>2, <2>1, FailureShown
  <2>3. /\ Executor(s, slots'[s].pc) = executors[j]
        /\ PhaseAt(slots'[s].pc) = "counted" /\ phases[j] = "failing"
    BY <1>4, <2>1, PhaseValues DEF Executor, WorkingPCs, WorkerPCs
  <2>4. Execution!Reach(j, "failing", "counted")
    BY <1>4, <1>5, <2>3, Reaches
  <2>5. Execution!Count(j)
    BY <2>2, <2>4 DEF Execution!Count
  <2> QED BY <1>6, <2>5 DEF Execution!ExecutionNext, Uninterrupted
<1>14. CASE Retry(s)
  <2>1. /\ slots[s].pc = "failReread" /\ slots'[s].pc = "backoff" /\ UNCHANGED jobs
        /\ RowExists(j) /\ jobs[j].attempts < MaxAttempts
    BY <1>0, <1>2, <1>14, GotoFields DEF Retry
  <2>2. /\ executors[j] = Executor(s, slots'[s].pc)
        /\ phases[j] = "counted" /\ PhaseAt(slots'[s].pc) = "executing"
    BY <1>4, <2>1, PhaseValues DEF Executor, WorkingPCs, WorkerPCs
  <2>3. Execution!Reach(j, "counted", "executing")
    BY <1>4, <1>5, <2>2, Reaches
  <2>4. Execution!Retry(j)
    BY <1>7, <2>1, <2>3 DEF Execution!Retry, Execution!Exists, RowExists, NoRowStatus
  <2> QED BY <1>6, <2>4 DEF Execution!ExecutionNext, Uninterrupted
<1> QED BY <1>8, <1>9, <1>10, <1>11, <1>12, <1>13, <1>14 DEF SlotStep

\* A database call of slot s rejects: the slot gives its job up, after the UPDATE or
\* without it.
LEMMA DbErrsRefines ==
    ASSUME AttemptsInv, LocksHeld', SlotsTypeOK', NEW s \in Slots, DbErrs(s)
    PROVE  Execution!ExecutionNext
<1> USE DEF AttemptsInv
<1>0. SlotsTypeOK /\ JobsTypeOK /\ FaultsTypeOK
  BY DEF TypeOK
<1>1. PICK k \in DbErrors : Spend(k) /\ Throw(s, k)
  BY DEF DbErrs
<1>2. /\ slots[s].pc \in {"claim", "checkCancel", "failRead", "failWrite", "failReread"}
      /\ slots'[s].pc = "throw" /\ slots'[s].job = slots[s].job
      /\ \A t \in Slots \ {s} : slots'[t] = slots[t]
  BY <1>0, <1>1, ResumeFields DEF DbErrs, Throw
<1>3. PICK j \in JobIds : j = slots[s].job
  BY <1>0, <1>2, BusySlotHasJob
<1>4. /\ executors[j] = Executor(s, slots[s].pc) /\ phases[j] = PhaseAt(slots[s].pc)
      /\ executors' = [executors EXCEPT ![j] = NoSlot]
      /\ phases' = [phases EXCEPT ![j] = "none"]
  BY <1>0, <1>2, <1>3, OneSlotMoves, PhaseValues DEF Executor, WorkingPCs, WorkerPCs
<1>5. Interruptions' = Interruptions + 1
  BY <1>0, <1>1, DbErrorInterrupts
<1>6. UNCHANGED jobs => RowsKept /\ UNCHANGED Execution!lifecycle_vars
  BY <1>0, TableKept, RowsKeptShown
<1>7. CASE slots[s].pc = "claim"
  <2>1. executors[j] = NoSlot /\ phases[j] = "none"
    BY <1>4, <1>7, PhaseValues DEF Executor, WorkingPCs
  <2>2. executors' = executors /\ phases' = phases
    BY <1>4, <2>1 DEF executors, phases
  <2>3. ASSUME ClaimJob(j)
        PROVE  Execution!StartUnheard(j)
    BY <1>0, <2>2, <2>3, StatusShown DEF Execution!StartUnheard, executors, phases
  <2>4. UNCHANGED jobs \/ ClaimJob(j)
    BY <1>3, <1>7 DEF DbErrs
  <2> QED BY <1>5, <1>6, <2>2, <2>3, <2>4, NobodyLeaves DEF Execution!ExecutionNext, Execution!Interruption
<1>8. CASE slots[s].pc # "claim"
  <2>1. executors[j] = s
    BY <1>2, <1>4, <1>8 DEF Executor, WorkingPCs, WorkerPCs
  <2>2. Execution!Leave({j})
    BY <1>4, <2>1, LeavesOne
  <2>3. ASSUME UNCHANGED jobs
        PROVE  Execution!BreakOff({j})
    BY <1>6, <2>2, <2>3 DEF Execution!BreakOff
  <2>4. ASSUME slots[s].pc = "failWrite", WriteFailure(j, slots[s].attempts + 1)
        PROVE  Execution!CountUnheard(j)
    <3>1. Execution!CountOne(j) /\ phases[j] = "failing"
      BY <1>3, <1>4, <2>4, FailureShown, PhaseValues
    <3> QED BY <2>2, <3>1 DEF Execution!CountUnheard, phases
  <2>5. \/ UNCHANGED jobs
        \/ slots[s].pc = "failWrite" /\ WriteFailure(j, slots[s].attempts + 1)
    BY <1>3, <1>8 DEF DbErrs
  <2>6. {j} \in SUBSET JobIds
    OBVIOUS
  <2> QED BY <1>5, <2>3, <2>4, <2>5, <2>6 DEF Execution!ExecutionNext, Execution!Interruption
<1> QED BY <1>7, <1>8
\* A worker process dies: its slots leave their jobs at the same time.
LEMMA CrashRefines ==
    ASSUME AttemptsInv, LocksHeld', SlotsTypeOK', NEW w \in Workers, CrashWorker(w)
    PROVE  Execution!ExecutionNext
<1> USE DEF AttemptsInv
<1> DEFINE S == {j \in JobIds : \E s \in Slots :
                    s[1] = w /\ slots[s].job = j /\ slots[s].pc \in WorkingPCs}
<1>1. HolderShows /\ NobodyShows /\ HolderShows' /\ NobodyShows'
  BY ShownWhileHeld, ShownAfter DEF TypeOK
<1>2. \A s \in Slots : IF s[1] = w THEN slots'[s].pc = "idle" ELSE slots'[s] = slots[s]
  BY DEF CrashWorker, IdleSlot
<1>3. ASSUME NEW j \in S
      PROVE  executors[j] # NoSlot /\ ExecutorOf(j)' = NoSlot /\ PhaseOf(j)' = "none"
  <2>1. PICK s \in Slots : s[1] = w /\ slots[s].job = j /\ slots[s].pc \in WorkingPCs
    OBVIOUS
  <2>2. slots[s].pc # "idle"
    BY <2>1 DEF WorkingPCs
  <2>3. ExecutorOf(j) = s
    BY <1>1, <2>1, <2>2 DEF HolderShows, Executor
  <2>4. ASSUME NEW t \in Slots, slots'[t].job = j
        PROVE  slots'[t].pc \notin WorkingPCs
    <3>1. CASE t[1] = w
      BY <1>2, <3>1 DEF WorkingPCs
    <3>2. CASE t[1] # w
      BY <1>2, <2>1, <2>2, <2>4, <3>2 DEF LocksHeld, Holds, WorkingPCs
    <3> QED BY <3>1, <3>2
  <2>5. ExecutorOf(j)' = NoSlot /\ PhaseOf(j)' = "none"
    BY <1>1, <2>4 DEF NobodyShows
  <2> QED BY <2>3, <2>5, NoSlotAssumption DEF executors
<1>4. ASSUME NEW j \in JobIds \ S
      PROVE  ExecutorOf(j)' = ExecutorOf(j) /\ PhaseOf(j)' = PhaseOf(j)
  <2>1. ASSUME NEW t \in Slots, slots[t].job = j, slots[t].pc \in WorkingPCs
        PROVE  ExecutorOf(j)' = ExecutorOf(j) /\ PhaseOf(j)' = PhaseOf(j)
    <3>1. slots'[t] = slots[t] /\ slots[t].pc # "idle"
      BY <1>2, <2>1 DEF WorkingPCs
    <3>2. ExecutorOf(j) = Executor(t, slots[t].pc) /\ PhaseOf(j) = PhaseAt(slots[t].pc)
      BY <1>1, <2>1, <3>1 DEF HolderShows
    <3>3. ExecutorOf(j)' = Executor(t, slots'[t].pc) /\ PhaseOf(j)' = PhaseAt(slots'[t].pc)
      BY <1>1, <2>1, <3>1 DEF HolderShows
    <3> QED BY <3>1, <3>2, <3>3
  <2>2. ASSUME \A t \in Slots : slots[t].job = j => slots[t].pc \notin WorkingPCs
        PROVE  ExecutorOf(j)' = ExecutorOf(j) /\ PhaseOf(j)' = PhaseOf(j)
    <3>1. \A t \in Slots : slots'[t].job = j => slots'[t].pc \notin WorkingPCs
      BY <1>2, <2>2 DEF WorkingPCs
    <3> QED BY <1>1, <2>2, <3>1 DEF NobodyShows
  <2> QED BY <2>1, <2>2
<1> HIDE DEF S
<1>5. S \in SUBSET JobIds
  BY DEF S
<1>6. /\ executors' = [j \in JobIds |-> IF j \in S THEN NoSlot ELSE executors[j]]
      /\ phases' = [j \in JobIds |-> IF j \in S THEN "none" ELSE phases[j]]
  BY <1>3, <1>4 DEF executors, phases
<1>7. RowsKept /\ Interruptions' = Interruptions + 1
  BY TableKept, FaultInterrupts DEF CrashWorker, TypeOK, FaultKinds
<1>8. Execution!Leave(S)
  BY <1>3, <1>5, <1>6, Leaves
<1>9. Execution!BreakOff(S)
  BY <1>7, <1>8, RowsKeptShown DEF Execution!BreakOff
<1> QED BY <1>5, <1>7, <1>9 DEF Execution!ExecutionNext, Execution!Interruption

\* completeJob rejects, with the row completed or not.
LEMMA CompleteErrsRefines ==
    ASSUME AttemptsInv, LocksHeld', SlotsTypeOK', NEW s \in Slots, CompleteErrs(s)
    PROVE  Execution!ExecutionNext
<1> USE DEF AttemptsInv
<1>0. SlotsTypeOK /\ JobsTypeOK /\ FaultsTypeOK
  BY DEF TypeOK
<1>1. /\ slots[s].pc = "complete" /\ slots'[s].pc = "checkCancel" /\ slots'[s].job = slots[s].job
      /\ \A t \in Slots \ {s} : slots'[t] = slots[t]
  BY <1>0, GotoFields, ResumeFields DEF CompleteErrs, Goto
<1>2. PICK j \in JobIds : j = slots[s].job
  BY <1>0, <1>1, BusySlotHasJob
<1>3. /\ executors[j] = s /\ phases[j] = "succeeded"
      /\ executors' = [executors EXCEPT ![j] = s]
      /\ phases' = [phases EXCEPT ![j] = "failing"]
  BY <1>0, <1>1, <1>2, OneSlotMoves, PhaseValues DEF Executor, WorkingPCs, WorkerPCs
<1>4. executors' = executors
  BY <1>3 DEF executors
<1>5. Execution!Reach(j, "succeeded", "failing")
  BY <1>3, <1>4, Reaches
<1>6. Execution!Complete(j) \/ UNCHANGED Execution!lifecycle_vars
  BY <1>0, <1>2, StatusShown, TableKept, RowsKeptShown DEF CompleteErrs
<1>7. Interruptions' = Interruptions + 1
  BY <1>0, DbErrorInterrupts DEF CompleteErrs
<1>8. Execution!FinishUnheard(j)
  BY <1>5, <1>6 DEF Execution!FinishUnheard
<1> QED BY <1>7, <1>8 DEF Execution!ExecutionNext, Execution!Interruption

\* The other steps of the workers are not seen.
LEMMA WorkerNextRefines ==
    ASSUME AttemptsInv, LocksHeld', SlotsTypeOK', WorkerNext
    PROVE  Execution!ExecutionNext \/ Stutters
<1> USE DEF AttemptsInv
<1>0. SlotsTypeOK /\ JobsTypeOK /\ FaultsTypeOK
  BY DEF TypeOK
<1>1. ASSUME UNCHANGED jobs, Uninterrupted,
             \A t \in Slots : /\ PhaseAt(slots'[t].pc) = PhaseAt(slots[t].pc)
                              /\ slots[t].pc \in WorkingPCs => slots'[t].job = slots[t].job
      PROVE  Stutters
  BY <1>0, <1>1, WorkKept, TableKept DEF Stutters, RowsKept, Uninterrupted
<1>2. ASSUME NEW s \in Slots, NEW j \in JobIds, Take(s, j)
      PROVE  Stutters
  <2>1. /\ slots[s].pc = "idle" /\ slots'[s].pc = "claim"
        /\ \A t \in Slots \ {s} : slots'[t] = slots[t]
    BY <1>0, <1>2 DEF Take, SlotsTypeOK, IdleSlot
  <2>2. UNCHANGED jobs /\ Uninterrupted
    BY <1>2, NoFault DEF Take
  <2> QED BY <1>1, <2>1, <2>2, PhaseValues DEF WorkingPCs
<1>3. ASSUME NEW j \in JobIds, LockStep(j)
      PROVE  Stutters
  BY <1>1, <1>3, NoFault DEF LockStep, OrphanedLockExpires, EntryStalls
<1>4. ASSUME NEW j \in JobIds, HeldLockExpires(j)
      PROVE  Stutters
  <2>1. Uninterrupted
    BY <1>0, <1>4, FaultInterrupts DEF HeldLockExpires, FaultKinds
  <2> QED BY <1>1, <1>4, <2>1 DEF HeldLockExpires
<1> QED BY <1>2, <1>3, <1>4, SlotStepRefines, DbErrsRefines, CompleteErrsRefines, CrashRefines
        DEF WorkerNext, WorkerFault

\* Errors and deaths outside the workers.
LEMMA ElsewhereInterrupts ==
    ASSUME FaultsTypeOK,
           \/ \E m \in Sweeps : QueryErrs(m) \/ \E j \in JobIds : JobErrs(m, j)
           \/ CrashMonitor
           \/ ApiFault
    PROVE  Interruptions' = Interruptions + 1 /\ UNCHANGED jobs
<1>1. UNCHANGED jobs /\ ((\E k \in DbErrors : Spend(k)) \/ Spend("crash"))
  BY DEF QueryErrs, JobErrs, CrashMonitor, ApiFault, EnqueueErrs, RemoveErrs, CrashApi
<1> QED BY <1>1, DbErrorInterrupts, FaultInterrupts DEF FaultKinds

\* The monitor, the API and the clock do not touch the slots.
LEMMA OthersRefine ==
    ASSUME NoLockLoss, AttemptsInv, LocksHeld', SlotsTypeOK', [Next]_vars, ~WorkerNext
    PROVE  Execution!ExecutionNext \/ Stutters
<1> USE DEF AttemptsInv
<1>0. JobsTypeOK /\ FaultsTypeOK /\ SlotsTypeOK
  BY DEF TypeOK
<1>1. UNCHANGED slots
  BY MonitorNextType DEF Next, Tick, vars
<1>2. executors' = executors /\ phases' = phases
  BY <1>0, <1>1, WorkKept
<1>3. RowsKept /\ Uninterrupted => Stutters
  BY <1>2 DEF RowsKept, Stutters, Uninterrupted
<1>5. ASSUME Interruptions' = Interruptions + 1, UNCHANGED jobs
      PROVE  Execution!ExecutionNext
  BY <1>0, <1>2, <1>5, TableKept, NobodyLeaves
<1>6. ASSUME Uninterrupted,
             \/ \E S \in SUBSET JobIds : Execution!Submit(S) \/ Execution!Delete(S)
             \/ \E j \in JobIds : Execution!Cancel(j) \/ Execution!Requeue(j)
      PROVE  Execution!ExecutionNext
  <2>1. Execution!Others
    BY <1>2, <1>6 DEF Execution!Others, executors, phases
  <2> QED BY <1>6, <2>1 DEF Execution!ExecutionNext, Uninterrupted
<1>7. CASE Cleanup
  <2>1. OldJobs \in SUBSET JobIds /\ DeleteJobs(OldJobs) /\ \A j \in OldJobs : RowExists(j)
    BY <1>7 DEF Cleanup, OldJobs, RowExists, NoRowStatus
  <2>2. Uninterrupted
    BY <1>7, NoFault DEF Cleanup
  <2> QED BY <1>6, <2>1, <2>2, DeleteShown
<1>8. CASE MonitorFault
  BY <1>0, <1>5, <1>8, ElsewhereInterrupts DEF MonitorFault
<1>9. ASSUME NEW m \in Sweeps, SweepStep(m)
      PROVE  Execution!ExecutionNext \/ Stutters
  <2>1. CASE ReconcileWrite(m)
    BY <1>3, <2>1, ReconciliationKeeps, NoFault DEF ReconcileWrite
  <2>2. ASSUME NEW j \in JobIds, Reset(m, j)
        PROVE  Execution!ExecutionNext \/ Stutters
    <3>1. Uninterrupted
      BY <1>0, <2>2, NoFault, FaultInterrupts DEF Reset, FaultKinds
    <3> QED BY <1>0, <1>3, <1>6, <2>2, <3>1, StatusShown DEF Reset
  <2>3. ASSUME ~ReconcileWrite(m), \A j \in JobIds : ~Reset(m, j)
        PROVE  UNCHANGED <<jobs, faults>>
    BY <1>9, <2>3 DEF SweepStep, StartSweep, FindPending, GetFailed, EndSweep,
                ReEnqueue, RetryFailed, Reconcile, SkipReconcile, ReconcileRead, ReconcileGone
  <2> QED BY <1>0, <1>3, <2>1, <2>2, <2>3, TableKept, NoFault
<1>10. CASE ApiFault
  BY <1>0, <1>5, <1>10, ElsewhereInterrupts
<1>11. CASE ApiNext /\ ~ApiFault
  <2>1. /\ UNCHANGED faults
        /\ \/ UNCHANGED jobs
           \/ \E S \in SUBSET JobIds : InsertJobs(S)
           \/ \E j \in JobIds : CancelJob(j)
    BY <1>11 DEF ApiNext, Create, Enqueue, Cancel, RemoveCancelled
  <2>2. Uninterrupted
    BY <2>1, NoFault
  <2> QED BY <1>0, <1>3, <1>6, <2>1, <2>2, TableKept, InsertShown, StatusShown
<1>12. ~DebugNext
  BY <1>0, NoBudget DEF DebugNext, CleanQueue, CleanTable, NoLockLoss, FaultKinds
<1>13. CASE Tick \/ UNCHANGED vars
  BY <1>0, <1>3, <1>13, TableKept, NoFault DEF Tick, vars
<1> QED BY <1>7, <1>8, <1>9, <1>10, <1>11, <1>12, <1>13 DEF Next, MonitorNext

\* Queue, claims, sweeps and redeliveries together implement exclusive executions:
\* interruptions apart, every failure of a handler is counted once before the handler
\* runs again or the slot gives the job up, and it runs again only after a counted
\* failure that was not the last one.
THEOREM ExecutionImplemented ==
    ASSUME NoLockLoss, NoStaleRetry
    PROVE  Spec => ImplementsExecution
<1>1. Init => Execution!ExecutionInit
  <2> SUFFICES ASSUME Init
               PROVE  Execution!ExecutionInit
    OBVIOUS
  <2>1. \A j \in JobIds : ExecutorOf(j) = NoSlot /\ PhaseOf(j) = "none"
    <3>1. LocksHeld /\ SlotsTypeOK /\ \A s \in Slots : slots[s].pc \notin WorkingPCs
      BY InitType DEF Init, WorkerInit, IdleSlot, LocksHeld, Holds, WorkingPCs, TypeOK
    <3> QED BY <3>1, ShownWhileHeld DEF NobodyShows
  <2>2. \A j \in JobIds : jobs[j].attempts = 0 /\ jobs[j].status = "ABSENT"
    <3>1. jobs = [j \in JobIds |-> NoRow("ABSENT")]
      BY DEF Init, JobsInit
    <3>2. NoRow("ABSENT").attempts = 0 /\ NoRow("ABSENT").status = "ABSENT"
      BY DEF NoRow
    <3> QED BY <3>1, <3>2
  <2>3. Interruptions = 0
    BY DEF Init, FaultsInit, FaultKinds, Interruptions
  <2>4. Execution!Init
    BY <2>2 DEF Execution!Init
  <2> QED BY <2>1, <2>3, <2>4 DEF Execution!ExecutionInit
<1>2. AttemptsInv /\ [Next]_vars =>
         [Execution!ExecutionNext]_<<statuses, failures, executors, phases, Interruptions>>
  <2> SUFFICES ASSUME AttemptsInv, [Next]_vars
               PROVE  Execution!ExecutionNext \/ Stutters
    BY DEF Stutters
  <2>1. LocksHeld' /\ SlotsTypeOK'
    BY LocksStep, StepType DEF AttemptsInv, TypeOK
  <2> QED BY <2>1, WorkerNextRefines, OthersRefine
<1>3. [Execution!ExecutionNext]_<<statuses, failures, executors, phases, Interruptions>>
        => [Execution!ExecutionNext]_Execution!execution_vars
  BY DEF Execution!execution_vars, Execution!lifecycle_vars, executors, phases, failures, statuses
<1> QED BY <1>1, <1>2, <1>3, AttemptsInvariant, PTL DEF Spec, ImplementsExecution, Execution!ExecutionSpec
=============================================================================
