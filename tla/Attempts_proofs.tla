--------------------------- MODULE Attempts_proofs ---------------------------
(***************************************************************************)
(* Theorems about who may write what: COMPLETED comes only from a slot     *)
(* whose handler has resolved, and attempts and FAILED only from the slot  *)
(* that executes the job, although every failJob writes a value it has     *)
(* computed from an earlier read.                                          *)
(*                                                                         *)
(* JobQueueService_proofs looks at a step as a statement; here it matters  *)
(* who sends it (StatementOf) and where that leaves each slot (SlotMoves). *)
(***************************************************************************)
EXTENDS JobQueueService_proofs

\* The statements that neither complete a job nor record a failure.
OtherStatement ==
    \/ UNCHANGED jobs
    \/ \E S \in SUBSET JobIds : InsertJobs(S)
    \/ \E S \in SUBSET JobIds : (\A j \in S : RowExists(j)) /\ DeleteJobs(S)
    \/ \E j \in JobIds : ClaimJob(j) \/ CancelJob(j) \/ ResetJob(j)
    \/ \E j \in JobIds, c \in Columns : Age(j, c)

\* Slot s completes its job, or records a failure of it.
Completes(s) == slots[s].pc = "complete" /\ CompleteJob(slots[s].job)

RecordsFailure(s) ==
    /\ slots[s].pc = "failWrite"
    /\ WriteFailure(slots[s].job, slots[s].attempts + 1)
    /\ slots'[s].pc \in {"failReread", "throw"}

\* Sweep m reconciles a row.
Reconciles(m) == mon[m].pc = "reconcileWrite" /\ WriteFailure(mon[m].job, mon[m].attempts)

StatementOf ==
    \/ OtherStatement
    \/ \E s \in Slots : Completes(s) \/ RecordsFailure(s)
    \/ \E m \in Sweeps : Reconciles(m)

\* What a step does to slot s: it is left alone, is given back, gets an entry, or
\* goes from one await to the next.
SlotMove(s) ==
    \/ slots'[s] = slots[s]
    \/ slots'[s].pc = "idle"
    \/ slots[s].pc = "idle" /\ slots'[s].pc = "claim" /\ bull[slots'[s].job].st = "wait"
    \/ /\ slots[s].pc # "idle"
       /\ slots'[s].job = slots[s].job
       /\ \/ slots'[s].pc \in {"return", "throw", "checkCancel", "failRead"}
          \/ slots[s].pc = "claim" /\ slots'[s].pc = "execute" /\ ClaimJob(slots[s].job)
          \/ /\ slots[s].pc = "execute" /\ slots'[s].pc = "complete" /\ UNCHANGED jobs
             /\ "resolves" \in Outcomes(Kind[slots[s].job])
          \/ slots[s].pc = "backoff" /\ slots'[s].pc = "execute" /\ UNCHANGED jobs
          \/ /\ slots[s].pc = "failRead" /\ slots'[s].pc = "failWrite" /\ UNCHANGED jobs
             /\ slots'[s].attempts = jobs[slots[s].job].attempts
          \/ slots[s].pc = "failWrite" /\ slots'[s].pc = "failReread" /\ RecordsFailure(s)
          \/ /\ slots[s].pc = "failReread" /\ slots'[s].pc = "backoff" /\ UNCHANGED jobs
             /\ RowExists(slots[s].job) /\ jobs[slots[s].job].attempts < MaxAttempts
       /\ slots'[s].pc \in WorkingPCs =>
             slots[s].pc \in WorkingPCs \/ ClaimJob(slots[s].job)

-----------------------------------------------------------------------------
(* Every step is of these kinds. *)

\* A slot that goes on, and the others, which stay.
LEMMA ResumeFields ==
    ASSUME SlotsTypeOK, NEW s \in Slots, NEW pc, NEW n, NEW why, Resume(s, pc, n, why)
    PROVE  /\ slots'[s].pc = pc /\ slots'[s].job = slots[s].job
           /\ slots'[s].attempts = n /\ slots'[s].reason = why
           /\ \A t \in Slots \ {s} : slots'[t] = slots[t]
BY DEF Resume, SlotsTypeOK

LEMMA GotoFields ==
    ASSUME SlotsTypeOK, NEW s \in Slots, NEW from, NEW to, Goto(s, from, to)
    PROVE  slots[s].pc = from /\ slots'[s].pc = to /\ slots'[s].job = slots[s].job
BY DEF Goto, Resume, SlotsTypeOK

\* What a slot does by itself.
LEMMA SlotStepMoves ==
    ASSUME TypeOK, NEW s \in Slots, SlotStep(s)
    PROVE  StatementOf /\ \A t \in Slots : SlotMove(t)
<1>0. SlotsTypeOK
  BY DEF TypeOK
<1>1. slots[s].pc # "idle" => slots[s].job \in JobIds
  BY <1>0, BusySlotHasJob
<1> SUFFICES ASSUME slots[s].pc # "idle", \A t \in Slots \ {s} : slots'[t] = slots[t]
             PROVE  StatementOf /\ SlotMove(s)
  <2>1. slots[s].pc # "idle"
    BY DEF SlotStep, Claim, ClaimMisses, HandlerSucceeds, HandlerFails, Complete, CompleteMisses,
           CancelSeen, CancelNotSeen, FailRead, FailWrite, Retry, GiveUp, RowMissing, BackoffEnds,
           Return, Reject, Goto
  <2>2. \A t \in Slots \ {s} : slots'[t] = slots[t]
    <3>1. CASE Return(s) \/ Reject(s)
      BY <1>0, <3>1 DEF Return, Reject, SlotsTypeOK
    <3>2. CASE ~(Return(s) \/ Reject(s))
      <4>1. \E pc, n, why : Resume(s, pc, n, why)
        BY <3>2
           DEF SlotStep, Claim, ClaimMisses, HandlerSucceeds, HandlerFails, Complete, CompleteMisses,
               CancelSeen, CancelNotSeen, FailRead, FailWrite, Retry, GiveUp, RowMissing, BackoffEnds,
               Goto, Throw
      <4> QED BY <1>0, <4>1, ResumeFields
    <3> QED BY <3>1, <3>2
  <2> QED BY <2>1, <2>2 DEF SlotMove
<1>2. CASE Claim(s)
  <2>1. StatementOf
    BY <1>1, <1>2 DEF Claim, StatementOf, OtherStatement
  <2>2. /\ slots[s].pc = "claim" /\ slots'[s].pc = "execute"
        /\ slots'[s].job = slots[s].job
        /\ ClaimJob(slots[s].job)
    BY <1>0, <1>2, GotoFields DEF Claim
  <2>3. SlotMove(s)
    BY <2>2 DEF SlotMove
  <2> QED BY <2>1, <2>3
<1>3. CASE Complete(s)
  <2>1. StatementOf
    BY <1>3 DEF Complete, Goto, StatementOf, Completes
  <2>2. slots'[s].pc = "return" /\ slots'[s].job = slots[s].job
    BY <1>0, <1>3, GotoFields DEF Complete
  <2> QED BY <2>1, <2>2 DEF SlotMove, WorkingPCs
<1>4. CASE FailWrite(s)
  <2>1. RecordsFailure(s) /\ slots'[s].pc = "failReread" /\ slots'[s].job = slots[s].job
    BY <1>0, <1>4, GotoFields DEF FailWrite, RecordsFailure
  <2>2. slots[s].pc = "failWrite" /\ "failWrite" \in WorkingPCs
    BY <2>1 DEF RecordsFailure, WorkingPCs, WorkerPCs
  <2> QED BY <2>1, <2>2 DEF StatementOf, SlotMove
<1>5. CASE FailRead(s)
  <2>1. /\ slots[s].pc = "failRead" /\ slots'[s].pc = "failWrite"
        /\ slots'[s].job = slots[s].job
        /\ slots'[s].attempts = jobs[slots[s].job].attempts
        /\ UNCHANGED jobs
    BY <1>0, <1>5, ResumeFields DEF FailRead
  <2>2. SlotMove(s)
    BY <2>1 DEF SlotMove, WorkingPCs, WorkerPCs
  <2> QED BY <2>1, <2>2 DEF StatementOf, OtherStatement
<1>6. CASE RowMissing(s)
  <2>1. slots'[s].pc = "throw" /\ slots'[s].job = slots[s].job
    BY <1>0, <1>6, ResumeFields DEF RowMissing, Throw
  <2>2. SlotMove(s)
    BY <2>1 DEF SlotMove, WorkingPCs
  <2> QED BY <1>6, <2>2 DEF RowMissing, StatementOf, OtherStatement
<1>7. CASE Return(s) \/ Reject(s)
  <2>1. slots'[s].pc = "idle"
    BY <1>0, <1>7 DEF Return, Reject, SlotsTypeOK, IdleSlot
  <2> QED BY <1>7, <2>1 DEF SlotMove, Return, Reject, StatementOf, OtherStatement
<1>8. CASE HandlerSucceeds(s)
  <2>1. /\ slots[s].pc = "execute" /\ slots'[s].pc = "complete"
        /\ slots'[s].job = slots[s].job
        /\ "resolves" \in Outcomes(Kind[slots[s].job])
        /\ UNCHANGED jobs
    BY <1>0, <1>8, GotoFields DEF HandlerSucceeds
  <2>2. SlotMove(s)
    BY <2>1 DEF SlotMove, WorkingPCs, WorkerPCs
  <2> QED BY <2>1, <2>2 DEF StatementOf, OtherStatement
<1>9. CASE BackoffEnds(s)
  <2>1. /\ slots[s].pc = "backoff" /\ slots'[s].pc = "execute"
        /\ slots'[s].job = slots[s].job
        /\ UNCHANGED jobs
    BY <1>0, <1>9, GotoFields DEF BackoffEnds
  <2>2. SlotMove(s)
    BY <2>1 DEF SlotMove, WorkingPCs, WorkerPCs
  <2> QED BY <2>1, <2>2 DEF StatementOf, OtherStatement
<1>10. CASE Retry(s)
  <2>1. /\ slots[s].pc = "failReread" /\ slots'[s].pc = "backoff"
        /\ slots'[s].job = slots[s].job
        /\ RowExists(slots[s].job) /\ jobs[slots[s].job].attempts < MaxAttempts
        /\ UNCHANGED jobs
    BY <1>0, <1>10, GotoFields DEF Retry
  <2>2. SlotMove(s)
    BY <2>1 DEF SlotMove, WorkingPCs, WorkerPCs
  <2> QED BY <2>1, <2>2 DEF StatementOf, OtherStatement
<1>11. CASE \/ ClaimMisses(s) \/ HandlerFails(s) \/ CompleteMisses(s)
           \/ CancelSeen(s) \/ CancelNotSeen(s) \/ GiveUp(s)
  <2>1. PICK from \in WorkerPCs \ {"idle"}, to \in {"return", "checkCancel", "failRead"} :
           Goto(s, from, to) /\ (from \in WorkingPCs \/ to = "return")
    BY <1>11 DEF ClaimMisses, HandlerFails, CompleteMisses, CancelSeen, CancelNotSeen, GiveUp,
                Goto, WorkingPCs, WorkerPCs
  <2>2. slots'[s].pc = to /\ slots'[s].job = slots[s].job /\ slots[s].pc = from
    BY <1>0, <2>1, GotoFields
  <2>3. SlotMove(s)
    BY <2>1, <2>2 DEF SlotMove, WorkingPCs
  <2> QED BY <1>11, <2>3
          DEF ClaimMisses, HandlerFails, CompleteMisses, CancelSeen, CancelNotSeen, GiveUp,
              StatementOf, OtherStatement
<1> QED BY <1>2, <1>3, <1>4, <1>5, <1>6, <1>7, <1>8, <1>9, <1>10, <1>11 DEF SlotStep

\* Everything else that happens to the workers.
LEMMA WorkerNextMoves ==
    ASSUME TypeOK, WorkerNext
    PROVE  StatementOf /\ \A s \in Slots : SlotMove(s)
<1>0. SlotsTypeOK
  BY DEF TypeOK
<1>1. ASSUME NEW s \in Slots, SlotStep(s)
      PROVE  StatementOf /\ \A t \in Slots : SlotMove(t)
  BY <1>1, SlotStepMoves
<1>2. ASSUME NEW s \in Slots, NEW j \in JobIds, Take(s, j)
      PROVE  StatementOf /\ \A t \in Slots : SlotMove(t)
  <2>1. /\ slots[s].pc = "idle" /\ slots'[s].pc = "claim" /\ slots'[s].job = j
        /\ \A t \in Slots \ {s} : slots'[t] = slots[t]
    BY <1>0, <1>2 DEF Take, SlotsTypeOK, IdleSlot
  <2> QED BY <1>2, <2>1 DEF Take, TakeEntry, SlotMove, StatementOf, OtherStatement
<1>3. ASSUME NEW j \in JobIds, LockStep(j) \/ HeldLockExpires(j)
      PROVE  StatementOf /\ \A t \in Slots : SlotMove(t)
  BY <1>3 DEF LockStep, OrphanedLockExpires, EntryStalls, HeldLockExpires, SlotMove, StatementOf,
              OtherStatement
<1>4. ASSUME NEW s \in Slots, CompleteErrs(s)
      PROVE  StatementOf /\ \A t \in Slots : SlotMove(t)
  <2>1. /\ slots[s].pc = "complete" /\ slots'[s].pc = "checkCancel"
        /\ slots'[s].job = slots[s].job
    BY <1>0, <1>4, GotoFields DEF CompleteErrs
  <2>2. \A t \in Slots \ {s} : slots'[t] = slots[t]
    BY <1>0, <1>4, ResumeFields DEF CompleteErrs, Goto
  <2>3. SlotMove(s)
    BY <2>1 DEF SlotMove, WorkingPCs, WorkerPCs
  <2>4. StatementOf
    BY <1>4, <2>1 DEF CompleteErrs, StatementOf, OtherStatement, Completes
  <2> QED BY <2>2, <2>3, <2>4 DEF SlotMove
<1>5. ASSUME NEW s \in Slots, DbErrs(s)
      PROVE  StatementOf /\ \A t \in Slots : SlotMove(t)
  <2>1. PICK k \in DbErrors : Throw(s, k)
    BY <1>5 DEF DbErrs
  <2>2. /\ slots'[s].pc = "throw" /\ slots'[s].job = slots[s].job
        /\ \A t \in Slots \ {s} : slots'[t] = slots[t]
    BY <1>0, <2>1, ResumeFields DEF Throw
  <2>3. slots[s].pc # "idle" /\ slots[s].job \in JobIds
    BY <1>0, <1>5, BusySlotHasJob DEF DbErrs
  <2>4. SlotMove(s)
    BY <2>2, <2>3 DEF SlotMove, WorkingPCs
  <2>5. StatementOf
    BY <1>5, <2>2, <2>3 DEF DbErrs, StatementOf, OtherStatement, RecordsFailure
  <2> QED BY <2>2, <2>4, <2>5 DEF SlotMove
<1>6. ASSUME NEW w \in Workers, CrashWorker(w)
      PROVE  StatementOf /\ \A t \in Slots : SlotMove(t)
  <2>1. \A t \in Slots : slots'[t] = slots[t] \/ slots'[t].pc = "idle"
    BY <1>6 DEF CrashWorker, IdleSlot
  <2> QED BY <1>6, <2>1 DEF CrashWorker, SlotMove, StatementOf, OtherStatement
<1> QED BY <1>1, <1>2, <1>3, <1>4, <1>5, <1>6 DEF WorkerNext, WorkerFault

\* The monitor: reconciliations and other statements.
LEMMA MonitorNextMoves ==
    ASSUME TypeOK, MonitorNext
    PROVE  StatementOf /\ UNCHANGED slots
<1>1. UNCHANGED slots
  BY MonitorNextType
<1>2. ASSUME NEW m \in Sweeps, ReconcileWrite(m)
      PROVE  StatementOf
  BY <1>2 DEF ReconcileWrite, StatementOf, Reconciles
<1>3. ASSUME NEW m \in Sweeps, NEW j \in JobIds, Reset(m, j)
      PROVE  StatementOf
  BY <1>3 DEF Reset, StatementOf, OtherStatement
<1>4. CASE Cleanup
  <2>1. OldJobs \in SUBSET JobIds /\ \A j \in OldJobs : RowExists(j)
    BY DEF OldJobs, RowExists, NoRowStatus
  <2> QED BY <1>4, <2>1 DEF Cleanup, StatementOf, OtherStatement
<1>5. ASSUME ~Cleanup, \A m \in Sweeps : ~ReconcileWrite(m) /\ \A j \in JobIds : ~Reset(m, j)
      PROVE  UNCHANGED jobs
  BY <1>5 DEF MonitorNext, MonitorFault, SweepStep, StartSweep, FindPending, GetFailed, EndSweep,
              ReEnqueue, RetryFailed, Reconcile, SkipReconcile, ReconcileRead, ReconcileGone,
              JobErrs, QueryErrs, CrashMonitor
<1> QED BY <1>1, <1>2, <1>3, <1>4, <1>5 DEF StatementOf, OtherStatement

\* Every step of the service sends a statement of one of these kinds, and moves every
\* slot in one of these ways.
LEMMA StepMoves ==
    ASSUME TypeOK, [Next]_vars
    PROVE  StatementOf /\ \A s \in Slots : SlotMove(s)
<1>1. CASE WorkerNext
  BY <1>1, WorkerNextMoves
<1>2. CASE MonitorNext
  BY <1>2, MonitorNextMoves DEF SlotMove
<1>3. CASE ApiNext /\ UNCHANGED slots
  BY <1>3 DEF ApiNext, ApiFault, Create, Enqueue, Cancel, RemoveCancelled, EnqueueErrs, RemoveErrs,
              CrashApi, StatementOf, OtherStatement, SlotMove
<1>4. CASE DebugNext /\ UNCHANGED slots
  BY <1>4 DEF DebugNext, CleanQueue, CleanTable, StatementOf, OtherStatement, SlotMove
<1>5. CASE Tick
  BY <1>5 DEF Tick, StatementOf, OtherStatement, SlotMove
<1>6. CASE UNCHANGED vars
  BY <1>6 DEF vars, StatementOf, OtherStatement, SlotMove
<1> QED BY <1>1, <1>2, <1>3, <1>4, <1>5, <1>6 DEF Next

-----------------------------------------------------------------------------
(* COMPLETED. *)

Executable(kind) == kind \notin {"invalid", "unknown"}

\* Of a job that no handler executes, execute only rejects.
LEMMA ResolvesIfExecutable ==
    ASSUME NEW kind \in Kinds, "resolves" \in Outcomes(kind)
    PROVE  Executable(kind)
<1>1. ASSUME kind = "unknown"
      PROVE  FALSE
  <2>1. ~HasHandler(kind) /\ kind \notin {"inference", "invalid"}
    BY <1>1 DEF HasHandler
  <2>2. Outcomes(kind) = {"rejects"}
    BY <2>1 DEF Outcomes
  <2> QED BY <2>2
<1>2. ASSUME kind = "invalid"
      PROVE  FALSE
  <2>1. HasHandler(kind) /\ Outcomes(kind) = InferenceOutcomes(kind)
    BY <1>2 DEF Outcomes, HasHandler
  <2> QED BY <1>2, <2>1 DEF InferenceOutcomes
<1> QED BY <1>1, <1>2 DEF Executable

\* What the statements other than completions make of a row's status.
LEMMA OtherStatementStatus ==
    ASSUME JobsTypeOK, OtherStatement, NEW j \in JobIds
    PROVE  /\ jobs'[j].status \in {"COMPLETED", "FAILED"} => jobs'[j].status = jobs[j].status
           /\ jobs'[j].status = "DELETED" \/ jobs[j].status = "ABSENT" \/ jobs'[j].attempts = jobs[j].attempts
<1> USE DEF JobsTypeOK
<1>0. {"createdAt", "processingStartedAt", "finishedAt", "cancelledAt"} \subseteq Columns
  BY DEF Columns
<1>1. CASE UNCHANGED jobs
  BY <1>1
<1>2. ASSUME NEW S \in SUBSET JobIds, InsertJobs(S)
      PROVE  \/ jobs'[j] = jobs[j]
             \/ jobs[j].status = "ABSENT" /\ jobs'[j].status = "PENDING"
  BY <1>2 DEF InsertJobs, NewRow
<1>3. ASSUME NEW S \in SUBSET JobIds, DeleteJobs(S)
      PROVE  jobs'[j] = jobs[j] \/ jobs'[j].status = "DELETED"
  BY <1>3 DEF DeleteJobs, NoRow
<1>4. ASSUME NEW i \in JobIds, ClaimJob(i) \/ CancelJob(i) \/ ResetJob(i)
      PROVE  \/ jobs'[j] = jobs[j]
             \/ /\ jobs'[j].status \in {"PROCESSING", "CANCELLED", "PENDING"}
                /\ jobs'[j].attempts = jobs[j].attempts
  <2>1. CASE jobs' = [jobs EXCEPT ![i] = Move(@, "PROCESSING", "processingStartedAt", "fresh")]
    BY <1>0, <2>1, MoveFields
  <2>2. CASE jobs' = [jobs EXCEPT ![i] = Move(@, "CANCELLED", "cancelledAt", "fresh")]
    BY <1>0, <2>2, MoveFields
  <2>3. CASE ResetJob(i)
    BY <1>0, <2>3, MoveFields DEF ResetJob
  <2> QED BY <1>4, <2>1, <2>2, <2>3 DEF ClaimJob, CancelJob
<1>5. ASSUME NEW i \in JobIds, NEW c \in Columns, Age(i, c)
      PROVE  jobs'[j].status = jobs[j].status /\ jobs'[j].attempts = jobs[j].attempts
  BY <1>5 DEF Age, Job
<1> QED BY <1>1, <1>2, <1>3, <1>4, <1>5 DEF OtherStatement

\* What failJob's UPDATE makes of a row: nothing, or a failure of job j.
LEMMA WriteFailureRow ==
    ASSUME JobsTypeOK, NEW i \in JobIds, NEW n \in Nat, WriteFailure(i, n), NEW j \in JobIds
    PROVE  \/ jobs'[j] = jobs[j]
           \/ /\ i = j /\ RowExists(j)
              /\ jobs'[j].attempts = n
              /\ jobs'[j].status = IF n >= MaxAttempts THEN "FAILED" ELSE jobs[j].status
<1>1. CASE i = j /\ RowExists(j)
  <2>1. jobs'[j] = FailedRow(jobs[j], n) /\ jobs[j] \in Job
    BY <1>1 DEF WriteFailure, JobsTypeOK
  <2>2. n >= MaxAttempts \/ (n < MaxAttempts /\ ~(n >= MaxAttempts))
    BY MaxAttemptsAssumption
  <2> QED BY <1>1, <2>1, <2>2, FailedRowFields
<1>2. CASE ~(i = j /\ RowExists(j))
  BY <1>2 DEF WriteFailure, JobsTypeOK
<1> QED BY <1>1, <1>2

\* The inductive invariant: a slot that is about to complete its job has had it
\* executed, by a handler that can.
CompletionsAreReal ==
    \A s \in Slots : slots[s].pc = "complete" => Executable(Kind[slots[s].job])

\* No retry, redelivery, late completion or reconciliation makes a job COMPLETED that
\* no handler can execute.
THEOREM CompletedAlwaysExecuted == Spec => []CompletedWasExecuted
<1>1. Init => CompletionsAreReal /\ CompletedWasExecuted
  BY DEF Init, WorkerInit, IdleSlot, JobsInit, NoRow, CompletionsAreReal, CompletedWasExecuted
<1>2. TypeOK /\ CompletionsAreReal /\ CompletedWasExecuted /\ [Next]_vars
      => CompletionsAreReal' /\ CompletedWasExecuted'
  <2> SUFFICES ASSUME TypeOK, CompletionsAreReal, CompletedWasExecuted, [Next]_vars
               PROVE  CompletionsAreReal' /\ CompletedWasExecuted'
    OBVIOUS
  <2>0. SlotsTypeOK /\ JobsTypeOK /\ MonTypeOK
    BY DEF TypeOK
  <2>1. ASSUME NEW s \in Slots, slots'[s].pc = "complete"
        PROVE  Executable(Kind[slots'[s].job])
    <3>1. CASE slots'[s] = slots[s]
      BY <2>1, <3>1 DEF CompletionsAreReal
    <3>2. CASE slots'[s] # slots[s]
      <4>1. /\ slots[s].pc # "idle" /\ slots'[s].job = slots[s].job
            /\ "resolves" \in Outcomes(Kind[slots[s].job])
        BY <2>1, <3>2, StepMoves DEF SlotMove
      <4>2. Kind[slots[s].job] \in Kinds
        BY <2>0, <4>1, BusySlotHasJob, KindAssumption
      <4> QED BY <4>1, <4>2, ResolvesIfExecutable
    <3> QED BY <3>1, <3>2
  <2>2. ASSUME NEW j \in JobIds, jobs'[j].status = "COMPLETED"
        PROVE  Executable(Kind[j])
    <3>1. CASE jobs[j].status = "COMPLETED"
      BY <3>1 DEF CompletedWasExecuted, Executable
    <3>2. CASE jobs[j].status # "COMPLETED"
      <4>1. PICK s \in Slots : Completes(s) /\ slots[s].job = j
        <5>1. ~OtherStatement
          BY <2>0, <2>2, <3>2, OtherStatementStatus
        <5>2. ASSUME NEW i \in JobIds, NEW n \in Nat, WriteFailure(i, n)
              PROVE  FALSE
          BY <2>0, <2>2, <3>2, <5>2, WriteFailureRow
        <5>3. ASSUME NEW s \in Slots, RecordsFailure(s)
              PROVE  FALSE
          <6>1. slots[s].job \in JobIds /\ slots[s].attempts + 1 \in Nat
            BY <2>0, <5>3, BusySlotHasJob DEF RecordsFailure, SlotsTypeOK, Slot
          <6> QED BY <5>2, <5>3, <6>1 DEF RecordsFailure
        <5>4. ASSUME NEW m \in Sweeps, Reconciles(m)
              PROVE  FALSE
          <6>1. mon[m].job \in JobIds /\ mon[m].attempts \in Nat
            BY <2>0, <5>4, AwaitingSweepHasJob DEF Reconciles, MonTypeOK, Sweep
          <6> QED BY <5>2, <5>4, <6>1 DEF Reconciles
        <5>5. PICK s \in Slots : Completes(s)
          BY <5>1, <5>3, <5>4, StepMoves DEF StatementOf
        <5>6. slots[s].job = j
          BY <2>0, <2>2, <3>2, <5>5 DEF Completes, CompleteJob, JobsTypeOK
        <5> QED BY <5>5, <5>6
      <4> QED BY <4>1 DEF Completes, CompletionsAreReal
    <3> QED BY <3>1, <3>2
  <2> QED BY <2>1, <2>2 DEF CompletionsAreReal, CompletedWasExecuted, Executable
<1> QED BY <1>1, <1>2, TypeCorrect, PTL DEF Spec
-----------------------------------------------------------------------------
(* What a step does to a sweep and to an entry of the queue.               *)

ReconcilePCs == {"failed", "reconcileRead", "reconcileWrite"}

\* Sweep m is left alone, is in another phase, takes its snapshot of the failed
\* entries, or goes on with it.
SweepMove(m) ==
    /\ \A j \in mon'[m].todo :
          j \in mon[m].todo \/ jobs[j].status \in Live \/ bull[j].st = "failed"
    /\ mon'[m].job \in mon[m].todo \cup {mon[m].job, NoJob}
    /\ \A j \in mon'[m].retriable : j \in mon[m].retriable \/ bull[j].reason = "transient"
    /\ \/ mon'[m] = mon[m]
       \/ mon'[m].pc \notin ReconcilePCs
       \/ /\ mon'[m].pc = "failed" /\ UNCHANGED bull
          /\ \A j \in mon'[m].todo : bull[j].st = "failed"
       \/ /\ mon[m].pc \in ReconcilePCs /\ mon'[m].pc \in ReconcilePCs
          /\ mon'[m].todo \subseteq mon[m].todo
          /\ mon'[m].retriable = mon[m].retriable
          /\ \/ mon'[m].pc = "failed"
             \/ mon'[m].pc = "reconcileRead" /\ mon'[m].job \in mon'[m].todo \ mon'[m].retriable
             \/ /\ mon[m].pc = "reconcileRead" /\ mon'[m].pc = "reconcileWrite"
                /\ mon'[m].job = mon[m].job /\ mon'[m].todo = mon[m].todo
                /\ UNCHANGED jobs
                /\ mon'[m].attempts = jobs[mon[m].job].attempts

\* The helpers of the monitor, on the sweep itself and on the others.
LEMMA DoneFields ==
    ASSUME MonTypeOK, NEW m \in Sweeps, NEW pc, NEW j, Done(m, pc, j)
    PROVE  /\ mon'[m].pc = pc /\ mon'[m].job = NoJob
           /\ mon'[m].todo = mon[m].todo \ {j} /\ mon'[m].retriable = mon[m].retriable
           /\ \A n \in Sweeps \ {m} : mon'[n] = mon[n]
BY DEF Done, MonTypeOK, Sweep

LEMMA AwaitFields ==
    ASSUME MonTypeOK, NEW m \in Sweeps, NEW pc, NEW j, Await(m, pc, j)
    PROVE  /\ mon'[m].pc = pc /\ mon'[m].job = j
           /\ mon'[m].todo = mon[m].todo /\ mon'[m].retriable = mon[m].retriable
           /\ \A n \in Sweeps \ {m} : mon'[n] = mon[n]
BY DEF Await, MonTypeOK, Sweep

LEMMA PhaseFields ==
    ASSUME MonTypeOK, NEW m \in Sweeps, NEW pc, NEW S, NEW R, BeginPhase(m, pc, S, R)
    PROVE  /\ mon'[m].pc = pc /\ mon'[m].job = NoJob
           /\ mon'[m].todo = S /\ mon'[m].retriable = R
           /\ \A n \in Sweeps \ {m} : mon'[n] = mon[n]
BY DEF BeginPhase, MonTypeOK

\* A sweep that does not move.
LEMMA SweepRests ==
    ASSUME MonTypeOK, NEW n \in Sweeps, mon'[n] = mon[n]
    PROVE  SweepMove(n)
BY DEF SweepMove

\* What a sweep does by itself.
LEMMA SweepStepMoves ==
    ASSUME TypeOK, NEW m \in Sweeps, SweepStep(m)
    PROVE  \A n \in Sweeps : SweepMove(n)
<1>0. MonTypeOK /\ {"idle", "processing", "pending", "processingAdd", "pendingAdd"} \cap ReconcilePCs = {}
  BY DEF TypeOK, ReconcilePCs
<1>1. CASE StartSweep(m) \/ FindPending(m) \/ EndSweep(m)
  <2>1. PICK pc \in {"idle", "processing", "pending"},
             S \in {{}, AbandonedProcessingJobs, AbandonedPendingJobs} : BeginPhase(m, pc, S, {})
    BY <1>1 DEF StartSweep, FindPending, EndSweep
  <2>2. \A j \in S : jobs[j].status \in Live
    BY DEF AbandonedProcessingJobs, AbandonedPendingJobs, Live
  <2>3. SweepMove(m)
    BY <1>0, <2>1, <2>2, PhaseFields DEF SweepMove
  <2> QED BY <1>0, <2>1, <2>3, PhaseFields, SweepRests
<1>2. CASE GetFailed(m)
  <2>1. PICK S \in FailedWindows(FailedWindow) : BeginPhase(m, "failed", S, Retriable(S))
    BY <1>2 DEF GetFailed
  <2>2. /\ \A j \in S : bull[j].st = "failed"
        /\ \A j \in Retriable(S) : bull[j].reason = "transient"
    BY DEF FailedWindows, FailedEntries, Retriable
  <2>3. UNCHANGED bull
    BY <1>2 DEF GetFailed
  <2>4. SweepMove(m)
    BY <1>0, <2>1, <2>2, <2>3, PhaseFields DEF SweepMove
  <2> QED BY <1>0, <2>1, <2>4, PhaseFields, SweepRests
<1>3. ASSUME NEW j \in JobIds, Reset(m, j)
      PROVE  \A n \in Sweeps : SweepMove(n)
  <2>1. PICK pc \in {"processingAdd", "pendingAdd"} : Await(m, pc, j)
    BY <1>3 DEF Reset
  <2>2. j \in mon[m].todo
    BY <1>3 DEF Reset
  <2>3. SweepMove(m)
    BY <1>0, <2>1, <2>2, AwaitFields DEF SweepMove
  <2> QED BY <1>0, <2>1, <2>3, AwaitFields, SweepRests
<1>4. CASE ReEnqueue(m)
  <2>1. PICK pc \in {"processing", "pending"} : Done(m, pc, mon[m].job)
    BY <1>4 DEF ReEnqueue
  <2>2. SweepMove(m)
    BY <1>0, <2>1, DoneFields DEF SweepMove
  <2> QED BY <1>0, <2>1, <2>2, DoneFields, SweepRests
<1>5. ASSUME NEW j \in JobIds, mon[m].pc \in ReconcilePCs, Done(m, "failed", j)
      PROVE  \A n \in Sweeps : SweepMove(n)
  <2>1. SweepMove(m)
    BY <1>0, <1>5, DoneFields DEF SweepMove, ReconcilePCs
  <2> QED BY <1>0, <1>5, <2>1, DoneFields, SweepRests
<1>6. ASSUME NEW j \in JobIds, Reconcile(m, j)
      PROVE  \A n \in Sweeps : SweepMove(n)
  <2>1. Await(m, "reconcileRead", j) /\ mon[m].pc = "failed" /\ j \in mon[m].todo \ mon[m].retriable
    BY <1>6 DEF Reconcile
  <2>2. SweepMove(m)
    BY <1>0, <2>1, AwaitFields DEF SweepMove, ReconcilePCs
  <2> QED BY <1>0, <2>1, <2>2, AwaitFields, SweepRests
<1>7. CASE ReconcileRead(m)
  <2>1. /\ mon[m].pc = "reconcileRead" /\ mon'[m].pc = "reconcileWrite"
        /\ mon'[m].job = mon[m].job /\ mon'[m].todo = mon[m].todo
        /\ mon'[m].retriable = mon[m].retriable
        /\ mon'[m].attempts = jobs[mon[m].job].attempts
        /\ \A n \in Sweeps \ {m} : mon'[n] = mon[n]
        /\ UNCHANGED jobs
    BY <1>0, <1>7 DEF ReconcileRead, MonTypeOK, Sweep
  <2>2. SweepMove(m)
    BY <2>1 DEF SweepMove, ReconcilePCs
  <2> QED BY <1>0, <2>1, <2>2, SweepRests
<1>8. ASSUME ReconcileGone(m) \/ ReconcileWrite(m) \/ \E j \in JobIds : RetryFailed(m, j) \/ SkipReconcile(m, j)
      PROVE  \E j \in JobIds : mon[m].pc \in ReconcilePCs /\ Done(m, "failed", j)
  <2>1. mon[m].pc \in {"reconcileRead", "reconcileWrite"} => mon[m].job \in JobIds
    BY <1>0, AwaitingSweepHasJob
  <2> QED BY <1>8, <2>1 DEF ReconcileGone, ReconcileWrite, RetryFailed, SkipReconcile, ReconcilePCs
<1> QED BY <1>1, <1>2, <1>3, <1>4, <1>5, <1>6, <1>7, <1>8 DEF SweepStep

\* Every step moves every sweep in one of these ways.
LEMMA SweepsMove ==
    ASSUME TypeOK, [Next]_vars
    PROVE  \A m \in Sweeps : SweepMove(m)
<1>0. MonTypeOK
  BY DEF TypeOK
<1>1. ASSUME NEW m \in Sweeps, SweepStep(m)
      PROVE  \A n \in Sweeps : SweepMove(n)
  BY <1>1, SweepStepMoves
<1>2. ASSUME NEW m \in Sweeps, QueryErrs(m)
      PROVE  \A n \in Sweeps : SweepMove(n)
  <2>1. BeginPhase(m, "idle", {}, {})
    BY <1>2 DEF QueryErrs
  <2>2. SweepMove(m)
    BY <1>0, <2>1, PhaseFields DEF SweepMove, ReconcilePCs
  <2> QED BY <1>0, <2>1, <2>2, PhaseFields, SweepRests
<1>3. ASSUME NEW m \in Sweeps, NEW j \in JobIds, JobErrs(m, j)
      PROVE  \A n \in Sweeps : SweepMove(n)
  <2>1. PICK pc \in {"processing", "pending", "failed"} :
           Done(m, pc, j) /\ (pc = "failed" => mon[m].pc \in ReconcilePCs)
    BY <1>3 DEF JobErrs, ReconcilePCs
  <2>2. SweepMove(m)
    BY <1>0, <2>1, DoneFields DEF SweepMove, ReconcilePCs
  <2> QED BY <1>0, <2>1, <2>2, DoneFields, SweepRests
<1>4. CASE CrashMonitor
  BY <1>4 DEF CrashMonitor, IdleSweep, SweepMove, ReconcilePCs
<1>5. CASE UNCHANGED mon
  BY <1>0, <1>5, SweepRests
<1> QED BY <1>1, <1>2, <1>3, <1>4, <1>5 DEF Next, Tick, vars, MonitorNext, MonitorFault, Cleanup

\* An entry is added only for a job that a request or a sweep holds, and a failed one
\* leaves the failed set only by a cancellation or by the sweep that retries it.
EntryMove(j) ==
    /\ bull'[j].st # "none" =>
          \/ bull[j].st # "none"
          \/ \E S \in batches : j \in S
          \/ \E m \in Sweeps : mon[m].job = j
    /\ bull'[j].reason = "transient" =>
          bull[j].reason = "transient" \/ \E s \in Slots : slots[s].reason = "transient"
    /\ bull[j].st = "failed" =>
          \/ bull'[j].st = "failed"
          \/ j \in removing /\ UNCHANGED <<jobs, slots, mon>>
          \/ \E m \in Sweeps :
                /\ mon[m].pc = "failed" /\ j \in mon[m].retriable
                /\ j \notin mon'[m].todo
                /\ UNCHANGED <<jobs, slots>>

\* An entry that the step leaves alone.
LEMMA EntryRests ==
    ASSUME NEW j \in JobIds, bull'[j] = bull[j]
    PROVE  EntryMove(j)
BY DEF EntryMove

\* The entries that the workers settle are active.
LEMMA SettledEntryMoves ==
    ASSUME TypeOK, LocksHeld, NEW s \in Slots, slots[s].pc # "idle", NEW j \in JobIds,
           CompleteEntry(slots[s].job, s) \/ FailEntry(slots[s].job, s, slots[s].reason)
    PROVE  EntryMove(j)
<1>1. slots[s].job \in JobIds /\ bull[slots[s].job].st = "active"
  BY BusySlotHasJob DEF TypeOK, LocksHeld, Holds
<1>2. BullTypeOK
  BY DEF TypeOK
<1>3. CASE j # slots[s].job
  <2>1. bull'[j] = bull[j]
    BY <1>1, <1>2, <1>3 DEF CompleteEntry, FailEntry, BullTypeOK
  <2> QED BY <2>1, EntryRests
<1>4. CASE j = slots[s].job /\ CompleteEntry(slots[s].job, s)
  <2>1. bull'[j] = bull[j] \/ bull'[j] = NoEntry
    BY <1>1, <1>2, <1>4 DEF CompleteEntry, BullTypeOK
  <2> QED BY <1>1, <1>4, <2>1, EntryRests DEF EntryMove, NoEntry
<1>5. CASE j = slots[s].job /\ FailEntry(slots[s].job, s, slots[s].reason)
  <2>1. bull'[j] = bull[j] \/ bull'[j].reason = slots[s].reason
    BY <1>1, <1>2, <1>5 DEF FailEntry, BullTypeOK, Entry
  <2> QED BY <1>1, <1>5, <2>1, EntryRests DEF EntryMove
<1> QED BY <1>3, <1>4, <1>5

\* The workers.
LEMMA WorkerEntryMoves ==
    ASSUME NoLockLoss, TypeOK, LocksHeld, WorkerNext, NEW j \in JobIds
    PROVE  EntryMove(j)
<1>0. BullTypeOK /\ FaultsTypeOK
  BY DEF TypeOK
<1>1. ASSUME NEW s \in Slots, Return(s) \/ Reject(s)
      PROVE  EntryMove(j)
  BY <1>1, SettledEntryMoves DEF Return, Reject
<1>2. ASSUME NEW s \in Slots, NEW i \in JobIds, Take(s, i)
      PROVE  EntryMove(j)
  <2>1. CASE i = j
    <3>1. bull[j].st = "wait" /\ bull'[j].reason = bull[j].reason
      BY <1>0, <1>2, <2>1 DEF Take, TakeEntry, BullTypeOK, Entry
    <3> QED BY <3>1 DEF EntryMove
  <2>2. CASE i # j
    BY <1>0, <1>2, <2>2, EntryRests DEF Take, TakeEntry, BullTypeOK
  <2> QED BY <2>1, <2>2
<1>3. ASSUME NEW i \in JobIds, ExpireLock(i)
      PROVE  EntryMove(j)
  <2>1. bull'[j].st = bull[j].st /\ bull'[j].reason = bull[j].reason
    BY <1>0, <1>3 DEF ExpireLock, BullTypeOK, Entry
  <2> QED BY <2>1 DEF EntryMove
<1>4. ASSUME NEW i \in JobIds, StalledCheck(i)
      PROVE  EntryMove(j)
  <2>1. CASE i = j
    <3>1. bull[j].st = "active" /\ (bull'[j].reason \in {bull[j].reason, "permanent"})
      BY <1>0, <1>4, <2>1 DEF StalledCheck, BullTypeOK, Entry
    <3> QED BY <3>1 DEF EntryMove
  <2>2. CASE i # j
    BY <1>0, <1>4, <2>2, EntryRests DEF StalledCheck, BullTypeOK
  <2> QED BY <2>1, <2>2
<1>5. CASE UNCHANGED bull
  BY <1>5, EntryRests
<1>6. ASSUME NEW s \in Slots, SlotStep(s), ~Return(s), ~Reject(s)
      PROVE  UNCHANGED bull
  BY <1>6 DEF SlotStep, Claim, ClaimMisses, HandlerSucceeds, HandlerFails, Complete, CompleteMisses,
              CancelSeen, CancelNotSeen, FailRead, FailWrite, Retry, GiveUp, RowMissing, BackoffEnds
<1>7. ASSUME NEW s \in Slots, CompleteErrs(s) \/ DbErrs(s)
      PROVE  UNCHANGED bull
  BY <1>7 DEF CompleteErrs, DbErrs
<1> QED BY <1>1, <1>2, <1>3, <1>4, <1>5, <1>6, <1>7
        DEF WorkerNext, WorkerFault, LockStep, OrphanedLockExpires, EntryStalls, HeldLockExpires,
            CrashWorker

\* The others: the requests and the sweeps.
LEMMA OthersEntryMoves ==
    ASSUME NoLockLoss, TypeOK, [Next]_vars, ~WorkerNext, NEW j \in JobIds
    PROVE  EntryMove(j)
<1>0. BullTypeOK /\ MonTypeOK /\ FaultsTypeOK
  BY DEF TypeOK
<1>1. ASSUME NEW S \in SUBSET JobIds, AddEntries(S),
             j \in S => (\E T \in batches : j \in T) \/ \E m \in Sweeps : mon[m].job = j
      PROVE  EntryMove(j)
  <2>1. bull'[j] = bull[j] \/ (j \in S /\ bull[j].st = "none" /\ bull'[j] = NewEntry)
    BY <1>1 DEF AddEntries
  <2> QED BY <1>1, <2>1, EntryRests DEF EntryMove, NewEntry, NoEntry
<1>2. ASSUME NEW S \in SUBSET JobIds, Enqueue(S)
      PROVE  EntryMove(j)
  BY <1>1, <1>2 DEF Enqueue
<1>3. ASSUME NEW m \in Sweeps, ReEnqueue(m)
      PROVE  EntryMove(j)
  <2>1. mon[m].job \in JobIds /\ AddEntries({mon[m].job})
    BY <1>0, <1>3, AwaitingSweepHasJob DEF ReEnqueue
  <2> QED BY <1>1, <2>1
<1>4. ASSUME NEW i \in JobIds, RemoveCancelled(i), UNCHANGED <<slots, mon>>
      PROVE  EntryMove(j)
  <2>1. bull'[j] = bull[j] \/ (i = j /\ bull'[j] = NoEntry)
    BY <1>0, <1>4 DEF RemoveCancelled, RemoveEntry, BullTypeOK
  <2> QED BY <1>4, <2>1, EntryRests DEF EntryMove, NoEntry, RemoveCancelled
<1>5. ASSUME NEW m \in Sweeps, NEW i \in JobIds, RetryFailed(m, i)
      PROVE  EntryMove(j)
  <2>1. \/ bull'[j] = bull[j]
        \/ i = j /\ bull[j].st = "failed" /\ bull'[j].reason = "none"
    BY <1>0, <1>5 DEF RetryFailed, RetryEntry, BullTypeOK, Entry
  <2>2. mon[m].pc = "failed" /\ i \in mon[m].retriable /\ i \notin mon'[m].todo
    BY <1>0, <1>5, DoneFields DEF RetryFailed
  <2> QED BY <1>5, <2>1, <2>2, EntryRests DEF EntryMove, RetryFailed
<1>6. ~DebugNext
  BY <1>0, NoBudget DEF DebugNext, CleanQueue, CleanTable, NoLockLoss, FaultKinds
<1>7. CASE UNCHANGED bull
  BY <1>7, EntryRests
<1>8. ASSUME NEW m \in Sweeps, SweepStep(m), ~ReEnqueue(m), \A i \in JobIds : ~RetryFailed(m, i)
      PROVE  UNCHANGED bull
  BY <1>8 DEF SweepStep, StartSweep, FindPending, GetFailed, EndSweep, ReconcileRead,
              ReconcileGone, ReconcileWrite, Reset, Reconcile, SkipReconcile
<1>9. CASE MonitorNext
  BY <1>3, <1>5, <1>7, <1>8, <1>9
     DEF MonitorNext, Cleanup, MonitorFault, QueryErrs, JobErrs, CrashMonitor
<1>10. CASE ApiNext /\ UNCHANGED <<slots, mon>>
  BY <1>2, <1>4, <1>7, <1>10 DEF ApiNext, ApiFault, Create, Cancel, EnqueueErrs, RemoveErrs, CrashApi
<1> QED BY <1>6, <1>7, <1>9, <1>10 DEF Next, Tick, vars

\* Every step does to every entry what EntryMove says.
LEMMA EntriesMove ==
    ASSUME NoLockLoss, TypeOK, LocksHeld, [Next]_vars, NEW j \in JobIds
    PROVE  EntryMove(j)
BY WorkerEntryMoves, OthersEntryMoves

-----------------------------------------------------------------------------
(* Keys without rows.  Queue, slots, sweeps and requests only mention keys *)
(* that have been inserted, so that no row appears behind their backs.     *)

\* An INSERT brings a row, and nothing else does.
LEMMA RowAppears ==
    ASSUME TypeOK, NoRowIsVoid, [Next]_vars, NEW j \in JobIds, ~RowExists(j)
    PROVE  /\ jobs[j].status = "DELETED" => ~RowExists(j)'
           /\ RowExists(j)' => jobs'[j] = NewRow
<1>1. jobs[j] \in Job /\ RowStep(jobs[j], jobs'[j]) /\ VoidRow(jobs[j])
  BY StepRows DEF NoRowIsVoid
<1>2. jobs[j].status \in {"ABSENT", "DELETED"}
  BY DEF RowExists, NoRowStatus
<1>3. \A c \in Columns : jobs[j].at[c] # "fresh"
  BY <1>1, <1>2 DEF VoidRow, NoTimes, NoRowStatus
<1>4. \/ jobs'[j] = jobs[j]
      \/ jobs[j].status = "ABSENT" /\ jobs'[j] = NewRow
  BY <1>1, <1>2, <1>3 DEF RowStep, NoRowStatus, Live
<1> QED BY <1>2, <1>4 DEF RowExists, NoRowStatus

\* A key that has been inserted is never ABSENT again.
LEMMA StaysSubmitted ==
    ASSUME TypeOK, [Next]_vars, NEW j \in JobIds, jobs[j].status # "ABSENT"
    PROVE  jobs'[j].status # "ABSENT"
<1>1. jobs[j] \in Job /\ RowStep(jobs[j], jobs'[j])
  BY StepRows
<1>2. ASSUME NEW status \in JobStatus, NEW c \in Columns, NEW a, jobs'[j] = Move(jobs[j], status, c, a)
      PROVE  jobs'[j].status # "ABSENT"
  BY <1>1, <1>2, MoveFields DEF JobStatus, Live, Finished
<1>3. ASSUME NEW n \in Nat, jobs'[j] = FailedRow(jobs[j], n)
      PROVE  jobs'[j].status # "ABSENT"
  BY <1>1, <1>3, FailedRowFields, MaxAttemptsAssumption
<1>4. ASSUME NEW c \in Columns, jobs'[j] = [jobs[j] EXCEPT !.at = Stamp(jobs[j].at, c, "stale")]
      PROVE  jobs'[j].status # "ABSENT"
  BY <1>1, <1>4 DEF Job
<1>5. /\ {"PENDING", "PROCESSING", "COMPLETED", "CANCELLED"} \subseteq JobStatus
      /\ {"createdAt", "processingStartedAt", "finishedAt", "cancelledAt"} \subseteq Columns
  BY DEF JobStatus, Live, Finished, Columns
<1>6. CASE jobs'[j] = NoRow("DELETED") \/ jobs'[j] = jobs[j]
  BY <1>6 DEF NoRow
<1> QED BY <1>1, <1>2, <1>3, <1>4, <1>5, <1>6 DEF RowStep

\* Something outside the table knows the key j.
Mentioned(j) ==
    \/ bull[j].st # "none"
    \/ \E S \in batches : j \in S
    \/ \E s \in Slots : slots[s].job = j
    \/ \E m \in Sweeps : j \in mon[m].todo \/ mon[m].job = j

OnlySubmitted == \A j \in JobIds : Mentioned(j) => jobs[j].status # "ABSENT"

\* A request inserts what it is going to enqueue.
LEMMA BatchesMove ==
    ASSUME [Next]_vars, NEW j \in JobIds, NEW S \in batches', j \in S
    PROVE  S \in batches \/ jobs'[j] = NewRow
<1>1. ASSUME NEW T \in SUBSET JobIds, Create(T)
      PROVE  S \in batches \/ jobs'[j] = NewRow
  BY <1>1 DEF Create, InsertJobs
<1>2. CASE batches' \subseteq batches
  BY <1>2
<1>3. ASSUME ApiNext, \A T \in SUBSET JobIds : ~Create(T)
      PROVE  batches' \subseteq batches
  BY <1>3 DEF ApiNext, ApiFault, Enqueue, Cancel, RemoveCancelled, EnqueueErrs, RemoveErrs, CrashApi
<1> QED BY <1>1, <1>2, <1>3 DEF Next, Tick, vars

\* An entry is added, or settled, for a job that somebody knows.
LEMMA EntryAppears ==
    ASSUME TypeOK, [Next]_vars, NEW j \in JobIds, bull'[j].st # "none"
    PROVE  Mentioned(j)
<1> SUFFICES ASSUME bull[j].st = "none"
             PROVE  Mentioned(j)
  BY DEF Mentioned
<1>0. BullTypeOK /\ MonTypeOK
  BY DEF TypeOK
<1>1. ASSUME NEW i, UNCHANGED bull \/ RemoveEntry(i) \/ RetryEntry(i)
      PROVE  FALSE
  <2>1. bull'[j] = bull[j] \/ bull'[j] = NoEntry
    BY <1>0, <1>1 DEF RemoveEntry, RetryEntry, BullTypeOK
  <2> QED BY <2>1 DEF NoEntry
<1>2. ASSUME NEW S, AddEntries(S)
      PROVE  j \in S
  BY <1>2 DEF AddEntries
<1>3. ASSUME NEW m \in Sweeps, ReEnqueue(m)
      PROVE  mon[m].job = j
  BY <1>2, <1>3 DEF ReEnqueue
<1>4. ~Obliterate
  BY DEF Obliterate, NoEntry
<1>5. CASE WorkerNext
  <2>1. ASSUME NEW i, NEW s, TakeEntry(i, s) \/ ExpireLock(i) \/ StalledCheck(i)
        PROVE  FALSE
    <3>1. bull'[j] = bull[j] \/ i = j
      BY <1>0, <2>1 DEF TakeEntry, ExpireLock, StalledCheck, BullTypeOK
    <3>2. ExpireLock(i) => bull'[j].st = bull[j].st
      BY <1>0 DEF ExpireLock, BullTypeOK, Entry
    <3> QED BY <2>1, <3>1, <3>2 DEF TakeEntry, StalledCheck
  <2>2. ASSUME NEW s \in Slots, NEW i, CompleteEntry(i, s)
        PROVE  FALSE
    <3>1. bull'[j] = bull[j] \/ bull'[j] = NoEntry
      BY <1>0, <2>2 DEF CompleteEntry, BullTypeOK
    <3> QED BY <3>1 DEF NoEntry
  <2>3. ASSUME NEW s \in Slots, FailEntry(slots[s].job, s, slots[s].reason)
        PROVE  slots[s].job = j
    BY <1>0, <2>3 DEF FailEntry, BullTypeOK
  <2>4. ASSUME NEW s \in Slots, SlotStep(s), ~Return(s), ~Reject(s)
        PROVE  UNCHANGED bull
    BY <2>4 DEF SlotStep, Claim, ClaimMisses, HandlerSucceeds, HandlerFails, Complete, CompleteMisses,
                CancelSeen, CancelNotSeen, FailRead, FailWrite, Retry, GiveUp, RowMissing, BackoffEnds
  <2>5. ASSUME NEW s \in Slots, CompleteErrs(s) \/ DbErrs(s)
        PROVE  UNCHANGED bull
    BY <2>5 DEF CompleteErrs, DbErrs
  <2> QED BY <1>1, <1>5, <2>1, <2>2, <2>3, <2>4, <2>5
          DEF WorkerNext, WorkerFault, LockStep, OrphanedLockExpires, EntryStalls, HeldLockExpires,
              CrashWorker, Take, Return, Reject, Mentioned
<1>6. CASE MonitorNext
  BY <1>1, <1>3, <1>6
     DEF MonitorNext, MonitorFault, SweepStep, StartSweep, FindPending, GetFailed, EndSweep,
         ReconcileRead, ReconcileGone, ReconcileWrite, Reset, RetryFailed, Reconcile, SkipReconcile,
         Cleanup, QueryErrs, JobErrs, CrashMonitor, Mentioned
<1>7. CASE ApiNext
  BY <1>1, <1>2, <1>7
     DEF ApiNext, ApiFault, Create, Enqueue, Cancel, RemoveCancelled, EnqueueErrs, RemoveErrs, CrashApi,
         Mentioned
<1>8. CASE DebugNext
  BY <1>1, <1>4, <1>8 DEF DebugNext, CleanQueue, CleanTable
<1> QED BY <1>1, <1>5, <1>6, <1>7, <1>8 DEF Next, Tick, vars

LEMMA OnlySubmittedStep ==
    ASSUME TypeOK, OnlySubmitted, [Next]_vars
    PROVE  OnlySubmitted'
<1> SUFFICES ASSUME NEW j \in JobIds, Mentioned(j)'
             PROVE  jobs'[j].status # "ABSENT"
  BY DEF OnlySubmitted
<1>1. Mentioned(j) \/ jobs[j].status \in Live => jobs'[j].status # "ABSENT"
  BY StaysSubmitted DEF OnlySubmitted, Live
<1>2. CASE bull'[j].st # "none"
  BY <1>1, <1>2, EntryAppears
<1>3. ASSUME NEW S \in batches', j \in S
      PROVE  jobs'[j].status # "ABSENT"
  BY <1>1, <1>3, BatchesMove DEF Mentioned, NewRow
<1>4. ASSUME NEW s \in Slots, slots'[s].job = j
      PROVE  jobs'[j].status # "ABSENT"
  <2>1. slots'[s].pc # "idle"
    <3>1. SlotsTypeOK'
      BY StepType DEF TypeOK
    <3> QED BY <1>4, <3>1, NoJobAssumption DEF SlotsTypeOK
  <2>2. slots[s].job = j \/ bull[j].st = "wait"
    BY <1>4, <2>1, StepMoves DEF SlotMove
  <2> QED BY <1>1, <2>2 DEF Mentioned
<1>5. ASSUME NEW m \in Sweeps, j \in mon'[m].todo \/ mon'[m].job = j
      PROVE  jobs'[j].status # "ABSENT"
  <2>1. j \in mon[m].todo \/ mon[m].job = j \/ jobs[j].status \in Live \/ bull[j].st = "failed"
    BY <1>5, SweepsMove, NoJobAssumption DEF SweepMove
  <2> QED BY <1>1, <2>1 DEF Mentioned
<1> QED BY <1>2, <1>3, <1>4, <1>5 DEF Mentioned

-----------------------------------------------------------------------------
(* The entries that a sweep reconciles.                                    *)
(*                                                                         *)
(* failJob(.., incrementAttempts = false) writes back the attempts it has  *)
(* read, so it must not race with a slot that counts a failure.  What      *)
(* keeps slots away from the jobs of its snapshot is that their entries    *)
(* stay failed: only RetryFailed brings one back, and by another sweep     *)
(* only when two sweeps disagree about which entries are transient.        *)

\* No two sweeps overlap, or none of them retries anything.
NoStaleRetry == MaxFaults["transient"] = 0 \/ \A m, n \in Sweeps : m = n

\* Without transient faults no sweep retries anything.
ReasonsArePermanent ==
    MaxFaults["transient"] = 0 =>
        /\ \A j \in JobIds : bull[j].reason # "transient"
        /\ \A s \in Slots : slots[s].reason # "transient"
        /\ \A m \in Sweeps : mon[m].retriable = {}

\* A call that fails with a transient message spends the budget.
LEMMA SlotReasonMoves ==
    ASSUME TypeOK, [Next]_vars, MaxFaults["transient"] = 0, NEW s \in Slots,
           slots'[s].reason = "transient"
    PROVE  slots[s].reason = "transient"
<1>0. SlotsTypeOK /\ ~Spend("transient")
  BY NoBudget DEF TypeOK, FaultKinds
<1> USE DEF IdleSlot
<1>1. ASSUME NEW t \in Slots, NEW pc, NEW n, NEW why, Resume(t, pc, n, why), why # "transient"
      PROVE  slots[s].reason = "transient"
  BY <1>0, <1>1, ResumeFields
<1>2. ASSUME NEW t \in Slots, SlotStep(t), ~Return(t), ~Reject(t)
      PROVE  \E pc, n, why : Resume(t, pc, n, why) /\ why # "transient"
  BY <1>2 DEF SlotStep, Claim, ClaimMisses, HandlerSucceeds, HandlerFails, Complete, CompleteMisses,
              CancelSeen, CancelNotSeen, FailRead, FailWrite, Retry, GiveUp, RowMissing, BackoffEnds,
              Goto, Throw
<1>3. ASSUME NEW t \in Slots, CompleteErrs(t) \/ DbErrs(t)
      PROVE  \E pc, n, why : Resume(t, pc, n, why) /\ why # "transient"
  BY <1>0, <1>3 DEF CompleteErrs, DbErrs, Goto, Throw
<1>4. ASSUME NEW t \in Slots, Return(t) \/ Reject(t) \/ \E i \in JobIds : Take(t, i)
      PROVE  slots[s].reason = "transient"
  <2>1. CASE Return(t) \/ Reject(t)
    BY <1>0, <2>1 DEF Return, Reject, SlotsTypeOK
  <2>2. ASSUME NEW i \in JobIds, Take(t, i)
        PROVE  slots[s].reason = "transient"
    <3>1. slots' = [slots EXCEPT ![t] = [IdleSlot EXCEPT !.pc = "claim", !.job = i]]
      BY <2>2 DEF Take
    <3>2. [IdleSlot EXCEPT !.pc = "claim", !.job = i].reason = "none"
      OBVIOUS
    <3> HIDE DEF IdleSlot
    <3> QED BY <1>0, <3>1, <3>2 DEF SlotsTypeOK
  <2> QED BY <1>4, <2>1, <2>2
<1>5. ASSUME NEW w \in Workers, CrashWorker(w)
      PROVE  slots[s].reason = "transient"
  BY <1>5 DEF CrashWorker
<1>6. CASE UNCHANGED slots
  BY <1>6
<1>7. CASE WorkerNext
  BY <1>1, <1>2, <1>3, <1>4, <1>5, <1>6, <1>7
     DEF WorkerNext, WorkerFault, LockStep, OrphanedLockExpires, EntryStalls, HeldLockExpires
<1>8. CASE MonitorNext
  BY <1>6, <1>8, MonitorNextType
<1> QED BY <1>6, <1>7, <1>8 DEF Next, Tick, vars

LEMMA ReasonsStep ==
    ASSUME NoLockLoss, TypeOK, LocksHeld, ReasonsArePermanent, [Next]_vars
    PROVE  ReasonsArePermanent'
<1> SUFFICES ASSUME MaxFaults["transient"] = 0
             PROVE  /\ \A j \in JobIds : bull'[j].reason # "transient"
                    /\ \A s \in Slots : slots'[s].reason # "transient"
                    /\ \A m \in Sweeps : mon'[m].retriable = {}
  BY DEF ReasonsArePermanent
<1>1. ASSUME NEW j \in JobIds
      PROVE  bull'[j].reason # "transient"
  BY EntriesMove DEF EntryMove, ReasonsArePermanent
<1>2. ASSUME NEW s \in Slots
      PROVE  slots'[s].reason # "transient"
  BY SlotReasonMoves DEF ReasonsArePermanent
<1>3. ASSUME NEW m \in Sweeps
      PROVE  mon'[m].retriable = {}
  <2>1. MonTypeOK'
    BY StepType DEF TypeOK
  <2>2. mon'[m].retriable \subseteq JobIds
    BY <2>1 DEF MonTypeOK, Sweep
  <2>3. \A j \in mon'[m].retriable : FALSE
    BY <2>2, SweepsMove DEF SweepMove, ReasonsArePermanent
  <2> QED BY <2>3
<1> QED BY <1>1, <1>2, <1>3

\* A job that no slot executes or will execute again.
Over == Finished \cup {"DELETED"}

Doomed(j) == bull[j].st = "failed" \/ (jobs[j].status \in Over /\ ~WorkingOn(j))

\* Sweep m is going to reconcile job j, or does so.
Reconciling(m, j) == mon[m].pc \in ReconcilePCs /\ j \in mon[m].todo \ mon[m].retriable

RemovingIsOver == \A j \in removing : jobs[j].status \in Over

ReconciledAreDoomed ==
    /\ \A m \in Sweeps, j \in JobIds : Reconciling(m, j) => Doomed(j)
    /\ \A m \in Sweeps : mon[m].pc \in {"reconcileRead", "reconcileWrite"} => Reconciling(m, mon[m].job)

\* What is over stays over.
LEMMA StaysOver ==
    ASSUME TypeOK, NoRowIsVoid, [Next]_vars, NEW j \in JobIds, jobs[j].status \in Over
    PROVE  jobs'[j].status \in Over
<1>1. jobs[j] \in Job /\ RowStep(jobs[j], jobs'[j]) /\ VoidRow(jobs[j])
  BY StepRows DEF NoRowIsVoid
<1> QED BY <1>1, RowStepFinished DEF Over, Finished

LEMMA RemovingStep ==
    ASSUME TypeOK, NoRowIsVoid, RemovingIsOver, [Next]_vars
    PROVE  RemovingIsOver'
<1> SUFFICES ASSUME NEW j \in removing'
             PROVE  jobs'[j].status \in Over
  BY DEF RemovingIsOver
<1>0. removing \subseteq JobIds /\ JobsTypeOK
  BY DEF TypeOK, ApiTypeOK
<1>1. CASE j \in removing
  BY <1>0, <1>1, StaysOver DEF RemovingIsOver
<1>2. ASSUME NEW i \in JobIds, Cancel(i)
      PROVE  jobs'[j].status \in Over
  <2>1. jobs'[i].status = "CANCELLED"
    BY <1>0, <1>2, MoveFields DEF Cancel, CancelJob, JobsTypeOK, Columns
  <2> QED BY <1>1, <1>2, <2>1 DEF Cancel, Over, Finished
<1>3. ASSUME ApiNext, \A i \in JobIds : ~Cancel(i)
      PROVE  removing' \subseteq removing
  BY <1>3 DEF ApiNext, ApiFault, Create, Enqueue, RemoveCancelled, EnqueueErrs, RemoveErrs, CrashApi
<1> QED BY <1>1, <1>2, <1>3 DEF Next, Tick, vars

\* No slot works on a doomed job, and none starts.
LEMMA DoomedIsFree ==
    ASSUME TypeOK, LocksHeld, NEW j \in JobIds, Doomed(j)
    PROVE  ~WorkingOn(j)
BY DEF Doomed, WorkingOn, WorkingPCs, LocksHeld, Holds

LEMMA OverStaysFree ==
    ASSUME TypeOK, [Next]_vars, NEW j \in JobIds, jobs[j].status \in Over, ~WorkingOn(j)
    PROVE  ~WorkingOn(j)'
<1> SUFFICES ASSUME NEW s \in Slots, slots'[s].job = j, slots'[s].pc \in WorkingPCs
             PROVE  FALSE
  BY DEF WorkingOn
<1>1. slots[s].job = j => slots[s].pc \notin WorkingPCs
  BY DEF WorkingOn
<1>2. ~ClaimJob(j)
  BY DEF ClaimJob, Over, Finished
<1> QED BY <1>1, <1>2, StepMoves DEF SlotMove, WorkingPCs

\* A doomed job stays so, unless a sweep retries its entry.
LEMMA DoomedStays ==
    ASSUME NoLockLoss, TypeOK, NoRowIsVoid, LocksHeld, RemovingIsOver, [Next]_vars,
           NEW j \in JobIds, Doomed(j)
    PROVE  \/ Doomed(j)'
           \/ \E m \in Sweeps :
                 mon[m].pc = "failed" /\ j \in mon[m].retriable /\ j \notin mon'[m].todo
<1>1. CASE jobs[j].status \in Over /\ ~WorkingOn(j)
  BY <1>1, StaysOver, OverStaysFree DEF Doomed
<1>2. CASE bull[j].st = "failed"
  <2>1. EntryMove(j)
    BY EntriesMove
  <2>2. CASE j \in removing
    <3>1. ~WorkingOn(j) /\ jobs[j].status \in Over
      BY <1>2, <2>2, DoomedIsFree DEF RemovingIsOver
    <3> QED BY <1>1, <3>1
  <2> QED BY <1>2, <2>1, <2>2 DEF EntryMove, Doomed
<1> QED BY <1>1, <1>2 DEF Doomed

LEMMA ReconciledStep ==
    ASSUME NoLockLoss, NoStaleRetry, TypeOK, NoRowIsVoid, LocksHeld, RemovingIsOver,
           ReasonsArePermanent, ReconciledAreDoomed, [Next]_vars
    PROVE  ReconciledAreDoomed'
<1>1. ASSUME NEW m \in Sweeps, NEW j \in JobIds, Reconciling(m, j)'
      PROVE  Doomed(j)'
  <2>1. SweepMove(m)
    BY SweepsMove
  <2>2. CASE Reconciling(m, j)
    <3>1. ASSUME NEW n \in Sweeps, mon[n].pc = "failed", j \in mon[n].retriable, j \notin mon'[n].todo
          PROVE  FALSE
      <4>1. MaxFaults["transient"] # 0
        BY <3>1 DEF ReasonsArePermanent
      <4>2. m = n
        BY <4>1 DEF NoStaleRetry
      <4> QED BY <1>1, <3>1, <4>2 DEF Reconciling
    <3> QED BY <2>2, <3>1, DoomedStays DEF ReconciledAreDoomed
  <2>3. CASE ~Reconciling(m, j)
    <3>1. mon'[m].pc \in ReconcilePCs /\ j \in mon'[m].todo \ mon'[m].retriable
      BY <1>1 DEF Reconciling
    <3>2. UNCHANGED bull /\ bull[j].st = "failed"
      BY <2>1, <2>3, <3>1 DEF SweepMove, Reconciling
    <3> QED BY <3>2 DEF Doomed
  <2> QED BY <2>2, <2>3
<1>2. ASSUME NEW m \in Sweeps, mon'[m].pc \in {"reconcileRead", "reconcileWrite"}
      PROVE  Reconciling(m, mon[m].job)'
  BY <1>2, SweepsMove DEF SweepMove, Reconciling, ReconcilePCs, ReconciledAreDoomed
<1> QED BY <1>1, <1>2 DEF ReconciledAreDoomed

-----------------------------------------------------------------------------
(* Attempts.  Between failJob's read and its UPDATE nobody else writes the *)
(* count: slots because the job has one, sweeps because it is doomed.      *)

\* What a slot or a sweep has read is what the row still says.
SlotReads ==
    \A s \in Slots :
        slots[s].pc = "failWrite" /\ RowExists(slots[s].job) =>
            slots[s].attempts = jobs[slots[s].job].attempts

SweepReads ==
    \A m \in Sweeps :
        mon[m].pc = "reconcileWrite" /\ RowExists(mon[m].job) =>
            mon[m].attempts = jobs[mon[m].job].attempts

\* A slot that re-reads the row finds the failure it has counted.
Counted ==
    \A s \in Slots :
        slots[s].pc = "failReread" /\ RowExists(slots[s].job) => jobs[slots[s].job].attempts >= 1

\* Job j keeps its count, and does not become FAILED.
KeepsCount(j) ==
    /\ jobs'[j].attempts = jobs[j].attempts
    /\ jobs'[j].status = "FAILED" => jobs[j].status = "FAILED"

\* Slot s counts a failure of job j.
Counts(s, j) ==
    /\ slots[s].job = j /\ slots[s].pc = "failWrite"
    /\ slots'[s].pc \in {"failReread", "throw"}
    /\ jobs'[j].attempts = jobs[j].attempts + 1
    /\ jobs'[j].status = IF jobs[j].attempts + 1 >= MaxAttempts THEN "FAILED" ELSE jobs[j].status

\* What a step can do to a row.
LEMMA RowChanges ==
    ASSUME TypeOK, ExhaustedIsFailed, SlotReads, SweepReads, [Next]_vars,
           NEW j \in JobIds, RowExists(j)
    PROVE  \/ KeepsCount(j)
           \/ jobs'[j].status = "DELETED"
           \/ \E s \in Slots : Counts(s, j)
<1>0. JobsTypeOK /\ SlotsTypeOK /\ MonTypeOK
  BY DEF TypeOK
<1>1. CASE OtherStatement
  BY <1>0, <1>1, OtherStatementStatus DEF KeepsCount, RowExists, NoRowStatus
<1>2. ASSUME NEW s \in Slots, Completes(s)
      PROVE  KeepsCount(j)
  <2>1. CASE j = slots[s].job
    <3>1. jobs'[j] = Move(jobs[j], "COMPLETED", "finishedAt", "fresh") /\ jobs[j] \in Job
      BY <1>0, <1>2, <2>1 DEF Completes, CompleteJob, JobsTypeOK
    <3> QED BY <3>1, MoveFields DEF KeepsCount, Columns
  <2>2. CASE j # slots[s].job
    <3>1. jobs'[j] = jobs[j]
      BY <1>0, <1>2, <2>2 DEF Completes, CompleteJob, JobsTypeOK
    <3> QED BY <3>1 DEF KeepsCount
  <2> QED BY <2>1, <2>2
<1>3. ASSUME NEW s \in Slots, RecordsFailure(s)
      PROVE  KeepsCount(j) \/ Counts(s, j)
  <2>1. /\ slots[s].job \in JobIds /\ slots[s].attempts + 1 \in Nat
        /\ WriteFailure(slots[s].job, slots[s].attempts + 1)
        /\ slots[s].pc = "failWrite" /\ slots'[s].pc \in {"failReread", "throw"}
    BY <1>0, <1>3, BusySlotHasJob DEF RecordsFailure, SlotsTypeOK, Slot
  <2>2. slots[s].job = j => slots[s].attempts = jobs[j].attempts
    BY <2>1 DEF SlotReads
  <2>3. CASE jobs'[j] = jobs[j]
    BY <2>3 DEF KeepsCount
  <2>4. CASE /\ slots[s].job = j
             /\ jobs'[j].attempts = slots[s].attempts + 1
             /\ jobs'[j].status = IF slots[s].attempts + 1 >= MaxAttempts THEN "FAILED" ELSE jobs[j].status
    BY <2>1, <2>2, <2>4 DEF Counts
  <2> QED BY <1>0, <2>1, <2>3, <2>4, WriteFailureRow
<1>4. ASSUME NEW m \in Sweeps, Reconciles(m)
      PROVE  KeepsCount(j)
  <2>1. /\ mon[m].job \in JobIds /\ mon[m].attempts \in Nat
        /\ WriteFailure(mon[m].job, mon[m].attempts)
        /\ mon[m].pc = "reconcileWrite"
    BY <1>0, <1>4, AwaitingSweepHasJob DEF Reconciles, MonTypeOK, Sweep
  <2>2. mon[m].job = j => mon[m].attempts = jobs[j].attempts
    BY <2>1 DEF SweepReads
  <2>3. CASE jobs'[j] = jobs[j]
    BY <2>3 DEF KeepsCount
  <2>4. CASE /\ mon[m].job = j
             /\ jobs'[j].attempts = mon[m].attempts
             /\ jobs'[j].status = IF mon[m].attempts >= MaxAttempts THEN "FAILED" ELSE jobs[j].status
    BY <2>2, <2>4 DEF KeepsCount, ExhaustedIsFailed
  <2> QED BY <1>0, <2>1, <2>3, <2>4, WriteFailureRow
<1> QED BY <1>1, <1>2, <1>3, <1>4, StepMoves DEF StatementOf

\* The inductive invariant of this section.
AttemptsInv ==
    /\ TypeOK /\ NoRowIsVoid /\ ExhaustedIsFailed /\ LocksHeld
    /\ OnlySubmitted /\ RemovingIsOver /\ ReasonsArePermanent /\ ReconciledAreDoomed
    /\ SlotReads /\ SweepReads /\ Counted
    /\ FailedIsExhausted /\ NoWorkOnFailedJobs

\* The part that makes the steps from here on readable: a row that is there after a
\* step, and that a slot or a sweep knows, was there before.
LEMMA KnownRowWasThere ==
    ASSUME TypeOK, NoRowIsVoid, OnlySubmitted, [Next]_vars,
           NEW j \in JobIds, Mentioned(j), RowExists(j)'
    PROVE  RowExists(j)
<1>1. jobs[j].status # "ABSENT"
  BY DEF OnlySubmitted
<1>2. ~RowExists(j) => jobs[j].status = "DELETED"
  BY <1>1 DEF RowExists, NoRowStatus
<1> QED BY <1>2, RowAppears

\* A slot that counts a failure is the only one that works on the job.
LEMMA CountsAlone ==
    ASSUME LocksHeld, NEW s \in Slots, NEW t \in Slots, NEW j \in JobIds,
           Counts(s, j), slots[t].job = j, slots[t].pc # "idle"
    PROVE  t = s
BY DEF LocksHeld, Holds, Counts

\* While a slot rests at one of its awaits, nobody counts a failure of its job.
LEMMA RestingRowKeeps ==
    ASSUME AttemptsInv, [Next]_vars, NEW s \in Slots, slots[s].pc # "idle", slots'[s] = slots[s],
           NEW j \in JobIds, slots[s].job = j, RowExists(j)'
    PROVE  RowExists(j) /\ KeepsCount(j)
<1> USE DEF AttemptsInv
<1>1. RowExists(j)
  BY KnownRowWasThere DEF Mentioned
<1>2. ASSUME NEW t \in Slots, Counts(t, j)
      PROVE  FALSE
  <2>1. t = s
    BY <1>2, CountsAlone
  <2> QED BY <1>2, <2>1 DEF Counts
<1>3. jobs'[j].status # "DELETED"
  BY DEF RowExists, NoRowStatus
<1> QED BY <1>1, <1>2, <1>3, RowChanges

LEMMA SlotReadsStep ==
    ASSUME AttemptsInv, [Next]_vars
    PROVE  SlotReads'
<1> SUFFICES ASSUME NEW s \in Slots, slots'[s].pc = "failWrite", (RowExists(slots[s].job))'
             PROVE  slots'[s].attempts = jobs'[slots'[s].job].attempts
  BY DEF SlotReads
<1> USE DEF AttemptsInv
<1>1. CASE slots'[s] = slots[s]
  <2>1. slots[s].job \in JobIds /\ slots[s].pc = "failWrite"
    BY <1>1, BusySlotHasJob DEF TypeOK
  <2>2. RowExists(slots[s].job) /\ KeepsCount(slots[s].job)
    BY <1>1, <2>1, RestingRowKeeps DEF RowExists
  <2> QED BY <1>1, <2>1, <2>2 DEF SlotReads, KeepsCount
<1>2. CASE slots'[s] # slots[s]
  <2>1. /\ slots'[s].job = slots[s].job /\ UNCHANGED jobs
        /\ slots'[s].attempts = jobs[slots[s].job].attempts
    BY <1>2, StepMoves DEF SlotMove
  <2> QED BY <2>1
<1> QED BY <1>1, <1>2

LEMMA SweepReadsStep ==
    ASSUME AttemptsInv, [Next]_vars
    PROVE  SweepReads'
<1> SUFFICES ASSUME NEW m \in Sweeps, mon'[m].pc = "reconcileWrite", (RowExists(mon[m].job))'
             PROVE  mon'[m].attempts = jobs'[mon'[m].job].attempts
  BY DEF SweepReads
<1> USE DEF AttemptsInv
<1>1. CASE mon'[m] = mon[m]
  <2>1. PICK j \in JobIds : j = mon[m].job /\ mon[m].pc = "reconcileWrite"
    BY <1>1, AwaitingSweepHasJob DEF TypeOK
  <2>2. RowExists(j)' /\ mon'[m].job = j /\ mon'[m].attempts = mon[m].attempts
    BY <1>1, <2>1 DEF RowExists
  <2>3. RowExists(j)
    <3>1. Mentioned(j)
      BY <2>1 DEF Mentioned
    <3> QED BY <2>2, <3>1, KnownRowWasThere
  <2>4. ~WorkingOn(j)
    <3>1. Doomed(j)
      BY <2>1 DEF ReconciledAreDoomed
    <3> QED BY <3>1, DoomedIsFree
  <2>5. \A t \in Slots : ~Counts(t, j)
    BY <2>4 DEF Counts, WorkingOn, WorkingPCs, WorkerPCs
  <2>6. KeepsCount(j)
    BY <2>2, <2>3, <2>5, RowChanges DEF RowExists, NoRowStatus
  <2>7. mon[m].attempts = jobs[j].attempts
    BY <2>1, <2>3 DEF SweepReads
  <2> QED BY <2>2, <2>6, <2>7 DEF KeepsCount
<1>2. CASE mon'[m] # mon[m]
  <2>1. /\ mon'[m].job = mon[m].job /\ UNCHANGED jobs
        /\ mon'[m].attempts = jobs[mon[m].job].attempts
    BY <1>2, SweepsMove DEF SweepMove, ReconcilePCs
  <2> QED BY <2>1
<1> QED BY <1>1, <1>2

LEMMA CountedStep ==
    ASSUME AttemptsInv, [Next]_vars
    PROVE  Counted'
<1> SUFFICES ASSUME NEW s \in Slots, slots'[s].pc = "failReread", (RowExists(slots[s].job))'
             PROVE  jobs'[slots'[s].job].attempts >= 1
  BY DEF Counted
<1> USE DEF AttemptsInv
<1>0. JobsTypeOK /\ SlotsTypeOK
  BY DEF TypeOK
<1>1. CASE slots'[s] = slots[s]
  <2>1. slots[s].job \in JobIds /\ slots[s].pc = "failReread"
    BY <1>0, <1>1, BusySlotHasJob
  <2>2. RowExists(slots[s].job) /\ KeepsCount(slots[s].job)
    BY <1>1, <2>1, RestingRowKeeps DEF RowExists
  <2> QED BY <1>1, <2>1, <2>2 DEF Counted, KeepsCount
<1>2. CASE slots'[s] # slots[s]
  <2>1. slots[s].pc = "failWrite" /\ slots'[s].job = slots[s].job /\ RecordsFailure(s)
    BY <1>2, StepMoves DEF SlotMove
  <2>2. PICK j \in JobIds, n \in Nat : j = slots[s].job /\ n = slots[s].attempts + 1 /\ n >= 1
    BY <1>0, <2>1, BusySlotHasJob DEF SlotsTypeOK, Slot
  <2>3. RowExists(j)' /\ Mentioned(j) /\ WriteFailure(j, n)
    BY <2>1, <2>2 DEF RowExists, RecordsFailure, Mentioned
  <2>4. RowExists(j)
    BY <2>2, <2>3, KnownRowWasThere
  <2>5. jobs'[j] = FailedRow(jobs[j], n) /\ jobs[j] \in Job
    BY <1>0, <2>2, <2>3, <2>4 DEF WriteFailure, JobsTypeOK
  <2>6. jobs'[j].attempts = n
    BY <2>2, <2>5, FailedRowFields
  <2> QED BY <2>1, <2>2, <2>6
<1> QED BY <1>1, <1>2

\* A job becomes FAILED only by the failure that uses up its attempts.
LEMMA FailedStep ==
    ASSUME AttemptsInv, [Next]_vars
    PROVE  FailedIsExhausted'
<1> SUFFICES ASSUME NEW j \in JobIds, jobs'[j].status = "FAILED"
             PROVE  jobs'[j].attempts >= MaxAttempts
  BY DEF FailedIsExhausted
<1> USE DEF AttemptsInv
<1>0. jobs[j].attempts \in Nat /\ MaxAttempts \in Nat
  BY MaxAttemptsAssumption DEF TypeOK, JobsTypeOK, Job
<1>1. RowExists(j)
  BY RowAppears DEF RowExists, NoRowStatus, NewRow
<1>2. CASE KeepsCount(j)
  BY <1>2 DEF KeepsCount, FailedIsExhausted
<1>3. ASSUME NEW s \in Slots, Counts(s, j)
      PROVE  jobs'[j].attempts >= MaxAttempts
  <2>1. CASE jobs[j].attempts + 1 >= MaxAttempts
    BY <1>0, <1>3, <2>1 DEF Counts
  <2>2. CASE ~(jobs[j].attempts + 1 >= MaxAttempts)
    <3>1. jobs[j].status = "FAILED" /\ jobs[j].attempts >= MaxAttempts
      BY <1>3, <2>2 DEF Counts, FailedIsExhausted
    <3> QED BY <1>0, <2>2, <3>1
  <2> QED BY <2>1, <2>2
<1> QED BY <1>1, <1>2, <1>3, RowChanges

\* No slot starts or goes on to execute a job that is FAILED.
LEMMA NoWorkStep ==
    ASSUME AttemptsInv, [Next]_vars
    PROVE  NoWorkOnFailedJobs'
<1> SUFFICES ASSUME NEW s \in Slots, slots'[s].pc \in {"execute", "complete", "backoff"},
                    jobs'[slots'[s].job].status = "FAILED"
             PROVE  FALSE
  BY DEF NoWorkOnFailedJobs
<1> USE DEF AttemptsInv
<1>0. JobsTypeOK /\ SlotsTypeOK
  BY DEF TypeOK
<1>1. CASE slots'[s] = slots[s]
  <2>1. slots[s].job \in JobIds /\ slots[s].pc \in {"execute", "complete", "backoff"}
    BY <1>0, <1>1, BusySlotHasJob
  <2>2. KeepsCount(slots[s].job)
    BY <1>1, <2>1, RestingRowKeeps DEF RowExists, NoRowStatus
  <2> QED BY <1>1, <2>1, <2>2 DEF NoWorkOnFailedJobs, KeepsCount
<1>2. CASE slots'[s] # slots[s]
  <2>1. /\ slots[s].pc # "idle" /\ slots'[s].job = slots[s].job
        /\ \/ ClaimJob(slots[s].job)
           \/ slots[s].pc \in {"execute", "backoff"} /\ UNCHANGED jobs
           \/ jobs[slots[s].job].attempts < MaxAttempts /\ UNCHANGED jobs
    BY <1>2, StepMoves DEF SlotMove
  <2> DEFINE j == slots[s].job
  <2>2. j \in JobIds
    BY <1>0, <2>1, BusySlotHasJob
  <2>3. CASE ClaimJob(j)
    <3>1. jobs'[j].status = "PROCESSING"
      BY <1>0, <2>2, <2>3, MoveFields DEF ClaimJob, JobsTypeOK, Columns
    <3> QED BY <2>1, <3>1
  <2>4. CASE slots[s].pc \in {"execute", "backoff"} /\ UNCHANGED jobs
    BY <2>1, <2>4 DEF NoWorkOnFailedJobs
  <2>5. CASE jobs[j].attempts < MaxAttempts /\ UNCHANGED jobs
    <3>1. ~(jobs[j].attempts >= MaxAttempts)
      BY <1>0, <2>2, <2>5, MaxAttemptsAssumption DEF JobsTypeOK, Job
    <3> QED BY <2>1, <2>2, <2>5, <3>1 DEF FailedIsExhausted
  <2> QED BY <2>1, <2>3, <2>4, <2>5
<1> QED BY <1>1, <1>2

LEMMA ExhaustedStep ==
    ASSUME TypeOK, ExhaustedIsFailed, [Next]_vars
    PROVE  ExhaustedIsFailed'
<1> SUFFICES ASSUME NEW j \in JobIds
             PROVE  CountedRow(jobs'[j])
  BY DEF ExhaustedIsFailed, CountedRow
<1>1. CountedRow(jobs[j])
  BY DEF ExhaustedIsFailed, CountedRow
<1> QED BY <1>1, StepRows, RowStepCounted

LEMMA VoidStep ==
    ASSUME TypeOK, NoRowIsVoid, [Next]_vars
    PROVE  NoRowIsVoid'
<1> SUFFICES ASSUME NEW j \in JobIds
             PROVE  VoidRow(jobs'[j])
  BY DEF NoRowIsVoid
<1> QED BY StepRows, RowStepVoid DEF NoRowIsVoid

LEMMA OnlySubmittedInit == Init => OnlySubmitted
<1> SUFFICES ASSUME Init
             PROVE  OnlySubmitted
  OBVIOUS
<1>1. /\ \A j \in JobIds : bull[j].st = "none"
      /\ \A s \in Slots : slots[s].job = NoJob
      /\ \A m \in Sweeps : mon[m].job = NoJob /\ mon[m].todo = {}
      /\ batches = {}
  BY DEF Init, BullInit, NoEntry, WorkerInit, IdleSlot, MonInit, IdleSweep, ApiInit
<1> QED BY <1>1, NoJobAssumption DEF OnlySubmitted, Mentioned

LEMMA AttemptsInit == Init => AttemptsInv
<1> SUFFICES ASSUME Init
             PROVE  AttemptsInv
  OBVIOUS
<1>1. /\ \A j \in JobIds : jobs[j].status = "ABSENT" /\ jobs[j].attempts = 0 /\ jobs[j].at = NoTimes
      /\ \A j \in JobIds : bull[j].st = "none" /\ bull[j].reason = "none"
      /\ \A s \in Slots : slots[s].pc = "idle" /\ slots[s].job = NoJob /\ slots[s].reason = "none"
      /\ \A m \in Sweeps : /\ mon[m].pc = "idle" /\ mon[m].job = NoJob
                            /\ mon[m].todo = {} /\ mon[m].retriable = {}
      /\ batches = {} /\ removing = {}
  BY DEF Init, JobsInit, NoRow, BullInit, NoEntry, WorkerInit, IdleSlot, MonInit, IdleSweep, ApiInit
<1>2. ~(0 >= MaxAttempts)
  BY MaxAttemptsAssumption
<1>3. OnlySubmitted
  BY OnlySubmittedInit
<1>4. NoRowIsVoid /\ ExhaustedIsFailed /\ LocksHeld
  BY <1>1, <1>2 DEF NoRowIsVoid, VoidRow, ExhaustedIsFailed, LocksHeld, Holds
<1>5. RemovingIsOver /\ ReasonsArePermanent /\ ReconciledAreDoomed
  BY <1>1 DEF RemovingIsOver, ReasonsArePermanent, ReconciledAreDoomed, Reconciling, ReconcilePCs
<1>6. SlotReads /\ SweepReads /\ Counted /\ FailedIsExhausted /\ NoWorkOnFailedJobs
  BY <1>1 DEF SlotReads, SweepReads, Counted, FailedIsExhausted, NoWorkOnFailedJobs
<1> QED BY <1>3, <1>4, <1>5, <1>6, InitType DEF AttemptsInv

LEMMA AttemptsStep ==
    ASSUME NoLockLoss, NoStaleRetry, AttemptsInv, [Next]_vars
    PROVE  AttemptsInv'
<1>1. /\ TypeOK /\ NoRowIsVoid /\ ExhaustedIsFailed /\ LocksHeld
      /\ OnlySubmitted /\ RemovingIsOver /\ ReasonsArePermanent /\ ReconciledAreDoomed
  BY DEF AttemptsInv
<1>2. TypeOK'
  BY <1>1, StepType
<1>3. NoRowIsVoid' /\ ExhaustedIsFailed' /\ LocksHeld'
  BY <1>1, VoidStep, ExhaustedStep, LocksStep
<1>4. OnlySubmitted' /\ RemovingIsOver' /\ ReasonsArePermanent' /\ ReconciledAreDoomed'
  BY <1>1, OnlySubmittedStep, RemovingStep, ReasonsStep, ReconciledStep
<1>5. SlotReads' /\ SweepReads' /\ Counted' /\ FailedIsExhausted' /\ NoWorkOnFailedJobs'
  BY SlotReadsStep, SweepReadsStep, CountedStep, FailedStep, NoWorkStep
<1> QED BY <1>2, <1>3, <1>4, <1>5 DEF AttemptsInv

LEMMA AttemptsInvariant ==
    ASSUME NoLockLoss, NoStaleRetry
    PROVE  Spec => []AttemptsInv
<1>1. AttemptsInv /\ [Next]_vars => AttemptsInv'
  BY AttemptsStep
<1> QED BY <1>1, AttemptsInit, PTL DEF Spec

\* A job is FAILED only with its attempts used up: no reconciliation and no other
\* worker writes an older count over the final one.
THEOREM FailedAlwaysExhausted ==
    ASSUME NoLockLoss, NoStaleRetry
    PROVE  Spec => []FailedIsExhausted
<1>1. AttemptsInv => FailedIsExhausted
  BY DEF AttemptsInv
<1> QED BY <1>1, AttemptsInvariant, PTL

\* No slot runs, or is about to run again, the handler of a job that is FAILED.
THEOREM NeverWorkOnFailedJobs ==
    ASSUME NoLockLoss, NoStaleRetry
    PROVE  Spec => []NoWorkOnFailedJobs
<1>1. AttemptsInv => NoWorkOnFailedJobs
  BY DEF AttemptsInv
<1> QED BY <1>1, AttemptsInvariant, PTL

\* An UPDATE of failJob that is answered has raised attempts by one, and attempts
\* changes by nothing else: neither two slots nor a slot and a sweep overwrite each
\* other's count.
THEOREM AttemptsNeverLost ==
    ASSUME NoLockLoss, NoStaleRetry
    PROVE  Spec => NoAttemptLost
<1> DEFINE A == \A j \in JobIds :
                  RowExists(j) /\ RowExists(j)' =>
                      /\ \A s \in Slots : EndsUpdate(s, j) /\ slots'[s].pc = "failReread" =>
                                            jobs'[j].attempts = jobs[j].attempts + 1
                      /\ jobs'[j].attempts # jobs[j].attempts =>
                            /\ \E s \in Slots : EndsUpdate(s, j)
                            /\ jobs'[j].attempts = jobs[j].attempts + 1
<1>1. AttemptsInv /\ [Next]_vars => [A]_vars
  <2> SUFFICES ASSUME AttemptsInv, [Next]_vars, NEW j \in JobIds, RowExists(j), RowExists(j)'
               PROVE  /\ \A s \in Slots : EndsUpdate(s, j) /\ slots'[s].pc = "failReread" =>
                                            jobs'[j].attempts = jobs[j].attempts + 1
                      /\ jobs'[j].attempts # jobs[j].attempts =>
                            /\ \E s \in Slots : EndsUpdate(s, j)
                            /\ jobs'[j].attempts = jobs[j].attempts + 1
    OBVIOUS
  <2> USE DEF AttemptsInv
  <2>0. JobsTypeOK /\ SlotsTypeOK
    BY DEF TypeOK
  <2>1. ASSUME NEW s \in Slots, EndsUpdate(s, j), slots'[s].pc = "failReread"
        PROVE  jobs'[j].attempts = jobs[j].attempts + 1
    <3>1. slots[s].job = j /\ slots[s].pc = "failWrite" /\ RecordsFailure(s)
      BY <2>1, StepMoves DEF SlotMove, EndsUpdate
    <3>2. PICK n \in Nat : n = slots[s].attempts + 1
      BY <2>0 DEF SlotsTypeOK, Slot
    <3>3. jobs'[j] = FailedRow(jobs[j], n) /\ jobs[j] \in Job
      BY <2>0, <3>1, <3>2 DEF RecordsFailure, WriteFailure, JobsTypeOK
    <3>4. jobs'[j].attempts = n
      BY <3>2, <3>3, FailedRowFields
    <3>5. slots[s].attempts = jobs[j].attempts
      BY <3>1 DEF SlotReads
    <3> QED BY <3>2, <3>4, <3>5
  <2>2. jobs'[j].status # "DELETED"
    BY DEF RowExists, NoRowStatus
  <2>3. KeepsCount(j) \/ \E s \in Slots : Counts(s, j)
    BY <2>2, RowChanges
  <2>4. jobs'[j].attempts # jobs[j].attempts =>
              /\ \E s \in Slots : EndsUpdate(s, j)
              /\ jobs'[j].attempts = jobs[j].attempts + 1
    BY <2>3 DEF KeepsCount, Counts, EndsUpdate
  <2> QED BY <2>1, <2>4
<1>2. [][A]_vars <=> NoAttemptLost
  BY DEF NoAttemptLost
<1> HIDE DEF A
<1> QED BY <1>1, <1>2, AttemptsInvariant, PTL DEF Spec
=============================================================================
