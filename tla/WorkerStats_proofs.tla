-------------------------- MODULE WorkerStats_proofs --------------------------
(***************************************************************************)
(* Theorems about WorkerStats for any number of workers and jobs, any      *)
(* concurrency and any faults.                                             *)
(***************************************************************************)
EXTENDS WorkerStats, Attempts_proofs, Totals_proofs

StatsCounts == [active : Nat, processed : Nat, failed : Nat]

StatsTypeOK == counters \in [Workers -> StatsCounts]

\* The inductive invariant.
StatsInv == TypeOK /\ StatsTypeOK /\ ActiveIsInFlight

-----------------------------------------------------------------------------
(* What a worker counts. *)

\* A worker has no more calls in flight than slots, however many workers there are.
LEMMA InFlightFits ==
    ASSUME NEW w
    PROVE  /\ IsFiniteSet(InFlight(w))
           /\ Cardinality(InFlight(w)) \in Nat
           /\ Cardinality(InFlight(w)) <= Concurrency
<1> DEFINE number == [s \in InFlight(w) |-> s[2]]
<1>1. \A s \in InFlight(w) : s = <<w, s[2]>> /\ s[2] \in 1 .. Concurrency
  BY DEF InFlight, Slots
<1>2. number \in Injection(InFlight(w), 1 .. Concurrency)
  <2>1. number \in [InFlight(w) -> 1 .. Concurrency]
    BY <1>1
  <2>2. \A s, t \in InFlight(w) : number[s] = number[t] => s = t
    BY <1>1
  <2> HIDE DEF number
  <2> QED BY <2>1, <2>2 DEF Injection, IsInjective
<1>3. IsFiniteSet(1 .. Concurrency) /\ Cardinality(1 .. Concurrency) = Concurrency
  BY ConcurrencyAssumption, FS_Interval
<1> HIDE DEF number
<1>4. IsFiniteSet(InFlight(w)) /\ Cardinality(InFlight(w)) <= Concurrency
  BY <1>2, <1>3, FS_Injection
<1> QED BY <1>4, FS_CardinalityType

\* Slot s begins a call: one more for its worker, and none for the others.
LEMMA OneBegins ==
    ASSUME NEW s \in Slots, slots[s].pc = "idle", slots'[s].pc # "idle",
           \A t \in Slots \ {s} : slots'[t] = slots[t], NEW w
    PROVE  Cardinality(InFlight(w)') = IF w = s[1] THEN Cardinality(InFlight(w)) + 1
                                       ELSE Cardinality(InFlight(w))
<1>1. CASE w = s[1]
  <2>1. InFlight(w)' = InFlight(w) \cup {s} /\ s \notin InFlight(w)
    BY <1>1 DEF InFlight
  <2> QED BY <1>1, <2>1, InFlightFits, FS_AddElement
<1>2. CASE w # s[1]
  <2>1. InFlight(w)' = InFlight(w)
    BY <1>2 DEF InFlight
  <2> QED BY <1>2, <2>1
<1> QED BY <1>1, <1>2

\* Slot s ends a call: there was one, and now its worker has one less.
LEMMA OneEnds ==
    ASSUME NEW s \in Slots, slots[s].pc # "idle", slots'[s].pc = "idle",
           \A t \in Slots \ {s} : slots'[t] = slots[t], NEW w
    PROVE  /\ w = s[1] => Cardinality(InFlight(w)) > 0
           /\ Cardinality(InFlight(w)') = IF w = s[1] THEN Cardinality(InFlight(w)) - 1
                                          ELSE Cardinality(InFlight(w))
<1>1. CASE w = s[1]
  <2>1. InFlight(w)' = InFlight(w) \ {s} /\ s \in InFlight(w)
    BY <1>1 DEF InFlight
  <2>2. Cardinality(InFlight(w)) # 0
    BY <2>1, InFlightFits, FS_EmptySet
  <2>3. Cardinality(InFlight(w)) \in Nat /\ IsFiniteSet(InFlight(w))
    BY InFlightFits
  <2>4. Cardinality(InFlight(w) \ {s}) = Cardinality(InFlight(w)) - 1
    BY <2>1, <2>3, FS_RemoveElement
  <2> QED BY <1>1, <2>1, <2>2, <2>3, <2>4
<1>2. CASE w # s[1]
  <2>1. InFlight(w)' = InFlight(w)
    BY <1>2 DEF InFlight
  <2> QED BY <1>2, <2>1
<1> QED BY <1>1, <1>2

\* Entering and leaving: decrementActiveJobs does not stop at zero while a call is counted.
LEMMA EnterLeave ==
    ASSUME NEW c \in StatsCounts
    PROVE  /\ Entered(c) \in StatsCounts /\ Entered(c).active = c.active + 1
           /\ Left(c) \in StatsCounts
           /\ c.active > 0 => Left(c).active = c.active - 1
<1>1. Entered(c) = [active |-> c.active + 1, processed |-> c.processed, failed |-> c.failed]
  BY DEF Entered, StatsCounts
<1>2. Left(c) = [active |-> IF c.active > 0 THEN c.active - 1 ELSE 0,
                 processed |-> c.processed, failed |-> c.failed]
  BY DEF Left, StatsCounts
<1>3. c.active \in Nat /\ c.processed \in Nat /\ c.failed \in Nat
  BY DEF StatsCounts
<1> HIDE DEF Entered, Left
<1>4. Entered(c) \in StatsCounts /\ Entered(c).active = c.active + 1
  BY <1>1, <1>3 DEF StatsCounts
<1>5. Left(c) \in StatsCounts /\ (c.active > 0 => Left(c).active = c.active - 1)
  <2>1. (IF c.active > 0 THEN c.active - 1 ELSE 0) \in Nat
    BY <1>3
  <2> QED BY <1>2, <1>3, <2>1 DEF StatsCounts
<1> QED BY <1>4, <1>5

\* Nobody begins or ends a call.
LEMMA NobodyMoves ==
    ASSUME \A s \in Slots : slots[s].pc = "idle" <=> slots'[s].pc = "idle", NEW w
    PROVE  InFlight(w)' = InFlight(w)
BY DEF InFlight

-----------------------------------------------------------------------------
(* The steps. *)

\* What is counted is a step of the service.
LEMMA StatsStepIsStep == [StatsNext]_<<vars, stats_vars>> => [Next]_vars
<1> SUFFICES ASSUME [StatsNext]_<<vars, stats_vars>>
             PROVE  [Next]_vars
  OBVIOUS
<1>1. CASE ProcessStep
  <2>1. ASSUME NEW s \in Slots, CountReturn(s) \/ CountReject(s)
        PROVE  WorkerNext
    BY <2>1 DEF CountReturn, CountReject, WorkerNext, SlotStep
  <2>2. ASSUME NEW s \in Slots, NEW j \in JobIds, CountTake(s, j)
        PROVE  WorkerNext
    BY <2>2 DEF CountTake, WorkerNext
  <2>3. ASSUME NEW w \in Workers, CountCrash(w)
        PROVE  WorkerNext
    BY <2>3 DEF CountCrash, WorkerNext, WorkerFault
  <2>4. WorkerNext /\ UNCHANGED <<mon, batches, removing>>
    BY <1>1, <2>1, <2>2, <2>3 DEF ProcessStep
  <2> QED BY <2>4 DEF Next
<1>2. CASE ServiceStep
  BY <1>2 DEF ServiceStep
<1>3. CASE (\E w \in Workers : Publish(w)) \/ (\E i \in DOMAIN reports : Expire(i)) \/ CleanScan \/ CleanDelete
  BY <1>3 DEF Publish, Expire, CleanScan, CleanDelete
<1>4. CASE UNCHANGED <<vars, stats_vars>>
  BY <1>4
<1> QED BY <1>1, <1>2, <1>3, <1>4 DEF StatsNext

\* What a worker counts when a call begins, ends or dies with it.
LEMMA ProcessStepKeeps ==
    ASSUME StatsInv, ProcessStep
    PROVE  counters' \in [Workers -> StatsCounts] /\ ActiveIsInFlight'
<1> USE DEF StatsInv, StatsTypeOK
<1>0. slots \in [Slots -> Slot] /\ counters \in [Workers -> StatsCounts]
  BY DEF TypeOK, SlotsTypeOK
<1>00. \A s \in Slots : s[1] \in Workers
  BY DEF Slots
<1>1. ASSUME NEW s \in Slots, NEW j \in JobIds, CountTake(s, j)
      PROVE  counters' \in [Workers -> StatsCounts] /\ ActiveIsInFlight'
  <2> DEFINE c == Entered(counters[s[1]])
  <2>1. c \in StatsCounts /\ c.active = counters[s[1]].active + 1
    BY <1>0, <1>00, EnterLeave
  <2>2. counters' = [counters EXCEPT ![s[1]] = c]
    BY <1>1 DEF CountTake, Count
  <2>3. slots[s].pc = "idle" /\ slots'[s].pc # "idle" /\ \A t \in Slots \ {s} : slots'[t] = slots[t]
    <3>1. slots[s].pc = "idle" /\ slots' = [slots EXCEPT ![s] = [IdleSlot EXCEPT !.pc = "claim", !.job = j]]
      BY <1>1 DEF CountTake, Take
    <3>2. [IdleSlot EXCEPT !.pc = "claim", !.job = j].pc = "claim"
      BY DEF IdleSlot
    <3> QED BY <1>0, <3>1, <3>2
  <2> HIDE DEF c
  <2>4. counters' \in [Workers -> StatsCounts]
    BY <1>0, <1>00, <2>1, <2>2
  <2>5. ASSUME NEW w \in Workers
        PROVE  counters'[w].active = Cardinality(InFlight(w)')
    <3>1. Cardinality(InFlight(w)') = IF w = s[1] THEN Cardinality(InFlight(w)) + 1
                                      ELSE Cardinality(InFlight(w))
      BY <2>3, OneBegins
    <3>2. counters[w].active = Cardinality(InFlight(w))
      BY DEF ActiveIsInFlight
    <3>3. counters'[w] = IF w = s[1] THEN c ELSE counters[w]
      BY <1>0, <2>2
    <3> QED BY <2>1, <3>1, <3>2, <3>3
  <2> QED BY <2>4, <2>5 DEF ActiveIsInFlight
<1>2. ASSUME NEW s \in Slots, CountReturn(s) \/ CountReject(s)
      PROVE  counters' \in [Workers -> StatsCounts] /\ ActiveIsInFlight'
  <2> DEFINE l == Left(counters[s[1]])
  <2>1. /\ counters[s[1]] \in StatsCounts /\ l \in StatsCounts
        /\ counters[s[1]].active > 0 => l.active = counters[s[1]].active - 1
    BY <1>0, <1>00, EnterLeave
  <2> HIDE DEF l
  <2>2. PICK c \in StatsCounts : c.active = l.active /\ counters' = [counters EXCEPT ![s[1]] = c]
    <3>1. CASE CountReturn(s)
      <4> DEFINE d == [l EXCEPT !.processed = @ + 1]
      <4>1. counters' = [counters EXCEPT ![s[1]] = d]
        BY <3>1 DEF CountReturn, Count, l
      <4>2. d \in StatsCounts /\ d.active = l.active
        BY <2>1 DEF StatsCounts
      <4> QED BY <4>1, <4>2
    <3>2. CASE CountReject(s)
      <4> DEFINE d == [l EXCEPT !.failed = @ + 1]
      <4>1. counters' = [counters EXCEPT ![s[1]] = d]
        BY <3>2 DEF CountReject, Count, l
      <4>2. d \in StatsCounts /\ d.active = l.active
        BY <2>1 DEF StatsCounts
      <4> QED BY <4>1, <4>2
    <3> QED BY <1>2, <3>1, <3>2
  <2>3. slots[s].pc # "idle" /\ slots'[s].pc = "idle" /\ \A t \in Slots \ {s} : slots'[t] = slots[t]
    <3>1. slots[s].pc \in {"return", "throw"} /\ slots' = [slots EXCEPT ![s] = IdleSlot]
      BY <1>2 DEF CountReturn, CountReject, Return, Reject
    <3>2. IdleSlot.pc = "idle"
      BY DEF IdleSlot
    <3> QED BY <1>0, <3>1, <3>2
  <2>4. counters' \in [Workers -> StatsCounts]
    BY <1>0, <1>00, <2>2
  <2>5. ASSUME NEW w \in Workers
        PROVE  counters'[w].active = Cardinality(InFlight(w)')
    <3>1. /\ w = s[1] => Cardinality(InFlight(w)) > 0
          /\ Cardinality(InFlight(w)') = IF w = s[1] THEN Cardinality(InFlight(w)) - 1
                                         ELSE Cardinality(InFlight(w))
      BY <2>3, OneEnds
    <3>2. counters[w].active = Cardinality(InFlight(w))
      BY DEF ActiveIsInFlight
    <3>3. counters'[w] = IF w = s[1] THEN c ELSE counters[w]
      BY <1>0, <2>2
    <3> QED BY <2>1, <2>2, <3>1, <3>2, <3>3
  <2> QED BY <2>4, <2>5 DEF ActiveIsInFlight
<1>3. ASSUME NEW v \in Workers, CountCrash(v)
      PROVE  counters' \in [Workers -> StatsCounts] /\ ActiveIsInFlight'
  <2>1. counters' = [counters EXCEPT ![v] = Zero] /\ Zero \in StatsCounts /\ Zero.active = 0
    BY <1>3 DEF CountCrash, Count, Zero, StatsCounts
  <2>2. slots' = [s \in Slots |-> IF s[1] = v THEN IdleSlot ELSE slots[s]] /\ IdleSlot.pc = "idle"
    BY <1>3 DEF CountCrash, CrashWorker, IdleSlot
  <2>3. counters' \in [Workers -> StatsCounts]
    BY <1>0, <2>1
  <2>4. ASSUME NEW w \in Workers
        PROVE  counters'[w].active = Cardinality(InFlight(w)')
    <3>1. CASE w = v
      <4>1. InFlight(w)' = {}
        BY <2>2, <3>1 DEF InFlight
      <4>2. counters'[w].active = 0
        BY <1>0, <2>1, <3>1
      <4> QED BY <4>1, <4>2, FS_EmptySet
    <3>2. CASE w # v
      <4>1. InFlight(w)' = InFlight(w)
        BY <2>2, <3>2 DEF InFlight
      <4>2. counters'[w] = counters[w]
        BY <1>0, <2>1, <3>2
      <4> QED BY <4>1, <4>2 DEF ActiveIsInFlight
    <3> QED BY <3>1, <3>2
  <2> QED BY <2>3, <2>4 DEF ActiveIsInFlight
<1> QED BY <1>1, <1>2, <1>3 DEF ProcessStep

LEMMA StatsStep == StatsInv /\ [StatsNext]_<<vars, stats_vars>> => StatsInv'
<1> SUFFICES ASSUME StatsInv, [StatsNext]_<<vars, stats_vars>>
             PROVE  StatsInv'
  OBVIOUS
<1>1. TypeOK'
  BY StatsStepIsStep, StepType DEF StatsInv
<1>2. counters' \in [Workers -> StatsCounts] /\ ActiveIsInFlight'
  <2>1. CASE ProcessStep
    BY <2>1, ProcessStepKeeps
  <2>2. CASE UNCHANGED counters /\ \A s \in Slots : slots[s].pc = "idle" <=> slots'[s].pc = "idle"
    <3>1. \A w \in Workers : InFlight(w)' = InFlight(w)
      BY <2>2, NobodyMoves
    <3> QED BY <2>2, <3>1 DEF StatsInv, StatsTypeOK, ActiveIsInFlight
  <2>3. CASE ServiceStep
    BY <2>2, <2>3 DEF ServiceStep, stats_vars
  <2>4. CASE UNCHANGED <<vars, counters>>
    BY <2>2, <2>4 DEF vars
  <2>5. CASE (\E w \in Workers : Publish(w)) \/ (\E i \in DOMAIN reports : Expire(i)) \/ CleanScan \/ CleanDelete
    BY <2>4, <2>5 DEF Publish, Expire, CleanScan, CleanDelete
  <2>6. CASE UNCHANGED <<vars, stats_vars>>
    BY <2>4, <2>6 DEF stats_vars
  <2> QED BY <2>1, <2>3, <2>5, <2>6 DEF StatsNext
<1> QED BY <1>1, <1>2 DEF StatsInv, StatsTypeOK

LEMMA StatsInitInv == Init /\ StatsInit => StatsInv
<1> SUFFICES ASSUME Init, StatsInit
             PROVE  StatsInv
  OBVIOUS
<1>1. TypeOK
  BY InitType
<1>2. counters = [w \in Workers |-> Zero] /\ Zero \in StatsCounts /\ Zero.active = 0
  BY DEF StatsInit, Zero, StatsCounts
<1>3. ASSUME NEW w \in Workers
      PROVE  counters[w].active = Cardinality(InFlight(w))
  <2>1. InFlight(w) = {}
    BY DEF Init, WorkerInit, IdleSlot, InFlight
  <2> QED BY <1>2, <2>1, FS_EmptySet
<1> QED BY <1>1, <1>2, <1>3 DEF StatsInv, StatsTypeOK, ActiveIsInFlight

LEMMA StatsInvariant == StatsSpec => []StatsInv
BY StatsInitInv, StatsStep, PTL DEF StatsSpec

\* Counting, publishing and cleaning reports never get in the way of the jobs: what is
\* proved of the service holds of the service that counts (JobsProcessor.process).
THEOREM StatsKeepService == StatsSpec => Spec
BY StatsStepIsStep, PTL DEF StatsSpec, Spec

\* worker_active_jobs never drifts from the calls of process() that are in flight,
\* through rejections, lost locks, resets and restarts, for any number of workers.
THEOREM ActiveAlwaysInFlight == StatsSpec => []ActiveIsInFlight
<1>1. StatsInv => ActiveIsInFlight
  BY DEF StatsInv
<1> QED BY <1>1, StatsInvariant, PTL

-----------------------------------------------------------------------------
(* FinishedAreProcessed.  A job becomes COMPLETED or FAILED only after a   *)
(* call of process() for it, and such a call is still open, has resolved   *)
(* and is counted as processed, or has met an error of the database.       *)

\* What only a call of process() can bring about: a slot with the job, a row that is
\* COMPLETED or FAILED, an entry that is locked or failed, and a sweep that has read
\* such a failed entry.
Executed(j) ==
    \/ \E s \in Slots : slots[s].job = j
    \/ jobs[j].status \in {"COMPLETED", "FAILED"}
    \/ bull[j].st \in {"active", "failed"}
    \/ \E m \in Sweeps : mon[m].pc \in ReconcilePCs /\ (j \in mon[m].todo \/ mon[m].job = j)

\* A call for job j begins.
Begins(j) == \E s \in Slots : slots[s].pc = "idle" /\ slots'[s].pc # "idle" /\ slots'[s].job = j

\* A slot with the job had it before, or begins.
LEMMA SlotsExecute ==
    ASSUME TypeOK, [Next]_vars, NEW j \in JobIds, NEW s \in Slots, slots'[s].job = j
    PROVE  Executed(j) \/ Begins(j)
<1>1. SlotsTypeOK /\ SlotsTypeOK'
  BY StepType DEF TypeOK
<1>2. slots'[s].pc # "idle"
  BY <1>1, NoJobAssumption DEF SlotsTypeOK
<1> QED BY <1>2, StepMoves DEF SlotMove, Executed, Begins

\* A row becomes COMPLETED or FAILED only by a slot or a sweep that has the job.
LEMMA RowsExecute ==
    ASSUME TypeOK, [Next]_vars, NEW j \in JobIds, jobs'[j].status \in {"COMPLETED", "FAILED"}
    PROVE  Executed(j)
<1>0. JobsTypeOK /\ SlotsTypeOK /\ MonTypeOK
  BY DEF TypeOK
<1> SUFFICES ASSUME jobs[j].status \notin {"COMPLETED", "FAILED"}
             PROVE  Executed(j)
  BY DEF Executed
<1>1. ~OtherStatement
  BY <1>0, OtherStatementStatus
<1>2. ASSUME NEW s \in Slots, Completes(s)
      PROVE  Executed(j)
  <2>1. slots[s].job = j
    BY <1>0, <1>2 DEF Completes, CompleteJob, JobsTypeOK
  <2> QED BY <2>1 DEF Executed
<1>3. ASSUME NEW s \in Slots, RecordsFailure(s)
      PROVE  Executed(j)
  <2>1. slots[s].job \in JobIds /\ slots[s].attempts + 1 \in Nat
    BY <1>0, <1>3, BusySlotHasJob DEF RecordsFailure, SlotsTypeOK, Slot
  <2>2. slots[s].job = j
    BY <1>0, <1>3, <2>1, WriteFailureRow DEF RecordsFailure
  <2> QED BY <2>2 DEF Executed
<1>4. ASSUME NEW m \in Sweeps, Reconciles(m)
      PROVE  Executed(j)
  <2>1. mon[m].job \in JobIds /\ mon[m].attempts \in Nat
    BY <1>0, <1>4, AwaitingSweepHasJob DEF Reconciles, MonTypeOK, Sweep
  <2>2. mon[m].job = j
    BY <1>0, <1>4, <2>1, WriteFailureRow DEF Reconciles
  <2> QED BY <1>4, <2>2 DEF Reconciles, ReconcilePCs, Executed
<1> QED BY <1>1, <1>2, <1>3, <1>4, StepMoves DEF StatementOf

\* A sweep has read the entry when it was failed.
LEMMA SweepsExecute ==
    ASSUME TypeOK, [Next]_vars, NEW j \in JobIds, NEW m \in Sweeps,
           mon'[m].pc \in ReconcilePCs, j \in mon'[m].todo \/ mon'[m].job = j
    PROVE  Executed(j)
<1>1. MonTypeOK' /\ (mon'[m].pc = "failed" => mon'[m].job = NoJob) /\ j # NoJob
  BY StepType, NoJobAssumption DEF TypeOK, MonTypeOK
<1>2. SweepMove(m)
  BY SweepsMove
<1> QED BY <1>1, <1>2 DEF SweepMove, Executed, ReconcilePCs

\* An entry is locked when a call begins, and fails when one ends or was orphaned.
LEMMA EntriesExecute ==
    ASSUME TypeOK, [Next]_vars, NEW j \in JobIds, bull'[j].st \in {"active", "failed"}
    PROVE  Executed(j) \/ Begins(j)
<1>0. BullTypeOK /\ SlotsTypeOK
  BY DEF TypeOK
<1>1. CASE bull'[j] = bull[j]
  BY <1>1 DEF Executed
<1> SUFFICES ASSUME bull'[j] # bull[j]
             PROVE  Executed(j) \/ Begins(j)
  BY <1>1
<1>2. ASSUME NEW s \in Slots, NEW i \in JobIds, Take(s, i)
      PROVE  Begins(j)
  <2>1. i = j
    BY <1>0, <1>2 DEF Take, TakeEntry, BullTypeOK
  <2>2. slots[s].pc = "idle" /\ slots'[s].pc = "claim" /\ slots'[s].job = j
    BY <1>0, <1>2, <2>1 DEF Take, SlotsTypeOK, IdleSlot
  <2> QED BY <2>2 DEF Begins
<1>3. ASSUME NEW s \in Slots, Return(s) \/ Reject(s)
      PROVE  Executed(j)
  <2>1. slots[s].job = j
    BY <1>0, <1>3 DEF Return, Reject, CompleteEntry, FailEntry, BullTypeOK
  <2> QED BY <2>1 DEF Executed
<1>4. ASSUME NEW i \in JobIds, ExpireLock(i)
      PROVE  Executed(j)
  <2>1. bull'[j].st = bull[j].st
    BY <1>0, <1>4 DEF ExpireLock, BullTypeOK, Entry
  <2> QED BY <2>1 DEF Executed
<1>5. ASSUME NEW i \in JobIds, StalledCheck(i)
      PROVE  Executed(j)
  <2>1. i = j
    BY <1>0, <1>5 DEF StalledCheck, BullTypeOK
  <2> QED BY <1>5, <2>1 DEF StalledCheck, Executed
<1>6. ASSUME NEW S, AddEntries(S)
      PROVE  FALSE
  BY <1>6 DEF AddEntries, NewEntry, NoEntry
<1>7. ASSUME NEW i, RemoveEntry(i) \/ RetryEntry(i)
      PROVE  FALSE
  <2>1. i = j
    BY <1>0, <1>7 DEF RemoveEntry, RetryEntry, BullTypeOK
  <2>2. bull[j] \in Entry
    BY <1>0 DEF BullTypeOK
  <2>3. CASE RemoveEntry(i)
    <3>1. bull'[j] = NoEntry
      BY <1>0, <2>1, <2>3 DEF RemoveEntry, BullTypeOK
    <3> QED BY <3>1 DEF NoEntry
  <2>4. CASE RetryEntry(i)
    <3>1. bull'[j].st = "wait"
      BY <1>0, <2>1, <2>2, <2>4 DEF RetryEntry, BullTypeOK, Entry
    <3> QED BY <3>1
  <2> QED BY <1>7, <2>3, <2>4
<1>8. ~Obliterate
  BY DEF Obliterate, NoEntry
<1>9. CASE WorkerNext
  <2>1. ASSUME NEW s \in Slots, SlotStep(s), ~Return(s), ~Reject(s)
        PROVE  UNCHANGED bull
    BY <2>1 DEF SlotStep, Claim, ClaimMisses, HandlerSucceeds, HandlerFails, Complete, CompleteMisses,
                CancelSeen, CancelNotSeen, FailRead, FailWrite, Retry, GiveUp, RowMissing, BackoffEnds
  <2>2. ASSUME NEW s \in Slots, CompleteErrs(s) \/ DbErrs(s)
        PROVE  UNCHANGED bull
    BY <2>2 DEF CompleteErrs, DbErrs
  <2> QED BY <1>2, <1>3, <1>4, <1>5, <1>9, <2>1, <2>2
          DEF WorkerNext, WorkerFault, LockStep, OrphanedLockExpires, EntryStalls, HeldLockExpires,
              CrashWorker
<1>10. CASE MonitorNext
  BY <1>6, <1>7, <1>10
     DEF MonitorNext, MonitorFault, SweepStep, StartSweep, FindPending, GetFailed, EndSweep, ReEnqueue,
         ReconcileRead, ReconcileGone, ReconcileWrite, Reset, RetryFailed, Reconcile, SkipReconcile,
         Cleanup, QueryErrs, JobErrs, CrashMonitor
<1>11. CASE ApiNext
  BY <1>6, <1>7, <1>11
     DEF ApiNext, ApiFault, Create, Enqueue, Cancel, RemoveCancelled, EnqueueErrs, RemoveErrs, CrashApi
<1>12. CASE DebugNext
  BY <1>8, <1>12 DEF DebugNext, CleanQueue, CleanTable
<1> QED BY <1>9, <1>10, <1>11, <1>12 DEF Next, Tick, vars

\* So only a call that begins adds to the jobs that have been executed.
LEMMA OnlyCallsExecute ==
    ASSUME TypeOK, [Next]_vars, NEW j \in JobIds, Executed(j)'
    PROVE  Executed(j) \/ Begins(j)
BY SlotsExecute, RowsExecute, SweepsExecute, EntriesExecute DEF Executed

\* A call for job j can still resolve.
Open(j) == \E s \in Slots : slots[s].job = j /\ slots[s].pc # "throw"

\* The jobs that have been executed, and whose calls are over or about to reject.
Settled == {j \in JobIds : Executed(j) /\ RowExists(j) /\ ~Open(j)}

\* The inductive invariant.
SettledAreProcessed ==
    faults["crash"] = 0 =>
        IsFiniteSet(Settled) /\ Cardinality(Settled) <= AllProcessed + Interruptions

\* Slot s ends its call, or is about to reject.
Closes(s) == slots[s].pc \notin {"idle", "throw"} /\ slots'[s].pc \in {"idle", "throw"}

\* A job is settled by the slot that closes its call.
LEMMA OnlyClosingSettles ==
    ASSUME TypeOK, NoRowIsVoid, OnlySubmitted, [Next]_vars, NEW j \in JobIds,
           j \in Settled', j \notin Settled
    PROVE  \E s \in Slots : Closes(s) /\ slots[s].job = j /\ RowExists(j)
<1>0. SlotsTypeOK /\ SlotsTypeOK'
  BY StepType DEF TypeOK
<1>1. Executed(j)' /\ RowExists(j)' /\ ~Open(j)'
  BY DEF Settled
<1>2. Executed(j)
  <2>1. ASSUME Begins(j)
        PROVE  FALSE
    <3>1. PICK s \in Slots : slots[s].pc = "idle" /\ slots'[s].pc # "idle" /\ slots'[s].job = j
      BY <2>1 DEF Begins
    <3>2. slots'[s].pc # "throw"
      BY <3>1, StepMoves DEF SlotMove
    <3> QED BY <1>1, <3>1, <3>2 DEF Open
  <2> QED BY <1>1, <2>1, OnlyCallsExecute
<1>3. RowExists(j)
  <2>1. CASE jobs[j].status \in {"COMPLETED", "FAILED"}
    BY <2>1 DEF RowExists, NoRowStatus
  <2>2. CASE Mentioned(j)
    BY <1>1, <2>2, KnownRowWasThere
  <2> QED BY <1>2, <2>1, <2>2 DEF Executed, Mentioned
<1>4. PICK s \in Slots : slots[s].job = j /\ slots[s].pc # "throw"
  BY <1>2, <1>3 DEF Settled, Open
<1>5. slots[s].pc # "idle"
  BY <1>0, <1>4, NoJobAssumption DEF SlotsTypeOK
<1>6. slots'[s].pc \in {"idle", "throw"}
  BY <1>1, <1>4, <1>5, StepMoves DEF SlotMove, Open
<1> QED BY <1>3, <1>4, <1>5, <1>6 DEF Closes

\* What a step costs: nothing, or one fault.
LEMMA FaultsMove ==
    ASSUME TypeOK, [Next]_vars
    PROVE  UNCHANGED faults \/ \E k \in FaultKinds : Spend(k)
<1>0. DbErrors \cup {"crash", "lockLoss", "overrun", "clean"} \subseteq FaultKinds
  BY DEF DbErrors, FaultKinds
<1>1. CASE WorkerNext
  <2>1. ASSUME NEW s \in Slots, SlotStep(s)
        PROVE  UNCHANGED faults
    BY <2>1 DEF SlotStep, Claim, ClaimMisses, HandlerSucceeds, HandlerFails, Complete, CompleteMisses,
                CancelSeen, CancelNotSeen, FailRead, FailWrite, Retry, GiveUp, RowMissing, BackoffEnds,
                Return, Reject
  <2>2. ASSUME WorkerFault
        PROVE  \E k \in FaultKinds : Spend(k)
    BY <1>0, <2>2 DEF WorkerFault, CompleteErrs, DbErrs, CrashWorker, HeldLockExpires
  <2> QED BY <1>1, <2>1, <2>2 DEF WorkerNext, LockStep, OrphanedLockExpires, EntryStalls, Take
<1>2. CASE MonitorNext
  <2>1. ASSUME NEW m \in Sweeps, NEW j \in JobIds, Reset(m, j)
        PROVE  UNCHANGED faults \/ \E k \in FaultKinds : Spend(k)
    BY <1>0, <2>1 DEF Reset
  <2>2. ASSUME MonitorFault
        PROVE  \E k \in FaultKinds : Spend(k)
    BY <1>0, <2>2 DEF MonitorFault, QueryErrs, JobErrs, CrashMonitor
  <2> QED BY <1>2, <2>1, <2>2
          DEF MonitorNext, SweepStep, StartSweep, FindPending, GetFailed, EndSweep, ReEnqueue,
              ReconcileRead, ReconcileGone, ReconcileWrite, RetryFailed, Reconcile, SkipReconcile, Cleanup
<1>3. CASE ApiNext
  BY <1>0, <1>3 DEF ApiNext, ApiFault, Create, Enqueue, Cancel, RemoveCancelled, EnqueueErrs, RemoveErrs,
                    CrashApi
<1>4. CASE DebugNext
  BY <1>0, <1>4 DEF DebugNext, CleanQueue, CleanTable
<1> QED BY <1>1, <1>2, <1>3, <1>4 DEF Next, Tick, vars

\* A fault is never forgotten.
LEMMA FaultsAdd ==
    ASSUME TypeOK, [Next]_vars
    PROVE  /\ Interruptions \in Nat /\ Interruptions' \in Nat
           /\ Interruptions <= Interruptions'
           /\ \A k \in DbErrors : Spend(k) => Interruptions' = Interruptions + 1
           /\ faults'["crash"] = 0 => faults["crash"] = 0 /\ ~Spend("crash")
<1>1. faults \in [FaultKinds -> Nat]
  BY DEF TypeOK, FaultsTypeOK
<1>2. ASSUME NEW k \in FaultKinds, Spend(k)
      PROVE  faults' = [faults EXCEPT ![k] = @ + 1]
  BY <1>2 DEF Spend
<1>3. {"transient", "permanent", "crash"} \subseteq FaultKinds
  BY DEF FaultKinds
<1>4. Interruptions \in Nat
  BY <1>1, <1>3 DEF Interruptions
<1>5. ASSUME NEW k \in FaultKinds, Spend(k)
      PROVE  /\ Interruptions' = IF k \in {"transient", "permanent", "crash"} THEN Interruptions + 1
                                                                            ELSE Interruptions
             /\ faults["crash"] <= faults'["crash"]
             /\ k = "crash" => faults'["crash"] # 0
  BY <1>1, <1>2, <1>3, <1>5 DEF Interruptions
<1>6. CASE UNCHANGED faults
  BY <1>1, <1>3, <1>4, <1>5, <1>6 DEF Interruptions, DbErrors, Spend
<1>7. ASSUME NEW k \in FaultKinds, Spend(k)
      PROVE  Interruptions' \in Nat /\ Interruptions <= Interruptions'
  BY <1>4, <1>5, <1>7
<1>8. faults'["crash"] = 0 => faults["crash"] = 0 /\ ~Spend("crash")
  <2>1. faults["crash"] \in Nat
    BY <1>1, <1>3
  <2> QED BY <1>1, <1>3, <1>5, <2>1, FaultsMove DEF Spend
<1>9. \A k \in DbErrors : Spend(k) => Interruptions' = Interruptions + 1
  BY <1>3, <1>5 DEF DbErrors
<1>10. Interruptions' \in Nat /\ Interruptions <= Interruptions'
  <2>1. UNCHANGED faults => Interruptions' = Interruptions
    BY DEF Interruptions
  <2> QED BY <1>4, <1>7, <2>1, FaultsMove
<1> QED BY <1>4, <1>8, <1>9, <1>10

\* The calls that each worker has counted as processed.
ProcessedOf == [w \in Workers |-> counters[w].processed]

\* One call more of one worker is one more in the sum.
LEMMA OneCallMore ==
    ASSUME IsFiniteSet(Workers), NEW v \in Workers,
           \A w \in Workers : /\ ProcessedOf[w] \in Int
                              /\ ProcessedOf'[w] = IF w = v THEN ProcessedOf[w] + 1 ELSE ProcessedOf[w]
    PROVE  Total(ProcessedOf', Workers) = Total(ProcessedOf, Workers) + 1
<1>1. \A f, h : (\A w \in Workers : f[w] \in Int /\ h[w] = IF w = v THEN f[w] + 1 ELSE f[w])
                => Total(h, Workers) = Total(f, Workers) + 1
  <2> TAKE f, h
  <2> HAVE \A w \in Workers : f[w] \in Int /\ h[w] = IF w = v THEN f[w] + 1 ELSE f[w]
  <2> QED BY TotalDiffers
<1> QED BY <1>1

\* A call that resolves is counted.
LEMMA ReturnsAreCounted ==
    ASSUME IsFiniteSet(Workers), StatsInv, NEW s \in Slots, CountReturn(s)
    PROVE  AllProcessed' = AllProcessed + 1
<1>0. counters \in [Workers -> StatsCounts] /\ s[1] \in Workers
  BY DEF StatsInv, StatsTypeOK, Slots
<1> DEFINE c == counters[s[1]]
           l == Left(c)
           d == [l EXCEPT !.processed = @ + 1]
<1>1. c \in StatsCounts /\ counters' = [counters EXCEPT ![s[1]] = d]
  BY <1>0 DEF CountReturn, Count
<1>2. l \in StatsCounts /\ l.processed = c.processed
  <2>1. l \in StatsCounts
    BY <1>1, EnterLeave
  <2>2. l.processed = c.processed
    BY <1>1 DEF Left, StatsCounts
  <2> QED BY <2>1, <2>2
<1> HIDE DEF c, l
<1>3. d.processed = c.processed + 1
  BY <1>2 DEF StatsCounts
<1> HIDE DEF d
<1>4. \A w \in Workers : counters'[w] = IF w = s[1] THEN d ELSE counters[w]
  BY <1>0, <1>1
<1>5. \A w \in Workers : /\ ProcessedOf[w] \in Int
                         /\ ProcessedOf'[w] = IF w = s[1] THEN ProcessedOf[w] + 1 ELSE ProcessedOf[w]
  <2>1. \A w \in Workers : counters[w].processed \in Nat
    BY <1>0 DEF StatsCounts
  <2> QED BY <1>3, <1>4, <2>1 DEF ProcessedOf, c
<1>6. Total(ProcessedOf', Workers) = Total(ProcessedOf, Workers) + 1
  BY <1>0, <1>5, OneCallMore
<1> QED BY <1>6 DEF ProcessedOf, AllProcessed

\* No other step takes a call back, unless a worker restarts.
LEMMA ProcessedGrows ==
    ASSUME IsFiniteSet(Workers), StatsInv, [StatsNext]_<<vars, stats_vars>>, faults'["crash"] = 0
    PROVE  AllProcessed \in Nat /\ AllProcessed' \in {AllProcessed, AllProcessed + 1}
<1>0. counters \in [Workers -> StatsCounts] /\ \A s \in Slots : s[1] \in Workers
  BY DEF StatsInv, StatsTypeOK, Slots
<1>1. AllProcessed \in Nat
  <2>1. \A w \in Workers : ProcessedOf[w] \in Nat
    BY <1>0 DEF ProcessedOf, StatsCounts
  <2> QED BY <2>1, TotalOfNats DEF ProcessedOf, AllProcessed
<1>2. ASSUME NEW w \in Workers, CountCrash(w)
      PROVE  FALSE
  BY <1>2, StatsStepIsStep, FaultsAdd DEF CountCrash, CrashWorker, StatsInv
<1>3. ASSUME NEW s \in Slots, NEW c, c.processed = counters[s[1]].processed, Count(s[1], c)
      PROVE  AllProcessed' = AllProcessed
  <2>1. \A w \in Workers : counters'[w] = IF w = s[1] THEN c ELSE counters[w]
    BY <1>0, <1>3 DEF Count
  <2>2. ProcessedOf' = ProcessedOf
    BY <1>3, <2>1 DEF ProcessedOf
  <2> QED BY <2>2 DEF ProcessedOf, AllProcessed
<1>4. ASSUME NEW s \in Slots, CountReject(s) \/ \E j \in JobIds : CountTake(s, j)
      PROVE  AllProcessed' = AllProcessed
  <2> DEFINE c == counters[s[1]]
             l == Left(c)
             d == [l EXCEPT !.failed = @ + 1]
  <2>1. c \in StatsCounts /\ l \in StatsCounts
    BY <1>0, EnterLeave
  <2>2. l.processed = c.processed /\ Entered(c).processed = c.processed
    BY <2>1 DEF Left, Entered, StatsCounts
  <2>3. d.processed = c.processed
    <3> HIDE DEF c, l
    <3> QED BY <2>1, <2>2 DEF StatsCounts
  <2>4. Count(s[1], d) \/ Count(s[1], Entered(c))
    BY <1>4 DEF CountReject, CountTake
  <2> HIDE DEF c, l, d
  <2> QED BY <1>3, <2>2, <2>3, <2>4 DEF c
<1>5. CASE UNCHANGED counters
  BY <1>1, <1>5 DEF AllProcessed
<1>6. ASSUME NEW s \in Slots, CountReturn(s)
      PROVE  AllProcessed' = AllProcessed + 1
  BY <1>6, ReturnsAreCounted
<1>7. CASE ProcessStep
  BY <1>1, <1>2, <1>4, <1>6, <1>7 DEF ProcessStep
<1>8. \/ UNCHANGED counters
      \/ ProcessStep
  BY DEF StatsNext, ServiceStep, stats_vars, Publish, Expire, CleanScan, CleanDelete
<1> QED BY <1>1, <1>5, <1>7, <1>8

\* A call of a job with a row is closed by its resolution, which is counted, or by an
\* error of the database.
LEMMA ClosingCounts ==
    ASSUME IsFiniteSet(Workers), StatsInv, [StatsNext]_<<vars, stats_vars>>, faults'["crash"] = 0,
           NEW s \in Slots, Closes(s), RowExists(slots[s].job)
    PROVE  /\ \A t \in Slots \ {s} : slots'[t] = slots[t]
           /\ AllProcessed' = AllProcessed + 1 \/ Interruptions' = Interruptions + 1
<1>0. SlotsTypeOK /\ TypeOK /\ [Next]_vars
  BY StatsStepIsStep DEF StatsInv, TypeOK
<1>1. ASSUME NEW t \in Slots, NEW row, slots' = [slots EXCEPT ![t] = row]
      PROVE  t = s /\ \A u \in Slots \ {s} : slots'[u] = slots[u]
  BY <1>0, <1>1 DEF Closes, SlotsTypeOK
<1>2. ASSUME NEW t \in Slots, CountReturn(t)
      PROVE  /\ \A u \in Slots \ {s} : slots'[u] = slots[u]
             /\ AllProcessed' = AllProcessed + 1
  BY <1>1, <1>2, ReturnsAreCounted DEF CountReturn, Return
<1>3. ASSUME NEW t \in Slots, CountReject(t) \/ \E j \in JobIds : CountTake(t, j)
      PROVE  FALSE
  <2>1. CASE CountReject(t)
    BY <1>1, <2>1 DEF CountReject, Reject, Closes
  <2>2. CASE \E j \in JobIds : CountTake(t, j)
    BY <1>1, <2>2 DEF CountTake, Take, Closes
  <2> QED BY <1>3, <2>1, <2>2
<1>4. ASSUME NEW w \in Workers, CountCrash(w)
      PROVE  FALSE
  BY <1>0, <1>4, FaultsAdd DEF CountCrash, CrashWorker
<1>5. CASE UNCHANGED slots
  BY <1>5 DEF Closes
<1>6. ASSUME NEW t \in Slots, Next, \A u \in Slots : slots[u].pc = "idle" <=> slots'[u].pc = "idle", DbErrs(t)
      PROVE  /\ \A u \in Slots \ {s} : slots'[u] = slots[u]
             /\ Interruptions' = Interruptions + 1
  BY <1>0, <1>1, <1>6, FaultsAdd DEF DbErrs, Throw, Resume
<1>7. CASE ServiceStep
  <2>1. slots'[s].pc = "throw" /\ slots[s].pc # "throw" /\ \A u \in Slots : slots[u].pc = "idle" <=> slots'[u].pc = "idle"
    BY <1>7 DEF ServiceStep, Closes
  <2>2. ASSUME NEW t \in Slots, NEW from, NEW to, Goto(t, from, to), to # "throw"
        PROVE  FALSE
    <3>1. t = s
      BY <1>1, <2>2 DEF Goto, Resume
    <3> QED BY <1>0, <2>1, <2>2, <3>1, GotoFields
  <2>3. ASSUME NEW t \in Slots, SlotStep(t) \/ CompleteErrs(t)
        PROVE  FALSE
    <3>1. ~FailRead(t)
      <4>1. ASSUME FailRead(t)
            PROVE  t = s /\ slots'[s].pc = "failWrite"
        BY <1>0, <1>1, <4>1, ResumeFields DEF FailRead, Resume
      <4> QED BY <2>1, <4>1
    <3>2. ~RowMissing(t)
      BY <1>1 DEF RowMissing, Throw, Resume
    <3>3. ~Return(t) /\ ~Reject(t)
      <4>1. IdleSlot.pc = "idle"
        BY DEF IdleSlot
      <4> QED BY <1>0, <1>1, <2>1, <4>1 DEF Return, Reject, SlotsTypeOK
    <3> QED BY <2>2, <2>3, <3>1, <3>2, <3>3
            DEF SlotStep, Claim, ClaimMisses, HandlerSucceeds, HandlerFails, Complete, CompleteMisses,
                CancelSeen, CancelNotSeen, FailWrite, Retry, GiveUp, BackoffEnds, CompleteErrs
  <2>4. ASSUME NEW t \in Slots, NEW j \in JobIds, Take(t, j)
        PROVE  FALSE
    BY <1>1, <2>4 DEF Take, Closes
  <2>5. ASSUME NEW w \in Workers, CrashWorker(w)
        PROVE  FALSE
    BY <1>0, <2>5, FaultsAdd DEF CrashWorker
  <2>6. CASE WorkerNext
    BY <1>5, <1>6, <1>7, <2>1, <2>3, <2>4, <2>5, <2>6
       DEF WorkerNext, WorkerFault, LockStep, OrphanedLockExpires, EntryStalls, HeldLockExpires, ServiceStep
  <2>7. CASE MonitorNext
    BY <1>0, <1>5, <2>7, MonitorNextMoves
  <2> QED BY <1>5, <1>7, <2>6, <2>7 DEF ServiceStep, Next, Tick
<1> QED BY <1>2, <1>3, <1>4, <1>5, <1>7
        DEF StatsNext, ProcessStep, stats_vars, vars, Publish, Expire, CleanScan, CleanDelete

LEMMA SettledStep ==
    ASSUME IsFiniteSet(Workers), StatsInv, NoRowIsVoid, OnlySubmitted, SettledAreProcessed,
           [StatsNext]_<<vars, stats_vars>>
    PROVE  SettledAreProcessed'
<1> SUFFICES ASSUME faults'["crash"] = 0
             PROVE  IsFiniteSet(Settled') /\ Cardinality(Settled') <= AllProcessed' + Interruptions'
  BY DEF SettledAreProcessed
<1>1. TypeOK /\ [Next]_vars
  BY StatsStepIsStep DEF StatsInv
<1>2. /\ IsFiniteSet(Settled) /\ Cardinality(Settled) <= AllProcessed + Interruptions
      /\ Cardinality(Settled) \in Nat
  BY <1>1, FaultsAdd, FS_CardinalityType DEF SettledAreProcessed
<1>3. /\ AllProcessed \in Nat /\ AllProcessed' \in {AllProcessed, AllProcessed + 1}
      /\ Interruptions \in Nat /\ Interruptions' \in Nat /\ Interruptions <= Interruptions'
  BY <1>1, ProcessedGrows, FaultsAdd
<1>4. CASE Settled' \subseteq Settled
  <2>1. IsFiniteSet(Settled') /\ Cardinality(Settled') <= Cardinality(Settled)
    BY <1>2, <1>4, FS_Subset
  <2>2. Cardinality(Settled') \in Nat
    BY <2>1, FS_CardinalityType
  <2> QED BY <1>2, <1>3, <2>1, <2>2
<1>5. ASSUME NEW j \in Settled', j \notin Settled
      PROVE  IsFiniteSet(Settled') /\ Cardinality(Settled') <= AllProcessed' + Interruptions'
  <2>1. j \in JobIds
    BY <1>5 DEF Settled
  <2>2. PICK s \in Slots : Closes(s) /\ slots[s].job = j /\ RowExists(j)
    BY <1>1, <1>5, <2>1, OnlyClosingSettles
  <2>3. /\ \A t \in Slots \ {s} : slots'[t] = slots[t]
        /\ AllProcessed' = AllProcessed + 1 \/ Interruptions' = Interruptions + 1
    BY <2>2, ClosingCounts
  <2> DEFINE E == Settled \cup {j}
  <2>4. Settled' \subseteq E
    <3> SUFFICES ASSUME NEW i \in Settled', i \notin Settled
                 PROVE  i = j
      OBVIOUS
    <3>1. i \in JobIds
      BY DEF Settled
    <3>2. PICK t \in Slots : Closes(t) /\ slots[t].job = i
      BY <1>1, <3>1, OnlyClosingSettles
    <3>3. t = s
      BY <2>3, <3>2 DEF Closes
    <3> QED BY <2>2, <3>2, <3>3
  <2>5. IsFiniteSet(E) /\ Cardinality(E) = Cardinality(Settled) + 1
    BY <1>2, <1>5, FS_AddElement
  <2> HIDE DEF E
  <2>6. IsFiniteSet(Settled') /\ Cardinality(Settled') <= Cardinality(E)
    BY <2>4, <2>5, FS_Subset
  <2>7. Cardinality(Settled') \in Nat
    BY <2>6, FS_CardinalityType
  <2> QED BY <1>2, <1>3, <2>3, <2>5, <2>6, <2>7
<1> QED BY <1>4, <1>5

LEMMA SettledInit ==
    ASSUME IsFiniteSet(Workers), Init, StatsInit
    PROVE  SettledAreProcessed
<1>1. Settled = {}
  BY DEF Init, JobsInit, NoRow, RowExists, NoRowStatus, Settled
<1>2. IsFiniteSet(Settled) /\ Cardinality(Settled) = 0
  BY <1>1, FS_EmptySet
<1>3. AllProcessed \in Nat
  <2>1. \A w \in Workers : ProcessedOf[w] \in Nat
    BY DEF StatsInit, Zero, ProcessedOf
  <2> QED BY <2>1, TotalOfNats DEF ProcessedOf, AllProcessed
<1>4. Interruptions = 0
  BY DEF Init, FaultsInit, FaultKinds, Interruptions
<1> QED BY <1>2, <1>3, <1>4 DEF SettledAreProcessed

\* The busy slots are as many as the workers count calls in progress.
LEMMA BusyAreCounted ==
    ASSUME IsFiniteSet(Workers), ActiveIsInFlight
    PROVE  /\ IsFiniteSet(Busy)
           /\ AllActive = Cardinality(Busy)
<1>1. IsFiniteSet(Slots)
  <2>1. IsFiniteSet(1 .. Concurrency)
    BY ConcurrencyAssumption, FS_Interval
  <2> QED BY <2>1, FS_Product DEF Slots
<1>2. IsFiniteSet(Busy)
  BY <1>1, FS_Subset DEF Busy
<1> DEFINE A == [w \in Workers |-> InFlight(w)]
           f == [w \in Workers |-> counters[w].active]
<1>3. /\ A \in [Workers -> SUBSET Busy]
      /\ \A v, w \in Workers : v # w => A[v] \cap A[w] = {}
      /\ \A w \in Workers : f[w] = Cardinality(A[w])
      /\ Busy = {s \in Busy : \E w \in Workers : s \in A[w]}
  BY DEF InFlight, Busy, ActiveIsInFlight, Slots
<1> HIDE DEF A, f
<1>4. Total(f, Workers) = Cardinality(Busy)
  BY <1>2, <1>3, TotalOfParts
<1> QED BY <1>2, <1>4 DEF f, AllActive

\* However many workers and jobs there are, and whoever wrote the status, no job that
\* ended escapes worker_processed_jobs_total, unless a database call rejected or a
\* worker restarted; a FAILED job is in it as well.
THEOREM FinishedAlwaysProcessed ==
    ASSUME IsFiniteSet(Workers)
    PROVE  StatsSpec => []FinishedAreProcessed
<1>1. Init /\ StatsInit => SettledAreProcessed /\ OnlySubmitted
  BY SettledInit, OnlySubmittedInit
<1>2. StatsInv /\ NoRowIsVoid /\ OnlySubmitted /\ SettledAreProcessed /\ [StatsNext]_<<vars, stats_vars>>
        => OnlySubmitted' /\ SettledAreProcessed'
  BY SettledStep, StatsStepIsStep, OnlySubmittedStep DEF StatsInv
<1>3. StatsInv /\ SettledAreProcessed => FinishedAreProcessed
  <2> SUFFICES ASSUME StatsInv, SettledAreProcessed, faults["crash"] = 0
               PROVE  Cardinality({j \in JobIds : jobs[j].status \in {"COMPLETED", "FAILED"}})
                         <= AllActive + AllProcessed + Interruptions
    BY DEF FinishedAreProcessed
  <2> DEFINE F == {j \in JobIds : jobs[j].status \in {"COMPLETED", "FAILED"}}
             R == {slots[s].job : s \in Busy}
             jobOf == [s \in Busy |-> slots[s].job]
  <2>1. IsFiniteSet(Busy) /\ AllActive = Cardinality(Busy)
    BY BusyAreCounted DEF StatsInv
  <2>2. IsFiniteSet(R) /\ Cardinality(R) <= Cardinality(Busy)
    <3>1. jobOf \in Surjection(Busy, R)
      BY DEF Surjection
    <3> HIDE DEF R, jobOf
    <3> QED BY <2>1, <3>1, FS_Surjection
  <2>3. F \subseteq Settled \cup R
    <3> SUFFICES ASSUME NEW j \in F, j \notin R
                 PROVE  j \in Settled
      OBVIOUS
    <3>1. j \in JobIds /\ Executed(j) /\ RowExists(j)
      BY DEF Executed, RowExists, NoRowStatus
    <3>2. ~Open(j)
      BY <3>1, NoJobAssumption DEF Open, Busy, StatsInv, TypeOK, SlotsTypeOK
    <3> QED BY <3>1, <3>2 DEF Settled
  <2>4. IsFiniteSet(Settled) /\ Cardinality(Settled) <= AllProcessed + Interruptions
    BY DEF SettledAreProcessed
  <2> HIDE DEF F, R
  <2>5. /\ IsFiniteSet(Settled \cup R) /\ Cardinality(Settled \cap R) \in Nat
        /\ Cardinality(Settled \cup R) = Cardinality(Settled) + Cardinality(R) - Cardinality(Settled \cap R)
    <3>1. IsFiniteSet(Settled \cap R)
      BY <2>2, FS_Subset
    <3> QED BY <2>2, <2>4, <3>1, FS_Union, FS_CardinalityType
  <2>6. IsFiniteSet(F) /\ Cardinality(F) <= Cardinality(Settled \cup R)
    BY <2>3, <2>5, FS_Subset
  <2>7. /\ Cardinality(F) \in Nat /\ Cardinality(Settled) \in Nat /\ Cardinality(R) \in Nat
        /\ Cardinality(Busy) \in Nat
    BY <2>1, <2>2, <2>4, <2>6, FS_CardinalityType
  <2>8. AllProcessed \in Nat /\ Interruptions \in Nat
    <3>1. \A w \in Workers : ProcessedOf[w] \in Nat
      BY DEF StatsInv, StatsTypeOK, StatsCounts, ProcessedOf
    <3>2. AllProcessed \in Nat
      BY <3>1, TotalOfNats DEF ProcessedOf, AllProcessed
    <3>3. Interruptions \in Nat
      BY DEF StatsInv, TypeOK, FaultsTypeOK, FaultKinds, Interruptions
    <3> QED BY <3>2, <3>3
  <2>9. Cardinality(F) <= AllActive + AllProcessed + Interruptions
    BY <2>1, <2>2, <2>4, <2>5, <2>6, <2>7, <2>8
  <2> QED BY <2>9 DEF F
<1>4. StatsSpec => []NoRowIsVoid
  BY StatsKeepService, NoRowAlwaysVoid, PTL
<1> QED BY <1>1, <1>2, <1>3, <1>4, StatsInvariant, PTL DEF StatsSpec
=============================================================================
