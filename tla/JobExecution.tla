----------------------------- MODULE JobExecution -----------------------------
(***************************************************************************)
(* What the service promises about the executions of a job as long as no   *)
(* live worker loses a lock: JobLifecycle, together with who executes a    *)
(* job and how far he is.                                                  *)
(*                                                                         *)
(*   - A job has one executor at a time, and he begins by starting it.     *)
(*   - Every failure of the handler is counted, once, before the handler   *)
(*     runs again and before the executor leaves, unless he sees that the  *)
(*     job is cancelled or gone.                                           *)
(*   - The handler runs again only after a failure that has been counted   *)
(*     and was not the last one; the executor gives up only after the last.*)
(*   - After a success the executor leaves the job COMPLETED, unless it is *)
(*     not PROCESSING any more.                                            *)
(*                                                                         *)
(* Only an interruption, a failing call or a dying process, makes an       *)
(* exception: interruptions counts them, so that a behaviour in which it   *)
(* stays 0 has none.  There are no queue and no sweeps here.               *)
(***************************************************************************)
EXTENDS JobLifecycle

CONSTANTS Executors, NoExecutor

VARIABLES
    executor,       \* for each job who executes it, or NoExecutor
    phase,          \* how far he is
    interruptions   \* how many calls have failed and processes died
execution_vars == <<lifecycle_vars, executor, phase, interruptions>>

ExecutionInit ==
    /\ Init
    /\ executor = [j \in JobIds |-> NoExecutor]
    /\ phase = [j \in JobIds |-> "none"]
    /\ interruptions = 0

\* The executor of job j gets from one phase to another.
Reach(j, from, to) ==
    /\ phase[j] = from
    /\ phase' = [phase EXCEPT ![j] = to]
    /\ UNCHANGED executor

\* The jobs S lose their executors.
Leave(S) ==
    /\ \A j \in S : executor[j] # NoExecutor
    /\ executor' = [j \in JobIds |-> IF j \in S THEN NoExecutor ELSE executor[j]]
    /\ phase' = [j \in JobIds |-> IF j \in S THEN "none" ELSE phase[j]]

\* One more failure of job j is counted, if the job is still there.
CountOne(j) ==
    \/ RecordFailure(j) /\ attempts'[j] = attempts[j] + 1
    \/ ~Exists(j) /\ UNCHANGED lifecycle_vars

-----------------------------------------------------------------------------
\* x starts job j and runs its handler.
Begin(j, x) ==
    /\ executor[j] = NoExecutor
    /\ Start(j)
    /\ executor' = [executor EXCEPT ![j] = x]
    /\ phase' = [phase EXCEPT ![j] = "executing"]

\* The handler settles.
Settle(j) ==
    /\ Reach(j, "executing", "succeeded") \/ Reach(j, "executing", "failing")
    /\ UNCHANGED lifecycle_vars

\* The success is recorded.
Finish(j) ==
    /\ phase[j] = "succeeded"
    /\ \/ Complete(j)
       \/ status[j] # "PROCESSING" /\ UNCHANGED lifecycle_vars
    /\ Leave({j})

\* The failure is counted.
Count(j) == Reach(j, "failing", "counted") /\ CountOne(j)

\* The handler runs again.
Retry(j) ==
    /\ Reach(j, "counted", "executing")
    /\ Exists(j) /\ attempts[j] < MaxAttempts
    /\ UNCHANGED lifecycle_vars

\* After the last failure, or because of a client, the executor leaves.
Stop(j) ==
    /\ \/ phase[j] = "counted" /\ attempts[j] >= MaxAttempts
       \/ phase[j] = "failing" /\ status[j] = "CANCELLED"
       \/ phase[j] \in {"failing", "counted"} /\ ~Exists(j)
    /\ Leave({j})
    /\ UNCHANGED lifecycle_vars

\* Time, the monitor and the clients change the job, whoever executes it.
Others ==
    /\ \/ \E S \in SUBSET JobIds : Submit(S) \/ Delete(S)
       \/ \E j \in JobIds : Cancel(j) \/ Requeue(j)
    /\ UNCHANGED <<executor, phase>>

-----------------------------------------------------------------------------
(* Interruptions. *)

\* Executors leave, if the call or the process that fails is theirs.
BreakOff(S) == Leave(S) /\ UNCHANGED lifecycle_vars

\* The answer to a successful start is lost: job j is started and nobody's.
StartUnheard(j) == Start(j) /\ UNCHANGED <<executor, phase>>

\* ... to the count of a failure: the executor leaves.
CountUnheard(j) == phase[j] = "failing" /\ CountOne(j) /\ Leave({j})

\* The success cannot be recorded, or is and the answer is lost: it becomes a failure.
FinishUnheard(j) ==
    /\ Reach(j, "succeeded", "failing")
    /\ Complete(j) \/ UNCHANGED lifecycle_vars

Interruption ==
    \/ \E S \in SUBSET JobIds : BreakOff(S)
    \/ \E j \in JobIds : StartUnheard(j) \/ CountUnheard(j) \/ FinishUnheard(j)

ExecutionNext ==
    \/ /\ \/ \E j \in JobIds :
                \/ \E x \in Executors : Begin(j, x)
                \/ Settle(j) \/ Finish(j) \/ Count(j) \/ Retry(j) \/ Stop(j)
          \/ Others
       /\ UNCHANGED interruptions
    \/ Interruption /\ interruptions' = interruptions + 1

ExecutionSpec == ExecutionInit /\ [][ExecutionNext]_execution_vars
=============================================================================
