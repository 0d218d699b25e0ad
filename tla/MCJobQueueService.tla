-------------------------- MODULE MCJobQueueService --------------------------
(***************************************************************************)
(* Instances of JobQueueService for TLC: the kinds of jobs and the fault   *)
(* budgets of the runs.                                                    *)
(***************************************************************************)
EXTENDS JobQueueService

\* Every job can be completed, and can fail.
AllFlaky == [j \in JobIds |-> "flaky"]

\* One job that no handler can execute.
OneUnknown == [AllFlaky EXCEPT ![CHOOSE j \in JobIds : TRUE] = "unknown"]

Budget(transient, permanent, crash, lockLoss, overrun, clean) ==
    [transient |-> transient, permanent |-> permanent, crash |-> crash,
     lockLoss |-> lockLoss, overrun |-> overrun, clean |-> clean]

NoFaults == Budget(0, 0, 0, 0, 0, 0)

\* locks_held: everything but a lost lock or an obliterated queue.
LocksHeldFaults == Budget(0, 1, 1, 0, 1, 0)

\* deletion: rows and entries disappear under workers and sweeps, and with a lost
\* lock two slots can work on one job.
DeletionFaults == Budget(0, 0, 0, 1, 1, 1)

\* recovery: failed calls and a crash that the sweeps can make up for.
RecoveryFaults == Budget(1, 0, 1, 0, 1, 0)

OverrunFaults == Budget(0, 0, 0, 0, 1, 0)
PermanentFaults == Budget(0, 1, 0, 0, 0, 0)
LockLossOnly == Budget(0, 0, 0, 1, 1, 0)

\* Two errors of different kinds, for two overlapping sweeps or for two jobs.
MixedErrors == Budget(1, 1, 0, 0, 0, 0)
=============================================================================
