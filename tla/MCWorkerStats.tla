---------------------------- MODULE MCWorkerStats ----------------------------
(***************************************************************************)
(* The instance of WorkerStats for TLC.                                    *)
(***************************************************************************)
EXTENDS WorkerStats

AllFlaky == [j \in JobIds |-> "flaky"]

NoFaults ==
    [transient |-> 0, permanent |-> 0, crash |-> 0, lockLoss |-> 0, overrun |-> 0, clean |-> 0]

\* A failed call, so that process() can reject and the entry be retried, a restart,
\* under the old id or a new one, and a lost lock, so that two calls of one worker are
\* for one job.
StatsFaults == [NoFaults EXCEPT !.transient = 1, !.crash = 1, !.lockLoss = 1]
=============================================================================
