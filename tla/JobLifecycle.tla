----------------------------- MODULE JobLifecycle -----------------------------
(***************************************************************************)
(* What the service promises about a job whatever goes wrong: the statuses *)
(* a client can see one after the other, and how attempts decides FAILED.  *)
(* There are no queue, no workers and no sweeps here.  It is the state     *)
(* machine of JobStatus as the code implements it: wider than the diagram  *)
(* of docs/ARCHITECTURE.md, because a failure is recorded whatever the     *)
(* status has become since the execution failed.                           *)
(***************************************************************************)
EXTENDS Naturals

CONSTANTS JobIds, MaxAttempts

VARIABLES status, attempts
lifecycle_vars == <<status, attempts>>

Exists(j) == status[j] \notin {"ABSENT", "DELETED"}

Init ==
    /\ status = [j \in JobIds |-> "ABSENT"]
    /\ attempts = [j \in JobIds |-> 0]

\* A request submits the jobs S.
Submit(S) ==
    /\ \A j \in S : status[j] = "ABSENT"
    /\ status' = [j \in JobIds |-> IF j \in S THEN "PENDING" ELSE status[j]]
    /\ UNCHANGED attempts

\* Job j moves from a status of From to the status to.
Move(j, From, to) ==
    /\ status[j] \in From
    /\ status' = [status EXCEPT ![j] = to]
    /\ UNCHANGED attempts

Start(j) == Move(j, {"PENDING"}, "PROCESSING")
Complete(j) == Move(j, {"PROCESSING"}, "COMPLETED")
Cancel(j) == Move(j, {"PENDING", "PROCESSING"}, "CANCELLED")
Requeue(j) == Move(j, {"PROCESSING"}, "PENDING")

\* Some number of failures is recorded for j, which is FAILED when it is enough.
RecordFailure(j) ==
    /\ Exists(j)
    /\ attempts' = [attempts EXCEPT ![j] = attempts'[j]]
    /\ attempts'[j] \in Nat
    /\ status' = [status EXCEPT ![j] = IF attempts'[j] >= MaxAttempts THEN "FAILED" ELSE @]

\* The rows S are deleted, and their keys are never used again.
Delete(S) ==
    /\ \A j \in S : Exists(j)
    /\ status' = [j \in JobIds |-> IF j \in S THEN "DELETED" ELSE status[j]]
    /\ attempts' = [j \in JobIds |-> IF j \in S THEN 0 ELSE attempts[j]]

Next ==
    \/ \E S \in SUBSET JobIds : Submit(S) \/ Delete(S)
    \/ \E j \in JobIds :
          Start(j) \/ Complete(j) \/ Cancel(j) \/ Requeue(j) \/ RecordFailure(j)

Spec == Init /\ [][Next]_lifecycle_vars
=============================================================================
