------------------------------ MODULE JobsTable ------------------------------
(***************************************************************************)
(* The PostgreSQL table "jobs": its rows, and the statements JobsService   *)
(* sends to it.  A statement is atomic; a method that sends several is     *)
(* several actions of the modules that extend this one.                    *)
(*                                                                         *)
(* A timestamp column is kept as its age: none (NULL), fresh, or stale     *)
(* (older than the limit the column is compared with: jobTimeoutMinutes,   *)
(* maxQueueWaitMinutes or a TTL).  The columns class, type, payload,       *)
(* metadata, result and error decide no branch and are left out.           *)
(***************************************************************************)
EXTENDS Environment

CONSTANTS
    MaxAttempts,    \* maxAttempts, which every insert leaves at its default
    Ageing          \* the timestamp columns that grow stale in an instance

Columns == {"createdAt", "processingStartedAt", "finishedAt", "cancelledAt"}

ASSUME MaxAttemptsAssumption == MaxAttempts \in Nat \ {0}
ASSUME AgeingAssumption == Ageing \subseteq Columns

VARIABLE jobs       \* the table, as a function of the primary key

Live == {"PENDING", "PROCESSING"}
Finished == {"COMPLETED", "FAILED", "CANCELLED"}
JobStatus == Live \cup Finished

\* ABSENT: the key is not used yet.  DELETED: its row is gone.
NoRowStatus == {"ABSENT", "DELETED"}

Ages == {"none", "fresh", "stale"}

Job == [status : JobStatus \cup NoRowStatus, attempts : Nat, at : [Columns -> Ages]]

JobsTypeOK == jobs \in [JobIds -> Job]

\* Column c gets the age a: NOW() is fresh, NULL is none.
Stamp(times, c, a) == [times EXCEPT ![c] = a]

\* An UPDATE sets the status of a row and the timestamp that goes with it.
Move(row, status, c, a) == [row EXCEPT !.status = status, !.at = Stamp(row.at, c, a)]

NoTimes == [c \in Columns |-> "none"]
NoRow(status) == [status |-> status, attempts |-> 0, at |-> NoTimes]

JobsInit == jobs = [j \in JobIds |-> NoRow("ABSENT")]

RowExists(j) == jobs[j].status \notin NoRowStatus

-----------------------------------------------------------------------------
(* Statements.  "affected" of an UPDATE is its WHERE clause: a caller that *)
(* looks at it has one alternative for each outcome.                       *)

NewRow == [status |-> "PENDING", attempts |-> 0,
           at |-> Stamp(NoTimes, "createdAt", "fresh")]

\* INSERT of one row, or of all rows of a bulk request in one transaction.
InsertJobs(S) ==
    /\ \A j \in S : jobs[j].status = "ABSENT"
    /\ jobs' = [j \in JobIds |-> IF j \in S THEN NewRow ELSE jobs[j]]

\* Mutant: the claim forgets processingStartedAt.
ClaimJob_NoStartTime(j) ==
    /\ jobs[j].status = "PENDING"
    /\ jobs' = [jobs EXCEPT ![j].status = "PROCESSING"]

\* Mutant: the claim writes a status that the enum does not have.
ClaimJob_UnknownStatus(j) ==
    /\ jobs[j].status = "PENDING"
    /\ jobs' = [jobs EXCEPT ![j] = Move(@, "RUNNING", "processingStartedAt", "fresh")]

\* claimJob: PENDING -> PROCESSING.
ClaimJob(j) ==
    /\ jobs[j].status = "PENDING"
    /\ jobs' = [jobs EXCEPT ![j] = Move(@, "PROCESSING", "processingStartedAt", "fresh")]

\* Mutant: the completion is not conditional on PROCESSING.
CompleteJob_Unconditional(j) ==
    /\ RowExists(j)
    /\ jobs' = [jobs EXCEPT ![j] = Move(@, "COMPLETED", "finishedAt", "fresh")]

\* completeJob: PROCESSING -> COMPLETED.
CompleteJob(j) ==
    /\ jobs[j].status = "PROCESSING"
    /\ jobs' = [jobs EXCEPT ![j] = Move(@, "COMPLETED", "finishedAt", "fresh")]

\* The UPDATE of cancelJob: PENDING or PROCESSING -> CANCELLED.
CancelJob(j) ==
    /\ jobs[j].status \in Live
    /\ jobs' = [jobs EXCEPT ![j] = Move(@, "CANCELLED", "cancelledAt", "fresh")]

\* Mutant: the failure is final one attempt too late.
FailedRow_TooLate(row, newAttempts) ==
    IF newAttempts > MaxAttempts
    THEN Move([row EXCEPT !.attempts = newAttempts], "FAILED", "finishedAt", "fresh")
    ELSE [row EXCEPT !.attempts = newAttempts]

\* Mutant: the failure is final one attempt too early.
FailedRow_TooEarly(row, newAttempts) ==
    IF newAttempts + 1 >= MaxAttempts
    THEN Move([row EXCEPT !.attempts = newAttempts], "FAILED", "finishedAt", "fresh")
    ELSE [row EXCEPT !.attempts = newAttempts]

\* The row that the UPDATE of failJob leaves: attempts is overwritten with a
\* value computed from an earlier read, whatever the status is by now.
FailedRow(row, newAttempts) ==
    IF newAttempts >= MaxAttempts
    THEN Move([row EXCEPT !.attempts = newAttempts], "FAILED", "finishedAt", "fresh")
    ELSE [row EXCEPT !.attempts = newAttempts]

\* The UPDATE of failJob, by id only; no effect when the row is gone.
WriteFailure(j, newAttempts) ==
    jobs' = [jobs EXCEPT ![j] = IF RowExists(j) THEN FailedRow(@, newAttempts) ELSE @]

\* Mutant: the reset is not conditional on PROCESSING.
ResetJob_Unconditional(j) ==
    jobs' = [jobs EXCEPT ![j] = Move(@, "PENDING", "processingStartedAt", "none")]

\* The UPDATE of reEnqueueJob: PROCESSING -> PENDING.
ResetJob(j) ==
    jobs' = [jobs EXCEPT ![j] =
                IF @.status = "PROCESSING"
                THEN Move(@, "PENDING", "processingStartedAt", "none")
                ELSE @]

\* The SELECTs of findAbandonedProcessingJobs and findAbandonedPendingJobs.
AbandonedProcessingJobs ==
    {j \in JobIds : jobs[j].status = "PROCESSING" /\ jobs[j].at["processingStartedAt"] = "stale"}

\* Mutant: the second SELECT compares processingStartedAt.
AbandonedPendingJobs_WrongColumn ==
    {j \in JobIds : jobs[j].status = "PENDING" /\ jobs[j].at["processingStartedAt"] = "stale"}

AbandonedPendingJobs ==
    {j \in JobIds : jobs[j].status = "PENDING" /\ jobs[j].at["createdAt"] = "stale"}

\* The rows the DELETE of cleanupOldJobs matches.
OldJobs ==
    {j \in JobIds : \/ jobs[j].status \in {"COMPLETED", "FAILED"} /\ jobs[j].at["finishedAt"] = "stale"
                    \/ jobs[j].status = "CANCELLED" /\ jobs[j].at["cancelledAt"] = "stale"}

DeleteJobs(S) ==
    jobs' = [j \in JobIds |-> IF j \in S THEN NoRow("DELETED") ELSE jobs[j]]

-----------------------------------------------------------------------------
(* Time passes the limit of one column of one row. *)
Age(j, c) ==
    /\ c \in Ageing
    /\ jobs[j].at[c] = "fresh"
    /\ jobs' = [jobs EXCEPT ![j].at = Stamp(jobs[j].at, c, "stale")]
=============================================================================
