------------------------------ MODULE JobMetrics ------------------------------
(***************************************************************************)
(* GET /metrics/jobs: getJobMetrics counts the rows with three queries at  *)
(* three moments.  Like RunTest it is modelled against JobLifecycle.       *)
(***************************************************************************)
EXTENDS JobLifecycle, Totals

CONSTANT Class          \* the class of each job

ASSUME ClassAssumption == Class \in [JobIds -> STRING]

VARIABLE metrics        \* which query comes next, and the answers so far

JobStatus == {"PENDING", "PROCESSING", "COMPLETED", "FAILED", "CANCELLED"}
Classes == {Class[j] : j \in JobIds}

NoCounts == [s \in JobStatus |-> 0]
NoMetrics == [pc |-> "total", total |-> 0, byStatus |-> NoCounts,
              byClass |-> [c \in Classes |-> NoCounts]]

MetricsTypeOK ==
    metrics \in [pc : {"total", "status", "class", "answered"}, total : Nat,
                byStatus : [JobStatus -> Nat], byClass : [Classes -> [JobStatus -> Nat]]]

MetricsInit == metrics = NoMetrics

Rows == {j \in JobIds : Exists(j)}

\* GROUP BY status, of the rows S; a status without rows is not in the answer.
CountByStatus(S) == [s \in JobStatus |-> Cardinality({j \in S : status[j] = s})]

-----------------------------------------------------------------------------
\* jobRepository.count()
CountTotal ==
    /\ metrics.pc = "total"
    /\ metrics' = [NoMetrics EXCEPT !.pc = "status", !.total = Cardinality(Rows)]
    /\ UNCHANGED lifecycle_vars

\* statusCounts
CountStatuses ==
    /\ metrics.pc = "status"
    /\ metrics' = [metrics EXCEPT !.pc = "class", !.byStatus = CountByStatus(Rows)]
    /\ UNCHANGED lifecycle_vars

\* Mutant: the total is counted last.
CountClasses_TotalLast ==
    /\ metrics.pc = "class"
    /\ metrics' = [metrics EXCEPT !.pc = "answered", !.total = Cardinality(Rows),
                      !.byClass = [c \in Classes |-> CountByStatus({j \in Rows : Class[j] = c})]]
    /\ UNCHANGED lifecycle_vars

\* classCounts, and the response.
CountClasses ==
    /\ metrics.pc = "class"
    /\ metrics' = [metrics EXCEPT !.pc = "answered",
                      !.byClass = [c \in Classes |-> CountByStatus({j \in Rows : Class[j] = c})]]
    /\ UNCHANGED lifecycle_vars

\* A query rejects: the response is all zeros.
CountFails ==
    /\ metrics.pc \in {"total", "status", "class"}
    /\ metrics' = [NoMetrics EXCEPT !.pc = "answered"]
    /\ UNCHANGED lifecycle_vars

\* The next request.
AskAgain ==
    /\ metrics.pc = "answered"
    /\ metrics' = NoMetrics
    /\ UNCHANGED lifecycle_vars

MetricsNext == CountTotal \/ CountStatuses \/ CountClasses \/ CountFails \/ AskAgain

-----------------------------------------------------------------------------
\* A figure of the second and of the third query, for the statuses S.
ByStatus(S) == Total(metrics.byStatus, S)
ByClass(S) == Total([c \in Classes |-> Total(metrics.byClass[c], S)], Classes)

Deleted == Cardinality({j \in JobIds : status[j] = "DELETED"})

\* The figures of a response are of three moments, but they are off in one direction
\* only: a later one lacks at most the rows deleted meanwhile, in the sum and among
\* the jobs that have ended.
FiguresFitTogether ==
    metrics.pc = "answered" =>
        /\ metrics.total <= ByStatus(JobStatus) + Deleted
        /\ \A S \in {JobStatus, {"COMPLETED", "FAILED", "CANCELLED"}, {"FAILED"}} :
              ByStatus(S) <= ByClass(S) + Deleted
=============================================================================
