------------------------------- MODULE Clients -------------------------------
(***************************************************************************)
(* The clients in the monitor that know a job by its row alone, run_test   *)
(* and getJobMetrics, together with the service as JobLifecycle describes  *)
(* it.  They have nothing to do with each other, so a behaviour has either *)
(* a test or a series of metrics requests, for jobs that others submit.    *)
(***************************************************************************)
EXTENDS RunTest, JobMetrics

VARIABLE client         \* which of the two there is

clients_vars == <<lifecycle_vars, test, past, metrics, client>>

\* Both clients keep their types; the poll of a test stays below the limit.
ClientsTypeOK == TestTypeOK /\ PastTypeOK /\ MetricsTypeOK /\ client \in {"run_test", "metrics"}

ClientsInit ==
    /\ Init /\ TestInit /\ MetricsInit
    /\ client \in {"run_test", "metrics"}

\* A step of the service, or another client cancels a job.
ServiceStep ==
    \/ \E j \in JobIds :
          \/ Start(j) \/ Complete(j) \/ Cancel(j) \/ Requeue(j)
          \/ \E n \in 0 .. MaxAttempts : attempts' = [attempts EXCEPT ![j] = n] /\ RecordFailure(j)
    \/ \E S \in SUBSET JobIds : S # {} /\ Delete(S)

\* Another client submits jobs.
OthersSubmit == \E S \in SUBSET (JobIds \ Range(TestIds)) : S # {} /\ Submit(S)

ClientsNext ==
    /\ UNCHANGED client
    /\ \/ ServiceStep /\ UNCHANGED <<test, metrics>>
       \/ client = "metrics" /\ OthersSubmit /\ UNCHANGED <<test, metrics>>
       \/ client = "metrics" /\ MetricsNext /\ UNCHANGED test
       \/ client = "run_test" /\ TestNext /\ UNCHANGED metrics
    /\ Remember

\* Timers fire and requests are answered; nothing is assumed of the service.
ClientsSpec ==
    /\ ClientsInit
    /\ [][ClientsNext]_clients_vars
    /\ WF_clients_vars(TestNext /\ Remember /\ test.pc # "idle" /\ UNCHANGED <<metrics, client>>)
=============================================================================
