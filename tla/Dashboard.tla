------------------------------ MODULE Dashboard ------------------------------
(***************************************************************************)
(* The monitor UI, App.vue: one page that fetches the metrics endpoints of *)
(* the selected environment in rounds and can start a test there.  A round *)
(* (fetchAllMetrics) has one request for each endpoint, all sent at once   *)
(* to the environment selected at that moment, and answered in any order.  *)
(* Rounds overlap: the interval and a new selection wait for none.         *)
(*                                                                         *)
(* Every action is one event of the page: what follows it in microtasks    *)
(* (finally blocks, the code after an await) is part of it.  The selection *)
(* is kept in localStorage; otherwise a reload is a new start.  An         *)
(* environment's monitor answers every request while it is up.             *)
(***************************************************************************)
EXTENDS Naturals

CONSTANTS
    Endpoints,  \* /metrics/system, /metrics/jobs, /metrics/queue, /metrics/workers
    Envs,       \* the environments of the selection
    NoEnv,      \* nothing to show yet
    MaxRounds,  \* rounds of requests that overlap in an instance
    MaxTimers   \* timers of earlier tests that are pending in an instance

ASSUME NoEnvAssumption == NoEnv \notin Envs
ASSUME EndpointsAssumption == Endpoints # {}
ASSUME MaxRoundsAssumption == MaxRounds \in Nat \ {0}
ASSUME MaxTimersAssumption == MaxTimers \in Nat

VARIABLES
    environment,    \* the selected environment
    up,             \* the environments whose monitor can be reached
    rounds,         \* for each round its environment and its unanswered requests
    shown,          \* for each endpoint, whose figures the page shows
    loading, isConnected,
    runTest,        \* the await runTest stands before, and the environment or round it is for
    testRunning,
    testSuccess,    \* "null", "true" or "false"
    timers          \* pending timers that reset the verdict

test_vars == <<runTest, testRunning, testSuccess, timers>>
page_vars == <<environment, rounds, shown, loading, isConnected, test_vars>>
dash_vars == <<up, page_vars>>

Rounds == 1 .. MaxRounds
NoRound == [env |-> NoEnv, pending |-> {}]
NotRunning == [pc |-> "idle", env |-> NoEnv, round |-> 0]

DashTypeOK ==
    /\ environment \in Envs
    /\ up \subseteq Envs
    /\ rounds \in [Rounds -> [env : Envs \cup {NoEnv}, pending : SUBSET Endpoints]]
    /\ shown \in [Endpoints -> Envs \cup {NoEnv}]
    /\ loading \in BOOLEAN /\ isConnected \in BOOLEAN /\ testRunning \in BOOLEAN
    /\ runTest \in [pc : {"idle", "post", "refresh"}, env : Envs \cup {NoEnv}, round : 0 .. MaxRounds]
    /\ testSuccess \in {"null", "true", "false"}
    /\ timers \in 0 .. MaxTimers

Busy(r) == rounds[r].pending # {}

-----------------------------------------------------------------------------
\* Mutant: an environment without a port of its own gets the default port.
FetchAllMetrics_DefaultPort(r, e) ==
    /\ ~Busy(r)
    /\ rounds' = [rounds EXCEPT ![r] = [env |-> CHOOSE d \in Envs : TRUE, pending |-> Endpoints]]
    /\ loading' = TRUE

\* fetchAllMetrics, up to its await, as round r.
FetchAllMetrics(r, e) ==
    /\ ~Busy(r)
    /\ rounds' = [rounds EXCEPT ![r] = [env |-> e, pending |-> Endpoints]]
    /\ loading' = TRUE

\* onMounted
DashInit ==
    /\ environment \in Envs
    /\ up \in SUBSET Envs
    /\ rounds = [r \in Rounds |-> IF r = 1 THEN [env |-> environment, pending |-> Endpoints] ELSE NoRound]
    /\ shown = [p \in Endpoints |-> NoEnv]
    /\ loading = TRUE
    /\ isConnected = FALSE
    /\ runTest = NotRunning
    /\ testRunning = FALSE
    /\ testSuccess = "false"
    /\ timers = 0

\* The interval, or the button for a refresh, which is disabled while loading.
Refresh(r) ==
    /\ FetchAllMetrics(r, environment)
    /\ UNCHANGED <<up, environment, shown, isConnected, test_vars>>

\* Another environment is selected: the watcher fetches at once.
SelectEnv(r, e) ==
    /\ e # environment
    /\ environment' = e
    /\ FetchAllMetrics(r, e)
    /\ UNCHANGED <<up, shown, isConnected, test_vars>>

-----------------------------------------------------------------------------
\* Mutant: the try block sets a timer, and the finally block another one.
TestOver_TwoTimers ==
    /\ runTest' = NotRunning
    /\ testRunning' = FALSE
    /\ timers' = timers + 2

\* Mutant: the timer is forgotten.
TestOver_NoTimer ==
    /\ runTest' = NotRunning
    /\ testRunning' = FALSE
    /\ UNCHANGED timers

\* What follows a verdict's round, or its absence: the timer is set and the test over.
TestOver ==
    /\ runTest' = NotRunning
    /\ testRunning' = FALSE
    /\ timers' = timers + 1

\* Mutant: loading is not reset in a finally block.
LoadingAfter_NoFinally(r, p) ==
    IF rounds[r].pending = {p} /\ rounds[r].env \in up THEN FALSE ELSE loading

\* The last answer of any round stops the spinner.
LoadingAfter(r, p) == IF rounds[r].pending = {p} THEN FALSE ELSE loading

\* The answer to request p of round r is there.  The last one of a round ends its
\* Promise.all, which never rejects.
Answered(r, p) ==
    /\ p \in rounds[r].pending
    /\ rounds' = [rounds EXCEPT ![r] =
                     IF @.pending = {p} THEN NoRound ELSE [env |-> @.env, pending |-> @.pending \ {p}]]
    /\ loading' = LoadingAfter(r, p)
    /\ IF rounds[r].pending = {p} /\ runTest.pc = "refresh" /\ runTest.round = r
       THEN TestOver /\ UNCHANGED testSuccess
       ELSE UNCHANGED test_vars
    /\ UNCHANGED <<up, environment>>

\* fetchMetrics resolves.
MetricsArrive(r, p) ==
    /\ Answered(r, p)
    /\ rounds[r].env \in up
    /\ shown' = [shown EXCEPT ![p] = rounds[r].env]
    /\ isConnected' = TRUE

\* ... or its request rejects, which it catches: the old figures stay.
MetricsFail(r, p) ==
    /\ Answered(r, p)
    /\ rounds[r].env \notin up
    /\ isConnected' = FALSE
    /\ UNCHANGED shown

-----------------------------------------------------------------------------
\* The button, which is disabled while a test runs.
ClickRunTest ==
    /\ ~testRunning
    /\ timers < MaxTimers
    /\ testRunning' = TRUE
    /\ testSuccess' = "null"
    /\ runTest' = [NotRunning EXCEPT !.pc = "post", !.env = environment]
    /\ UNCHANGED <<up, environment, rounds, shown, loading, isConnected, timers>>

\* The monitor answers with its verdict, which is shown; then a round is awaited.
VerdictArrives(r) ==
    /\ runTest.pc = "post"
    /\ runTest.env \in up
    /\ testSuccess' \in {"true", "false"}
    /\ FetchAllMetrics(r, environment)
    /\ runTest' = [NotRunning EXCEPT !.pc = "refresh", !.round = r]
    /\ UNCHANGED <<up, environment, shown, isConnected, testRunning, timers>>

\* Mutant: testRunning is not reset in a finally block.
VerdictFails_NoFinally ==
    /\ runTest.pc = "post"
    /\ runTest.env \notin up
    /\ testSuccess' = "false"
    /\ runTest' = NotRunning
    /\ timers' = timers + 1
    /\ UNCHANGED <<up, environment, rounds, shown, loading, isConnected, testRunning>>

\* The request rejects: the catch block and the finally block.
VerdictFails ==
    /\ runTest.pc = "post"
    /\ runTest.env \notin up
    /\ testSuccess' = "false"
    /\ TestOver
    /\ UNCHANGED <<up, environment, rounds, shown, loading, isConnected>>

\* Five seconds after a verdict; the timers of earlier tests are not cancelled.
ResetVerdict ==
    /\ timers > 0
    /\ timers' = timers - 1
    /\ testSuccess' = "null"
    /\ UNCHANGED <<up, environment, rounds, shown, loading, isConnected, runTest, testRunning>>

\* A monitor goes down or comes up.
Flip(e) ==
    /\ up' = IF e \in up THEN up \ {e} ELSE up \cup {e}
    /\ UNCHANGED page_vars

-----------------------------------------------------------------------------
DashNext ==
    \/ \E r \in Rounds :
          \/ Refresh(r) \/ VerdictArrives(r)
          \/ \E p \in Endpoints : MetricsArrive(r, p) \/ MetricsFail(r, p)
          \/ \E e \in Envs : SelectEnv(r, e)
    \/ ClickRunTest \/ VerdictFails \/ ResetVerdict
    \/ \E e \in Envs : Flip(e)

\* Timers fire, and every request is answered or rejects.  The verdict's answer is
\* processed whatever the interval does, although an instance has few rounds.
DashSpec ==
    /\ DashInit
    /\ [][DashNext]_dash_vars
    /\ WF_dash_vars(\E r \in Rounds : Refresh(r))
    /\ \A r \in Rounds, p \in Endpoints : WF_dash_vars(MetricsArrive(r, p) \/ MetricsFail(r, p))
    /\ SF_dash_vars(VerdictFails \/ \E r \in Rounds : VerdictArrives(r))
    /\ WF_dash_vars(ResetVerdict)

-----------------------------------------------------------------------------
\* The spinner turns only while requests are unanswered: no order of the answers of
\* overlapping rounds leaves it on.
SpinnerIsFetching == loading => \E r \in Rounds : Busy(r)

\* A page that stays with an environment that stays up shows nothing else in the end
\* and says Connected: late answers of an environment selected before do not last.
ShowsSelected ==
    \A e \in Envs :
        <>[](environment = e /\ e \in up) =>
            <>[](isConnected /\ \A p \in Endpoints : shown[p] = e)

\* The button comes back, whatever happens to the test and its monitor.
TestEnds == testRunning ~> ~testRunning

\* A verdict leaves the button again: no order of a verdict's timer, the timers of
\* earlier tests and the next test leaves "Test Passed" standing.
VerdictLeaves == testSuccess = "true" ~> testSuccess = "null"
=============================================================================
