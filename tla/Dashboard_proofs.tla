--------------------------- MODULE Dashboard_proofs ---------------------------
(***************************************************************************)
(* Theorems about the monitor UI for any number of endpoints, environments *)
(* and overlapping rounds.                                                 *)
(***************************************************************************)
EXTENDS Dashboard, TLAPS

\* A test that has not reached its verdict has disabled the button and set no timer
\* yet: there is room for its timer.
TestHasTimer == runTest.pc # "idle" => testRunning /\ timers < MaxTimers

\* The inductive invariant.
DashInv == DashTypeOK /\ TestHasTimer /\ SpinnerIsFetching

\* A round is sent: it is busy, and the spinner turns.
LEMMA FetchKeeps ==
    ASSUME DashTypeOK, NEW r \in Rounds, NEW e \in Envs, FetchAllMetrics(r, e)
    PROVE  /\ rounds' \in [Rounds -> [env : Envs \cup {NoEnv}, pending : SUBSET Endpoints]]
           /\ loading' \in BOOLEAN
           /\ SpinnerIsFetching'
<1>1. rounds'[r].pending = Endpoints
  BY DEF FetchAllMetrics, DashTypeOK
<1>2. Busy(r)'
  BY <1>1, EndpointsAssumption DEF Busy
<1>3. rounds' \in [Rounds -> [env : Envs \cup {NoEnv}, pending : SUBSET Endpoints]] /\ loading' \in BOOLEAN
  BY DEF FetchAllMetrics, DashTypeOK
<1> QED BY <1>2, <1>3 DEF SpinnerIsFetching

\* A test that ends frees the button and sets its timer.
LEMMA TestOverKeeps ==
    ASSUME DashTypeOK, TestHasTimer, runTest.pc # "idle", TestOver
    PROVE  /\ runTest' \in [pc : {"idle", "post", "refresh"}, env : Envs \cup {NoEnv}, round : 0 .. MaxRounds]
           /\ testRunning' \in BOOLEAN
           /\ timers' \in 0 .. MaxTimers
           /\ TestHasTimer'
<1>1. runTest' = [pc |-> "idle", env |-> NoEnv, round |-> 0] /\ testRunning' = FALSE
      /\ timers' = timers + 1
  BY DEF TestOver, NotRunning
<1>2. timers \in 0 .. MaxTimers /\ timers < MaxTimers
  BY DEF DashTypeOK, TestHasTimer
<1>3. timers' \in 0 .. MaxTimers
  BY <1>1, <1>2, MaxTimersAssumption
<1>4. 0 \in 0 .. MaxRounds
  BY MaxRoundsAssumption
<1>5. runTest' \in [pc : {"idle", "post", "refresh"}, env : Envs \cup {NoEnv}, round : 0 .. MaxRounds]
  BY <1>1, <1>4
<1>6. TestHasTimer'
  BY <1>1 DEF TestHasTimer
<1> QED BY <1>1, <1>3, <1>5, <1>6

\* An answer leaves its round busy, or stops the spinner: whatever other rounds wait for.
LEMMA AnsweredKeeps ==
    ASSUME DashInv, NEW r \in Rounds, NEW p \in Endpoints, Answered(r, p),
           shown' \in [Endpoints -> Envs \cup {NoEnv}], isConnected' \in BOOLEAN
    PROVE  DashInv'
<1> USE DEF DashInv
<1> DEFINE left == IF rounds[r].pending = {p} THEN NoRound
                   ELSE [env |-> rounds[r].env, pending |-> rounds[r].pending \ {p}]
<1>a. /\ rounds' = [rounds EXCEPT ![r] = left]
      /\ rounds \in [Rounds -> [env : Envs \cup {NoEnv}, pending : SUBSET Endpoints]]
  BY DEF Answered, DashTypeOK
<1>b. rounds[r] \in [env : Envs \cup {NoEnv}, pending : SUBSET Endpoints]
  BY <1>a
<1>c. rounds[r].pending # {p} => left.pending = rounds[r].pending \ {p}
  OBVIOUS
<1>d. left \in [env : Envs \cup {NoEnv}, pending : SUBSET Endpoints]
  BY <1>b DEF NoRound
<1>1. /\ rounds' \in [Rounds -> [env : Envs \cup {NoEnv}, pending : SUBSET Endpoints]]
      /\ loading' \in BOOLEAN
      /\ environment' \in Envs /\ up' \subseteq Envs
  <2> HIDE DEF left
  <2>1. rounds' \in [Rounds -> [env : Envs \cup {NoEnv}, pending : SUBSET Endpoints]]
    BY <1>a, <1>d
  <2> QED BY <2>1 DEF Answered, LoadingAfter, DashTypeOK
<1>2. SpinnerIsFetching'
  <2>1. CASE rounds[r].pending = {p}
    BY <2>1 DEF Answered, LoadingAfter, SpinnerIsFetching
  <2>2. CASE rounds[r].pending # {p}
    <3>1. rounds'[r].pending = rounds[r].pending \ {p}
      BY <2>2, <1>a, <1>c
    <3>2. rounds[r].pending \ {p} # {}
      BY <2>2 DEF Answered
    <3> QED BY <3>1, <3>2 DEF SpinnerIsFetching, Busy
  <2> QED BY <2>1, <2>2
<1>3. CASE rounds[r].pending = {p} /\ runTest.pc = "refresh" /\ runTest.round = r
  <2>1. TestOver /\ UNCHANGED testSuccess
    BY <1>3 DEF Answered
  <2>2. runTest.pc # "idle"
    BY <1>3
  <2> QED BY <1>1, <1>2, <2>1, <2>2, TestOverKeeps DEF DashTypeOK
<1>4. CASE ~(rounds[r].pending = {p} /\ runTest.pc = "refresh" /\ runTest.round = r)
  <2>1. UNCHANGED test_vars
    BY <1>4 DEF Answered
  <2> QED BY <1>1, <1>2, <2>1 DEF DashTypeOK, TestHasTimer, test_vars
<1> QED BY <1>3, <1>4

LEMMA DashInitInv == DashInit => DashInv
<1> SUFFICES ASSUME DashInit
             PROVE  DashInv
  OBVIOUS
<1>1. 1 \in Rounds /\ 0 \in 0 .. MaxRounds /\ 0 \in 0 .. MaxTimers
  BY MaxRoundsAssumption, MaxTimersAssumption DEF Rounds
<1>2. rounds[1].pending = Endpoints
  BY <1>1 DEF DashInit
<1>3. SpinnerIsFetching
  BY <1>1, <1>2, EndpointsAssumption DEF SpinnerIsFetching, Busy
<1>4. TestHasTimer
  BY DEF DashInit, NotRunning, TestHasTimer
<1>5. rounds \in [Rounds -> [env : Envs \cup {NoEnv}, pending : SUBSET Endpoints]]
  BY DEF DashInit, NoRound
<1>6. runTest \in [pc : {"idle", "post", "refresh"}, env : Envs \cup {NoEnv}, round : 0 .. MaxRounds]
  BY <1>1 DEF DashInit, NotRunning
<1>7. DashTypeOK
  BY <1>1, <1>5, <1>6 DEF DashInit, DashTypeOK
<1> QED BY <1>3, <1>4, <1>7 DEF DashInv

LEMMA DashStep ==
    ASSUME DashInv, [DashNext]_dash_vars
    PROVE  DashInv'
<1> USE DEF DashInv
<1>1. ASSUME NEW r \in Rounds, Refresh(r)
      PROVE  DashInv'
  <2>1. environment \in Envs
    BY DEF DashTypeOK
  <2>2. FetchAllMetrics(r, environment) /\ UNCHANGED <<up, environment, shown, isConnected, test_vars>>
    BY <1>1 DEF Refresh
  <2> QED BY <2>1, <2>2, FetchKeeps DEF DashTypeOK, TestHasTimer, test_vars
<1>2. ASSUME NEW r \in Rounds, NEW e \in Envs, SelectEnv(r, e)
      PROVE  DashInv'
  <2>1. /\ FetchAllMetrics(r, e) /\ environment' = e
        /\ UNCHANGED <<up, shown, isConnected, test_vars>>
    BY <1>2 DEF SelectEnv
  <2> QED BY <2>1, FetchKeeps DEF DashTypeOK, TestHasTimer, test_vars
<1>3. ASSUME NEW r \in Rounds, VerdictArrives(r)
      PROVE  DashInv'
  <2>1. /\ FetchAllMetrics(r, environment) /\ environment \in Envs
        /\ testSuccess' \in {"true", "false"}
        /\ runTest' = [NotRunning EXCEPT !.pc = "refresh", !.round = r]
        /\ runTest.pc # "idle"
        /\ UNCHANGED <<up, environment, shown, isConnected, testRunning, timers>>
    BY <1>3 DEF VerdictArrives, DashTypeOK
  <2>2. runTest' \in [pc : {"idle", "post", "refresh"}, env : Envs \cup {NoEnv}, round : 0 .. MaxRounds]
    <3>1. r \in 0 .. MaxRounds
      BY MaxRoundsAssumption DEF Rounds
    <3>2. runTest' = [pc |-> "refresh", env |-> NoEnv, round |-> r]
      BY <2>1 DEF NotRunning
    <3> QED BY <3>1, <3>2
  <2> QED BY <2>1, <2>2, FetchKeeps DEF DashTypeOK, TestHasTimer
<1>4. ASSUME NEW r \in Rounds, NEW p \in Endpoints, MetricsArrive(r, p) \/ MetricsFail(r, p)
      PROVE  DashInv'
  <2>1. Answered(r, p) /\ isConnected' \in BOOLEAN
    BY <1>4 DEF MetricsArrive, MetricsFail
  <2>2. rounds[r].env \in Envs \cup {NoEnv}
    BY DEF DashTypeOK
  <2>3. shown' \in [Endpoints -> Envs \cup {NoEnv}]
    BY <1>4, <2>2 DEF MetricsArrive, MetricsFail, DashTypeOK
  <2> QED BY <2>1, <2>3, AnsweredKeeps
<1>5. CASE ClickRunTest
  <2>1. runTest' \in [pc : {"idle", "post", "refresh"}, env : Envs \cup {NoEnv}, round : 0 .. MaxRounds]
    <3>1. runTest' = [pc |-> "post", env |-> environment, round |-> 0]
      BY <1>5 DEF ClickRunTest, NotRunning
    <3> QED BY <3>1, MaxRoundsAssumption DEF DashTypeOK
  <2> QED BY <1>5, <2>1 DEF ClickRunTest, DashTypeOK, TestHasTimer, SpinnerIsFetching, Busy
<1>6. CASE VerdictFails
  <2>1. /\ runTest.pc # "idle" /\ TestOver /\ testSuccess' = "false"
        /\ UNCHANGED <<up, environment, rounds, shown, loading, isConnected>>
    BY <1>6 DEF VerdictFails
  <2> QED BY <2>1, TestOverKeeps DEF DashTypeOK, SpinnerIsFetching, Busy
<1>7. CASE ResetVerdict
  <2>1. timers' \in 0 .. MaxTimers /\ timers' < timers /\ timers \in Nat
    BY <1>7, MaxTimersAssumption DEF ResetVerdict, DashTypeOK
  <2>2. TestHasTimer'
    BY <1>7, <2>1, MaxTimersAssumption DEF ResetVerdict, TestHasTimer
  <2> QED BY <1>7, <2>1, <2>2 DEF ResetVerdict, DashTypeOK, SpinnerIsFetching, Busy
<1>8. ASSUME NEW e \in Envs, Flip(e)
      PROVE  DashInv'
  BY <1>8 DEF Flip, page_vars, test_vars, DashTypeOK, TestHasTimer, SpinnerIsFetching, Busy
<1>9. CASE UNCHANGED dash_vars
  BY <1>9 DEF dash_vars, page_vars, test_vars, DashTypeOK, TestHasTimer, SpinnerIsFetching, Busy
<1> QED BY <1>1, <1>2, <1>3, <1>4, <1>5, <1>6, <1>7, <1>8, <1>9 DEF DashNext

LEMMA DashInvariant == DashSpec => []DashInv
<1>1. DashInv /\ [DashNext]_dash_vars => DashInv'
  BY DashStep
<1> HIDE DEF DashInv
<1> QED BY <1>1, DashInitInv, PTL DEF DashSpec

\* The page keeps its types: the timers of the tests that overlap are never more than
\* the tests that were started.
THEOREM DashTypeCorrect == DashSpec => []DashTypeOK
<1>1. DashInv => DashTypeOK
  BY DEF DashInv
<1> QED BY <1>1, DashInvariant, PTL

\* The spinner never turns without an unanswered request, however many rounds overlap
\* and in whatever order they are answered.
THEOREM SpinnerAlwaysFetching == DashSpec => []SpinnerIsFetching
<1>1. DashInv => SpinnerIsFetching
  BY DEF DashInv
<1> QED BY <1>1, DashInvariant, PTL
=============================================================================
