------------------------------- MODULE RunTest -------------------------------
(***************************************************************************)
(* POST /debug/run_test of the monitor: a client of the API that submits a *)
(* bulk request and polls its jobs until it can give a verdict.  It knows  *)
(* the service by its requests alone, so it is modelled against            *)
(* JobLifecycle, which the service implements.                             *)
(***************************************************************************)
EXTENDS JobLifecycle, Sequences, Functions

CONSTANTS
    TestIds,    \* the keys of the submitted jobs, in order (100 in the code)
    MaxPolls    \* ceil(maxWaitTime / pollInterval)

ASSUME TestIdsAssumption ==
    TestIds \in Seq(JobIds) /\ TestIds # <<>> /\ IsInjective(TestIds)
ASSUME MaxPollsAssumption == MaxPolls \in Nat \ {0}

VARIABLES
    test,       \* pc, the poll it is in, the ids still to fetch, and how many
                \* of the fetched ones were COMPLETED and FAILED
    past        \* history: which endings each job of the test has ever had

Verdicts == {"passed", "failed", "timeout", "error"}
TestPCs == {"idle", "submit", "wait", "sample", "verify"} \cup Verdicts

TestTypeOK == test \in [pc : TestPCs, poll : 0 .. MaxPolls - 1, todo : Seq(JobIds),
                        completed : Nat, failed : Nat]

\* The test goes on at pc with a list of jobs to fetch.
At(pc, poll, todo) == [pc |-> pc, poll |-> poll, todo |-> todo, completed |-> 0, failed |-> 0]

\* The endings a client can read.  A COMPLETED job may yet become FAILED, and a row
\* may be deleted, so the history keeps what the row no longer says.
Endings == {"COMPLETED", "FAILED"}

PastTypeOK == past \in [Range(TestIds) -> SUBSET Endings]

\* What each job is after a step becomes a part of its past.
Remember == past' = [j \in Range(TestIds) |-> past[j] \cup ({status'[j]} \cap Endings)]

TestInit ==
    /\ test = At("idle", 0, <<>>)
    /\ past = [j \in Range(TestIds) |-> {}]

\* The first, the middle and the last job.
SampleIds == <<TestIds[1], TestIds[Len(TestIds) \div 2 + 1], TestIds[Len(TestIds)]>>

\* Mutant: the loop has no limit.
NextPoll_NoLimit(t) == At("wait", t.poll + 1, <<>>)

\* Mutant: poll is not incremented.
NextPoll_Forever(t) == At("wait", t.poll, <<>>)

\* The loop ends with a timeout after its last poll.
NextPoll(t) ==
    IF t.poll + 1 < MaxPolls THEN At("wait", t.poll + 1, <<>>) ELSE At("timeout", t.poll, <<>>)

-----------------------------------------------------------------------------
\* The request arrives.
StartTest ==
    /\ test.pc = "idle"
    /\ test' = At("submit", 0, <<>>)
    /\ UNCHANGED lifecycle_vars

\* POST /jobs/bulk succeeds.
TestSubmitted ==
    /\ test.pc = "submit"
    /\ Submit(Range(TestIds))
    /\ test' = At("wait", 0, <<>>)

\* ... or not, perhaps with the rows inserted and only queue.addBulk rejected.
TestSubmitFails ==
    /\ test.pc = "submit"
    /\ Submit(Range(TestIds)) \/ UNCHANGED lifecycle_vars
    /\ test' = At("error", 0, <<>>)

\* pollInterval is over.
PollDue ==
    /\ test.pc = "wait"
    /\ test' = At("sample", test.poll, SampleIds)
    /\ UNCHANGED lifecycle_vars

\* Mutant: three completed samples are the verdict.
Conclude_SamplesOnly(t) ==
    CASE t.todo # <<>> -> t
      [] t.todo = <<>> /\ t.completed = Len(SampleIds) -> At("passed", t.poll, <<>>)
      [] OTHER -> NextPoll(t)

\* What follows a fetch: the next one, all jobs after three completed samples, a
\* verdict, or the next poll.
Conclude(t) ==
    CASE t.todo # <<>> -> t
      [] t.todo = <<>> /\ t.pc = "sample" /\ t.completed = Len(SampleIds) ->
            At("verify", t.poll, TestIds)
      [] t.todo = <<>> /\ t.pc = "verify" /\ t.completed = Len(TestIds) ->
            At("passed", t.poll, <<>>)
      [] t.todo = <<>> /\ t.pc = "verify" /\ t.completed < Len(TestIds)
                       /\ t.completed + t.failed = Len(TestIds) ->
            At("failed", t.poll, <<>>)
      [] OTHER -> NextPoll(t)

\* Mutant: what is not COMPLETED has FAILED.
Counted_RestFailed(t, st) ==
    [t EXCEPT !.todo = Tail(@),
              !.completed = IF st = "COMPLETED" THEN @ + 1 ELSE @,
              !.failed = IF st # "COMPLETED" THEN @ + 1 ELSE @]

\* The status of one more job is read; st is any other for a response without one.
Counted(t, st) ==
    [t EXCEPT !.todo = Tail(@),
              !.completed = IF st = "COMPLETED" THEN @ + 1 ELSE @,
              !.failed = IF st = "FAILED" THEN @ + 1 ELSE @]

\* GET /jobs/:id, one job after the other; the response may also be an error.
FetchJob ==
    /\ test.pc \in {"sample", "verify"}
    /\ \E st \in {status[Head(test.todo)], "error"} : test' = Conclude(Counted(test, st))
    /\ UNCHANGED lifecycle_vars

\* ... or there is none: the fetch rejects.
FetchRejects ==
    /\ test.pc \in {"sample", "verify"}
    /\ test' = At("error", test.poll, <<>>)
    /\ UNCHANGED lifecycle_vars

TestNext ==
    \/ StartTest
    \/ TestSubmitted \/ TestSubmitFails
    \/ PollDue
    \/ FetchJob \/ FetchRejects

-----------------------------------------------------------------------------
\* A test that passes has not been misled by its samples, nor by reading the jobs at
\* different moments: every job has been COMPLETED, whatever has become of it since.
PassedIsCompleted ==
    test.pc = "passed" => \A j \in Range(TestIds) : "COMPLETED" \in past[j]

\* "n jobs failed" is said when every job has been COMPLETED or FAILED and one has
\* been FAILED, not of jobs that are cancelled, still run or cannot be read.
FailedIsReal ==
    test.pc = "failed" =>
        /\ \A j \in Range(TestIds) : past[j] # {}
        /\ \E j \in Range(TestIds) : "FAILED" \in past[j]

\* The request is answered, whatever becomes of the jobs.
TestAnswers == test.pc = "submit" ~> test.pc \in Verdicts
=============================================================================
