---------------------------- MODULE Clients_proofs ----------------------------
(***************************************************************************)
(* Theorems about the clients that know a job by its row alone, for any    *)
(* list of test jobs, any number of polls and any jobs of others.          *)
(***************************************************************************)
EXTENDS Clients, Totals_proofs

Statuses == {"ABSENT", "PENDING", "PROCESSING", "COMPLETED", "FAILED", "CANCELLED", "DELETED"}
StatusTypeOK == status \in [JobIds -> Statuses]

-----------------------------------------------------------------------------
(* The service, as its clients see it. *)

\* What a step makes of the status of a job.
StatusMove(old, new) ==
    \/ new = old
    \/ old = "ABSENT" /\ new = "PENDING"
    \/ old \in {"PENDING", "PROCESSING"} /\ new \in {"PENDING", "PROCESSING", "COMPLETED", "CANCELLED"}
    \/ old \notin {"ABSENT", "DELETED"} /\ new \in {"FAILED", "DELETED"}

StatusesMoved == StatusTypeOK' /\ \A j \in JobIds : StatusMove(status[j], status'[j])

\* Clients bounds the failures that are recorded at once, and who submits the jobs of
\* the test.  Here the service does anything that JobLifecycle allows.
AnyServiceStep == Next /\ Remember /\ UNCHANGED <<test, metrics, client>>
OpenNext == ClientsNext \/ AnyServiceStep
OpenSpec == ClientsInit /\ [][OpenNext]_clients_vars

LEMMA StatusesMove ==
    ASSUME StatusTypeOK, [OpenNext]_clients_vars
    PROVE  StatusesMoved
<1>1. ASSUME NEW S \in SUBSET JobIds, Submit(S)
      PROVE  StatusesMoved
  BY <1>1 DEF Submit, Statuses, StatusMove, StatusTypeOK, StatusesMoved
<1>2. ASSUME NEW S \in SUBSET JobIds, Delete(S)
      PROVE  StatusesMoved
  BY <1>2 DEF Delete, Exists, Statuses, StatusMove, StatusTypeOK, StatusesMoved
<1>3. ASSUME NEW j \in JobIds, Start(j) \/ Complete(j) \/ Cancel(j) \/ Requeue(j)
      PROVE  StatusesMoved
  BY <1>3 DEF Start, Complete, Cancel, Requeue, Move, Statuses, StatusMove, StatusTypeOK, StatusesMoved
<1>4. ASSUME NEW j \in JobIds, RecordFailure(j)
      PROVE  StatusesMoved
  <2>1. PICK new \in {"FAILED", status[j]} : status' = [status EXCEPT ![j] = new]
    BY <1>4 DEF RecordFailure
  <2>2. status[j] \notin {"ABSENT", "DELETED"}
    BY <1>4 DEF RecordFailure, Exists
  <2> QED BY <2>1, <2>2 DEF Statuses, StatusMove, StatusTypeOK, StatusesMoved
<1>5. CASE UNCHANGED status
  BY <1>5 DEF StatusMove, StatusTypeOK, StatusesMoved
<1>6. Range(TestIds) \subseteq JobIds
  BY TestIdsAssumption DEF Range
<1>7. CASE ServiceStep
  BY <1>2, <1>3, <1>4, <1>7 DEF ServiceStep
<1>8. CASE OthersSubmit
  BY <1>1, <1>8 DEF OthersSubmit
<1>9. CASE MetricsNext
  BY <1>5, <1>9 DEF MetricsNext, CountTotal, CountStatuses, CountClasses, CountFails, AskAgain, lifecycle_vars
<1>10. CASE TestNext
  BY <1>1, <1>5, <1>6, <1>10
     DEF TestNext, StartTest, TestSubmitted, TestSubmitFails, PollDue, FetchJob, FetchRejects, lifecycle_vars
<1>11. CASE UNCHANGED clients_vars
  BY <1>5, <1>11 DEF clients_vars, lifecycle_vars
<1>12. CASE AnyServiceStep
  BY <1>1, <1>2, <1>3, <1>4, <1>12 DEF AnyServiceStep, Next
<1> QED BY <1>7, <1>8, <1>9, <1>10, <1>11, <1>12 DEF OpenNext, ClientsNext

-----------------------------------------------------------------------------
(* run_test. *)

\* The past of the jobs goes back to what they are now, and nothing is forgotten.
Remembered == PastTypeOK /\ \A j \in Range(TestIds) : status[j] \in Endings => status[j] \in past[j]
NothingForgotten == Remembered' /\ \A j \in Range(TestIds) : past[j] \subseteq past'[j]

LEMMA PastGrows ==
    ASSUME Remembered, [OpenNext]_clients_vars
    PROVE  NothingForgotten
<1>1. CASE Remember
  <2>1. PastTypeOK'
    BY <1>1 DEF Remember, Remembered, PastTypeOK
  <2> QED BY <1>1, <2>1 DEF Remember, Remembered, NothingForgotten
<1>2. CASE UNCHANGED clients_vars
  BY <1>2 DEF clients_vars, lifecycle_vars, Remembered, NothingForgotten, PastTypeOK
<1> QED BY <1>1, <1>2 DEF OpenNext, ClientsNext, AnyServiceStep

\* The fetches of a poll: there is a job to fetch.
SampleReads == test.pc = "sample" => test.todo # <<>>

\* How many jobs have been fetched.
Fetched == Len(TestIds) - Len(test.todo)

\* What a history p knows of the first n jobs.
AllEnded(p, n) == \A i \in 1 .. n : p[TestIds[i]] # {}
AllCompleted(p, n) == \A i \in 1 .. n : "COMPLETED" \in p[TestIds[i]]
SomeFailed(p, n) == \E i \in 1 .. n : "FAILED" \in p[TestIds[i]]

\* The fetches of all jobs.  What is left is the end of TestIds, and what the counts
\* say of the jobs fetched is in their past, whatever happened since.
VerifyReads ==
    test.pc = "verify" =>
        /\ test.todo # <<>> /\ Len(test.todo) <= Len(TestIds)
        /\ \A i \in 1 .. Len(test.todo) : test.todo[i] = TestIds[Fetched + i]
        /\ test.completed + test.failed <= Fetched
        /\ test.completed + test.failed = Fetched => AllEnded(past, Fetched)
        /\ test.completed = Fetched => AllCompleted(past, Fetched)
        /\ test.failed > 0 => SomeFailed(past, Fetched)

\* The two verdicts, and what they are about.
TestVerdicts ==
    /\ test.pc = "passed" => AllCompleted(past, Len(TestIds))
    /\ test.pc = "failed" => AllEnded(past, Len(TestIds)) /\ SomeFailed(past, Len(TestIds))

TestInv == Remembered /\ TestTypeOK /\ SampleReads /\ VerifyReads /\ TestVerdicts

TestState == [pc : TestPCs, poll : 0 .. MaxPolls - 1, todo : Seq(JobIds), completed : Nat, failed : Nat]

LEMMA TestIdsType ==
    /\ TestIds \in Seq(JobIds) /\ Len(TestIds) \in Nat \ {0}
    /\ \A i \in 1 .. Len(TestIds) : TestIds[i] \in JobIds
    /\ SampleIds \in Seq(JobIds) /\ SampleIds # <<>>
<1>1. TestIds \in Seq(JobIds) /\ Len(TestIds) \in Nat \ {0}
  BY TestIdsAssumption
<1>2. Len(TestIds) \div 2 + 1 \in 1 .. Len(TestIds)
  BY <1>1
<1>3. \A i \in 1 .. Len(TestIds) : TestIds[i] \in JobIds
  BY <1>1
<1> QED BY <1>1, <1>2, <1>3 DEF SampleIds

LEMMA AtType ==
    ASSUME NEW pc \in TestPCs, NEW poll \in 0 .. MaxPolls - 1, NEW todo \in Seq(JobIds)
    PROVE  /\ At(pc, poll, todo) \in TestState
           /\ At(pc, poll, todo).pc = pc /\ At(pc, poll, todo).todo = todo
           /\ At(pc, poll, todo).completed = 0 /\ At(pc, poll, todo).failed = 0
BY DEF At, TestState

\* A poll follows, or the test times out.
LEMMA NextPollType ==
    ASSUME NEW t \in TestState
    PROVE  NextPoll(t) \in TestState /\ NextPoll(t).pc \in {"wait", "timeout"}
<1>1. t.poll \in 0 .. MaxPolls - 1 /\ <<>> \in Seq(JobIds)
  BY DEF TestState
<1>2. CASE t.poll + 1 < MaxPolls
  <2>1. t.poll + 1 \in 0 .. MaxPolls - 1
    BY <1>1, <1>2, MaxPollsAssumption
  <2>2. NextPoll(t) = At("wait", t.poll + 1, <<>>)
    BY <1>2 DEF NextPoll
  <2>3. "wait" \in TestPCs
    BY DEF TestPCs
  <2>4. At("wait", t.poll + 1, <<>>) \in TestState /\ At("wait", t.poll + 1, <<>>).pc = "wait"
    BY <1>1, <2>1, <2>3 DEF At, TestState
  <2> QED BY <2>2, <2>4
<1>3. CASE ~(t.poll + 1 < MaxPolls)
  <2>1. NextPoll(t) = At("timeout", t.poll, <<>>)
    BY <1>3 DEF NextPoll
  <2>2. "timeout" \in TestPCs
    BY DEF TestPCs, Verdicts
  <2>3. At("timeout", t.poll, <<>>) \in TestState /\ At("timeout", t.poll, <<>>).pc = "timeout"
    BY <1>1, <2>2 DEF At, TestState
  <2> QED BY <2>1, <2>3
<1> QED BY <1>2, <1>3

\* What follows a fetch.
LEMMA ConcludeMoves ==
    ASSUME NEW t \in TestState, t.pc \in {"sample", "verify"}
    PROVE  \/ t.todo # <<>> /\ Conclude(t) = t
           \/ t.todo = <<>> /\ Conclude(t) = At("verify", t.poll, TestIds)
           \/ /\ t.todo = <<>> /\ t.pc = "verify" /\ t.completed = Len(TestIds)
              /\ Conclude(t) = At("passed", t.poll, <<>>)
           \/ /\ t.todo = <<>> /\ t.pc = "verify" /\ t.completed < Len(TestIds)
              /\ t.completed + t.failed = Len(TestIds)
              /\ Conclude(t) = At("failed", t.poll, <<>>)
           \/ t.todo = <<>> /\ Conclude(t) = NextPoll(t)
BY DEF Conclude

\* What the history knows stays true.
LEMMA PastKept ==
    ASSUME NothingForgotten, NEW n \in 0 .. Len(TestIds)
    PROVE  /\ AllEnded(past, n) => AllEnded(past', n)
           /\ AllCompleted(past, n) => AllCompleted(past', n)
           /\ SomeFailed(past, n) => SomeFailed(past', n)
<1>1. \A i \in 1 .. n : TestIds[i] \in Range(TestIds)
  BY TestIdsType DEF Range
<1>2. \A i \in 1 .. n : past[TestIds[i]] \subseteq past'[TestIds[i]]
  BY <1>1 DEF NothingForgotten
<1> QED BY <1>2 DEF AllEnded, AllCompleted, SomeFailed

\* What has been found about a job stays true while others go on.
LEMMA ReadsKeep ==
    ASSUME TestInv, NothingForgotten, UNCHANGED test
    PROVE  TestInv'
<1>1. Remembered' /\ TestTypeOK' /\ SampleReads' /\ test' = test
  BY DEF TestInv, NothingForgotten, TestTypeOK, SampleReads
<1>2. VerifyReads'
  <2> SUFFICES ASSUME test.pc = "verify"
               PROVE  VerifyReads'
    BY DEF VerifyReads
  <2>1. Fetched \in 0 .. Len(TestIds) /\ Fetched' = Fetched
    BY TestIdsType DEF TestInv, VerifyReads, Fetched, TestTypeOK
  <2> HIDE DEF Fetched
  <2> QED BY <1>1, <2>1, PastKept DEF TestInv, VerifyReads, AllEnded, AllCompleted, SomeFailed
<1>3. TestVerdicts'
  <2>1. Len(TestIds) \in 0 .. Len(TestIds)
    BY TestIdsType
  <2> QED BY <1>1, <2>1, PastKept DEF TestInv, TestVerdicts, AllEnded, AllCompleted, SomeFailed
<1> QED BY <1>1, <1>2, <1>3 DEF TestInv

\* The test goes on at a pc without anything to fetch or to claim.
LEMMA QuietTest ==
    ASSUME TestInv, NothingForgotten, test' \in TestState,
           test'.pc \in TestPCs \ {"sample", "verify", "passed", "failed"}
    PROVE  TestInv'
BY DEF TestInv, NothingForgotten, TestTypeOK, TestState, SampleReads, VerifyReads, TestVerdicts

\* One more job is fetched: the counts and the position move on together.
LEMMA CountedType ==
    ASSUME NEW t \in TestState, t.todo # <<>>, NEW st
    PROVE  /\ Counted(t, st) \in TestState
           /\ Counted(t, st).pc = t.pc /\ Counted(t, st).poll = t.poll
           /\ Counted(t, st).todo = Tail(t.todo)
           /\ Counted(t, st).completed = IF st = "COMPLETED" THEN t.completed + 1 ELSE t.completed
           /\ Counted(t, st).failed = IF st = "FAILED" THEN t.failed + 1 ELSE t.failed
<1>1. t.completed \in Nat /\ t.failed \in Nat /\ t.todo \in Seq(JobIds)
  BY DEF TestState
<1>2. Tail(t.todo) \in Seq(JobIds)
  BY <1>1
<1> DEFINE completed == IF st = "COMPLETED" THEN t.completed + 1 ELSE t.completed
           failed == IF st = "FAILED" THEN t.failed + 1 ELSE t.failed
<1>3. Counted(t, st) = [pc |-> t.pc, poll |-> t.poll, todo |-> Tail(t.todo),
                        completed |-> completed, failed |-> failed]
  <2>1. t = [pc |-> t.pc, poll |-> t.poll, todo |-> t.todo, completed |-> t.completed, failed |-> t.failed]
    BY DEF TestState
  <2>2. Counted(t, st) = [t EXCEPT !.todo = Tail(t.todo), !.completed = completed, !.failed = failed]
    BY DEF Counted
  <2> HIDE DEF completed, failed
  <2> QED BY <2>1, <2>2
<1>4. t.pc \in TestPCs /\ t.poll \in 0 .. MaxPolls - 1
  BY DEF TestState
<1> HIDE DEF Counted
<1> QED BY <1>1, <1>2, <1>3, <1>4 DEF TestState

\* A fetch in the last round of a test.
LEMMA FetchVerifies ==
    ASSUME TestInv, test.pc = "verify", NEW st \in {status[Head(test.todo)], "error"}
    PROVE  LET c == Counted(test, st)
               n == Fetched + 1
           IN  /\ n \in 1 .. Len(TestIds) /\ Len(c.todo) = Len(TestIds) - n
               /\ \A i \in 1 .. Len(c.todo) : c.todo[i] = TestIds[n + i]
               /\ c.completed + c.failed <= n
               /\ c.completed + c.failed = n => AllEnded(past, n)
               /\ c.completed = n => AllCompleted(past, n)
               /\ c.failed > 0 => SomeFailed(past, n)
<1> DEFINE c == Counted(test, st)
           n == Fetched + 1
           l == Len(TestIds)
<1>1. test \in TestState /\ test.todo \in Seq(JobIds) /\ test.todo # <<>>
  BY DEF TestInv, TestTypeOK, TestState, VerifyReads
<1>2. /\ test.completed \in Nat /\ test.failed \in Nat /\ l \in Nat
      /\ test.completed + test.failed <= Fetched
      /\ test.completed + test.failed = Fetched => AllEnded(past, Fetched)
      /\ test.completed = Fetched => AllCompleted(past, Fetched)
      /\ test.failed > 0 => SomeFailed(past, Fetched)
  BY <1>1, TestIdsType DEF TestState, TestInv, VerifyReads
<1>3. /\ c.todo = Tail(test.todo)
      /\ c.completed = IF st = "COMPLETED" THEN test.completed + 1 ELSE test.completed
      /\ c.failed = IF st = "FAILED" THEN test.failed + 1 ELSE test.failed
  BY <1>1, CountedType
<1>4. /\ Len(test.todo) \in Nat \ {0} /\ Len(test.todo) <= l
      /\ Fetched = l - Len(test.todo)
      /\ \A i \in 1 .. Len(test.todo) : test.todo[i] = TestIds[Fetched + i]
  <2>1. Len(test.todo) \in Nat \ {0}
    BY <1>1
  <2>2. Fetched = l - Len(test.todo)
    BY DEF Fetched
  <2> HIDE DEF Fetched
  <2> QED BY <2>1, <2>2 DEF TestInv, VerifyReads
<1>5. /\ Len(c.todo) = Len(test.todo) - 1
      /\ \A i \in 1 .. Len(c.todo) : c.todo[i] = test.todo[i + 1]
  BY <1>1, <1>3
<1>6. Head(test.todo) = TestIds[n]
  <2>1. Head(test.todo) = test.todo[1] /\ 1 \in 1 .. Len(test.todo)
    BY <1>1
  <2> HIDE DEF Fetched
  <2> QED BY <1>4, <2>1
<1> HIDE DEF c, Fetched
<1>7. n \in 1 .. l /\ Len(c.todo) = l - n /\ Fetched \in Nat
  BY <1>2, <1>4, <1>5
<1>8. \A i \in 1 .. Len(c.todo) : c.todo[i] = TestIds[n + i]
  <2> SUFFICES ASSUME NEW i \in 1 .. Len(c.todo)
               PROVE  c.todo[i] = TestIds[n + i]
    OBVIOUS
  <2> DEFINE k == Len(test.todo)
  <2>0. k \in Nat /\ Len(c.todo) = k - 1 /\ Fetched \in Nat
    BY <1>4, <1>5, <1>7
  <2>1. i + 1 \in 1 .. k /\ Fetched + (i + 1) = n + i
    <3> HIDE DEF k
    <3> QED BY <2>0
  <2> QED BY <1>4, <1>5, <2>1
<1>9. st \in Endings => st \in past[TestIds[n]]
  <2>1. TestIds[n] \in Range(TestIds)
    BY <1>7, TestIdsType DEF Range
  <2> QED BY <1>6, <2>1 DEF TestInv, Remembered, Endings
<1>10. c.completed + c.failed <= n
  BY <1>2, <1>3, <1>7
<1>11. \A i \in 1 .. n : i = n \/ i \in 1 .. Fetched
  BY <1>7
<1>12. ASSUME c.completed + c.failed = n
       PROVE  AllEnded(past, n)
  <2>1. test.completed + test.failed = Fetched /\ st \in Endings
    BY <1>2, <1>3, <1>7, <1>12 DEF Endings
  <2> QED BY <1>2, <1>9, <1>11, <2>1 DEF AllEnded
<1>13. ASSUME c.completed = n
       PROVE  AllCompleted(past, n)
  <2>1. test.completed = Fetched /\ st = "COMPLETED"
    BY <1>2, <1>3, <1>7, <1>13
  <2> QED BY <1>2, <1>9, <1>11, <2>1 DEF AllCompleted, Endings
<1>14. ASSUME c.failed > 0
       PROVE  SomeFailed(past, n)
  <2>1. CASE st = "FAILED"
    BY <1>7, <1>9, <2>1 DEF SomeFailed, Endings
  <2>2. CASE st # "FAILED"
    <3>1. PICK i \in 1 .. Fetched : "FAILED" \in past[TestIds[i]]
      BY <1>2, <1>3, <1>14, <2>2 DEF SomeFailed
    <3>2. i \in 1 .. n
      BY <1>7
    <3> QED BY <3>1, <3>2 DEF SomeFailed
  <2> QED BY <2>1, <2>2
<1> QED BY <1>7, <1>8, <1>10, <1>12, <1>13, <1>14 DEF c

LEMMA FetchVerified ==
    ASSUME TestInv, NothingForgotten, test.pc = "verify", NEW st \in {status[Head(test.todo)], "error"}
    PROVE  LET c == Counted(test, st)
               n == Fetched + 1
           IN  /\ n \in 1 .. Len(TestIds) /\ Len(c.todo) = Len(TestIds) - n
               /\ \A i \in 1 .. Len(c.todo) : c.todo[i] = TestIds[n + i]
               /\ c.completed + c.failed <= n
               /\ c.completed + c.failed = n => AllEnded(past', n)
               /\ c.completed = n => AllCompleted(past', n)
               /\ c.failed > 0 => SomeFailed(past', n)
<1> DEFINE c == Counted(test, st)
           n == Fetched + 1
<1>1. /\ n \in 1 .. Len(TestIds) /\ Len(c.todo) = Len(TestIds) - n
      /\ \A i \in 1 .. Len(c.todo) : c.todo[i] = TestIds[n + i]
      /\ c.completed + c.failed <= n
      /\ c.completed + c.failed = n => AllEnded(past, n)
      /\ c.completed = n => AllCompleted(past, n)
      /\ c.failed > 0 => SomeFailed(past, n)
  BY FetchVerifies
<1> HIDE DEF c, n
<1>2. n \in 0 .. Len(TestIds)
  BY <1>1, TestIdsType
<1> QED BY <1>1, <1>2, PastKept DEF c, n

\* The answers to a test's fetches lead to a verdict only when they are enough for it.
LEMMA FetchKeeps ==
    ASSUME TestInv, NothingForgotten, FetchJob
    PROVE  TestInv'
<1>1. PICK st \in {status[Head(test.todo)], "error"} : test' = Conclude(Counted(test, st))
  BY DEF FetchJob
<1>2. test.pc \in {"sample", "verify"} /\ test \in TestState /\ test.todo # <<>>
  BY DEF FetchJob, TestInv, TestTypeOK, TestState, SampleReads, VerifyReads
<1> DEFINE c == Counted(test, st)
           n == Fetched + 1
<1>3. c \in TestState /\ c.pc = test.pc
  BY <1>2, CountedType
<1> HIDE DEF c
<1>4. TestIds \in Seq(JobIds) /\ <<>> \in Seq(JobIds) /\ Len(TestIds) \in Nat \ {0}
  BY TestIdsType
<1>5. CASE c.todo # <<>> /\ test' = c
  <2>1. Remembered' /\ TestTypeOK' /\ SampleReads' /\ TestVerdicts'
    BY <1>2, <1>3, <1>5 DEF NothingForgotten, TestTypeOK, TestState, SampleReads, TestVerdicts
  <2>2. VerifyReads'
    <3> SUFFICES ASSUME test.pc = "verify"
                 PROVE  VerifyReads'
      BY <1>3, <1>5 DEF VerifyReads
    <3>1. /\ n \in 1 .. Len(TestIds) /\ Len(c.todo) = Len(TestIds) - n
          /\ \A i \in 1 .. Len(c.todo) : c.todo[i] = TestIds[n + i]
          /\ c.completed + c.failed <= n
          /\ c.completed + c.failed = n => AllEnded(past', n)
          /\ c.completed = n => AllCompleted(past', n)
          /\ c.failed > 0 => SomeFailed(past', n)
      BY FetchVerified DEF c
    <3>2. Fetched' = Len(TestIds) - Len(c.todo)
      BY <1>5 DEF Fetched
    <3> HIDE DEF n
    <3>3. Fetched' = n /\ Len(c.todo) <= Len(TestIds)
      BY <1>4, <3>1, <3>2
    <3> HIDE DEF Fetched
    <3> QED BY <1>5, <3>1, <3>3 DEF VerifyReads, AllEnded, AllCompleted, SomeFailed
  <2> QED BY <2>1, <2>2 DEF TestInv
<1>6. CASE c.todo = <<>> /\ test' = At("verify", c.poll, TestIds)
  <2>1. /\ test' \in TestState /\ test'.pc = "verify" /\ test'.todo = TestIds
        /\ test'.completed = 0 /\ test'.failed = 0
    BY <1>3, <1>4, <1>6 DEF At, TestState, TestPCs
  <2>2. Fetched' = 0
    BY <2>1, <1>4 DEF Fetched
  <2>3. TestIds # <<>>
    BY <1>4
  <2>4. VerifyReads'
    BY <1>4, <2>1, <2>2, <2>3 DEF VerifyReads, AllEnded, AllCompleted
  <2> QED BY <2>1, <2>3, <2>4 DEF TestInv, NothingForgotten, TestTypeOK, TestState, SampleReads, TestVerdicts
<1>7. CASE /\ c.todo = <<>> /\ c.pc = "verify"
           /\ \/ c.completed = Len(TestIds) /\ test' = At("passed", c.poll, <<>>)
              \/ /\ c.completed < Len(TestIds) /\ c.completed + c.failed = Len(TestIds)
                 /\ test' = At("failed", c.poll, <<>>)
  <2>1. /\ n \in 1 .. Len(TestIds) /\ Len(c.todo) = Len(TestIds) - n
        /\ c.completed + c.failed <= n
        /\ c.completed + c.failed = n => AllEnded(past', n)
        /\ c.completed = n => AllCompleted(past', n)
        /\ c.failed > 0 => SomeFailed(past', n)
    BY <1>3, <1>7, FetchVerified DEF c
  <2>2. c.completed \in Nat /\ c.failed \in Nat /\ Len(c.todo) = 0
    BY <1>3, <1>7 DEF TestState
  <2> HIDE DEF n
  <2>3. n = Len(TestIds)
    BY <1>4, <2>1, <2>2
  <2>4. c.completed + c.failed = n /\ (c.completed < Len(TestIds) => c.failed > 0)
    BY <1>7, <2>1, <2>2, <2>3
  <2>5. /\ test' \in TestState /\ test'.pc \in {"passed", "failed"}
        /\ test'.pc = "passed" => c.completed = n
        /\ test'.pc = "failed" => c.failed > 0
    BY <1>3, <1>4, <1>7, <2>3, <2>4 DEF At, TestState, TestPCs, Verdicts
  <2>6. TestVerdicts'
    BY <2>1, <2>3, <2>4, <2>5 DEF TestVerdicts, AllEnded, AllCompleted, SomeFailed
  <2> QED BY <2>5, <2>6 DEF TestInv, NothingForgotten, TestTypeOK, TestState, SampleReads, VerifyReads, TestVerdicts
<1>8. CASE c.todo = <<>> /\ test' = NextPoll(c)
  <2>1. test' \in TestState /\ test'.pc \in {"wait", "timeout"}
    BY <1>3, <1>8, NextPollType
  <2> QED BY <2>1, QuietTest DEF TestPCs, Verdicts
<1> QED BY <1>1, <1>2, <1>3, <1>5, <1>6, <1>7, <1>8, ConcludeMoves DEF c

LEMMA TestStep ==
    ASSUME TestInv, NothingForgotten, UNCHANGED test \/ TestNext
    PROVE  TestInv'
<1>0. test \in TestState /\ 0 \in 0 .. MaxPolls - 1 /\ <<>> \in Seq(JobIds) /\ SampleIds \in Seq(JobIds)
  BY TestIdsType, MaxPollsAssumption DEF TestInv, TestTypeOK, TestState
<1>1. CASE StartTest
  <2>1. test' = At("submit", 0, <<>>)
    BY <1>1 DEF StartTest
  <2> QED BY <1>0, <2>1, QuietTest DEF At, TestState, TestPCs, Verdicts
<1>2. CASE TestSubmitted
  <2>1. test' = At("wait", 0, <<>>)
    BY <1>2 DEF TestSubmitted
  <2> QED BY <1>0, <2>1, QuietTest DEF At, TestState, TestPCs, Verdicts
<1>3. CASE TestSubmitFails
  <2>1. test' = At("error", 0, <<>>)
    BY <1>3 DEF TestSubmitFails
  <2> QED BY <1>0, <2>1, QuietTest DEF At, TestState, TestPCs, Verdicts
<1>4. CASE PollDue
  <2>1. test' = At("sample", test.poll, SampleIds) /\ test.poll \in 0 .. MaxPolls - 1
    BY <1>0, <1>4 DEF PollDue, TestState
  <2>2. test' \in TestState /\ test'.pc = "sample" /\ test'.todo = SampleIds
    BY <1>0, <2>1 DEF At, TestState, TestPCs
  <2> QED BY <2>2, TestIdsType DEF TestInv, NothingForgotten, TestTypeOK, TestState, SampleReads, VerifyReads, TestVerdicts
<1>5. CASE FetchJob
  BY <1>5, FetchKeeps
<1>6. CASE FetchRejects
  <2>1. test' = At("error", test.poll, <<>>) /\ test.poll \in 0 .. MaxPolls - 1
    BY <1>0, <1>6 DEF FetchRejects, TestState
  <2> QED BY <1>0, <2>1, QuietTest DEF At, TestState, TestPCs, Verdicts
<1>7. CASE UNCHANGED test
  BY <1>7, ReadsKeep
<1> QED BY <1>1, <1>2, <1>3, <1>4, <1>5, <1>6, <1>7 DEF TestNext

-----------------------------------------------------------------------------
(* getJobMetrics. *)

\* The jobs whose status is in S.
Having(S) == {j \in JobIds : status[j] \in S}

\* What a figure of one moment is compared with at a later one: these statuses are
\* only left for DELETED.
Figures == {JobStatus, {"COMPLETED", "FAILED", "CANCELLED"}, {"FAILED"}}

\* The answers of the queries so far, compared with the rows as they are now, or
\* with the answers of the queries before.
FirstTwoFit == metrics.pc \in {"class", "answered"} => metrics.total <= ByStatus(JobStatus) + Deleted
TotalFits == metrics.pc = "status" => metrics.total <= Cardinality(Having(JobStatus)) + Deleted
StatusesFit ==
    metrics.pc = "class" =>
        \A S \in Figures : ByStatus(S) <= Cardinality(Having(S)) + Deleted
ClassesFit ==
    metrics.pc = "answered" =>
        \A S \in Figures : ByStatus(S) <= ByClass(S) + Deleted

MetricsInv ==
    /\ StatusTypeOK /\ MetricsTypeOK
    /\ TotalFits /\ FirstTwoFit /\ StatusesFit /\ ClassesFit

LEMMA FiniteStatuses ==
    /\ IsFiniteSet(JobStatus)
    /\ \A S \in Figures : S \subseteq JobStatus /\ IsFiniteSet(S)
<1>1. IsFiniteSet({"PENDING"} \cup {"PROCESSING"})
  BY FS_Singleton, FS_AddElement
<1>2. IsFiniteSet(JobStatus)
  <2>1. IsFiniteSet(({"PENDING"} \cup {"PROCESSING"}) \cup {"COMPLETED"})
    BY <1>1, FS_AddElement
  <2>2. IsFiniteSet((({"PENDING"} \cup {"PROCESSING"}) \cup {"COMPLETED"}) \cup {"FAILED"})
    BY <2>1, FS_AddElement
  <2>3. IsFiniteSet(((({"PENDING"} \cup {"PROCESSING"}) \cup {"COMPLETED"}) \cup {"FAILED"}) \cup {"CANCELLED"})
    BY <2>2, FS_AddElement
  <2>4. JobStatus = ((({"PENDING"} \cup {"PROCESSING"}) \cup {"COMPLETED"}) \cup {"FAILED"}) \cup {"CANCELLED"}
    BY DEF JobStatus
  <2> QED BY <2>3, <2>4
<1>3. \A S \in Figures : S \subseteq JobStatus
  BY DEF Figures, JobStatus
<1> QED BY <1>2, <1>3, FS_Subset

\* Rows are finitely many, and counting them is a natural number.
LEMMA FiniteRows ==
    ASSUME IsFiniteSet(JobIds), NEW R \in SUBSET JobIds
    PROVE  IsFiniteSet(R) /\ Cardinality(R) \in Nat
BY FS_Subset, FS_CardinalityType

\* GROUP BY status: the answers of R add up to its rows in one of the statuses.
LEMMA CountsAddUp ==
    ASSUME IsFiniteSet(JobIds), NEW R \in SUBSET JobIds, NEW S \in SUBSET JobStatus
    PROVE  Total(CountByStatus(R), S) = Cardinality({j \in R : status[j] \in S})
<1> DEFINE A == [s \in S |-> {j \in R : status[j] = s}]
           f == CountByStatus(R)
<1>1. IsFiniteSet(R) /\ IsFiniteSet(S)
  BY FiniteRows, FiniteStatuses, FS_Subset
<1>2. A \in [S -> SUBSET R] /\ \A x, y \in S : x # y => A[x] \cap A[y] = {}
  OBVIOUS
<1>3. \A x \in S : f[x] = Cardinality(A[x])
  BY DEF CountByStatus
<1>4. {j \in R : \E x \in S : j \in A[x]} = {j \in R : status[j] \in S}
  OBVIOUS
<1> HIDE DEF A, f
<1>5. Total(f, S) = Cardinality({j \in R : \E x \in S : j \in A[x]})
  BY <1>1, <1>2, <1>3, TotalOfParts
<1> QED BY <1>4, <1>5 DEF f

\* There are no more classes than jobs.
LEMMA FiniteClasses ==
    ASSUME IsFiniteSet(JobIds)
    PROVE  IsFiniteSet(Classes)
<1>1. Class \in [JobIds -> Classes] /\ \A c \in Classes : \E j \in JobIds : Class[j] = c
  BY ClassAssumption DEF Classes
<1>2. Class \in Surjection(JobIds, Classes)
  BY <1>1 DEF Surjection
<1> QED BY <1>2, FS_Surjection

\* The answer of classCounts, and the figure that is made of it.
CountByClass == [c \in Classes |-> CountByStatus({j \in Rows : Class[j] = c})]
ClassSum(b, S) == Total([c \in Classes |-> Total(b[c], S)], Classes)

\* GROUP BY class, status: so do the answers of all classes.
LEMMA ClassCountsAddUp ==
    ASSUME IsFiniteSet(JobIds), NEW S \in SUBSET JobStatus
    PROVE  ClassSum(CountByClass, S) = Cardinality({j \in Rows : status[j] \in S})
<1> DEFINE A == [c \in Classes |-> {j \in Rows : Class[j] = c /\ status[j] \in S}]
           f == [c \in Classes |-> Total(CountByClass[c], S)]
<1>1. Rows \subseteq JobIds /\ IsFiniteSet(Rows)
  BY FiniteRows DEF Rows
<1>2. IsFiniteSet(Classes)
  BY FiniteClasses
<1>3. A \in [Classes -> SUBSET Rows] /\ \A x, y \in Classes : x # y => A[x] \cap A[y] = {}
  OBVIOUS
<1>4. ASSUME NEW c \in Classes
      PROVE  f[c] = Cardinality(A[c])
  <2> DEFINE R == {j \in Rows : Class[j] = c}
  <2>1. R \in SUBSET JobIds
    BY <1>1
  <2>2. Total(CountByStatus(R), S) = Cardinality({j \in R : status[j] \in S})
    BY <2>1, CountsAddUp
  <2>3. {j \in R : status[j] \in S} = A[c]
    OBVIOUS
  <2> QED BY <2>2, <2>3 DEF CountByClass
<1>5. {j \in Rows : \E c \in Classes : j \in A[c]} = {j \in Rows : status[j] \in S}
  <2>1. \A j \in Rows : Class[j] \in Classes
    BY <1>1 DEF Classes
  <2> QED BY <2>1
<1> HIDE DEF A, f
<1>6. Total(f, Classes) = Cardinality({j \in Rows : \E c \in Classes : j \in A[c]})
  BY <1>1, <1>2, <1>3, <1>4, TotalOfParts
<1> QED BY <1>5, <1>6 DEF f, ClassSum

\* The sum of an answer that says nothing.
LEMMA ZerosAddUp ==
    ASSUME NEW S, IsFiniteSet(S), NEW f, \A s \in S : f[s] = 0
    PROVE  Total(f, S) = 0
<1>1. 0 \in Nat /\ \A s \in S : f[s] \in 0 .. 0
  OBVIOUS
<1>2. Total(f, S) \in Nat /\ Total(f, S) <= Cardinality(S) * 0
  BY <1>1, TotalBounded
<1>3. Cardinality(S) \in Nat
  BY FS_CardinalityType
<1> QED BY <1>2, <1>3

\* Jobs leave the statuses of a figure for DELETED alone: rows that are counted
\* later are missing only if they have been deleted.
LEMMA FiguresKeep ==
    ASSUME IsFiniteSet(JobIds), StatusTypeOK, StatusesMoved, NEW S \in Figures
    PROVE  /\ Cardinality(Having(S)) + Deleted <= Cardinality(Having(S)') + Deleted'
           /\ Deleted \in Nat /\ Deleted' \in Nat /\ Deleted <= Deleted'
           /\ Cardinality(Having(S)) \in Nat /\ Cardinality(Having(S)') \in Nat
<1> DEFINE D == {j \in JobIds : status[j] = "DELETED"}
           E == {j \in JobIds : status'[j] = "DELETED"}
           H == {j \in JobIds : status[j] \in S}
           K == {j \in JobIds : status'[j] \in S}
<1>1. Deleted = Cardinality(D) /\ Deleted' = Cardinality(E) /\ Having(S) = H /\ Having(S)' = K
  BY DEF Deleted, Having
<1>2. D \subseteq E /\ H \cup D \subseteq K \cup E
  BY DEF Figures, JobStatus, StatusesMoved, StatusMove, StatusTypeOK, Statuses
<1>3. H \cap D = {} /\ K \cap E = {}
  BY DEF Figures, JobStatus
<1>4. D \subseteq JobIds /\ E \subseteq JobIds /\ H \subseteq JobIds /\ K \subseteq JobIds
  OBVIOUS
<1> HIDE DEF D, E, H, K
<1>5. /\ IsFiniteSet(D) /\ IsFiniteSet(E) /\ IsFiniteSet(H) /\ IsFiniteSet(K)
      /\ Cardinality(D) \in Nat /\ Cardinality(E) \in Nat
      /\ Cardinality(H) \in Nat /\ Cardinality(K) \in Nat
  BY <1>4, FiniteRows
<1>6. Cardinality(D) <= Cardinality(E)
  BY <1>2, <1>5, FS_Subset
<1>7. Cardinality(H \cup D) = Cardinality(H) + Cardinality(D) - Cardinality(H \cap D)
  BY <1>5, FS_Union
<1>8. Cardinality(K \cup E) = Cardinality(K) + Cardinality(E) - Cardinality(K \cap E) /\ IsFiniteSet(K \cup E)
  BY <1>5, FS_Union
<1>9. Cardinality(H \cup D) <= Cardinality(K \cup E)
  BY <1>2, <1>8, FS_Subset
<1>10. Cardinality(H \cap D) = 0 /\ Cardinality(K \cap E) = 0
  BY <1>3, FS_EmptySet
<1> QED BY <1>1, <1>5, <1>6, <1>7, <1>8, <1>9, <1>10

\* The rows whose status is in S, as the queries count them.
LEMMA RowsHaving ==
    ASSUME StatusTypeOK, NEW S \in Figures
    PROVE  {j \in Rows : status[j] \in S} = Having(S) /\ Rows = Having(JobStatus)
BY DEF Figures, JobStatus, Rows, Exists, Having, StatusTypeOK, Statuses

LEMMA FiguresAreNumbers ==
    ASSUME IsFiniteSet(JobIds), MetricsTypeOK, NEW S \in Figures
    PROVE  ByStatus(S) \in Nat /\ ByClass(S) \in Nat
<1>1. IsFiniteSet(S) /\ S \subseteq JobStatus /\ IsFiniteSet(Classes)
  BY FiniteStatuses, FiniteClasses
<1>2. ByStatus(S) \in Nat
  <2>1. \A s \in S : metrics.byStatus[s] \in Nat
    BY <1>1 DEF MetricsTypeOK
  <2> QED BY <1>1, <2>1, TotalOfNats DEF ByStatus
<1>3. ByClass(S) \in Nat
  <2> DEFINE f == [c \in Classes |-> Total(metrics.byClass[c], S)]
  <2>1. ASSUME NEW c \in Classes
        PROVE  Total(metrics.byClass[c], S) \in Nat
    <3>1. \A s \in S : metrics.byClass[c][s] \in Nat
      BY <1>1 DEF MetricsTypeOK
    <3> QED BY <1>1, <3>1, TotalOfNats
  <2>2. \A c \in Classes : f[c] \in Nat
    BY <2>1
  <2> HIDE DEF f
  <2>3. Total(f, Classes) \in Nat
    BY <1>1, <2>2, TotalOfNats
  <2> QED BY <2>3 DEF ByClass, f
<1> QED BY <1>2, <1>3

\* Answers stay as good as they were while the service goes on.
LEMMA AnswersKeep ==
    ASSUME IsFiniteSet(JobIds), MetricsInv, StatusesMoved, UNCHANGED metrics
    PROVE  MetricsInv'
<1>1. StatusTypeOK /\ StatusTypeOK' /\ MetricsTypeOK /\ MetricsTypeOK' /\ metrics' = metrics
  BY DEF MetricsInv, StatusesMoved, MetricsTypeOK
<1>2. \A S \in Figures :
          /\ Cardinality(Having(S)) + Deleted <= Cardinality(Having(S)') + Deleted'
          /\ Deleted \in Nat /\ Deleted' \in Nat /\ Deleted <= Deleted'
          /\ Cardinality(Having(S)) \in Nat /\ Cardinality(Having(S)') \in Nat
  BY <1>1, FiguresKeep
<1>3. JobStatus \in Figures
  BY DEF Figures
<1>4. \A S : ByStatus(S)' = ByStatus(S) /\ ByClass(S)' = ByClass(S)
  BY <1>1 DEF ByStatus, ByClass
<1>5. metrics.total \in Nat
  BY <1>1 DEF MetricsTypeOK
<1>6. \A S \in Figures : ByStatus(S) \in Nat /\ ByClass(S) \in Nat
  BY <1>1, FiguresAreNumbers
<1>7. TotalFits'
  BY <1>1, <1>2, <1>3, <1>5 DEF MetricsInv, TotalFits
<1>8. FirstTwoFit'
  <2>1. ByStatus(JobStatus)' = ByStatus(JobStatus)
    BY <1>4
  <2> QED BY <1>1, <1>2, <1>3, <1>5, <1>6, <2>1 DEF MetricsInv, FirstTwoFit
<1>9. StatusesFit'
  <2> SUFFICES ASSUME metrics'.pc = "class", NEW S \in Figures
               PROVE  ByStatus(S)' <= Cardinality(Having(S)') + Deleted'
    BY DEF StatusesFit
  <2>1. ByStatus(S) <= Cardinality(Having(S)) + Deleted
    BY <1>1 DEF MetricsInv, StatusesFit
  <2> QED BY <1>2, <1>4, <1>6, <2>1
<1>10. ClassesFit'
  <2> SUFFICES ASSUME metrics'.pc = "answered", NEW S \in Figures
               PROVE  ByStatus(S)' <= ByClass(S)' + Deleted'
    BY DEF ClassesFit
  <2>1. ByStatus(S) <= ByClass(S) + Deleted
    BY <1>1 DEF MetricsInv, ClassesFit
  <2> QED BY <1>2, <1>4, <1>6, <2>1
<1> QED BY <1>1, <1>7, <1>8, <1>9, <1>10 DEF MetricsInv

\* A query counts the rows of its moment.
LEMMA QueriesKeep ==
    ASSUME IsFiniteSet(JobIds), MetricsInv, MetricsNext
    PROVE  MetricsInv'
<1>1. /\ StatusTypeOK /\ StatusTypeOK' /\ status' = status /\ MetricsTypeOK
      /\ metrics = [pc |-> metrics.pc, total |-> metrics.total, byStatus |-> metrics.byStatus,
                    byClass |-> metrics.byClass]
  BY DEF MetricsInv, MetricsNext, CountTotal, CountStatuses, CountClasses, CountFails, AskAgain,
         lifecycle_vars, StatusTypeOK, MetricsTypeOK
<1>2. Deleted' = Deleted /\ Deleted \in Nat /\ \A S : Having(S)' = Having(S)
  <2>1. Deleted' = Deleted /\ \A S : Having(S)' = Having(S)
    BY <1>1 DEF Deleted, Having
  <2>2. Deleted \in Nat
    BY FiniteRows DEF Deleted
  <2> QED BY <2>1, <2>2
<1>3. \A S \in Figures : Cardinality(Having(S)) \in Nat
  BY FiniteRows DEF Having
<1>4. /\ JobStatus \in Figures /\ Rows = Having(JobStatus) /\ Rows \subseteq JobIds
      /\ \A S \in Figures : {j \in Rows : status[j] \in S} = Having(S) /\ S \subseteq JobStatus
  <2>1. JobStatus \in Figures
    BY DEF Figures
  <2> QED BY <1>1, <2>1, RowsHaving, FiniteStatuses DEF Rows
<1>5. NoCounts \in [JobStatus -> Nat] /\ [c \in Classes |-> NoCounts] \in [Classes -> [JobStatus -> Nat]]
  BY DEF NoCounts
<1>6. \A R \in SUBSET JobIds : CountByStatus(R) \in [JobStatus -> Nat]
  BY FiniteRows DEF CountByStatus
<1>7. CASE CountTotal
  <2>1. metrics' = [pc |-> "status", total |-> Cardinality(Rows), byStatus |-> NoCounts,
                    byClass |-> [c \in Classes |-> NoCounts]]
    BY <1>7 DEF CountTotal, NoMetrics
  <2>2. Cardinality(Rows) \in Nat
    BY <1>3, <1>4
  <2>3. MetricsTypeOK'
    BY <1>5, <2>1, <2>2 DEF MetricsTypeOK
  <2>4. TotalFits'
    BY <1>2, <1>4, <2>1, <2>2 DEF TotalFits
  <2> QED BY <1>1, <2>1, <2>3, <2>4 DEF MetricsInv, FirstTwoFit, StatusesFit, ClassesFit
<1>8. CASE CountStatuses
  <2>1. /\ metrics.pc = "status"
        /\ metrics' = [pc |-> "class", total |-> metrics.total, byStatus |-> CountByStatus(Rows),
                       byClass |-> metrics.byClass]
    BY <1>1, <1>8 DEF CountStatuses
  <2>2. MetricsTypeOK'
    BY <1>1, <1>4, <1>6, <2>1 DEF MetricsTypeOK
  <2>3. \A S \in Figures : ByStatus(S)' = Cardinality(Having(S))
    <3> TAKE S \in Figures
    <3>1. Total(CountByStatus(Rows), S) = Cardinality({j \in Rows : status[j] \in S})
      BY <1>4, CountsAddUp
    <3> QED BY <1>4, <2>1, <3>1 DEF ByStatus
  <2>4. FirstTwoFit'
    BY <1>2, <1>4, <2>1, <2>3 DEF MetricsInv, TotalFits, FirstTwoFit
  <2>5. StatusesFit'
    BY <1>2, <1>3, <2>3 DEF StatusesFit
  <2> QED BY <1>1, <2>1, <2>2, <2>4, <2>5 DEF MetricsInv, TotalFits, ClassesFit
<1>9. CASE CountClasses
  <2>1. /\ metrics.pc = "class"
        /\ metrics' = [pc |-> "answered", total |-> metrics.total, byStatus |-> metrics.byStatus,
                       byClass |-> CountByClass]
    BY <1>1, <1>9 DEF CountClasses, CountByClass
  <2>2. CountByClass \in [Classes -> [JobStatus -> Nat]]
    BY <1>4, <1>6 DEF CountByClass
  <2>3. MetricsTypeOK'
    BY <1>1, <2>1, <2>2 DEF MetricsTypeOK
  <2>4. \A S \in Figures : ByStatus(S)' = ByStatus(S) /\ ByClass(S)' = Cardinality(Having(S))
    <3> TAKE S \in Figures
    <3>1. ByStatus(S)' = ByStatus(S)
      BY <2>1 DEF ByStatus
    <3>2. S \in SUBSET JobStatus
      BY <1>4
    <3>3. ClassSum(CountByClass, S) = Cardinality({j \in Rows : status[j] \in S})
      BY <3>2, ClassCountsAddUp
    <3>4. ByClass(S)' = ClassSum(CountByClass, S)
      BY <2>1 DEF ByClass, ClassSum
    <3> QED BY <1>4, <3>1, <3>3, <3>4
  <2>5. FirstTwoFit'
    BY <1>2, <1>4, <2>1, <2>4 DEF MetricsInv, FirstTwoFit
  <2>6. ClassesFit'
    BY <1>2, <2>1, <2>4 DEF MetricsInv, StatusesFit, ClassesFit
  <2> QED BY <1>1, <2>1, <2>3, <2>5, <2>6 DEF MetricsInv, TotalFits, StatusesFit
<1>10. CASE CountFails
  <2>1. metrics' = [pc |-> "answered", total |-> 0, byStatus |-> NoCounts,
                    byClass |-> [c \in Classes |-> NoCounts]]
    BY <1>10 DEF CountFails, NoMetrics
  <2>2. MetricsTypeOK'
    BY <1>5, <2>1 DEF MetricsTypeOK
  <2>3. \A S \in Figures : ByStatus(S)' = 0 /\ ByClass(S)' = 0
    <3> TAKE S \in Figures
    <3>1. Total(NoCounts, S) = 0
      BY <1>4, FiniteStatuses, ZerosAddUp DEF NoCounts
    <3> DEFINE f == [c \in Classes |-> Total(metrics'.byClass[c], S)]
    <3>2. \A c \in Classes : f[c] = 0
      <4>1. \A c \in Classes : metrics'.byClass[c] = NoCounts
        BY <2>1
      <4> QED BY <3>1, <4>1
    <3>3. Total(f, Classes) = 0
      <4> HIDE DEF f
      <4> QED BY <3>2, FiniteClasses, ZerosAddUp
    <3>4. ByStatus(S)' = Total(NoCounts, S) /\ ByClass(S)' = Total(f, Classes)
      BY <2>1 DEF ByStatus, ByClass
    <3> QED BY <3>1, <3>3, <3>4
  <2>4. FirstTwoFit' /\ ClassesFit'
    BY <1>2, <1>4, <2>1, <2>3 DEF FirstTwoFit, ClassesFit
  <2> QED BY <1>1, <2>1, <2>2, <2>4 DEF MetricsInv, TotalFits, StatusesFit
<1>11. CASE AskAgain
  <2>1. metrics' = [pc |-> "total", total |-> 0, byStatus |-> NoCounts,
                    byClass |-> [c \in Classes |-> NoCounts]]
    BY <1>11 DEF AskAgain, NoMetrics
  <2>2. MetricsTypeOK'
    BY <1>5, <2>1 DEF MetricsTypeOK
  <2> QED BY <1>1, <2>1, <2>2 DEF MetricsInv, TotalFits, FirstTwoFit, StatusesFit, ClassesFit
<1> QED BY <1>7, <1>8, <1>9, <1>10, <1>11 DEF MetricsNext

-----------------------------------------------------------------------------
(* The clients together with the service. *)

LEMMA TestInvInit ==
    ASSUME ClientsInit
    PROVE  TestInv
<1>1. test = At("idle", 0, <<>>) /\ Remembered
  <2>1. Range(TestIds) \subseteq JobIds
    BY TestIdsAssumption DEF Range
  <2>2. \A j \in Range(TestIds) : status[j] = "ABSENT"
    BY <2>1 DEF ClientsInit, Init
  <2> QED BY <2>2 DEF ClientsInit, TestInit, Remembered, PastTypeOK, Endings
<1>2. 0 \in 0 .. MaxPolls - 1 /\ <<>> \in Seq(JobIds) /\ "idle" \in TestPCs
  BY MaxPollsAssumption DEF TestPCs
<1>3. test \in TestState /\ test.pc = "idle"
  BY <1>1, <1>2, AtType
<1> QED BY <1>1, <1>3 DEF TestInv, TestTypeOK, TestState, SampleReads, VerifyReads, TestVerdicts

LEMMA MetricsInvInit ==
    ASSUME ClientsInit
    PROVE  MetricsInv
<1>1. metrics = [pc |-> "total", total |-> 0, byStatus |-> NoCounts,
                 byClass |-> [c \in Classes |-> NoCounts]]
  BY DEF ClientsInit, MetricsInit, NoMetrics
<1>2. StatusTypeOK
  BY DEF ClientsInit, Init, StatusTypeOK, Statuses
<1>3. MetricsTypeOK
  BY <1>1 DEF MetricsTypeOK, NoCounts
<1> QED BY <1>1, <1>2, <1>3 DEF MetricsInv, TotalFits, FirstTwoFit, StatusesFit, ClassesFit

\* Whoever takes a step, a test does something itself or nothing.
LEMMA TestInvNext ==
    ASSUME TestInv, [OpenNext]_clients_vars
    PROVE  TestInv'
<1>1. NothingForgotten
  BY PastGrows DEF TestInv
<1>2. UNCHANGED test \/ TestNext
  BY DEF OpenNext, AnyServiceStep, ClientsNext, clients_vars
<1> QED BY <1>1, <1>2, TestStep

LEMMA MetricsInvNext ==
    ASSUME IsFiniteSet(JobIds), MetricsInv, [OpenNext]_clients_vars
    PROVE  MetricsInv'
<1>1. StatusesMoved
  BY StatusesMove DEF MetricsInv
<1>2. UNCHANGED metrics \/ MetricsNext
  BY DEF OpenNext, AnyServiceStep, ClientsNext, clients_vars
<1> QED BY <1>1, <1>2, AnswersKeep, QueriesKeep

LEMMA AlwaysTestInv == OpenSpec => []TestInv
<1>1. ClientsInit => TestInv
  BY TestInvInit
<1>2. TestInv /\ [OpenNext]_clients_vars => TestInv'
  BY TestInvNext
<1> QED BY <1>1, <1>2, PTL DEF OpenSpec

LEMMA AlwaysMetricsInv ==
    ASSUME IsFiniteSet(JobIds)
    PROVE  OpenSpec => []MetricsInv
<1>1. ClientsInit => MetricsInv
  BY MetricsInvInit
<1>2. MetricsInv /\ [OpenNext]_clients_vars => MetricsInv'
  BY MetricsInvNext
<1> QED BY <1>1, <1>2, PTL DEF OpenSpec

LEMMA ClientsAreOpen == ClientsSpec => OpenSpec
<1>1. [ClientsNext]_clients_vars => [OpenNext]_clients_vars
  BY DEF OpenNext
<1> QED BY <1>1, PTL DEF ClientsSpec, OpenSpec

-----------------------------------------------------------------------------
\* Both clients keep their types (runTest in debug.controller.ts and getJobMetrics): a
\* test has at most MaxPolls polls, whatever the jobs do.
THEOREM ClientsTypeCorrect ==
    ASSUME IsFiniteSet(JobIds)
    PROVE  ClientsSpec => []ClientsTypeOK
<1> DEFINE ClientOK == client \in {"run_test", "metrics"}
<1>1. ClientsInit => ClientOK
  BY DEF ClientsInit
<1>2. ClientOK /\ [OpenNext]_clients_vars => ClientOK'
  BY DEF OpenNext, AnyServiceStep, ClientsNext, clients_vars
<1>3. TestInv /\ MetricsInv /\ ClientOK => ClientsTypeOK
  BY DEF TestInv, Remembered, MetricsInv, ClientsTypeOK
<1> HIDE DEF ClientOK
<1> QED BY <1>1, <1>2, <1>3, AlwaysTestInv, AlwaysMetricsInv, ClientsAreOpen, PTL DEF OpenSpec

\* What the two invariants say of a verdict and of a response.
LEMMA VerdictsHold == TestInv => PassedIsCompleted /\ FailedIsReal
<1> SUFFICES ASSUME TestInv
             PROVE  PassedIsCompleted /\ FailedIsReal
  OBVIOUS
<1>1. DOMAIN TestIds = 1 .. Len(TestIds)
  BY TestIdsAssumption
<1>2. test.pc = "passed" => \A j \in Range(TestIds) : "COMPLETED" \in past[j]
  BY <1>1 DEF TestInv, TestVerdicts, AllCompleted, Range
<1>3. test.pc = "failed" =>
          /\ \A j \in Range(TestIds) : past[j] # {}
          /\ \E j \in Range(TestIds) : "FAILED" \in past[j]
  BY <1>1, TestIdsType DEF TestInv, TestVerdicts, AllEnded, SomeFailed, Range
<1> QED BY <1>2, <1>3 DEF PassedIsCompleted, FailedIsReal

LEMMA FiguresHold == MetricsInv => FiguresFitTogether
BY DEF MetricsInv, FirstTwoFit, ClassesFit, Figures, FiguresFitTogether

\* A test that passes is about jobs that have all been COMPLETED, although it has
\* read them one after the other (the verify loop of runTest in debug.controller.ts).
THEOREM PassedAlwaysCompleted == ClientsSpec => []PassedIsCompleted
BY VerdictsHold, AlwaysTestInv, ClientsAreOpen, PTL

\* A test says that jobs failed when all have been COMPLETED or FAILED and at least one
\* has been FAILED, in whatever order the failures and the fetches came (the same loop).
THEOREM FailedAlwaysReal == ClientsSpec => []FailedIsReal
BY VerdictsHold, AlwaysTestInv, ClientsAreOpen, PTL

\* The three figures of a response are of three moments, and each is too small by at
\* most the rows deleted meanwhile (the queries of getJobMetrics).
THEOREM FiguresAlwaysFit ==
    ASSUME IsFiniteSet(JobIds)
    PROVE  ClientsSpec => []FiguresFitTogether
BY FiguresHold, AlwaysMetricsInv, ClientsAreOpen, PTL

\* None of this depends on how many failures are recorded at once or who else submits
\* jobs: the clients are right with every service that keeps to JobLifecycle, as
\* LifecycleImplemented says of the one in jobs.service.ts.
THEOREM RightWithAnyService ==
    ASSUME IsFiniteSet(JobIds)
    PROVE  OpenSpec => [](PassedIsCompleted /\ FailedIsReal /\ FiguresFitTogether)
<1>1. TestInv => PassedIsCompleted /\ FailedIsReal
  BY VerdictsHold
<1>2. MetricsInv => FiguresFitTogether
  BY FiguresHold
<1> QED BY <1>1, <1>2, AlwaysTestInv, AlwaysMetricsInv, PTL
=============================================================================
