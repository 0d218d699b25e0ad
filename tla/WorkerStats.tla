----------------------------- MODULE WorkerStats -----------------------------
(***************************************************************************)
(* WorkerStatsService: what JobsProcessor.process counts around processJob *)
(* in the memory of each worker, the copies it publishes to Redis under    *)
(* worker:stats:<type>:<id> with a TTL, and the two readers of those keys, *)
(* getWorkerMetrics and POST /debug/clean/stats, which run in the monitor. *)
(* No two workers share an id.  A restarted worker has the one it had when *)
(* WORKER_ID is set; the default id contains the pid, and then it has a    *)
(* new one.  CPU, memory and pool figures are left out, and so is the      *)
(* worker's type: all workers are of one type.                             *)
(***************************************************************************)
EXTENDS JobQueueService, Totals

VARIABLES
    counters,   \* for each worker, the counts in its memory
    renamed,    \* for each worker, how often it has come back with a new id
    reports,    \* the keys in Redis: a function on the ids that have one
    cleaning    \* the keys a running clean/stats has scanned and not deleted
stats_vars == <<counters, renamed, reports, cleaning>>

\* What a worker counts, and what a report holds.
Zero == [active |-> 0, processed |-> 0, failed |-> 0]

StatsInit ==
    /\ counters = [w \in Workers |-> Zero]
    /\ renamed = [w \in Workers |-> 0]
    /\ reports = [i \in {} |-> Zero]
    /\ cleaning = {}

\* The id of worker w, and those that a running worker has.
Id(w) == <<w, renamed[w]>>
LiveIds == {Id(w) : w \in Workers}

-----------------------------------------------------------------------------
\* incrementActiveJobs and decrementActiveJobs.
Entered(c) == [c EXCEPT !.active = @ + 1]
Left(c) == [c EXCEPT !.active = IF @ > 0 THEN @ - 1 ELSE 0]

Count(w, c) == counters' = [counters EXCEPT ![w] = c]

\* process() begins.
CountTake(s, j) ==
    /\ Take(s, j)
    /\ Count(s[1], Entered(counters[s[1]]))
    /\ UNCHANGED renamed

\* Mutant: a call that gives its job up resolves without being counted.
CountReturn_NotCounted(s) ==
    /\ Return(s)
    /\ Count(s[1], IF jobs[slots[s].job].status = "FAILED" THEN Left(counters[s[1]])
                   ELSE [Left(counters[s[1]]) EXCEPT !.processed = @ + 1])
    /\ UNCHANGED renamed

\* ... and resolves, whatever has become of the job.
CountReturn(s) ==
    /\ Return(s)
    /\ Count(s[1], [Left(counters[s[1]]) EXCEPT !.processed = @ + 1])
    /\ UNCHANGED renamed

\* Mutant: decrementActiveJobs is not in a finally block.
CountReject_NotLeft(s) ==
    /\ Reject(s)
    /\ Count(s[1], [counters[s[1]] EXCEPT !.failed = @ + 1])
    /\ UNCHANGED renamed

\* ... or rejects.
CountReject(s) ==
    /\ Reject(s)
    /\ Count(s[1], [Left(counters[s[1]]) EXCEPT !.failed = @ + 1])
    /\ UNCHANGED renamed

\* A restarted worker counts from zero, under its old id or a new one.
CountCrash(w) ==
    /\ CrashWorker(w)
    /\ Count(w, Zero)
    /\ UNCHANGED renamed \/ renamed' = [renamed EXCEPT ![w] = @ + 1]

ProcessStep ==
    /\ \/ \E s \in Slots : CountReturn(s) \/ CountReject(s) \/ \E j \in JobIds : CountTake(s, j)
       \/ \E w \in Workers : CountCrash(w)
    /\ UNCHANGED <<mon, batches, removing, reports, cleaning>>

\* Everything that neither begins nor ends a call of process().
ServiceStep ==
    /\ Next
    /\ \A s \in Slots : slots[s].pc = "idle" <=> slots'[s].pc = "idle"
    /\ UNCHANGED stats_vars

-----------------------------------------------------------------------------
\* The reports with that of id i overwritten.
Written(i, c) == [k \in DOMAIN reports \cup {i} |-> IF k = i THEN c ELSE reports[k]]

\* Mutant: a worker publishes on start, and not periodically.
Publish_OnStart(w) ==
    /\ Id(w) \notin DOMAIN reports
    /\ reports' = Written(Id(w), counters[w])
    /\ UNCHANGED <<vars, counters, renamed, cleaning>>

\* publishStats: one SETEX, on start and then periodically.
Publish(w) ==
    /\ reports' = Written(Id(w), counters[w])
    /\ UNCHANGED <<vars, counters, renamed, cleaning>>

Forget(S) == reports' = [i \in DOMAIN reports \ S |-> reports[i]]

\* Nobody has published under this id for a TTL: its worker is down or has another
\* id, or Redis fails.
Expire(i) ==
    /\ i \in DOMAIN reports
    /\ Forget({i})
    /\ UNCHANGED <<vars, counters, renamed, cleaning>>

\* cleanStats: a SCAN, and then the DEL of the keys it has returned.
CleanScan ==
    /\ cleaning = {}
    /\ cleaning' = DOMAIN reports
    /\ UNCHANGED <<vars, counters, renamed, reports>>

CleanDelete ==
    /\ cleaning # {}
    /\ Forget(cleaning)
    /\ cleaning' = {}
    /\ UNCHANGED <<vars, counters, renamed>>

\* getWorkerMetrics: SCAN, then MGET; a key that is gone by then is skipped.  When
\* Redis rejects, it answers as if it had found no key.
WorkerMetrics(keys) ==
    LET found == keys \cap DOMAIN reports
    IN  [running |-> Cardinality(found),
         processing |-> Total([i \in found |-> reports[i].active], found)]

StatsNext ==
    \/ ProcessStep
    \/ ServiceStep
    \/ \E w \in Workers : Publish(w)
    \/ \E i \in DOMAIN reports : Expire(i)
    \/ CleanScan
    \/ CleanDelete

StatsSpec == Init /\ StatsInit /\ [][StatsNext]_<<vars, stats_vars>>

\* The interval of publishStats goes on ticking, and the TTL of a report that nobody
\* renews runs out.  None for the service itself, for lost reports and for clean/stats.
StatsFairSpec ==
    /\ StatsSpec
    /\ \A w \in Workers : WF_<<vars, stats_vars>>(Publish(w))
    /\ WF_<<vars, stats_vars>>(\E i \in DOMAIN reports \ LiveIds : Expire(i))

-----------------------------------------------------------------------------
InFlight(w) == {s \in Slots : s[1] = w /\ slots[s].pc # "idle"}

\* worker_active_jobs is the number of process() calls of the worker that have
\* not settled, through resets, rejections and restarts: it does not drift.
ActiveIsInFlight ==
    \A w \in Workers : counters[w].active = Cardinality(InFlight(w))

\* What the workers have counted together.
AllActive == Total([w \in Workers |-> counters[w].active], Workers)
AllProcessed == Total([w \in Workers |-> counters[w].processed], Workers)

\* A job that ended, FAILED as well as COMPLETED, is counted as processed: its last
\* call is still running or has resolved, whoever wrote the status.  Only a call that
\* fails can keep a job out of worker_processed_jobs_total, and a restart forgets what
\* was counted.  (docs/MONITORING.md has "jobs completed" and "jobs failed" instead.)
FinishedAreProcessed ==
    faults["crash"] = 0 =>
        Cardinality({j \in JobIds : jobs[j].status \in {"COMPLETED", "FAILED"}})
            <= AllActive + AllProcessed + Interruptions

Busy == {s \in Slots : slots[s].pc # "idle"}

\* When the calls of process() stay the same for long enough, the jobs in processing
\* of getWorkerMetrics become what they are: reports of workers that have restarted
\* or renamed themselves are overwritten or run out, and a running clean/stats or an
\* expired key can only hide a worker, never bring an old report back.
FiguresCatchUp ==
    \A n \in 0 .. Cardinality(Slots) :
        <>[](Cardinality(Busy) = n) =>
            <>[](\A keys \in SUBSET DOMAIN reports :
                    /\ WorkerMetrics(keys).processing <= n
                    /\ LiveIds \subseteq keys => WorkerMetrics(keys).processing = n)
=============================================================================
