------------------------------ MODULE BullQueue ------------------------------
(***************************************************************************)
(* The BullMQ queue "jobs" in Redis, as far as the code relies on it.  It  *)
(* is a library: these operations are modelled from the way JobsService,   *)
(* JobsProcessor and MonitorService call it, each one atomic (one Lua      *)
(* script).  Entries are keyed by the database id (jobId |-> savedJob.id), *)
(* so a key has at most one entry; FIFO order is abstracted to a set.      *)
(***************************************************************************)
EXTENDS Environment, FiniteSets

CONSTANTS
    Workers,        \* worker processes
    Concurrency,    \* jobs one worker process runs at a time
    NoSlot,         \* no lock holder
    MaxStalledCount \* stalls BullMQ forgives before it fails the entry

\* A worker process runs up to Concurrency jobs; each takes one slot.
Slots == Workers \X (1 .. Concurrency)

ASSUME ConcurrencyAssumption == Concurrency \in Nat \ {0}
ASSUME NoSlotAssumption == NoSlot \notin Slots
ASSUME MaxStalledCountAssumption == MaxStalledCount \in Nat

VARIABLE bull       \* for each id its entry

EntryStates == {"none", "wait", "active", "failed"}
Reasons == {"none", "transient", "permanent"}

\* owner: the slot whose token locks an active entry, or NoSlot.
Entry == [st : EntryStates, owner : Slots \cup {NoSlot}, stalls : Nat, reason : Reasons]

BullTypeOK == bull \in [JobIds -> Entry]

NoEntry == [st |-> "none", owner |-> NoSlot, stalls |-> 0, reason |-> "none"]
NewEntry == [NoEntry EXCEPT !.st = "wait"]

BullInit == bull = [j \in JobIds |-> NoEntry]

Locked(j) == bull[j].owner # NoSlot

FailedEntries == {j \in JobIds : bull[j].st = "failed"}

\* What queue.getFailed(0, n - 1) may return: n failed entries, or all of them.
\* Which n is left open, since the code does not say in which order it wants them.
FailedWindows(n) ==
    {S \in SUBSET FailedEntries :
        IF Cardinality(FailedEntries) < n THEN S = FailedEntries ELSE Cardinality(S) = n}

\* queue.getJobCounts
JobCounts(st) == Cardinality({j \in JobIds : bull[j].st = st})

\* Mutant: add without the jobId option makes a new entry.
AddEntries_NoJobId(S) ==
    bull' = [j \in JobIds |-> IF j \in S THEN NewEntry ELSE bull[j]]

\* queue.add / queue.addBulk: an id that has an entry in any state is ignored.
AddEntries(S) ==
    bull' = [j \in JobIds |-> IF j \in S /\ bull[j].st = "none" THEN NewEntry ELSE bull[j]]

\* A slot fetches a waiting entry and locks it.
TakeEntry(j, s) ==
    /\ bull[j].st = "wait"
    /\ bull' = [bull EXCEPT ![j].st = "active", ![j].owner = s]

\* process() resolved: moveToCompleted with removeOnComplete.  A slot that has
\* lost its lock changes nothing.
CompleteEntry(j, s) ==
    bull' = [bull EXCEPT ![j] = IF @.owner = s THEN NoEntry ELSE @]

\* process() rejected: moveToFailed with removeOnFail false, one attempt.
FailEntry(j, s, why) ==
    bull' = [bull EXCEPT ![j] =
                IF @.owner = s
                THEN [@ EXCEPT !.st = "failed", !.owner = NoSlot, !.reason = why]
                ELSE @]

\* job.remove(), which refuses (throws on) a locked entry.
RemoveEntry(j) ==
    bull' = [bull EXCEPT ![j] = IF @.owner = NoSlot THEN NoEntry ELSE @]

\* job.retry() of a failed entry; it throws when the entry is not failed.
RetryEntry(j) ==
    bull' = [bull EXCEPT ![j] =
                IF @.st = "failed" THEN [@ EXCEPT !.st = "wait", !.reason = "none"] ELSE @]

\* The lock of an active entry expires in Redis.
ExpireLock(j) ==
    /\ Locked(j)
    /\ bull' = [bull EXCEPT ![j].owner = NoSlot]

\* The stalled-jobs check of the workers finds an active entry without lock:
\* back to the queue, or failed ("job stalled more than allowable limit").
StalledCheck(j) ==
    /\ bull[j].st = "active"
    /\ ~Locked(j)
    /\ bull' = [bull EXCEPT ![j] =
                   IF @.stalls < MaxStalledCount
                   THEN [@ EXCEPT !.st = "wait", !.stalls = bull[j].stalls + 1]
                   ELSE [@ EXCEPT !.st = "failed", !.reason = "permanent"]]

\* queue.obliterate({ force: true })
Obliterate == bull' = [j \in JobIds |-> NoEntry]
=============================================================================
