--------------------------------- MODULE Api ---------------------------------
(***************************************************************************)
(* The API process: the requests of JobsController that change state,      *)
(* JobsService.createJob, createBulkJobs and cancelJob.  A request is a    *)
(* transaction on the table followed by a call of the queue; in between it *)
(* is in flight.                                                           *)
(*                                                                         *)
(* cancelJob's findOne before its UPDATE is part of the UPDATE's step: it  *)
(* tests the same condition, so the UPDATE affects a row exactly when it   *)
(* would right after such a findOne, and otherwise nothing changes.        *)
(***************************************************************************)
EXTENDS JobsTable, BullQueue

VARIABLES
    batches,    \* the sets of ids inserted by create requests, not enqueued yet
    removing    \* the ids cancelled in the table, not removed from the queue yet
api_vars == <<batches, removing>>

ApiTypeOK ==
    /\ batches \subseteq SUBSET JobIds
    /\ removing \subseteq JobIds

ApiInit == batches = {} /\ removing = {}

\* createJob and createBulkJobs: insert the rows; a plain request has one job.
Create(S) ==
    /\ S # {}
    /\ InsertJobs(S)
    /\ batches' = batches \cup {S}
    /\ UNCHANGED <<faults, bull, removing>>

\* ... then queue.add or queue.addBulk.
Enqueue(S) ==
    /\ S \in batches
    /\ AddEntries(S)
    /\ batches' = batches \ {S}
    /\ UNCHANGED <<faults, jobs, removing>>

\* ... which rejects: the client gets an error, the rows stay.
EnqueueErrs(S) ==
    /\ S \in batches
    /\ \E k \in DbErrors : Spend(k)
    /\ batches' = batches \ {S}
    /\ UNCHANGED <<jobs, bull, removing>>

\* cancelJob: the conditional UPDATE affects the row.
Cancel(j) ==
    /\ CancelJob(j)
    /\ removing' = removing \cup {j}
    /\ UNCHANGED <<faults, bull, batches>>

\* ... then getJob and remove, whose failure is only logged.
RemoveCancelled(j) ==
    /\ j \in removing
    /\ RemoveEntry(j)
    /\ removing' = removing \ {j}
    /\ UNCHANGED <<faults, jobs, batches>>

RemoveErrs(j) ==
    /\ j \in removing
    /\ \E k \in DbErrors : Spend(k)
    /\ removing' = removing \ {j}
    /\ UNCHANGED <<jobs, bull, batches>>

\* The API process dies with its requests in flight and is restarted.
CrashApi ==
    /\ batches # {} \/ removing # {}
    /\ Spend("crash")
    /\ batches' = {}
    /\ removing' = {}
    /\ UNCHANGED <<jobs, bull>>

-----------------------------------------------------------------------------
ApiFault ==
    \/ \E S \in batches : EnqueueErrs(S)
    \/ \E j \in removing : RemoveErrs(j)
    \/ CrashApi

ApiNext ==
    \/ \E S \in SUBSET JobIds : Create(S) \/ Enqueue(S)
    \/ \E j \in JobIds : Cancel(j) \/ RemoveCancelled(j)
    \/ ApiFault
=============================================================================
