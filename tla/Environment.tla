---------------------------- MODULE Environment ----------------------------
(***************************************************************************)
(* The job ids, and the environment's misbehaviour: none of it is code of  *)
(* the repository.  Every action that stands for a failing call, a dying   *)
(* process or an unlucky delay spends one unit of its kind's budget, so a  *)
(* configuration says with MaxFaults how much can go wrong in an instance. *)
(*                                                                         *)
(*   transient  a PostgreSQL or Redis call fails with one of the messages  *)
(*              recoverFailedQueueJobs knows                               *)
(*   permanent  such a call fails with any other message                   *)
(*   crash      an API, worker or monitor process dies and restarts        *)
(*   lockLoss   a live worker fails to renew a BullMQ lock in time         *)
(*   overrun    a sweep resets a job that a live worker is working on      *)
(*   clean      an operator calls POST /debug/clean/queue or clean/table   *)
(***************************************************************************)
EXTENDS Naturals

CONSTANTS
    JobIds,     \* the primary keys the database may generate
    MaxFaults   \* for each kind of fault, how many an instance allows

FaultKinds == {"transient", "permanent", "crash", "lockLoss", "overrun", "clean"}

\* The two kinds of error a database call can fail with.
DbErrors == {"transient", "permanent"}

ASSUME MaxFaultsAssumption == MaxFaults \in [FaultKinds -> Nat]

VARIABLE faults         \* for each kind, how many have happened

FaultsTypeOK == faults \in [FaultKinds -> Nat]

FaultsInit == faults = [k \in FaultKinds |-> 0]

\* One more fault of kind k.
Spend(k) ==
    /\ faults[k] < MaxFaults[k]
    /\ faults' = [faults EXCEPT ![k] = @ + 1]
=============================================================================
