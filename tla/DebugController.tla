--------------------------- MODULE DebugController ---------------------------
(***************************************************************************)
(* The clean endpoints of the monitor's DebugController, as far as they    *)
(* touch jobs: each is one call.  POST /debug/clean/all is clean/stats,    *)
(* then clean/queue, then clean/table, with the rest of the system free to *)
(* run in between, so it is these two actions in that order.               *)
(***************************************************************************)
EXTENDS JobsTable, BullQueue

\* cleanQueue: obliterate({ force: true }) takes running entries too.
CleanQueue ==
    /\ Spend("clean")
    /\ Obliterate
    /\ UNCHANGED jobs

\* cleanTable: TRUNCATE.
CleanTable ==
    /\ Spend("clean")
    /\ DeleteJobs({j \in JobIds : RowExists(j)})
    /\ UNCHANGED bull

DebugNext == CleanQueue \/ CleanTable
=============================================================================
