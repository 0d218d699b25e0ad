------------------------------ MODULE MCClients ------------------------------
(***************************************************************************)
(* The instance of Clients for TLC.                                        *)
(***************************************************************************)
EXTENDS Clients

CONSTANTS t1, t2, t3, t4, u1, u2

\* Four jobs of the test, one of which is no sample, and two of others.
FourTests == <<t1, t2, t3, t4>>
TestsAndOthers == {t1, t2, t3, t4, u1, u2}
TwoClasses == [j \in TestsAndOthers |-> IF j = u1 THEN "gpu" ELSE "test"]
=============================================================================
