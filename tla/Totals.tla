-------------------------------- MODULE Totals --------------------------------
(***************************************************************************)
(* The sum that the metrics endpoints and the checks of their figures use. *)
(***************************************************************************)
EXTENDS FiniteSetsExt

\* The sum of f[x] over the x in S.
Total(f, S) == MapThenSumSet(LAMBDA x : f[x], S)
===============================================================================
