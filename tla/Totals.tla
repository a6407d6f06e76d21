------------------------------- MODULE Totals -------------------------------
(***************************************************************************)
(* The sum of a function over a finite set, in which the ledgers of the     *)
(* other modules are stated: what SUM(..) returns of rows that are kept as  *)
(* a function of their keys.                                                *)
(***************************************************************************)
EXTENDS FiniteSetsExt

Total(f, S) == MapThenSumSet(LAMBDA x : f[x], S)

=============================================================================
