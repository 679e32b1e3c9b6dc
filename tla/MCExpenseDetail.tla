-------------------------- MODULE MCExpenseDetail --------------------------
(***************************************************************************)
(* ExpenseDetail on small sets, for TLC.                                   *)
(***************************************************************************)
EXTENDS ExpenseDetail, TLC

CONSTANTS v1, c1, c2, shop, myr

=============================================================================
