----------------------------- MODULE MCConfirm -----------------------------
(***************************************************************************)
(* Confirm on small sets, for TLC.                                         *)
(***************************************************************************)
EXTENDS Confirm, TLC

CONSTANTS v1, shop, c1

=============================================================================
