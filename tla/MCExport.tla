------------------------------ MODULE MCExport ------------------------------
(***************************************************************************)
(* Export on small sets, for TLC.  No symmetry: one of its runs checks     *)
(* that exports end.                                                       *)
(***************************************************************************)
EXTENDS Export
=============================================================================
