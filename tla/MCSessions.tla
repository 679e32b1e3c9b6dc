----------------------------- MODULE MCSessions -----------------------------
(***************************************************************************)
(* Sessions on small sets, for TLC.                                        *)
(***************************************************************************)
EXTENDS Sessions, TLC

(* Requests and ids are only compared: any permutation of them maps        *)
(* behaviours to behaviours.                                               *)
Symmetry == Permutations(Request) \cup Permutations(Sid)

=============================================================================
