--------------------------- MODULE MCAccountLinks ---------------------------
(* AccountLinks with interchangeable requests and tokens.                  *)
EXTENDS AccountLinks, TLC

Symmetry == Permutations(Request) \cup Permutations(Token)
=============================================================================
