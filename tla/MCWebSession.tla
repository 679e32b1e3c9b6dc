---------------------------- MODULE MCWebSession ----------------------------
(***************************************************************************)
(* WebSession on small sets, for TLC.                                      *)
(***************************************************************************)
EXTENDS WebSession, TLC

CONSTANTS b1, f1, f2

(* The second call is on the second page, if there is one.                 *)
Homes == (f1 :> b1) @@ [f \in Flow |-> IF Tab = {b1} THEN b1 ELSE CHOOSE b \in Tab : b # b1]

(* Tokens are only compared, and the calls of one page are alike.          *)
Tokens == Permutations(Token)
TokensAndFlows == Tokens \cup Permutations(Flow)

=============================================================================
