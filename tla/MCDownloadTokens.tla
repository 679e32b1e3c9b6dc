-------------------------- MODULE MCDownloadTokens --------------------------
(***************************************************************************)
(* DownloadTokens on small sets, for TLC: one sheet, whose addresses and   *)
(* another account's bearer header meet in the same requests.              *)
(***************************************************************************)
EXTENDS DownloadTokens

CONSTANT u1

Accounts == [s \in Screen |-> u1]

=============================================================================
