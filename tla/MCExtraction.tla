---------------------------- MODULE MCExtraction ----------------------------
(***************************************************************************)
(* Extraction on small sets, for TLC: one photo, uploaded twice at a time, *)
(* whose receipt can be deleted.  Gemini may read it well, call it no      *)
(* receipt but guess at its values, or find a day that does not exist.     *)
(***************************************************************************)
EXTENDS Extraction

Payloads ==
    {[isReceipt |-> "yes", confidenceFits |-> TRUE, fieldsFit |-> fit, items |-> TRUE] : fit \in BOOLEAN}
        \cup {[isReceipt |-> "no", confidenceFits |-> TRUE, fieldsFit |-> FALSE, items |-> TRUE]}

LineLists == {[fieldsFit |-> TRUE, items |-> TRUE]}

=============================================================================
