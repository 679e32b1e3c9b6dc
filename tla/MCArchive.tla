----------------------------- MODULE MCArchive -----------------------------
(* Archive with interchangeable photos, ids and requests.                  *)
EXTENDS Archive, TLC

Symmetry == Permutations(Photo) \cup Permutations(Receipt)
                \cup Permutations(Expense) \cup Permutations(Request)
=============================================================================
