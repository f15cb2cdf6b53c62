----------------------------- MODULE MCFastBook -----------------------------
(* FastBook, with its history variables, on small instances. *)
EXTENDS FastBookRefinement

AccountSymmetry == Permutations(Accounts)
=============================================================================
