---------------------------- MODULE MCReference ----------------------------
(* Reference on small instances. *)
EXTENDS Reference

AccountSymmetry == Permutations(Accounts)
============================================================================
