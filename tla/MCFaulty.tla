------------------------------ MODULE MCFaulty ------------------------------
(* FaultyStream on a small instance. *)
EXTENDS FaultyStream

AccountSymmetry == Permutations(Accounts)
=============================================================================
