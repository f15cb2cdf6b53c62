------------------------------- MODULE MCFlow -------------------------------
(* RecordedFlow on small instances. *)
EXTENDS RecordedFlow

AccountSymmetry == Permutations(Accounts)
=============================================================================
