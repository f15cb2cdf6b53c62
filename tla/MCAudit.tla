------------------------------- MODULE MCAudit -------------------------------
(* AuditedReference on small instances. *)
EXTENDS AuditedReference

AccountSymmetry == Permutations(Accounts)
=============================================================================
