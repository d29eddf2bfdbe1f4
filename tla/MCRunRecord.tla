----------------------------- MODULE MCRunRecord -----------------------------
(* Instances of RunRecord: a run that may hold one of two flags, and two      *)
(* approvals that may overlap it and one another.                             *)
EXTENDS RunRecord, TLC

\* Flags and approvals are interchangeable.
Symmetry == Permutations(Flags) \cup Permutations(Approvers)
=============================================================================
