----------------------------- MODULE MCRunViews ------------------------------
(* Instances of RunViews: a run that may hold one of two flags, two approvals *)
(* that may overlap it and one another, an index rebuild and a terminal UI.   *)
EXTENDS RunViews, TLC

\* Flags and approvals are interchangeable.
Symmetry == Permutations(Flags) \cup Permutations(Approvers)
=============================================================================
