--------------------------- MODULE MCUpdateBranch ---------------------------
(* UpdateBranch on small instances. *)
EXTENDS UpdateBranch, TLC

\* Runs are interchangeable, and so are the commits people push.
Symmetry == Permutations(Runs) \cup Permutations(HumanCommits)

=============================================================================
