-------------------------- MODULE MCReviewLifecycle --------------------------
(* Model-checking instance of ReviewLifecycle with a reader: two            *)
(* assessments, two candidates and a revision limit of up to two.           *)
EXTENDS ReviewReads, TLC

Symmetry == Permutations(Ids) \cup Permutations(Candidates)
=============================================================================
