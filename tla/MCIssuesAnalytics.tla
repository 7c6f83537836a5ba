--------------------------- MODULE MCIssuesAnalytics ---------------------------
(* Symmetry for the safety instance of IssuesAnalytics: nothing tells two workers, *)
(* two tenants or two records apart.                                              *)
EXTENDS IssuesAnalytics, TLC

Interchangeable == Permutations(Workers) \cup Permutations(Tenants) \cup Permutations(Records)
=============================================================================
