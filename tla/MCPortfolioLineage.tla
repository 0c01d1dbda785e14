------------------------- MODULE MCPortfolioLineage -------------------------
(* Model-checking instances of PortfolioLineage.                           *)
EXTENDS PortfolioLineage, TLC

Symmetry ==
    UNION {Permutations(S) : S \in {Scans, Slips, Commands, Refreshes, Executions, Dismissals, Insights}}

=============================================================================
