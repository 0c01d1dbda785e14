-------------------------- MODULE MCReportPipeline --------------------------
(* Model-checking instances of ReportPipeline.                             *)
EXTENDS ReportPipeline, TLC

Symmetry == Permutations(Handlers) \cup Permutations(Workers)
=============================================================================
