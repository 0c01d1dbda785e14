-------------------------- MODULE MCUploadPipeline --------------------------
(* Model-checking instances of UploadPipeline.                             *)
EXTENDS UploadLifecycle, TLC

Symmetry == Permutations(Handlers) \cup Permutations(Workers)
=============================================================================
