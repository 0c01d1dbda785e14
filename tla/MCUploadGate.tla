---------------------------- MODULE MCUploadGate ----------------------------
(* Model-checking instances of UploadGate.                                 *)
EXTENDS UploadGate, TLC

Symmetry == UNION {Permutations(S) : S \in {Requests, Keys, Holdings, Slips}}
=============================================================================
