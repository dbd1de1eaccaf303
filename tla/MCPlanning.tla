----------------------------- MODULE MCPlanning -----------------------------
(* Model-checking instance of Planning: every combination of base, local   *)
(* and remote entries over two contents and two quick fingerprints.        *)
EXTENDS Planning
=============================================================================
