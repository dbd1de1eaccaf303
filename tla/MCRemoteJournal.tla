--------------------------- MODULE MCRemoteJournal ---------------------------
(* Model-checking instance of RemoteJournal, with the plausible coding      *)
(* errors its properties are meant to catch.                                *)
EXTENDS RemoteJournal, TLC

PathSymmetry == Permutations(Paths)

=============================================================================
