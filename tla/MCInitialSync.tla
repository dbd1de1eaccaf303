--------------------------- MODULE MCInitialSync ---------------------------
(* An instance of InitialSync for TLC. *)
EXTENDS InitialSync
=============================================================================
