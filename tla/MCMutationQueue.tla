-------------------------- MODULE MCMutationQueue --------------------------
(* Model-checking instance of MutationQueue: more clients than handlers,   *)
(* and more handlers than waiters, as in the code (16 and 12).             *)
EXTENDS MutationQueue
=============================================================================
