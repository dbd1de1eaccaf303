---------------------------- MODULE MCSyncEngine ----------------------------
(* Model-checking instance of SyncEngine: the configurations choose the    *)
(* number of paths and the bounds.                                         *)
EXTENDS SyncEngine
=============================================================================
