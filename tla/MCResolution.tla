------------------------------ MODULE MCResolution -----------------------------
(* A directory d and an entry x in it.                                     *)
EXTENDS Resolution, TLC

CONSTANTS d, x

MCUnder == (d :> {x}) @@ (x :> {})
=============================================================================
