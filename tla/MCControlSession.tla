-------------------------- MODULE MCControlSession --------------------------
(* A cache of two results and three operation ids.                           *)
EXTENDS ControlSession
CONSTANTS black, white, zero
=============================================================================
