---------------------------- MODULE MCWifiDirect ----------------------------
(* Two sets of credentials; lengths of two bytes, frames of at most two.     *)
EXTENDS WifiDirect
CONSTANTS c1, c2
=============================================================================
