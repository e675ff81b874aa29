----------------------------- MODULE MCDiscovery -----------------------------
(* An instance of Discovery for TLC. *)
EXTENDS Discovery

CONSTANTS c1, c2
=============================================================================
