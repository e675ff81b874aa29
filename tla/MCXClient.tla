------------------------------ MODULE MCXClient ------------------------------
(* An instance of XClient for TLC. *)
EXTENDS XClient

CONSTANTS s1, s2, g, n1, n2, n3
=============================================================================
