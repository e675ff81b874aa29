----------------------------- MODULE MCCacheGroup -----------------------------
(* Instances of CacheGroup for TLC. *)
EXTENDS CacheGroup

CONSTANTS p1, p2, o1, o2

MCKeyLen == [k \in Keys |-> 1]
MCValLen == [v \in Versions |-> 1]
=============================================================================
