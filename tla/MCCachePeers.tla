----------------------------- MODULE MCCachePeers -----------------------------
(* Instances of CachePeers for TLC. *)
EXTENDS CachePeers

CONSTANTS a, b, c,
          spaced,   \* the key "x y"
          plus      \* the key "x+y"

(* url.QueryEscape writes a space as +, which a path does not decode *)
MCPathKey == [k \in Keys |-> IF k = spaced THEN plus ELSE k]

(* All nodes in two orders, and a list that misses one *)
MCPeerLists == {<<a, b, c>>, <<c, b, a>>, <<a, b>>}
MCTwoNodes  == {<<a, b>>}

(* Two virtual nodes per peer, spread over the ring, the keys between them *)
MCHash ==
  [v \in ((1..Replicas) \X Nodes) \cup Keys |->
     CASE v = <<1, a>> -> 0 [] v = <<1, b>> -> 2 [] v = <<1, c>> -> 3
       [] v = <<2, a>> -> 4 [] v = <<2, b>> -> 5 [] v = <<2, c>> -> 6
       [] OTHER -> 1]
=============================================================================
