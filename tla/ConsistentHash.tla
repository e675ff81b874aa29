---------------------------- MODULE ConsistentHash ----------------------------
(***************************************************************************)
(* consistenthash/consistenthash.go.  A ring is the hashMap of the code, a *)
(* function from the positions taken to the peers there.  The slice keys   *)
(* has those positions in order, some more than once; Get cannot tell.     *)
(***************************************************************************)
EXTENDS Integers, Sequences, SequencesExt, FiniteSetsExt

CONSTANTS Replicas,
          Hash   \* positions of the virtual nodes <<i, peer>> and of keys

(* Add places each peer Replicas times, Hash giving the position of the    *)
(* i-th virtual node of a peer; the last one at a position stays.          *)
Positions(peer) == {Hash[<<i, peer>>] : i \in 1..Replicas}
At(peers, p) == {j \in DOMAIN peers : p \in Positions(peers[j])}

Add(ring, peers) ==
  [p \in DOMAIN ring \cup UNION {Positions(peers[j]) : j \in DOMAIN peers} |->
     IF At(peers, p) = {} THEN ring[p] ELSE peers[Max(At(peers, p))]]

NewRing == << >>
RingOf(peers) == Add(NewRing, peers)

(* Get: the first virtual node at or behind the key, around the end *)
Behind(ring, at) == {p \in DOMAIN ring : p >= at}
Closest(ring, at) ==
  ring[IF Behind(ring, at) # {} THEN Min(Behind(ring, at)) ELSE Min(DOMAIN ring)]
=============================================================================
