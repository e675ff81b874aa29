--------------------------- MODULE CachePeersProofs ---------------------------
(***************************************************************************)
(* Proofs about the nodes of a cluster: for any nodes, keys, lists of      *)
(* peers and hashes.                                                       *)
(***************************************************************************)
EXTENDS CachePeers, SequenceTheorems, WellFoundedInduction, TLAPS

(* With hashes that differ, a position of the ring belongs to one peer.    *)
LEMMA OnePeerAt ==
  ASSUME PeersAssumption, Spread, NEW l \in PeerLists, NEW p,
         NEW i \in DOMAIN l, p \in Positions(l[i])
  PROVE  At(l, p) = {i}
<1>1. l \in Seq(Nodes) /\ IsInjective(l)
  BY DEF PeersAssumption
<1>2. ASSUME NEW j \in DOMAIN l, p \in Positions(l[j]) PROVE j = i
  <2>1. PICK a \in 1..Replicas : p = Hash[<<a, l[i]>>]
    BY DEF Positions
  <2>2. PICK b \in 1..Replicas : p = Hash[<<b, l[j]>>]
    BY <1>2 DEF Positions
  <2>3. l[i] \in Nodes /\ l[j] \in Nodes
    BY <1>1
  <2>4. <<a, l[i]>> = <<b, l[j]>>
    BY <2>1, <2>2, <2>3 DEF Spread
  <2> QED
    BY <1>1, <2>4 DEF IsInjective
<1> QED
  BY <1>2 DEF At

LEMMA MaxOfOne == ASSUME NEW i \in Nat PROVE Max({i}) = i
BY DEF Max

(* Then the ring of a list is this, which does not depend on its order.    *)
LEMMA RingValue ==
  ASSUME PeersAssumption, Spread, NEW l \in PeerLists
  PROVE  /\ DOMAIN RingOf(l) = UNION {Positions(n) : n \in Range(l)}
         /\ \A n \in Range(l) : \A p \in Positions(n) : RingOf(l)[p] = n
<1>1. l \in Seq(Nodes)
  BY DEF PeersAssumption
<1>2. RingOf(l) = [p \in UNION {Positions(l[j]) : j \in DOMAIN l} |->
                     IF At(l, p) = {} THEN NewRing[p] ELSE l[Max(At(l, p))]]
  <2>1. DOMAIN NewRing = {}
    BY DEF NewRing
  <2> QED
    BY <2>1 DEF RingOf, Add
<1>3. UNION {Positions(l[j]) : j \in DOMAIN l} = UNION {Positions(n) : n \in Range(l)}
  BY DEF Range
<1>4. ASSUME NEW n \in Range(l), NEW p \in Positions(n) PROVE RingOf(l)[p] = n
  <2>1. PICK i \in DOMAIN l : n = l[i]
    BY DEF Range
  <2>2. At(l, p) = {i} /\ i \in Nat
    BY <1>1, <1>4, <2>1, OnePeerAt
  <2>3. l[Max(At(l, p))] = n
    BY <2>1, <2>2, MaxOfOne
  <2>4. p \in UNION {Positions(l[j]) : j \in DOMAIN l}
    BY <1>4, <2>1
  <2> QED
    BY <1>2, <2>2, <2>3, <2>4
<1> QED
  BY <1>2, <1>3, <1>4

LEMMA SameRing ==
  ASSUME PeersAssumption, Spread, NEW l \in PeerLists, NEW r \in PeerLists,
         Range(l) = Range(r)
  PROVE  RingOf(l) = RingOf(r)
<1>1. DOMAIN RingOf(l) = DOMAIN RingOf(r)
  BY RingValue
<1>2. ASSUME NEW p \in DOMAIN RingOf(l) PROVE RingOf(l)[p] = RingOf(r)[p]
  <2>1. DOMAIN RingOf(l) = UNION {Positions(n) : n \in Range(l)}
    BY RingValue
  <2>2. PICK n \in Range(l) : p \in Positions(n)
    BY <2>1
  <2> QED
    BY <2>2, RingValue
<1>3. /\ RingOf(l) = [p \in DOMAIN RingOf(l) |-> RingOf(l)[p]]
      /\ RingOf(r) = [p \in DOMAIN RingOf(r) |-> RingOf(r)[p]]
  BY DEF RingOf, Add
<1> QED
  BY <1>1, <1>2, <1>3

-----------------------------------------------------------------------------
(* Every node has the ring of a list; as long as the nodes agree, these    *)
(* lists have the same members, and whom a flight asks is still the owner. *)
RingInv ==
  /\ ring \in [Nodes -> {RingOf(l) : l \in PeerLists}]
  /\ getters \in [Nodes -> SUBSET Nodes]
  /\ \A n \in Nodes : \E l \in PeerLists : ring[n] = RingOf(l) /\ getters[n] = Range(l)
  /\ agreed \in BOOLEAN
  /\ agreed => \A n, m \in Nodes : getters[n] = getters[m]

AskedInv ==
  /\ DOMAIN flight = Requests
  /\ agreed /\ Spread =>
       \A n \in Nodes, k \in Keys : flight[<<n, k>>] \in Nodes => flight[<<n, k>>] \in PickPeer(n, k)

HopInv == RingInv /\ AskedInv

LEMMA SameOwner ==
  ASSUME PeersAssumption, RingInv, agreed, Spread, NEW n \in Nodes, NEW m \in Nodes
  PROVE  ring[n] = ring[m]
BY SameRing DEF RingInv

LEMMA InitHolds == ASSUME PeersAssumption, Init PROVE HopInv
<1>1. PICK l \in PeerLists : ring = [n \in Nodes |-> RingOf(l)] /\ getters = [n \in Nodes |-> Range(l)]
  BY DEF Init
<1>2. Range(l) \subseteq Nodes
  BY DEF PeersAssumption, Range
<1>3. agreed = TRUE
  BY DEF Init
<1>4. RingInv
  BY <1>1, <1>2, <1>3 DEF RingInv
<1>5. AskedInv
  BY DEF PeersAssumption, Init, AskedInv, Requests
<1> QED
  BY <1>4, <1>5 DEF HopInv

LEMMA SetStep ==
  ASSUME PeersAssumption, HopInv, NEW n \in Nodes, NEW l \in PeerLists, Set(n, l)
  PROVE  HopInv'
<1>1. Range(l) \subseteq Nodes
  BY DEF PeersAssumption, Range
<1>2. RingInv'
  BY <1>1 DEF HopInv, RingInv, Set
<1>3. ASSUME agreed', Spread PROVE ring' = ring
  <2>1. agreed /\ \A m \in Nodes : getters[m] = Range(l)
    BY <1>3 DEF Set
  <2>2. ring[n] = RingOf(l)
    BY <1>3, <2>1, SameRing DEF HopInv, RingInv
  <2> QED
    BY <2>2 DEF Set, HopInv, RingInv
<1>4. AskedInv'
  BY <1>3 DEF Set, HopInv, AskedInv, PickPeer, Owner, Spread
<1> QED
  BY <1>2, <1>4 DEF HopInv

LEMMA FlightStep ==
  ASSUME PeersAssumption, HopInv, NEW n \in Nodes, NEW k \in Keys,
         UserMiss(n, k) \/ Step(n, k) \/ PeerFails(n, k) \/ Evict(n, k)
  PROVE  HopInv'
<1>1. UNCHANGED views
  BY DEF UserMiss, Step, Pick, ServeHit, ServeMiss, FromPeer, Locally, PeerFails, Evict
<1>2. RingInv'
  BY <1>1 DEF views, HopInv, RingInv
<1>3. /\ DOMAIN flight' = DOMAIN flight
      /\ \A f \in Requests : \/ flight'[f] = flight[f]
                             \/ flight'[f] \in {"none", "pick", "local"}
                             \/ flight'[f] \in PickPeer(f[1], f[2])
  <2> USE DEF HopInv, AskedInv, Requests
  <2>1. CASE UserMiss(n, k) \/ ServeMiss(n, k)
    BY <2>1 DEF UserMiss, ServeMiss, Enter
  <2>2. CASE Pick(n, k)
    <3>1. flight' = [flight EXCEPT ![<<n, k>>] = flight'[<<n, k>>]]
          /\ flight'[<<n, k>>] \in PickPeer(n, k) \cup {"local"}
      BY <2>2 DEF Pick
    <3> QED
      BY <3>1
  <2>3. CASE FromPeer(n, k) \/ Locally(n, k)
    BY <2>3 DEF FromPeer, Locally, EndFlight
  <2>4. CASE PeerFails(n, k)
    BY <2>4 DEF PeerFails
  <2>5. CASE ServeHit(n, k) \/ Evict(n, k)
    BY <2>5 DEF ServeHit, Evict
  <2> QED
    BY <2>1, <2>2, <2>3, <2>4, <2>5 DEF Step
<1>4. AskedInv'
  BY <1>1, <1>3 DEF PeersAssumption, views, HopInv, AskedInv, PickPeer, Owner, Requests, Spread
<1> QED
  BY <1>2, <1>4 DEF HopInv

LEMMA HopInvKept == ASSUME PeersAssumption, HopInv, [Next]_vars PROVE HopInv'
<1>1. CASE UNCHANGED vars
  BY <1>1 DEF vars, HopInv, RingInv, AskedInv, PickPeer, Owner, Spread
<1> QED
  BY <1>1, SetStep, FlightStep DEF Next

-----------------------------------------------------------------------------
(* Nodes with the same peers never pass a request on: whoever is asked for *)
(* a key is its owner in its own ring too, in whatever order the peers     *)
(* were given to Set.  So no two nodes wait for each other.                *)
THEOREM NoSecondHop == Spec => []OneHop
<1>1. Init => HopInv
  BY PeersAssumption, InitHolds
<1>2. HopInv /\ [Next]_vars => HopInv'
  BY PeersAssumption, HopInvKept
<1>3. HopInv => OneHop
  <2> SUFFICES ASSUME HopInv, agreed, Spread, NEW n \in Nodes, NEW m \in Nodes, NEW k \in Keys,
                      flight[<<n, k>>] = m, flight[<<m, k>>] \in Nodes
               PROVE  FALSE
    BY DEF OneHop
  <2>1. m \in Owner(n, k) /\ flight[<<m, k>>] \in Owner(m, k) /\ flight[<<m, k>>] # m
    BY DEF HopInv, AskedInv, PickPeer
  <2>2. Owner(n, k) = Owner(m, k)
    BY PeersAssumption, SameOwner DEF HopInv, Owner
  <2> QED
    BY <2>1, <2>2 DEF Owner
<1> QED
  BY <1>1, <1>2, <1>3, PTL DEF Spec

-----------------------------------------------------------------------------
(* Types.  Whom Closest finds is a peer of the ring, whatever the hashes.  *)
LEMMA LeastNatural ==
  ASSUME NEW T, T \subseteq Nat, T # {}
  PROVE  \E x \in T : \A y \in T : x <= y
<1> DEFINE R == OpToRel(<, Nat)
<1>1. IsWellFoundedOn(R, Nat)
  BY NatLessThanWellFounded
<1>2. \A x, y \in Nat : y < x => <<y, x>> \in R
  BY DEF OpToRel
<1> HIDE DEF R
<1>3. PICK x \in T : \A y \in T : ~ (<<y, x>> \in R)
  BY <1>1, WFMin
<1>4. ASSUME NEW y \in T PROVE x <= y
  <2>1. x \in Nat /\ y \in Nat /\ ~(y < x)
    BY <1>2, <1>3
  <2> QED BY <2>1
<1> QED BY <1>3, <1>4

LEMMA MinIn == ASSUME NEW T, T \subseteq Nat, T # {} PROVE Min(T) \in T
BY LeastNatural DEF Min

LEMMA MaxIn ==
  ASSUME NEW n \in Nat, NEW T, T \subseteq 1..n, T # {}
  PROVE  Max(T) \in T
<1> DEFINE R == {n - x : x \in T}
<1>0. \A x \in T : x \in 1..n /\ x \in Int /\ n - x \in Nat
  OBVIOUS
<1>1. R \subseteq Nat /\ R # {}
  <2>1. PICK t \in T : TRUE
    OBVIOUS
  <2>2. n - t \in R
    BY <2>1
  <2>3. R \subseteq Nat
    BY <1>0
  <2> QED
    BY <2>2, <2>3
<1>2. PICK y \in R : \A z \in R : y <= z
  BY <1>1, LeastNatural
<1>3. PICK x \in T : y = n - x
  BY <1>2
<1>4. ASSUME NEW z \in T PROVE x >= z
  <2>1. n - x <= n - z
    BY <1>2, <1>3
  <2>2. x \in Int /\ z \in Int /\ n \in Int
    BY <1>0, <1>3
  <2> HIDE DEF R
  <2> QED
    BY <2>1, <2>2
<1> QED
  BY <1>3, <1>4 DEF Max

LEMMA RingPeers ==
  ASSUME PeersAssumption, NEW l \in PeerLists
  PROVE  Range(RingOf(l)) \subseteq Range(l) /\ DOMAIN RingOf(l) \subseteq Nat
<1>1. l \in Seq(Nodes) /\ Len(l) \in Nat /\ DOMAIN l = 1..Len(l)
  BY DEF PeersAssumption
<1>2. RingOf(l) = [p \in UNION {Positions(l[j]) : j \in DOMAIN l} |->
                     IF At(l, p) = {} THEN NewRing[p] ELSE l[Max(At(l, p))]]
  <2>1. DOMAIN NewRing = {}
    BY DEF NewRing
  <2> QED
    BY <2>1 DEF RingOf, Add
<1>3. ASSUME NEW p \in UNION {Positions(l[j]) : j \in DOMAIN l}
      PROVE  RingOf(l)[p] \in Range(l) /\ p \in Nat
  <2>1. PICK j \in DOMAIN l : p \in Positions(l[j])
    BY <1>3
  <2>2. At(l, p) # {} /\ At(l, p) \subseteq 1..Len(l)
    BY <1>1, <2>1 DEF At
  <2>3. Max(At(l, p)) \in DOMAIN l
    BY <1>1, <2>2, MaxIn
  <2>4. RingOf(l)[p] = l[Max(At(l, p))]
    BY <1>2, <1>3, <2>2
  <2>5. PICK i \in 1..Replicas : p = Hash[<<i, l[j]>>]
    BY <2>1 DEF Positions
  <2>6. l[j] \in Nodes
    BY <1>1
  <2> QED
    BY <2>3, <2>4, <2>5, <2>6 DEF Range, PeersAssumption
<1> QED
  <2>1. DOMAIN RingOf(l) = UNION {Positions(l[j]) : j \in DOMAIN l}
    BY <1>2
  <2>2. \A p \in DOMAIN RingOf(l) : RingOf(l)[p] \in Range(l) /\ p \in Nat
    BY <1>3, <2>1
  <2>3. Range(RingOf(l)) = {RingOf(l)[p] : p \in DOMAIN RingOf(l)}
    BY DEF Range
  <2> HIDE DEF RingOf
  <2> QED
    BY <2>2, <2>3

LEMMA PickedIsNode ==
  ASSUME PeersAssumption, RingInv, NEW n \in Nodes, NEW k \in Keys
  PROVE  PickPeer(n, k) \subseteq Nodes
<1> SUFFICES ASSUME ring[n] # NewRing PROVE Closest(ring[n], Hash[k]) \in Nodes
  BY DEF PickPeer, Owner
<1>1. PICK l \in PeerLists : ring[n] = RingOf(l) /\ getters[n] = Range(l)
  BY DEF RingInv
<1>2. Range(ring[n]) \subseteq Nodes /\ DOMAIN ring[n] \subseteq Nat
  BY <1>1, RingPeers DEF RingInv
<1>3. DOMAIN ring[n] # {}
  <2> SUFFICES ASSUME DOMAIN ring[n] = {} PROVE FALSE
    OBVIOUS
  <2>1. ring[n] = [p \in DOMAIN ring[n] |-> ring[n][p]]
    BY <1>1 DEF RingOf, Add
  <2>2. 1..0 = {}
    OBVIOUS
  <2>3. ring[n] \in [1..0 -> Nodes]
    BY <2>1, <2>2
  <2>4. ring[n] \in Seq(Nodes) /\ Len(ring[n]) = 0
    BY <2>3
  <2> QED
    BY <2>4, EmptySeq DEF NewRing
<1>4. /\ Behind(ring[n], Hash[k]) \subseteq DOMAIN ring[n]
      /\ Min(DOMAIN ring[n]) \in DOMAIN ring[n]
  BY <1>2, <1>3, MinIn DEF Behind
<1>5. Behind(ring[n], Hash[k]) # {} => Min(Behind(ring[n], Hash[k])) \in DOMAIN ring[n]
  BY <1>2, <1>4, MinIn
<1> QED
  BY <1>2, <1>4, <1>5 DEF Closest, Range

(* A flight whose request has been sent, and only such a flight, asks a    *)
(* node; a flight that someone waits for is under way.                     *)
FlightInv ==
  /\ cached \in [Nodes -> SUBSET Keys]
  /\ flight \in [Requests -> Nodes \cup {"none", "pick", "local"}]
  /\ waiting \in [Requests -> SUBSET (Requests \cup {User})]
  /\ request \in [Requests -> Answers \cup {"none", "sent", "inside"}]
  /\ \A f \in Requests : waiting[f] # {} => flight[f] # "none"
  /\ \A f \in Requests : request[f] # "none" => flight[f] \in Nodes

PeersInv == RingInv /\ FlightInv

LEMMA EnterKeeps ==
  ASSUME PeersAssumption, FlightInv, NEW f \in Requests, NEW r \in Requests \cup {User},
         Enter(f, r), UNCHANGED cached,
         \/ UNCHANGED request
         \/ \E g \in Requests : request[g] = "sent" /\ request' = [request EXCEPT ![g] = "inside"]
  PROVE  FlightInv'
<1> USE DEF FlightInv
<1>1. flight' \in [Requests -> Nodes \cup {"none", "pick", "local"}]
  BY DEF Enter
<1>2. waiting' \in [Requests -> SUBSET (Requests \cup {User})]
  BY DEF Enter
<1>3. request' \in [Requests -> Answers \cup {"none", "sent", "inside"}]
  OBVIOUS
<1>4. ASSUME NEW g \in Requests, waiting'[g] # {} PROVE flight'[g] # "none"
  BY <1>4 DEF Enter
<1>5. ASSUME NEW g \in Requests, request'[g] # "none" PROVE flight'[g] \in Nodes
  <2>1. request[g] # "none"
    BY <1>5
  <2> QED
    BY <2>1 DEF PeersAssumption, Enter
<1> QED
  BY <1>1, <1>2, <1>3, <1>4, <1>5

LEMMA EndKeeps ==
  ASSUME PeersAssumption, FlightInv, NEW g \in Requests, NEW v \in Answers, EndFlight(g, v)
  PROVE  cached' \in [Nodes -> SUBSET Keys] => FlightInv'
<1> USE DEF FlightInv
<1>1. flight' \in [Requests -> Nodes \cup {"none", "pick", "local"}]
      /\ \A f \in Requests \ {g} : flight'[f] = flight[f]
  BY DEF EndFlight
<1>2. waiting' \in [Requests -> SUBSET (Requests \cup {User})]
      /\ \A f \in Requests : waiting'[f] = IF f = g THEN {} ELSE waiting[f]
  BY DEF EndFlight
<1>3. request' \in [Requests -> Answers \cup {"none", "sent", "inside"}]
  BY DEF EndFlight, Answer
<1>4. \A f \in Requests : waiting'[f] # {} => flight'[f] # "none"
  BY <1>1, <1>2
<1>5. ASSUME NEW f \in Requests, request'[f] # "none" PROVE flight'[f] \in Nodes
  <2>1. f # g /\ request[f] # "none"
    BY <1>5 DEF EndFlight, Answer, Waits
  <2> QED
    BY <1>1, <2>1
<1> QED
  BY <1>1, <1>2, <1>3, <1>4, <1>5

LEMMA PickKeeps ==
  ASSUME PeersAssumption, PeersInv, NEW n \in Nodes, NEW k \in Keys, Pick(n, k)
  PROVE  FlightInv'
<1> USE DEF PeersInv, FlightInv
<1>1. <<n, k>> \in Requests /\ "none" \notin Nodes
  BY DEF Requests, PeersAssumption
<1>2. CASE \E m \in PickPeer(n, k) :
             /\ flight' = [flight EXCEPT ![<<n, k>>] = m]
             /\ request' = [request EXCEPT ![<<n, k>>] = "sent"]
  BY <1>1, <1>2, PickedIsNode DEF Pick
<1>3. CASE flight' = [flight EXCEPT ![<<n, k>>] = "local"] /\ UNCHANGED request
  <2>1. request[<<n, k>>] = "none"
    BY <1>1 DEF Pick, PeersAssumption
  <2> QED
    BY <1>1, <1>3, <2>1 DEF Pick
<1> QED
  BY <1>2, <1>3 DEF Pick

LEMMA FlightInvKept == ASSUME PeersAssumption, PeersInv, [Next]_vars PROVE PeersInv'
<1>1. RingInv'
  <2>1. ASSUME NEW n \in Nodes, NEW l \in PeerLists, Set(n, l) PROVE RingInv'
    <3>1. Range(l) \subseteq Nodes
      BY DEF PeersAssumption, Range
    <3> QED
      BY <2>1, <3>1 DEF PeersInv, RingInv, Set
  <2>2. CASE UNCHANGED views
    BY <2>2 DEF views, PeersInv, RingInv
  <2> QED
    BY <2>1, <2>2 DEF Next, vars, views, UserMiss, Step, Pick, ServeHit, ServeMiss, FromPeer,
                      Locally, PeerFails, Evict
<1>2. FlightInv'
  <2> USE DEF PeersInv
  <2>1. CASE UNCHANGED <<cached, flight, waiting, request>>
    BY <2>1 DEF FlightInv
  <2>2. ASSUME NEW n \in Nodes, NEW k \in Keys,
               UserMiss(n, k) \/ Step(n, k) \/ PeerFails(n, k) \/ Evict(n, k)
        PROVE  FlightInv'
    <3>0. <<n, k>> \in Requests
      BY DEF Requests
    <3>1. CASE UserMiss(n, k)
      BY <3>0, <3>1, EnterKeeps DEF UserMiss
    <3>2. CASE Pick(n, k)
      BY <3>2, PickKeeps
    <3>3. CASE ServeHit(n, k)
      <4>1. PathKey[k] \in Answers
        BY DEF PeersAssumption, Answers
      <4>2. request[<<n, k>>] # "none"
        BY <3>3 DEF ServeHit
      <4>3. request' \in [Requests -> Answers \cup {"none", "sent", "inside"}]
        BY <3>3, <4>1 DEF ServeHit, FlightInv
      <4>4. \A f \in Requests : request'[f] # "none" => request[f] # "none"
        BY <3>3, <4>2 DEF ServeHit, FlightInv
      <4> QED
        BY <3>3, <4>3, <4>4 DEF ServeHit, FlightInv
    <3>4. CASE ServeMiss(n, k)
      <4>1. request[<<n, k>>] = "sent" /\ flight[<<n, k>>] \in Nodes
        BY <3>0, <3>4 DEF ServeMiss, FlightInv
      <4>2. <<flight[<<n, k>>], PathKey[k]>> \in Requests
        BY <4>1 DEF Requests, PeersAssumption
      <4>3. UNCHANGED cached /\ Enter(<<flight[<<n, k>>], PathKey[k]>>, <<n, k>>)
            /\ request' = [request EXCEPT ![<<n, k>>] = "inside"]
        BY <3>4 DEF ServeMiss
      <4> QED
        BY <3>0, <4>1, <4>2, <4>3, EnterKeeps
    <3>5. CASE FromPeer(n, k)
      <4>1. request[<<n, k>>] \in Answers /\ EndFlight(<<n, k>>, request[<<n, k>>]) /\ UNCHANGED cached
        BY <3>5 DEF FromPeer, Answers
      <4>2. cached' \in [Nodes -> SUBSET Keys]
        BY <4>1 DEF FlightInv
      <4> QED
        BY <3>0, <4>1, <4>2, EndKeeps
    <3>6. CASE Locally(n, k)
      <4>1. PICK v \in Answers : EndFlight(<<n, k>>, v)
        BY <3>6 DEF Locally, Answers
      <4>2. cached' \in [Nodes -> SUBSET Keys]
        BY <3>6 DEF Locally, FlightInv
      <4> QED
        BY <3>0, <4>1, <4>2, EndKeeps
    <3>7. CASE PeerFails(n, k)
      BY <3>0, <3>7 DEF PeerFails, FlightInv
    <3>8. CASE Evict(n, k)
      BY <3>8 DEF Evict, FlightInv
    <3> QED
      BY <2>2, <3>1, <3>2, <3>3, <3>4, <3>5, <3>6, <3>7, <3>8 DEF Step
  <2>3. ASSUME NEW n \in Nodes, NEW l \in PeerLists, Set(n, l) PROVE FlightInv'
    BY <2>1, <2>3 DEF Set
  <2> QED
    BY <2>1, <2>2, <2>3 DEF Next, vars
<1> QED
  BY <1>1, <1>2 DEF PeersInv

(* The types: the rings hold peers given to Set, only a node is asked, and *)
(* a flight that someone waits for has not been forgotten.                 *)
THEOREM TypeCorrect == Spec => []TypeOK
<1>1. Init => PeersInv
  <2> SUFFICES ASSUME Init PROVE PeersInv
    OBVIOUS
  <2>1. RingInv
    BY PeersAssumption, InitHolds DEF HopInv
  <2>2. FlightInv
    BY DEF Init, FlightInv
  <2> QED
    BY <2>1, <2>2 DEF PeersInv
<1>2. PeersInv /\ [Next]_vars => PeersInv'
  BY PeersAssumption, FlightInvKept
<1>3. PeersInv => TypeOK
  <2> SUFFICES ASSUME PeersInv PROVE TypeOK
    OBVIOUS
  <2>1. ASSUME NEW n \in Nodes PROVE Range(ring[n]) \subseteq getters[n]
    BY PeersAssumption, RingPeers DEF PeersInv, RingInv
  <2> QED
    BY <2>1 DEF PeersInv, RingInv, FlightInv, TypeOK
<1> QED
  BY <1>1, <1>2, <1>3, PTL DEF Spec
=============================================================================
