------------------------------ MODULE CachePeers ------------------------------
(***************************************************************************)
(* The nodes of a geecache cluster (http.go over geecache.go): each looks  *)
(* for the owner of a key in its own ring, asks it over HTTP inside        *)
(* singleflight, and loads the key itself when it is the owner or the      *)
(* owner fails.  The steps of one node are the module CacheGroup; here a   *)
(* load is one flight per node and key, which begins and ends at once.     *)
(***************************************************************************)
EXTENDS ConsistentHash, FiniteSets

CONSTANTS Nodes, Keys,
          PathKey,      \* key -> what ServeHTTP makes of the path httpGetter.Get built
          PeerLists,    \* lists of peers that Set is called with
          User, Err, None

ASSUME PeersAssumption ==
  /\ Replicas \in Nat \ {0}
  /\ \A v \in ((1..Replicas) \X Nodes) \cup Keys : Hash[v] \in Nat   \* a uint32
  /\ PathKey \in [Keys -> Keys]
  /\ PeerLists \subseteq Seq(Nodes)
  /\ \A l \in PeerLists : IsInjective(l)   \* main.go: the values of a map
  /\ Err \notin Keys /\ None \notin Keys
  /\ Nodes \cap {"none", "pick", "local"} = {}

Requests == Nodes \X Keys

VARIABLES
  ring,     \* HTTPPool.peers of each node
  getters,  \* HTTPPool.httpGetters: the peers last given to Set
  cached,   \* keys in the node's mainCache; the value of a key is called by the key
  flight,   \* per node and key: "none", "pick", "local", or the peer that was asked
  waiting,  \* who waits for a flight: the node's user, or flights of other nodes
  request,  \* the HTTP request of a flight: "none", "sent", "inside", or the answer
  agreed    \* history: all nodes have had the same peers

vars == <<ring, getters, cached, flight, waiting, request, agreed>>
views == <<ring, getters, agreed>>

Answers == Keys \cup {Err}

TypeOK ==
  /\ getters \in [Nodes -> SUBSET Nodes]
  /\ \A n \in Nodes : Range(ring[n]) \subseteq getters[n]
  /\ cached \in [Nodes -> SUBSET Keys]
  /\ flight \in [Requests -> Nodes \cup {"none", "pick", "local"}]
  /\ waiting \in [Requests -> SUBSET (Requests \cup {User})]
  /\ request \in [Requests -> Answers \cup {"none", "sent", "inside"}]
  /\ \A f \in Requests : waiting[f] # {} => flight[f] # "none"
  /\ agreed \in BOOLEAN

Init ==
  /\ \E l \in PeerLists : /\ ring = [n \in Nodes |-> RingOf(l)]
                         /\ getters = [n \in Nodes |-> Range(l)]
  /\ cached = [n \in Nodes |-> {}]
  /\ flight = [f \in Requests |-> "none"] /\ waiting = [f \in Requests |-> {}]
  /\ request = [f \in Requests |-> "none"]
  /\ agreed = TRUE

(* Set builds a new ring *)
SetKeepsOld(n, l) ==   \* Variant: adds the peers to the ring there is
  /\ ring' = [ring EXCEPT ![n] = Add(@, l)]
  /\ getters' = [getters EXCEPT ![n] = Range(l)]
  /\ agreed' = (agreed /\ \A m \in Nodes : getters[m] = Range(l))
  /\ UNCHANGED <<cached, flight, waiting, request>>

Set(n, l) ==
  /\ ring' = [ring EXCEPT ![n] = RingOf(l)]
  /\ getters' = [getters EXCEPT ![n] = Range(l)]
  /\ agreed' = (agreed /\ \A m \in Nodes : getters[m] = Range(l))
  /\ UNCHANGED <<cached, flight, waiting, request>>

(* PickPeer: the owner of the key, when it is another node *)
Owner(n, k)   == IF ring[n] = NewRing THEN {} ELSE {Closest(ring[n], Hash[k])}
PickAny(n, k)  == Owner(n, k)   \* Variant: not compared with self
PickPeer(n, k) == Owner(n, k) \ {n}

(* The caller r misses the cache of node n and leads or joins a flight *)
Enter(f, r) ==
  /\ waiting' = [waiting EXCEPT ![f] = @ \cup {r}]
  /\ flight' = [flight EXCEPT ![f] = IF @ = "none" THEN "pick" ELSE @]

(* The user of a node calls Group.Get; a hit changes nothing here *)
UserMiss(n, k) ==
  /\ User \notin waiting[<<n, k>>] /\ k \notin cached[n]
  /\ Enter(<<n, k>>, User)
  /\ UNCHANGED <<views, cached, request>>

(* load: ask a peer, or load locally *)
Pick(n, k) ==
  /\ flight[<<n, k>>] = "pick"
  /\ \/ \E m \in PickPeer(n, k) :
          /\ flight' = [flight EXCEPT ![<<n, k>>] = m]
          /\ request' = [request EXCEPT ![<<n, k>>] = "sent"]
     \/ /\ PickPeer(n, k) = {}
        /\ flight' = [flight EXCEPT ![<<n, k>>] = "local"]
        /\ UNCHANGED request
  /\ UNCHANGED <<views, cached, waiting>>

(* The peer's ServeHTTP takes the key out of the path and calls Group.Get *)
ServeHit(n, k) ==
  /\ request[<<n, k>>] = "sent"
  /\ PathKey[k] \in cached[flight[<<n, k>>]]
  /\ request' = [request EXCEPT ![<<n, k>>] = PathKey[k]]
  /\ UNCHANGED <<views, cached, flight, waiting>>

ServeMiss(n, k) ==
  /\ request[<<n, k>>] = "sent"
  /\ PathKey[k] \notin cached[flight[<<n, k>>]]
  /\ Enter(<<flight[<<n, k>>], PathKey[k]>>, <<n, k>>)
  /\ request' = [request EXCEPT ![<<n, k>>] = "inside"]
  /\ UNCHANGED <<views, cached>>

(* A flight ends: everyone who waits for it has the answer; requests whose *)
(* client has given up are answered in vain.                               *)
Waits(f, g) == f \in waiting[g] /\ request[f] = "inside" /\ flight[f] = g[1] /\ PathKey[f[2]] = g[2]

AnswerUserOnly(g, v) ==   \* Variant: the requests of other nodes are forgotten
  request' = [request EXCEPT ![g] = "none"]

Answer(g, v) ==
  request' = [f \in Requests |->
                IF f = g THEN "none" ELSE IF Waits(f, g) THEN v ELSE request[f]]

EndFlight(g, v) ==
  /\ Answer(g, v)
  /\ flight' = [flight EXCEPT ![g] = "none"]
  /\ waiting' = [waiting EXCEPT ![g] = {}]

(* getFromPeer returns a value, which is not put in the cache *)
FromPeer(n, k) ==
  /\ request[<<n, k>>] \in Keys
  /\ EndFlight(<<n, k>>, request[<<n, k>>])
  /\ UNCHANGED <<views, cached>>

(* It returns an error of the peer's Getter, or of the network at any time *)
PeerFails(n, k) ==
  /\ flight[<<n, k>>] \in Nodes /\ request[<<n, k>>] \notin Keys
  /\ flight' = [flight EXCEPT ![<<n, k>>] = "local"]
  /\ request' = [request EXCEPT ![<<n, k>>] = "none"]
  /\ UNCHANGED <<views, cached, waiting>>

(* getLocally, with populateCache; the Getter may return an error *)
Locally(n, k) ==
  /\ flight[<<n, k>>] = "local"
  /\ \/ EndFlight(<<n, k>>, k) /\ cached' = [cached EXCEPT ![n] = @ \cup {k}]
     \/ EndFlight(<<n, k>>, Err) /\ UNCHANGED cached
  /\ UNCHANGED views

Evict(n, k) ==
  /\ k \in cached[n]
  /\ cached' = [cached EXCEPT ![n] = @ \ {k}]
  /\ UNCHANGED <<views, flight, waiting, request>>

Step(n, k) ==
  \/ Pick(n, k) \/ ServeHit(n, k) \/ ServeMiss(n, k) \/ FromPeer(n, k) \/ Locally(n, k)
  \/ request[<<n, k>>] = Err /\ PeerFails(n, k)

Next ==
  \/ \E n \in Nodes, k \in Keys :
       UserMiss(n, k) \/ Step(n, k) \/ PeerFails(n, k) \/ Evict(n, k)
  \/ \E n \in Nodes, l \in PeerLists : Set(n, l)

Spec == Init /\ [][Next]_vars

(* Handlers run and Getters return; http.Get has no timeout, so that a     *)
(* request that is not answered need not fail.                             *)
FairSpec == Spec /\ \A n \in Nodes, k \in Keys : WF_vars(Step(n, k))

-----------------------------------------------------------------------------
Spread == \A v, w \in (1..Replicas) \X Nodes : v # w => Hash[v] # Hash[w]
Plain(k) == PathKey[k] = k

(* Nodes that were given the same peers, in whatever order, agree on the   *)
(* owners as long as no two virtual nodes have one hash: a node that is    *)
(* asked answers, and does not ask another, as two nodes that ask each     *)
(* other for one key would wait for ever, each inside its flight.          *)
OneHop ==
  agreed /\ Spread => \A n, m \in Nodes, k \in Keys :
    Plain(k) /\ request[<<n, k>>] = "inside" /\ flight[<<n, k>>] = m => flight[<<m, k>>] \notin Nodes

(* Then every Get returns, with no timeout anywhere on the way.            *)
GetReturns ==
  \A f \in Requests : User \in waiting[f] ~> User \notin waiting[f] \/ ~agreed \/ ~Spread

(* geecache.go:66: "Get value for a key from cache": the value a Get is     *)
(* answered with by a peer is the value of the key it was called with.     *)
GetsThatKey == \A f \in Requests : request[f] \in Keys => request[f] = f[2]
=============================================================================
