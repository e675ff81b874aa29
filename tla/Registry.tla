------------------------------- MODULE Registry -------------------------------
(***************************************************************************)
(* The registry of gee-rpc (registry/registry.go) and the heartbeats of    *)
(* the servers.  Time advances in ticks; what the code compares with       *)
(* time.Now() is kept as an age, counted up to the value it is compared    *)
(* with.  Requests and goroutines may be delayed by at most Late ticks.    *)
(***************************************************************************)
EXTENDS Integers, FiniteSets, Functions

CONSTANTS Servers,   \* addresses; sort.Strings orders them as numbers here
          Expiry,    \* GeeRegistry.timeout
          Period,    \* duration of Heartbeat
          Late,      \* bound: how late a heartbeat may be
          Horizon    \* bound: the largest age told apart by the history heard

ASSUME RegistryAssumption ==
  /\ Servers \subseteq Nat /\ IsFiniteSet(Servers)
  /\ Expiry \in Nat \ {0} /\ Period \in Nat \ {0} /\ Late \in Nat /\ Horizon \in Nat
  /\ Period + Late < Expiry   \* "make sure there is enough time to send heart beat"

VARIABLES up,        \* the registry process runs
          servers,   \* address -> age of ServerItem.start
          loop,      \* the Heartbeat goroutine of a server
          since,     \* ticks since its last heartbeat
          heard      \* history: ticks since the registry last heard of a server

regVars == <<up, servers, loop, since, heard>>

Older(n, limit) == IF n < limit THEN n + 1 ELSE n

RegTypeOK ==
  /\ up \in BOOLEAN
  /\ DOMAIN servers \subseteq Servers
  /\ \A s \in DOMAIN servers : servers[s] \in 0..Expiry
  /\ loop \in [Servers -> {"down", "beating", "ended"}]
  /\ since \in [Servers -> 0..(Period + Late)]
  /\ heard \in [Servers -> 0..Horizon]

RegInit ==
  /\ up = TRUE
  /\ servers = [s \in {} |-> 0]
  /\ loop = [s \in Servers |-> "down"]
  /\ since = [s \in Servers |-> 0]
  /\ heard = [s \in Servers |-> Horizon]

Beating(s) == loop[s] = "beating"

(* putServer: a new item, or the start of the old one renewed *)
PutUnknown(s) ==   \* Variant: an item that exists keeps its start
  IF s \in DOMAIN servers THEN servers
  ELSE [t \in DOMAIN servers \cup {s} |-> IF t = s THEN 0 ELSE servers[t]]
PutKnown(s) ==     \* Variant: only renews, as if registration were another request
  [t \in DOMAIN servers |-> IF t = s THEN 0 ELSE servers[t]]

PutServer(s) ==
  [t \in DOMAIN servers \cup {s} |-> IF t = s THEN 0 ELSE servers[t]]

(* aliveServers: start.Add(timeout).After(now); the others are deleted *)
AliveServers == {s \in DOMAIN servers : servers[s] < Expiry}
DeleteDead   == servers' = Restrict(servers, AliveServers)

(* sendHeartbeat: a POST that may not arrive, or whose answer may be lost; *)
(* an error ends the loop of Heartbeat for good, also the first one.       *)
SendHeartbeat(s) ==
  \E arrives, answered \in BOOLEAN :
    /\ arrives => up
    /\ answered => arrives
    /\ servers' = IF arrives THEN PutServer(s) ELSE servers
    /\ heard' = IF arrives THEN [heard EXCEPT ![s] = 0] ELSE heard
    /\ loop' = [loop EXCEPT ![s] = IF answered THEN "beating" ELSE "ended"]
    /\ since' = [since EXCEPT ![s] = 0]
    /\ UNCHANGED up

(* A server starts and calls Heartbeat, which registers it *)
StartServer(s) == loop[s] = "down" /\ SendHeartbeat(s)

(* The ticker of the loop fires *)
Beat(s) == Beating(s) /\ since[s] >= Period /\ SendHeartbeat(s)

ServerDies(s) ==
  /\ loop[s] # "down"
  /\ loop' = [loop EXCEPT ![s] = "down"]
  /\ since' = [since EXCEPT ![s] = 0]
  /\ UNCHANGED <<up, servers, heard>>

(* ServeHTTP, GET: some other client asks *)
OtherGet == up /\ DeleteDead /\ UNCHANGED <<up, loop, since, heard>>

(* The registry keeps its servers in memory only *)
RegistryStops ==
  /\ up
  /\ up' = FALSE
  /\ servers' = [s \in {} |-> 0]
  /\ UNCHANGED <<loop, since, heard>>

RegistryStarts == ~up /\ up' = TRUE /\ UNCHANGED <<servers, loop, since, heard>>

BeatsAreTimely == \A s \in Servers : Beating(s) => since[s] < Period + Late

RegTick ==
  /\ BeatsAreTimely
  /\ servers' = [s \in DOMAIN servers |-> Older(servers[s], Expiry)]
  /\ since' = [s \in Servers |-> IF Beating(s) THEN since[s] + 1 ELSE since[s]]
  /\ heard' = [s \in Servers |-> Older(heard[s], Horizon)]
  /\ UNCHANGED <<up, loop>>

RegNext ==
  \/ \E s \in Servers : StartServer(s) \/ Beat(s) \/ ServerDies(s)
  \/ OtherGet \/ RegistryStops \/ RegistryStarts

-----------------------------------------------------------------------------
(* The registry never drops a server whose heartbeats go on, however late  *)
(* they are within the margin: only a restart forgets it.                  *)
NeverDropsBeating ==
  [][\A s \in DOMAIN servers \ DOMAIN servers' : ~Beating(s) \/ ~up']_regVars

(* A restarted registry learns again of every server that keeps beating:   *)
(* registering is not a request of its own that only happens once.         *)
BeatingGetsListed ==
  \A s \in Servers : <>[](up /\ Beating(s)) => <>[](s \in AliveServers)
=============================================================================
