------------------------------ MODULE Discovery ------------------------------
(***************************************************************************)
(* Clients that choose a server by GeeRegistryDiscovery                    *)
(* (xclient/discovery_gee.go over discovery.go) from the list a registry   *)
(* hands out.  Get and GetAll take d.mu twice: Refresh, and then the       *)
(* selection.  http.Get is called with d.mu held.                          *)
(***************************************************************************)
EXTENDS Registry, Sequences

CONSTANTS Clients,
          UpdateTimeout,   \* GeeRegistryDiscovery.timeout
          Delay,           \* bound: how long an answer of the registry travels
          Wait,            \* bound: how long a client is kept from its selection
          FirstIndices     \* what rand.Intn(MaxInt32 - 1) may start the index at

ASSUME DiscoveryAssumption ==
  /\ UpdateTimeout \in Nat \ {0} /\ Delay \in Nat /\ Wait \in Nat
  /\ FirstIndices \subseteq Nat
  /\ Horizon > (Expiry - 1) + (UpdateTimeout - 1) + Delay + Wait

VARIABLES list,      \* d.servers
          age,       \* of d.lastUpdate; the zero Time is as old as can be
          index,     \* d.index
          dpc,       \* where a client's Get or GetAll is
          answer,    \* the list an answer of the registry carries
          travel,    \* how long it has been travelling
          waited,    \* how long ago a client in "select" has refreshed
          manual,    \* history: the list was set by Update
          turns      \* history: the last RoundRobinSelect choices from these servers

discVars == <<list, age, index, dpc, answer, travel, waited, manual, turns>>
vars     == <<regVars, discVars>>

(* The ways to list a set of servers, and what strings.Split makes of the  *)
(* header: a list of servers, each named once                              *)
ListsOf(S) == Bijection(1..Cardinality(S), S)
Lists == UNION {ListsOf(S) : S \in SUBSET Servers}

Increasing(l) == \A i, j \in DOMAIN l : i < j => l[i] < l[j]

TypeOK ==
  /\ RegTypeOK
  /\ list \in Lists /\ answer \in Lists
  /\ age \in 0..UpdateTimeout /\ travel \in 0..Delay
  /\ index \in Nat
  /\ dpc \in [Clients -> {"idle", "asking", "select"}]
  /\ waited \in [Clients -> 0..Wait]
  /\ manual \in BOOLEAN
  /\ turns \in Seq(Servers)

Init ==
  /\ RegInit
  /\ list = << >> /\ answer = << >>
  /\ age = UpdateTimeout /\ travel = 0
  /\ index \in FirstIndices
  /\ dpc = [c \in Clients |-> "idle"]
  /\ waited = [c \in Clients |-> 0]
  /\ manual = FALSE /\ turns = << >>

Free == \A c \in Clients : dpc[c] # "asking"   \* d.mu

Goto(c, label) ==
  /\ dpc' = [dpc EXCEPT ![c] = label]
  /\ waited' = [waited EXCEPT ![c] = 0]

(* Refresh: the list is recent enough *)
Recent(c) ==
  /\ dpc[c] = "idle" /\ Free
  /\ age < UpdateTimeout
  /\ Goto(c, "select")
  /\ UNCHANGED <<regVars, list, age, index, answer, travel, manual, turns>>

(* Refresh: the registry answers a GET with the servers alive, sorted *)
Unsorted == ListsOf(AliveServers)   \* Variant: in the order of the map
Sorted   == {l \in ListsOf(AliveServers) : Increasing(l)}

Ask(c) ==
  /\ dpc[c] = "idle" /\ Free /\ up
  /\ age >= UpdateTimeout
  /\ DeleteDead
  /\ answer' \in Sorted
  /\ travel' = 0
  /\ Goto(c, "asking")
  /\ UNCHANGED <<up, loop, since, heard, list, age, index, manual, turns>>

(* The list is replaced by one of the same servers; what the user set is   *)
(* the same only in the user's order                                       *)
SameServers(l) == Range(l) = Range(list) /\ (manual \/ manual' => l = list)

Install(l) ==
  /\ list' = l
  /\ age' = 0
  /\ turns' = IF SameServers(l) THEN turns ELSE << >>

ReceiveAppends(c) ==   \* Variant: appends to the servers it had
  /\ dpc[c] = "asking"
  /\ manual' = FALSE
  /\ Install(list \o answer)
  /\ Goto(c, "select")
  /\ answer' = << >> /\ travel' = 0
  /\ UNCHANGED <<regVars, index>>

Receive(c) ==
  /\ dpc[c] = "asking"
  /\ manual' = FALSE
  /\ Install(answer)
  /\ Goto(c, "select")
  /\ answer' = << >> /\ travel' = 0
  /\ UNCHANGED <<regVars, index>>

(* Refresh fails, and so does Get, whatever the old list holds: no answer  *)
(* arrives, or no registry is there to ask.                                *)
RefreshFailsStamped(c) ==   \* Variant: lastUpdate is set before the error is looked at
  /\ \/ dpc[c] = "asking"
     \/ dpc[c] = "idle" /\ Free /\ ~up /\ age >= UpdateTimeout
  /\ Goto(c, "idle")
  /\ age' = 0 /\ answer' = << >> /\ travel' = 0
  /\ UNCHANGED <<regVars, list, index, manual, turns>>

RefreshFails(c) ==
  /\ \/ dpc[c] = "asking"
     \/ dpc[c] = "idle" /\ Free /\ ~up /\ age >= UpdateTimeout
  /\ Goto(c, "idle")
  /\ answer' = << >> /\ travel' = 0
  /\ UNCHANGED <<regVars, list, age, index, manual, turns>>

(* MultiServersDiscovery.Get, RoundRobinSelect *)
LastTurns(seq, n) == SubSeq(seq, Len(seq) - n + 1, Len(seq))

RoundRobin(c) ==
  /\ dpc[c] = "select" /\ Free
  /\ list # << >>
  /\ LET n     == Len(list)
         taken == Append(turns, list[(index % n) + 1])
     IN /\ index' = (index + 1) % n
        /\ turns' = IF Len(taken) > n THEN LastTurns(taken, n) ELSE taken
  /\ Goto(c, "idle")
  /\ UNCHANGED <<regVars, list, age, answer, travel, manual>>

(* The empty list, RandomSelect, an unknown mode, or GetAll: nothing moves *)
OtherSelection(c) ==
  /\ dpc[c] = "select" /\ Free
  /\ Goto(c, "idle")
  /\ UNCHANGED <<regVars, list, age, index, answer, travel, manual, turns>>

(* Update: the user sets the list, in any order *)
Update(l) ==
  /\ Free
  /\ manual' = TRUE
  /\ Install(l)
  /\ UNCHANGED <<regVars, index, dpc, answer, travel, waited>>

(* Time also passes between a refresh and the selection: d.mu is released  *)
(* there, and another goroutine may hold it through its http.Get.          *)
Tick ==
  /\ \A c \in Clients : dpc[c] = "select" => waited[c] < Wait
  /\ ~Free => travel < Delay
  /\ RegTick
  /\ age' = Older(age, UpdateTimeout)
  /\ travel' = IF Free THEN 0 ELSE travel + 1
  /\ waited' = [c \in Clients |-> IF dpc[c] = "select" THEN waited[c] + 1 ELSE waited[c]]
  /\ UNCHANGED <<list, index, dpc, answer, manual, turns>>

ClientStep(c) ==
  Recent(c) \/ Ask(c) \/ Receive(c) \/ RefreshFails(c) \/ RoundRobin(c) \/ OtherSelection(c)

Next ==
  \/ RegNext /\ UNCHANGED discVars
  \/ \E c \in Clients : ClientStep(c)
  \/ \E l \in Lists : Update(l)
  \/ Tick

Spec == Init /\ [][Next]_vars

(* Time passes, however many calls are made; with it come the heartbeats,   *)
(* the answers and the selections that Tick waits for.                      *)
FairSpec == Spec /\ []<><<Tick>>_vars

-----------------------------------------------------------------------------
(* A server that Get may hand out has been heard of by the registry no     *)
(* longer ago than the two timeouts (each compared strictly), the way of   *)
(* the answer, and the time this client was kept between Refresh and its   *)
(* selection take together: another client's request may make it wait and  *)
(* then fail, so that it selects from a list that has expired meanwhile.   *)
HandedOutIsRecent ==
  \A c \in Clients : dpc[c] = "select" /\ ~manual =>
    \A i \in DOMAIN list :
      heard[list[i]] <= (Expiry - 1) + (UpdateTimeout - 1) + Delay + waited[c]

(* While the servers stay the same (sorted by the registry, or in the      *)
(* order the user gave), round robin hands out each of them before one     *)
(* comes again, also across refreshes and for any clients that share it.   *)
TurnsAreFair == \A i, j \in DOMAIN turns : i # j => turns[i] # turns[j]
=============================================================================
