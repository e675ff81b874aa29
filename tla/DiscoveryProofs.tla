--------------------------- MODULE DiscoveryProofs ---------------------------
(***************************************************************************)
(* Proofs about the registry and the clients that cache its list, for any  *)
(* servers, timeouts and delays that leave a margin.                       *)
(***************************************************************************)
EXTENDS Discovery, FiniteSetTheorems, SequenceTheorems, WellFoundedInduction,
        TLAPS

(* The age of an item is at most the time since the heartbeat that renewed *)
(* it, as long as the heartbeats go on; another one would end them.        *)
MarginInv ==
  \A s \in DOMAIN servers : Beating(s) => servers[s] <= since[s]

RegInv == RegTypeOK /\ MarginInv

LEMMA InitHolds == Init => RegInv
BY RegistryAssumption DEF Init, RegInit, RegInv, RegTypeOK, MarginInv, Beating

(* Deleting the dead keeps all who beat: their items are not old enough.   *)
LEMMA DeleteDeadStep ==
  ASSUME RegInv, DeleteDead, UNCHANGED <<up, loop, since, heard>>
  PROVE  RegInv' /\ \A s \in DOMAIN servers \ DOMAIN servers' : ~Beating(s)
<1>1. /\ DOMAIN servers' = AliveServers
      /\ \A s \in AliveServers : servers'[s] = servers[s]
  BY DEF DeleteDead, Restrict
<1>2. RegInv'
  BY <1>1 DEF RegInv, RegTypeOK, MarginInv, Beating, AliveServers
<1>3. ASSUME NEW s \in DOMAIN servers, Beating(s) PROVE s \in AliveServers
  <2>1. s \in Servers /\ servers[s] \in Nat /\ servers[s] <= since[s]
    BY <1>3, RegistryAssumption DEF RegInv, RegTypeOK, MarginInv
  <2>2. since[s] \in 0..(Period + Late)
    BY <2>1 DEF RegInv, RegTypeOK
  <2> QED
    BY <2>1, <2>2, RegistryAssumption DEF AliveServers
<1> QED
  BY <1>1, <1>2, <1>3

LEMMA HeartbeatStep ==
  ASSUME RegInv, NEW s \in Servers, SendHeartbeat(s)
  PROVE  RegInv' /\ DOMAIN servers \subseteq DOMAIN servers'
<1>1. PICK arrives \in BOOLEAN, answered \in BOOLEAN :
        /\ answered => arrives
        /\ servers' = IF arrives THEN PutServer(s) ELSE servers
        /\ heard' = IF arrives THEN [heard EXCEPT ![s] = 0] ELSE heard
        /\ loop' = [loop EXCEPT ![s] = IF answered THEN "beating" ELSE "ended"]
        /\ since' = [since EXCEPT ![s] = 0]
        /\ UNCHANGED up
  BY DEF SendHeartbeat
<1>2. CASE arrives
  <2>1. /\ DOMAIN servers' = DOMAIN servers \cup {s} /\ servers'[s] = 0
        /\ \A t \in DOMAIN servers : t # s => servers'[t] = servers[t]
    BY <1>1, <1>2 DEF PutServer
  <2> QED
    BY <1>1, <1>2, <2>1, RegistryAssumption DEF RegInv, RegTypeOK, MarginInv, Beating
<1>3. CASE ~arrives
  BY <1>1, <1>3, RegistryAssumption DEF RegInv, RegTypeOK, MarginInv, Beating
<1> QED
  BY <1>2, <1>3

LEMMA TickStep ==
  ASSUME RegInv, RegTick PROVE RegInv' /\ DOMAIN servers' = DOMAIN servers
<1>1. /\ DOMAIN servers' = DOMAIN servers
      /\ \A s \in DOMAIN servers : servers'[s] \in 0..Expiry /\ servers'[s] <= servers[s] + 1
  BY RegistryAssumption DEF RegTick, RegInv, RegTypeOK, Older
<1>2. since' \in [Servers -> 0..(Period + Late)]
  BY RegistryAssumption DEF RegTick, BeatsAreTimely, RegInv, RegTypeOK
<1>3. heard' \in [Servers -> 0..Horizon]
  BY RegistryAssumption DEF RegTick, RegInv, RegTypeOK, Older
<1>4. MarginInv'
  <2>1. ASSUME NEW s \in DOMAIN servers, Beating(s) PROVE servers'[s] <= since'[s]
    <3>1. s \in Servers /\ servers[s] \in Nat /\ servers[s] <= since[s]
      BY <2>1, RegistryAssumption DEF RegInv, RegTypeOK, MarginInv
    <3>2. since[s] \in 0..(Period + Late) /\ since'[s] = since[s] + 1
      BY <2>1, <3>1 DEF RegTick, RegInv, RegTypeOK
    <3>3. servers'[s] \in Nat /\ servers'[s] <= servers[s] + 1
      BY <1>1, RegistryAssumption
    <3> QED
      BY <3>1, <3>2, <3>3, RegistryAssumption
  <2> QED
    BY <1>1, <2>1 DEF MarginInv, Beating, RegTick
<1> QED
  BY <1>1, <1>2, <1>3, <1>4 DEF RegInv, RegTypeOK, RegTick

LEMMA StepDropsNoBeating ==
  ASSUME RegInv, [Next]_vars
  PROVE  RegInv' /\ \A s \in DOMAIN servers \ DOMAIN servers' : ~Beating(s) \/ ~up'
<1>1. CASE OtherGet \/ (\E c \in Clients : Ask(c))
  BY <1>1, DeleteDeadStep DEF OtherGet, Ask
<1>2. ASSUME NEW s \in Servers, StartServer(s) \/ Beat(s) PROVE RegInv' /\ DOMAIN servers \subseteq DOMAIN servers'
  BY <1>2, HeartbeatStep DEF StartServer, Beat
<1>3. ASSUME NEW s \in Servers, ServerDies(s) PROVE RegInv' /\ UNCHANGED servers
  BY <1>3, RegistryAssumption DEF ServerDies, RegInv, RegTypeOK, MarginInv, Beating
<1>4. CASE RegistryStops
  BY <1>4 DEF RegistryStops, RegInv, RegTypeOK, MarginInv, Beating
<1>5. CASE RegistryStarts
  BY <1>5 DEF RegistryStarts, RegInv, RegTypeOK, MarginInv, Beating
<1>6. CASE Tick
  BY <1>6, TickStep DEF Tick
<1>7. CASE UNCHANGED regVars
  BY <1>7 DEF regVars, RegInv, RegTypeOK, MarginInv, Beating
<1>8. ASSUME NEW c \in Clients, ClientStep(c) PROVE Ask(c) \/ UNCHANGED regVars
  BY <1>8 DEF ClientStep, Recent, Receive, RefreshFails, RoundRobin, OtherSelection
<1>9. ASSUME NEW l \in Lists, Update(l) PROVE UNCHANGED regVars
  BY <1>9 DEF Update
<1> QED
  BY <1>1, <1>2, <1>3, <1>4, <1>5, <1>6, <1>7, <1>8, <1>9 DEF Next, RegNext, vars

-----------------------------------------------------------------------------
(* The registry never drops a server whose heartbeats go on, for any       *)
(* timeout and period with the margin that Heartbeat leaves by default.    *)
THEOREM BeatingIsKept == Spec => NeverDropsBeating
<1>1. RegInv /\ [Next]_vars =>
        [\A s \in DOMAIN servers \ DOMAIN servers' : ~Beating(s) \/ ~up']_regVars
  BY StepDropsNoBeating
<1>2. RegInv /\ [Next]_vars => RegInv'
  BY StepDropsNoBeating
<1> QED
  BY <1>1, <1>2, InitHolds, PTL DEF Spec, NeverDropsBeating

-----------------------------------------------------------------------------
(* Arithmetic and sequences *)

LEMMA LeastNatural ==
  ASSUME NEW T, T \subseteq Nat, T # {}
  PROVE  \E x \in T : \A y \in T : x <= y
<1> DEFINE R == OpToRel(<, Nat)
<1>1. IsWellFoundedOn(R, Nat)
  BY NatLessThanWellFounded
<1>2. \A x, y \in Nat : y < x => <<y, x>> \in R
  BY DEF OpToRel
<1> HIDE DEF R
<1>3. PICK x \in T : \A y \in T : ~ (<<y, x>> \in R)
  BY <1>1, WFMin
<1>4. ASSUME NEW y \in T PROVE x <= y
  <2>1. x \in Nat /\ y \in Nat /\ ~(y < x)
    BY <1>2, <1>3
  <2> QED BY <2>1
<1> QED BY <1>3, <1>4

LEMMA DivMod ==
  ASSUME NEW a \in Nat, NEW n \in Nat \ {0}
  PROVE  /\ a \div n \in Nat
         /\ a % n \in 0..(n - 1)
         /\ a = n * (a \div n) + (a % n)
OBVIOUS

LEMMA ModSmall ==
  ASSUME NEW n \in Nat \ {0}, NEW a \in Nat, a < n PROVE a % n = a
OBVIOUS

LEMMA ModUnique ==
  ASSUME NEW n \in Nat \ {0}, NEW q \in Int, NEW p \in Int,
         NEW r \in 0..(n - 1), NEW t \in 0..(n - 1), n * q + r = n * p + t
  PROVE  r = t
<1>1. n * (q - p) = t - r
  OBVIOUS
<1>2. CASE q - p >= 1
  <2>1. n * (q - p) >= n
    BY <1>2
  <2> QED BY <1>1, <2>1
<1>3. CASE q - p <= -1
  <2>1. n * (q - p) <= -n
    BY <1>3
  <2> QED BY <1>1, <2>1
<1>4. CASE q - p = 0
  BY <1>4
<1> QED BY <1>2, <1>3, <1>4

(* d.index = (d.index + 1) % n moves on by one, and from the end to the head *)
LEMMA ModSucc ==
  ASSUME NEW a \in Nat, NEW n \in Nat \ {0}
  PROVE  (a + 1) % n = IF (a % n) + 1 = n THEN 0 ELSE (a % n) + 1
<1> DEFINE q == a \div n  r == a % n  p == (a + 1) \div n  t == (a + 1) % n
<1>1. q \in Nat /\ r \in 0..(n - 1) /\ a = n * q + r
  BY DivMod
<1>2. p \in Nat /\ t \in 0..(n - 1) /\ a + 1 = n * p + t
  <2>1. a + 1 \in Nat
    OBVIOUS
  <2> QED BY <2>1, DivMod
<1>3. p \in Int
  BY <1>2
<1> HIDE DEF q, r, p, t
<1>4. CASE r + 1 = n
  <2> DEFINE u == q + 1  z == 0
  <2>1. n * u + z = n * p + t
    BY <1>1, <1>2, <1>4
  <2>2. z \in 0..(n - 1) /\ u \in Int
    BY <1>1
  <2> HIDE DEF u, z
  <2>3. z = t
    BY <1>2, <1>3, <2>1, <2>2, ModUnique, ZenonT(30)
  <2> QED BY <2>3, <1>4 DEF r, t, z
<1>5. CASE r + 1 # n
  <2>1. r + 1 \in 0..(n - 1) /\ n * q + (r + 1) = n * p + t
    BY <1>1, <1>2, <1>5
  <2>2. r + 1 = t
    BY <1>1, <1>2, <2>1, ModUnique
  <2> QED BY <1>1, <1>2, <2>2, <1>5 DEF r, t
<1> QED BY <1>4, <1>5

(* A member of Lists names each server once *)
LEMMA ListsAreSequences ==
  ASSUME NEW l \in Lists
  PROVE  l \in Seq(Servers) /\ l \in Seq(Nat) /\ \A i, j \in DOMAIN l : l[i] = l[j] => i = j
<1>1. PICK S \in SUBSET Servers : l \in Bijection(1..Cardinality(S), S)
  BY DEF Lists, ListsOf
<1>2. Cardinality(S) \in Nat
  BY FS_Subset, FS_CardinalityType, RegistryAssumption
<1>3. l \in [1..Cardinality(S) -> Servers]
  BY <1>1 DEF Bijection, Injection
<1>4. \A i, j \in DOMAIN l : l[i] = l[j] => i = j
  BY <1>1 DEF Bijection, Injection, IsInjective
<1>5. l \in [1..Cardinality(S) -> Nat]
  BY <1>3, RegistryAssumption
<1> QED BY <1>2, <1>3, <1>4, <1>5

LEMMA EmptyList == << >> \in Lists
<1>1. Cardinality({}) = 0 /\ 1..0 = {}
  BY FS_EmptySet
<1>2. << >> \in Bijection(1..0, {})
  BY <1>1 DEF Bijection, Injection, Surjection, IsInjective
<1> QED BY <1>1, <1>2 DEF Lists, ListsOf

(* There is one way to sort: why the registry's order is stable. *)
LEMMA SortedOnce ==
  ASSUME NEW a \in Seq(Nat), NEW b \in Seq(Nat), Increasing(a), Increasing(b),
         Range(a) = Range(b)
  PROVE  a = b
<1> DEFINE T == {i \in DOMAIN a \cap DOMAIN b : a[i] # b[i]}
<1>1. /\ \A i \in DOMAIN a : \E j \in DOMAIN b : b[j] = a[i]
      /\ \A i \in DOMAIN b : \E j \in DOMAIN a : a[j] = b[i]
  BY DEF Range
<1>2. T = {}
  <2> SUFFICES ASSUME T # {} PROVE FALSE
    OBVIOUS
  <2>1. T \subseteq Nat
    OBVIOUS
  <2>2. PICK i \in T : \A y \in T : i <= y
    <3> HIDE DEF T
    <3> QED BY <2>1, LeastNatural
  <2>3. /\ i \in DOMAIN a /\ i \in DOMAIN b /\ a[i] # b[i] /\ i \in Nat
        /\ a[i] \in Nat /\ b[i] \in Nat
    OBVIOUS
  <2>4. ASSUME NEW j \in DOMAIN a \cap DOMAIN b, j < i PROVE a[j] = b[j]
    BY <2>2, <2>3, <2>4
  <2>5. CASE a[i] < b[i]
    <3>1. PICK j \in DOMAIN b : b[j] = a[i]
      BY <1>1, <2>3
    <3>2. j \in Nat /\ j < i
      <4>1. j \in Nat /\ j # i
        BY <3>1, <2>3, <2>5
      <4>2. i < j => b[i] < b[j]
        BY <3>1, <2>3 DEF Increasing
      <4> QED BY <4>1, <4>2, <3>1, <2>3, <2>5
    <3>3. j \in DOMAIN a
      BY <3>2, <2>3, <3>1
    <3>4. a[j] = b[j] /\ a[j] < a[i]
      BY <3>2, <3>3, <2>3, <2>4 DEF Increasing
    <3> QED BY <3>1, <3>4, <2>3
  <2>6. CASE b[i] < a[i]
    <3>1. PICK j \in DOMAIN a : a[j] = b[i]
      BY <1>1, <2>3
    <3>2. j \in Nat /\ j < i
      <4>1. j \in Nat /\ j # i
        BY <3>1, <2>3, <2>6
      <4>2. i < j => a[i] < a[j]
        BY <3>1, <2>3 DEF Increasing
      <4> QED BY <4>1, <4>2, <3>1, <2>3, <2>6
    <3>3. j \in DOMAIN b
      BY <3>2, <2>3, <3>1
    <3>4. a[j] = b[j] /\ b[j] < b[i]
      BY <3>2, <3>3, <2>3, <2>4 DEF Increasing
    <3> QED BY <3>1, <3>4, <2>3
  <2> QED BY <2>3, <2>5, <2>6
<1>3. Len(a) = Len(b)
  <2>1. CASE Len(a) < Len(b)
    <3>1. Len(a) + 1 \in DOMAIN b
      BY <2>1
    <3>2. PICK j \in DOMAIN a : a[j] = b[Len(a) + 1]
      BY <3>1, <1>1
    <3>3. j \in DOMAIN b /\ j < Len(a) + 1 /\ a[j] = b[j]
      BY <3>2, <2>1, <1>2
    <3>4. b[j] < b[Len(a) + 1] /\ b[j] \in Nat
      BY <3>1, <3>3 DEF Increasing
    <3> QED BY <3>2, <3>3, <3>4
  <2>2. CASE Len(b) < Len(a)
    <3>1. Len(b) + 1 \in DOMAIN a
      BY <2>2
    <3>2. PICK j \in DOMAIN b : b[j] = a[Len(b) + 1]
      BY <3>1, <1>1
    <3>3. j \in DOMAIN a /\ j < Len(b) + 1 /\ a[j] = b[j]
      BY <3>2, <2>2, <1>2
    <3>4. a[j] < a[Len(b) + 1] /\ a[j] \in Nat
      BY <3>1, <3>3 DEF Increasing
    <3> QED BY <3>2, <3>3, <3>4
  <2> QED BY <2>1, <2>2
<1>4. \A i \in 1..Len(a) : a[i] = b[i]
  BY <1>2, <1>3
<1> HIDE DEF T
<1> QED BY <1>3, <1>4, SeqEqual

-----------------------------------------------------------------------------
(* Types *)

LEMMA SortedLists ==
  ASSUME TypeOK, NEW l \in Sorted PROVE l \in Lists /\ Increasing(l) /\ Range(l) = AliveServers
<1>1. AliveServers \in SUBSET Servers
  BY DEF TypeOK, RegTypeOK, AliveServers
<1>2. l \in ListsOf(AliveServers) /\ Increasing(l)
  BY DEF Sorted
<1>3. Range(l) = AliveServers
  BY <1>2 DEF ListsOf, Bijection, Injection, Surjection, Range
<1> QED BY <1>1, <1>2, <1>3 DEF Lists

(* RoundRobinSelect, in terms of the position it takes *)
LEMMA RoundRobinStep ==
  ASSUME TypeOK, NEW c \in Clients, RoundRobin(c)
  PROVE  LET n == Len(list)
             p == index % n
             taken == Append(turns, list[p + 1])
         IN /\ n \in Nat \ {0} /\ p \in 0..(n - 1)
            /\ index' = IF p + 1 = n THEN 0 ELSE p + 1
            /\ list[p + 1] \in Servers
            /\ turns' = IF Len(taken) > n THEN LastTurns(taken, n) ELSE taken
            /\ turns' \in Seq(Servers)
<1> DEFINE n == Len(list)  p == index % n  taken == Append(turns, list[p + 1])
<1>1. list \in Seq(Servers) /\ list # << >>
  BY ListsAreSequences DEF TypeOK, RoundRobin
<1>2. n \in Nat \ {0} /\ index \in Nat /\ turns \in Seq(Servers)
  BY <1>1 DEF TypeOK
<1>3. p \in 0..(n - 1)
  BY <1>2, DivMod
<1>4. index' = (index + 1) % n
  BY DEF RoundRobin
<1>5. index' = IF p + 1 = n THEN 0 ELSE p + 1
  BY <1>2, <1>4, ModSucc
<1>6. turns' = IF Len(taken) > n THEN LastTurns(taken, n) ELSE taken
  BY DEF RoundRobin
<1> HIDE DEF n, p
<1>7. list[p + 1] \in Servers
  BY <1>1, <1>2, <1>3 DEF n
<1>8. taken \in Seq(Servers) /\ Len(taken) = Len(turns) + 1
  BY <1>2, <1>7
<1>9. turns' \in Seq(Servers)
  <2>1. ASSUME Len(taken) > n PROVE LastTurns(taken, n) \in Seq(Servers)
    BY <2>1, <1>2, <1>8 DEF LastTurns
  <2> QED BY <1>6, <1>8, <2>1
<1> QED BY <1>2, <1>3, <1>5, <1>6, <1>7, <1>9 DEF n, p

LEMMA TypeStep ==
  ASSUME TypeOK, RegTypeOK', [Next]_vars PROVE TypeOK'
<1> USE DiscoveryAssumption, RegistryAssumption DEF TypeOK
<1>1. ASSUME NEW c \in Clients, ClientStep(c) PROVE TypeOK'
  <2>1. CASE Ask(c)
    BY <2>1, SortedLists DEF Ask, Goto
  <2>2. CASE Receive(c)
    <3>1. answer' \in Lists
      BY <2>2, EmptyList DEF Receive
    <3>2. list' \in Lists /\ turns' \in Seq(Servers) /\ age' \in 0..UpdateTimeout
      BY <2>2 DEF Receive, Install
    <3>3. manual' \in BOOLEAN
      BY <2>2, Zenon DEF Receive
    <3>4. travel' \in 0..Delay /\ index' = index
      BY <2>2 DEF Receive
    <3>5. dpc' \in [Clients -> {"idle", "asking", "select"}] /\ waited' \in [Clients -> 0..Wait]
      BY <2>2 DEF Receive, Goto
    <3> QED BY <3>1, <3>2, <3>3, <3>4, <3>5
  <2>3. CASE RefreshFails(c)
    BY <2>3, EmptyList DEF RefreshFails, Goto
  <2>4. CASE RoundRobin(c)
    <3>1. index' \in Nat /\ turns' \in Seq(Servers)
      BY <2>4, RoundRobinStep
    <3> QED BY <2>4, <3>1 DEF RoundRobin, Goto
  <2>5. CASE Recent(c) \/ OtherSelection(c)
    <3>0. PICK l \in {"select", "idle"} : Goto(c, l)
      BY <2>5 DEF Recent, OtherSelection
    <3>1. dpc' \in [Clients -> {"idle", "asking", "select"}] /\ waited' \in [Clients -> 0..Wait]
      BY <3>0 DEF Goto
    <3> QED BY <2>5, <3>1 DEF Recent, OtherSelection
  <2> QED BY <1>1, <2>1, <2>2, <2>3, <2>4, <2>5 DEF ClientStep
<1>2. ASSUME NEW l \in Lists, Update(l) PROVE TypeOK'
  BY <1>2 DEF Update, Install
<1>3. CASE Tick
  BY <1>3 DEF Tick, Older
<1>4. CASE UNCHANGED discVars
  BY <1>4 DEF discVars
<1> QED BY <1>1, <1>2, <1>3, <1>4 DEF Next, vars

(* Every variable keeps its type: also a list always names each of its     *)
(* servers once.                                                           *)
THEOREM TypeCorrect == Spec => []TypeOK
<1>1. Init => TypeOK /\ RegInv
  <2> SUFFICES ASSUME Init PROVE TypeOK /\ RegInv
    OBVIOUS
  <2>1. RegInv
    BY InitHolds
  <2>2. list \in Lists /\ answer \in Lists
    BY EmptyList DEF Init
  <2>3. index \in Nat /\ turns \in Seq(Servers)
    BY DiscoveryAssumption DEF Init
  <2>4. age \in 0..UpdateTimeout /\ travel \in 0..Delay
    BY DiscoveryAssumption DEF Init
  <2>6. manual \in BOOLEAN
    BY Zenon DEF Init
  <2>5. dpc \in [Clients -> {"idle", "asking", "select"}] /\ waited \in [Clients -> 0..Wait]
    BY DiscoveryAssumption DEF Init
  <2> QED BY <2>1, <2>2, <2>3, <2>4, <2>5, <2>6 DEF TypeOK, RegInv
<1>2. TypeOK /\ RegInv /\ [Next]_vars => TypeOK' /\ RegInv'
  BY StepDropsNoBeating, TypeStep DEF RegInv
<1> QED BY <1>1, <1>2, PTL DEF Spec

-----------------------------------------------------------------------------
(* How old what Get hands out can be *)

(* Each of the two caches adds its own delay: an item of the registry is   *)
(* no older than what was last heard, an answer grows old on its way, and  *)
(* a list until it is refreshed.                                           *)
RecentInv ==
  /\ \A s \in DOMAIN servers : servers[s] < Expiry => heard[s] <= servers[s]
  /\ \A i \in DOMAIN answer : heard[answer[i]] < Expiry + travel
  /\ Free => answer = << >>
  /\ ~manual /\ age < UpdateTimeout =>
       \A i \in DOMAIN list : heard[list[i]] < Expiry + Delay + age

LEMMA HeardIsNat ==
  ASSUME TypeOK, NEW s \in Servers PROVE heard[s] \in Nat
BY RegistryAssumption DEF TypeOK, RegTypeOK

LEMMA RegistryHears ==
  ASSUME TypeOK, RecentInv, RegNext, UNCHANGED discVars PROVE RecentInv'
<1>1. \A l \in {list, answer} : \A i \in DOMAIN l : l[i] \in Servers
  BY ListsAreSequences DEF TypeOK
<1>2. /\ \A s \in DOMAIN servers' : servers'[s] < Expiry => heard'[s] <= servers'[s]
      /\ \A s \in Servers : heard'[s] <= heard[s] /\ heard'[s] \in Nat /\ heard[s] \in Nat
  <2>1. ASSUME NEW s \in Servers, StartServer(s) \/ Beat(s) PROVE <1>2!:
    <3>1. PICK arrives \in BOOLEAN :
            /\ servers' = IF arrives THEN PutServer(s) ELSE servers
            /\ heard' = IF arrives THEN [heard EXCEPT ![s] = 0] ELSE heard
      BY <2>1 DEF StartServer, Beat, SendHeartbeat
    <3> QED BY <3>1, RegistryAssumption DEF PutServer, TypeOK, RegTypeOK, RecentInv
  <2>2. CASE OtherGet
    BY <2>2, RegistryAssumption
    DEF OtherGet, DeleteDead, Restrict, AliveServers, TypeOK, RegTypeOK, RecentInv
  <2>3. CASE (\E s \in Servers : ServerDies(s)) \/ RegistryStops \/ RegistryStarts
    BY <2>3, RegistryAssumption
    DEF ServerDies, RegistryStops, RegistryStarts, TypeOK, RegTypeOK, RecentInv
  <2> QED BY <2>1, <2>2, <2>3 DEF RegNext
<1>3. /\ \A i \in DOMAIN list : heard'[list[i]] <= heard[list[i]]
      /\ \A i \in DOMAIN answer : heard'[answer[i]] <= heard[answer[i]]
      /\ \A i \in DOMAIN list : heard'[list[i]] \in Nat /\ heard[list[i]] \in Nat
      /\ \A i \in DOMAIN answer : heard'[answer[i]] \in Nat /\ heard[answer[i]] \in Nat
  BY <1>1, <1>2
<1> HIDE DEF Free
<1>4. Free' <=> Free
  BY DEF Free, discVars
<1> QED BY <1>2, <1>3, <1>4, DiscoveryAssumption, RegistryAssumption
        DEF RecentInv, discVars, TypeOK

LEMMA ClientsHear ==
  ASSUME TypeOK, RecentInv, NEW c \in Clients, ClientStep(c) PROVE RecentInv'
<1> USE DEF TypeOK, Goto
<1>1. UpdateTimeout \in Nat /\ Delay \in Nat /\ Expiry \in Nat
  BY DiscoveryAssumption, RegistryAssumption
<1>2. CASE Recent(c)
  <2>1. list' = list /\ answer' = answer /\ heard' = heard /\ servers' = servers
        /\ travel' = travel /\ manual' = manual /\ age' = age
    BY <1>2 DEF Recent, regVars
  <2>2. Free' => answer = << >>
    BY <1>2 DEF Recent, Free, RecentInv
  <2> QED BY <2>1, <2>2 DEF RecentInv
<1>3. CASE Ask(c)
  <2>1. answer' \in Sorted
    BY <1>3 DEF Ask
  <2>2. Range(answer') = AliveServers /\ travel' = 0 /\ heard' = heard
    BY <1>3, <2>1, SortedLists DEF Ask
  <2>3. \A i \in DOMAIN answer' : heard'[answer'[i]] < Expiry + travel'
    <3> SUFFICES ASSUME NEW i \in DOMAIN answer' PROVE heard[answer'[i]] < Expiry
      BY <1>1, <2>2
    <3>1. answer'[i] \in AliveServers
      BY <2>2 DEF Range
    <3>2. answer'[i] \in Servers /\ servers[answer'[i]] \in Nat
      BY <3>1 DEF AliveServers, RegTypeOK
    <3>3. heard[answer'[i]] \in Nat
      BY <3>2, HeardIsNat
    <3> QED BY <3>1, <3>2, <3>3, <1>1 DEF AliveServers, RecentInv
  <2>4. ~Free'
    BY <1>3 DEF Ask, Free
  <2>5. /\ \A s \in DOMAIN servers' : s \in DOMAIN servers /\ servers'[s] = servers[s]
        /\ list' = list /\ age' = age /\ manual' = manual
    BY <1>3 DEF Ask, DeleteDead, Restrict, AliveServers
  <2> QED BY <2>2, <2>3, <2>4, <2>5 DEF RecentInv
<1>4. CASE Receive(c)
  <2>1. list' = answer /\ answer' = << >> /\ age' = 0 /\ heard' = heard
        /\ servers' = servers /\ travel' = 0
    BY <1>4 DEF Receive, Install, regVars
  <2>2. \A i \in DOMAIN answer : heard[answer[i]] < Expiry + Delay + 0
    <3> SUFFICES ASSUME NEW i \in DOMAIN answer PROVE heard[answer[i]] < Expiry + Delay + 0
      OBVIOUS
    <3>1. answer[i] \in Servers
      BY ListsAreSequences
    <3>2. heard[answer[i]] \in Nat
      BY <3>1, HeardIsNat
    <3>3. heard[answer[i]] < Expiry + travel
      BY DEF RecentInv
    <3> QED BY <3>2, <3>3, <1>1
  <2>3. DOMAIN answer' = {}
    BY <2>1
  <2> QED BY <2>1, <2>2, <2>3 DEF RecentInv
<1>5. CASE RefreshFails(c)
  <2>1. answer' = << >> /\ age' = age /\ heard' = heard /\ list' = list /\ manual' = manual
        /\ servers' = servers
    BY <1>5 DEF RefreshFails, regVars
  <2>2. DOMAIN answer' = {}
    BY <2>1
  <2> QED BY <2>1, <2>2 DEF RecentInv
<1>6. CASE RoundRobin(c) \/ OtherSelection(c)
  <2>1. list' = list /\ answer' = answer /\ heard' = heard /\ servers' = servers
        /\ travel' = travel /\ manual' = manual /\ age' = age
    BY <1>6 DEF RoundRobin, OtherSelection, regVars
  <2>2. Free
    BY <1>6 DEF RoundRobin, OtherSelection
  <2> QED BY <2>1, <2>2 DEF RecentInv
<1> QED BY <1>2, <1>3, <1>4, <1>5, <1>6 DEF ClientStep

LEMMA TickHears ==
  ASSUME TypeOK, RecentInv, Tick PROVE RecentInv'
<1> USE DEF TypeOK
<1>1. UpdateTimeout \in Nat /\ Delay \in Nat /\ Expiry \in Nat
  BY DiscoveryAssumption, RegistryAssumption
<1>2. \A s \in Servers : heard[s] \in Nat /\ heard'[s] \in Nat /\ heard'[s] <= heard[s] + 1
  BY RegistryAssumption DEF Tick, RegTick, RegTypeOK, Older
<1>3. \A l \in {list, answer} : \A i \in DOMAIN l : l[i] \in Servers
  BY ListsAreSequences
<1>4. \A s \in DOMAIN servers' : servers'[s] < Expiry => heard'[s] <= servers'[s]
  <2> SUFFICES ASSUME NEW s \in DOMAIN servers', servers'[s] < Expiry
               PROVE  heard'[s] <= servers'[s]
    OBVIOUS
  <2>1. s \in DOMAIN servers /\ s \in Servers /\ servers[s] \in 0..Expiry
    BY DEF Tick, RegTick, RegTypeOK
  <2>2. servers'[s] = Older(servers[s], Expiry)
    BY <2>1 DEF Tick, RegTick
  <2>3. servers[s] < Expiry /\ servers'[s] = servers[s] + 1
    BY <1>1, <2>1, <2>2 DEF Older
  <2> QED BY <1>2, <2>1, <2>3 DEF RecentInv
<1>5. Free' <=> Free
  BY DEF Tick, Free
<1>6. \A i \in DOMAIN answer : heard'[answer[i]] < Expiry + travel'
  <2>1. CASE Free
    BY <2>1 DEF RecentInv
  <2>2. CASE ~Free
    <3>1. travel' = travel + 1 /\ travel \in Nat
      BY <2>2, <1>1 DEF Tick
    <3> QED BY <3>1, <1>1, <1>2, <1>3 DEF RecentInv
  <2> QED BY <2>1, <2>2
<1>7. ASSUME ~manual, age' < UpdateTimeout, NEW i \in DOMAIN list
      PROVE  heard'[list[i]] < Expiry + Delay + age'
  <2>1. age \in Nat /\ age' = age + 1
    BY <1>1, <1>7 DEF Tick, Older
  <2>2. heard[list[i]] < Expiry + Delay + age
    BY <2>1, <1>1, <1>7 DEF RecentInv
  <2> QED BY <2>1, <2>2, <1>1, <1>2, <1>3
<1> QED BY <1>4, <1>5, <1>6, <1>7 DEF RecentInv, Tick

LEMMA RecentStep ==
  ASSUME TypeOK, RecentInv, [Next]_vars PROVE RecentInv'
<1>1. ASSUME NEW l \in Lists, Update(l) PROVE RecentInv'
  <2>1. answer' = answer /\ heard' = heard /\ servers' = servers /\ travel' = travel
        /\ manual' /\ age' = 0 /\ dpc' = dpc
    BY <1>1 DEF Update, Install, regVars
  <2> QED BY <2>1, DiscoveryAssumption DEF RecentInv, Free
<1>2. CASE UNCHANGED vars
  BY <1>2 DEF vars, regVars, discVars, RecentInv, Free
<1> QED BY <1>1, <1>2, RegistryHears, ClientsHear, TickHears DEF Next

(* A client that begins to wait has a list that is new enough, and while   *)
(* it waits the list grows as old as the wait does, or is replaced.        *)
LEMMA WaitStep ==
  ASSUME TypeOK, RecentInv', HandedOutIsRecent, [Next]_vars, TypeOK'
  PROVE  HandedOutIsRecent'
<1>1. UpdateTimeout \in Nat \ {0} /\ Delay \in Nat /\ Expiry \in Nat /\ Wait \in Nat
  BY DiscoveryAssumption, RegistryAssumption
<1>2. /\ \A i \in DOMAIN list : list[i] \in Servers
      /\ \A i \in DOMAIN list' : list'[i] \in Servers
  BY ListsAreSequences DEF TypeOK
<1>3. /\ \A s \in Servers : heard[s] \in Nat /\ heard'[s] \in Nat
      /\ \A c \in Clients : waited[c] \in Nat /\ waited'[c] \in Nat
      /\ age' \in Nat
  BY <1>1, RegistryAssumption DEF TypeOK, RegTypeOK
<1>4. ASSUME age' < UpdateTimeout PROVE HandedOutIsRecent'
  <2> SUFFICES ASSUME ~manual', NEW c \in Clients, NEW i \in DOMAIN list'
               PROVE  heard'[list'[i]] <= (Expiry - 1) + (UpdateTimeout - 1) + Delay + waited'[c]
    BY DEF HandedOutIsRecent
  <2>1. heard'[list'[i]] < Expiry + Delay + age'
    BY <1>4 DEF RecentInv
  <2> QED BY <1>1, <1>2, <1>3, <1>4, <2>1
<1>5. ASSUME UNCHANGED <<list, manual>>,
             \A s \in Servers : heard'[s] <= heard[s],
             \A c \in Clients : dpc'[c] = "select" => dpc[c] = "select" /\ waited'[c] = waited[c]
      PROVE  HandedOutIsRecent'
  BY <1>1, <1>2, <1>3, <1>5 DEF HandedOutIsRecent
<1>6. CASE Tick
  <2>1. /\ UNCHANGED <<list, manual, dpc>>
        /\ \A s \in Servers : heard'[s] <= heard[s] + 1
        /\ \A c \in Clients : dpc[c] = "select" => waited'[c] = waited[c] + 1
    BY <1>6, <1>3 DEF Tick, RegTick, Older
  <2> QED BY <1>1, <1>2, <1>3, <2>1 DEF HandedOutIsRecent
<1>7. ASSUME NEW c \in Clients, ClientStep(c) PROVE HandedOutIsRecent'
  <2>1. CASE Recent(c) \/ Receive(c)
    BY <1>1, <1>4, <2>1 DEF Recent, Receive, Install
  <2>2. CASE Ask(c) \/ RefreshFails(c) \/ RoundRobin(c) \/ OtherSelection(c)
    <3>1. UNCHANGED <<list, manual, heard>>
      BY <2>2 DEF Ask, RefreshFails, RoundRobin, OtherSelection, regVars
    <3>2. \E l \in {"idle", "asking"} : Goto(c, l)
      BY <2>2 DEF Ask, RefreshFails, RoundRobin, OtherSelection
    <3>3. \A d \in Clients : dpc'[d] = "select" => dpc[d] = "select" /\ waited'[d] = waited[d]
      BY <3>2 DEF Goto, TypeOK
    <3>4. \A s \in Servers : heard'[s] <= heard[s]
      BY <1>3, <3>1
    <3> QED BY <1>5, <3>1, <3>3, <3>4
  <2> QED BY <1>7, <2>1, <2>2 DEF ClientStep
<1>8. CASE RegNext /\ UNCHANGED discVars
  <2>1. \A s \in Servers : heard'[s] <= heard[s]
    <3>1. ASSUME NEW t \in Servers, StartServer(t) \/ Beat(t)
          PROVE  heard' = [heard EXCEPT ![t] = 0] \/ heard' = heard
      BY <3>1 DEF StartServer, Beat, SendHeartbeat
    <3>2. heard' = heard \/ \E t \in Servers : heard' = [heard EXCEPT ![t] = 0]
      BY <1>8, <3>1 DEF RegNext, ServerDies, OtherGet, RegistryStops, RegistryStarts
    <3>3. heard \in [Servers -> 0..Horizon]
      BY DEF TypeOK, RegTypeOK
    <3>4. ASSUME NEW t \in Servers, heard' = [heard EXCEPT ![t] = 0]
          PROVE  \A s \in Servers : heard'[s] <= heard[s]
      BY <1>3, <3>3, <3>4
    <3> QED BY <1>3, <3>2, <3>4
  <2> QED BY <1>5, <1>8, <2>1 DEF discVars
<1>9. ASSUME NEW l \in Lists, Update(l) PROVE HandedOutIsRecent'
  BY <1>9 DEF Update, HandedOutIsRecent
<1>10. CASE UNCHANGED vars
  BY <1>10 DEF vars, regVars, discVars, HandedOutIsRecent
<1> QED BY <1>6, <1>7, <1>8, <1>9, <1>10 DEF Next

(* What Get may hand out is as recent as the timeouts of the registry and  *)
(* of the discovery, the delay of the answer, and the time the client was  *)
(* kept between its refresh and its selection allow together.              *)
THEOREM HandsOutRecent == Spec => []HandedOutIsRecent
<1>1. Init => RecentInv /\ HandedOutIsRecent
  <2> SUFFICES ASSUME Init PROVE RecentInv /\ HandedOutIsRecent
    OBVIOUS
  <2>1. DOMAIN list = {} /\ DOMAIN answer = {} /\ DOMAIN servers = {}
    BY DEF Init, RegInit
  <2> QED BY <2>1 DEF Init, RecentInv, HandedOutIsRecent
<1>2. TypeOK /\ RecentInv /\ [Next]_vars => RecentInv'
  BY RecentStep
<1>3. TypeOK /\ TypeOK' /\ RecentInv' /\ HandedOutIsRecent /\ [Next]_vars => HandedOutIsRecent'
  BY WaitStep
<1> QED BY <1>1, <1>2, <1>3, TypeCorrect, PTL DEF Spec

-----------------------------------------------------------------------------
(* Round robin *)

(* Where in a list of n the last of k turns but i was taken *)
Place(n, k, i) == IF index - (k - i) >= 1 THEN index - (k - i) ELSE index - (k - i) + n

(* The turns kept are those taken from this very list, the last of them    *)
(* just behind the index.                                                  *)
TurnsInv ==
  /\ Len(turns) <= Len(list)
  /\ Len(turns) > 0 => index < Len(list)
  /\ \A i \in 1..Len(turns) : turns[i] = list[Place(Len(list), Len(turns), i)]
  /\ ~manual => Increasing(list)
  /\ Increasing(answer)

(* A refresh that brings the same servers brings the same list. *)
LEMMA InstallStep ==
  ASSUME TypeOK, TurnsInv, NEW l \in Lists, Install(l), manual' \in BOOLEAN,
         ~manual' => Increasing(l), index' = index, Increasing(answer')
  PROVE  TurnsInv'
<1>1. CASE SameServers(l)
  <2>1. l = list
    <3>1. l \in Seq(Nat) /\ list \in Seq(Nat)
      BY ListsAreSequences DEF TypeOK
    <3> QED BY <1>1, <3>1, SortedOnce DEF SameServers, TurnsInv, TypeOK
  <2> QED BY <1>1, <2>1 DEF Install, TurnsInv, Place
<1>2. CASE ~SameServers(l)
  <2>1. turns' = << >> /\ list' = l
    BY <1>2 DEF Install
  <2>2. Len(turns') = 0 /\ Len(list') \in Nat
    BY <2>1, ListsAreSequences
  <2> QED BY <2>1, <2>2 DEF TurnsInv
<1> QED BY <1>1, <1>2

LEMMA TurnTaken ==
  ASSUME TypeOK, TurnsInv, NEW c \in Clients, RoundRobin(c) PROVE TurnsInv'
<1> DEFINE n == Len(list)  k == Len(turns)  p == index % n
           taken == Append(turns, list[p + 1])
<1>1. /\ n \in Nat \ {0} /\ p \in 0..(n - 1) /\ k \in Nat /\ k <= n /\ index \in Nat
      /\ index' = IF p + 1 = n THEN 0 ELSE p + 1
      /\ turns' = IF Len(taken) > n THEN LastTurns(taken, n) ELSE taken
      /\ list[p + 1] \in Servers
  BY RoundRobinStep DEF TurnsInv, TypeOK
<1>2. k > 0 => p = index
  <2>1. k > 0 => index < n
    BY DEF TurnsInv
  <2> QED BY <1>1, <2>1, ModSmall
<1>3. turns \in Seq(Servers) /\ list' = list /\ manual' = manual /\ answer' = answer
  BY DEF TypeOK, RoundRobin
<1>4. \A i \in 1..k : turns[i] = list[Place(n, k, i)]
  BY DEF TurnsInv
<1> HIDE DEF n, k, p
<1>5. Len(taken) = k + 1 /\ taken[k + 1] = list[p + 1] /\ \A i \in 1..k : taken[i] = turns[i]
  BY <1>1, <1>3 DEF k
<1> HIDE DEF taken
<1>6. taken[k + 1] = list[IF index' >= 1 THEN index' ELSE index' + n]
  BY <1>1, <1>5
<1>7. CASE k < n
  <2>1. turns' = taken
    BY <1>1, <1>5, <1>7
  <2>2. ASSUME NEW i \in 1..(k + 1)
        PROVE  taken[i] = list[IF index' - ((k + 1) - i) >= 1 THEN index' - ((k + 1) - i)
                               ELSE index' - ((k + 1) - i) + n]
    <3>1. CASE i = k + 1
      <4>1. index' \in Nat /\ index' - ((k + 1) - i) = index'
        BY <1>1, <3>1
      <4> QED BY <1>6, <3>1, <4>1
    <3>2. CASE i \in 1..k
      <4>1. taken[i] = list[Place(n, k, i)] /\ p = index
        BY <1>1, <1>2, <1>4, <1>5, <3>2
      <4>2. Place(n, k, i) = IF index' - ((k + 1) - i) >= 1 THEN index' - ((k + 1) - i)
                               ELSE index' - ((k + 1) - i) + n
        BY <1>1, <1>7, <3>2, <4>1 DEF Place
      <4> QED BY <4>1, <4>2
    <3> QED BY <1>1, <3>1, <3>2
  <2>3. Len(turns') = k + 1 /\ Len(list') = n /\ index' < n /\ k + 1 <= n
    BY <1>1, <1>3, <1>5, <1>7, <2>1 DEF n
  <2> QED BY <1>3, <2>1, <2>2, <2>3 DEF TurnsInv, Place
<1>8. CASE k = n
  <2>1. turns' = SubSeq(taken, 2, n + 1)
    BY <1>1, <1>5, <1>8 DEF LastTurns
  <2>2. taken \in Seq(Servers)
    BY <1>1, <1>3 DEF taken
  <2>3. Len(turns') = n /\ \A i \in 1..n : turns'[i] = taken[i + 1]
    <3>1. 2 \in 1..(Len(taken) + 1) /\ n + 1 \in 1..Len(taken) /\ Len(taken) = n + 1
      BY <1>1, <1>5, <1>8
    <3>2. /\ Len(SubSeq(taken, 2, n + 1)) = (n + 1) - 2 + 1
          /\ \A i \in 1..((n + 1) - 2 + 1) : SubSeq(taken, 2, n + 1)[i] = taken[2 + i - 1]
      BY <1>1, <2>2, <3>1, SubSeqProperties
    <3>3. (n + 1) - 2 + 1 = n /\ \A i \in 1..n : 2 + i - 1 = i + 1
      BY <1>1
    <3> QED BY <2>1, <3>2, <3>3
  <2>4. ASSUME NEW i \in 1..n
        PROVE  taken[i + 1] = list[IF index' - (n - i) >= 1 THEN index' - (n - i)
                                   ELSE index' - (n - i) + n]
    <3>1. CASE i = n
      BY <1>1, <1>6, <1>8, <3>1
    <3>2. CASE i \in 1..(n - 1)
      <4>1. i + 1 \in 1..k /\ taken[i + 1] = list[Place(n, k, i + 1)] /\ p = index
        BY <1>1, <1>2, <1>4, <1>5, <1>8, <3>2
      <4>2. Place(n, k, i + 1) = IF index' - (n - i) >= 1 THEN index' - (n - i)
                                   ELSE index' - (n - i) + n
        BY <1>1, <1>8, <3>2, <4>1 DEF Place
      <4> QED BY <4>1, <4>2
    <3> QED BY <1>1, <3>1, <3>2
  <2>5. Len(list') = n /\ index' < n /\ n <= n
    BY <1>1, <1>3 DEF n
  <2> QED BY <1>3, <2>3, <2>4, <2>5 DEF TurnsInv, Place
<1> QED BY <1>1, <1>7, <1>8

LEMMA TurnsStep ==
  ASSUME TypeOK, TurnsInv, [Next]_vars PROVE TurnsInv'
<1>1. ASSUME NEW c \in Clients, Ask(c) PROVE TurnsInv'
  <2>1. Increasing(answer')
    BY <1>1, SortedLists DEF Ask
  <2> QED BY <1>1, <2>1 DEF Ask, TurnsInv, Place
<1>2. ASSUME NEW c \in Clients, Receive(c) PROVE TurnsInv'
  <2>1. Increasing(answer')
    BY <1>2 DEF Receive, Increasing
  <2> QED BY <1>2, <2>1, InstallStep DEF Receive, TypeOK, TurnsInv
<1>3. ASSUME NEW c \in Clients, RefreshFails(c) PROVE TurnsInv'
  <2>1. Increasing(answer')
    BY <1>3 DEF RefreshFails, Increasing
  <2> QED BY <1>3, <2>1 DEF RefreshFails, TurnsInv, Place
<1>4. ASSUME NEW l \in Lists, Update(l) PROVE TurnsInv'
  BY <1>4, InstallStep DEF Update, TurnsInv
<1>5. CASE UNCHANGED <<list, index, answer, manual, turns>>
  BY <1>5 DEF TurnsInv, Place
<1>6. ASSUME NEW c \in Clients, Recent(c) \/ OtherSelection(c)
      PROVE  UNCHANGED <<list, index, answer, manual, turns>>
  BY <1>6 DEF Recent, OtherSelection
<1> QED BY <1>1, <1>2, <1>3, <1>4, <1>5, <1>6, TurnTaken
        DEF Next, ClientStep, Tick, discVars, vars

(* Round robin hands out every server before one comes again, for any      *)
(* number of servers and whatever index it starts from, across refreshes.  *)
THEOREM TakesTurns == Spec => []TurnsAreFair
<1>1. Init => TurnsInv
  <2> SUFFICES ASSUME Init PROVE TurnsInv
    OBVIOUS
  <2>1. Len(turns) = 0 /\ Len(list) = 0 /\ DOMAIN list = {} /\ DOMAIN answer = {}
    BY DEF Init
  <2> QED BY <2>1 DEF TurnsInv, Increasing
<1>2. TypeOK /\ TurnsInv => TurnsAreFair
  <2> SUFFICES ASSUME TypeOK, TurnsInv, NEW i \in DOMAIN turns, NEW j \in DOMAIN turns, i # j
               PROVE  turns[i] # turns[j]
    BY DEF TurnsAreFair
  <2> DEFINE n == Len(list)  k == Len(turns)
  <2>1. k \in Nat /\ n \in Nat /\ index \in Nat /\ i \in 1..k /\ j \in 1..k
        /\ DOMAIN list = 1..n
    BY ListsAreSequences DEF TypeOK
  <2>2. k <= n /\ index < n
    BY <2>1 DEF TurnsInv
  <2>3. turns[i] = list[Place(n, k, i)] /\ turns[j] = list[Place(n, k, j)]
    BY <2>1 DEF TurnsInv
  <2> HIDE DEF n, k
  <2>4. Place(n, k, i) \in 1..n /\ Place(n, k, j) \in 1..n /\ Place(n, k, i) # Place(n, k, j)
    BY <2>1, <2>2 DEF Place
  <2> QED BY <2>1, <2>3, <2>4, ListsAreSequences DEF TypeOK
<1>3. TypeOK /\ TurnsInv /\ [Next]_vars => TurnsInv'
  BY TurnsStep
<1> QED BY <1>1, <1>2, <1>3, TypeCorrect, PTL DEF Spec
=============================================================================
