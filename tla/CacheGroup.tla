------------------------------ MODULE CacheGroup ------------------------------
(***************************************************************************)
(* A geecache Group on one node (geecache/geecache.go): Get looks in the   *)
(* node's LRU cache, and on a miss goes through singleflight to a peer or  *)
(* to the user's Getter, which fills the cache.  The source of the data    *)
(* changes under it.  Peers are the environment: one may be picked for a   *)
(* key, and then answers with a version it read at some time, or fails.    *)
(*                                                                         *)
(* A Group runs the actions of SingleFlight; fn, the closure in load, is   *)
(* the steps from "pick" to "return" here.                                 *)
(***************************************************************************)
EXTENDS SingleFlight, Lru

CONSTANTS MaxVersion,   \* bound: changes of the source per key
          Remote,       \* keys PickPeer finds a peer for
          Err           \* an error in place of a value

Versions == 0..MaxVersion

ASSUME GroupAssumption ==
  /\ MaxVersion \in Nat
  /\ Values = Versions \cup {Err}
  /\ Err \notin Versions
  /\ Remote \subseteq Keys

VARIABLES gpc,       \* where a Get is
          want,      \* the key it asks for
          fetched,   \* the value the Getter has returned to it
          cache,     \* mainCache
          src,       \* the version of each key at the source
          filled,    \* history: the last version put in the cache for a key
          seen       \* history: the last version a goroutine got of a local key

groupVars == <<gpc, want, fetched, cache, src, filled, seen>>
vars      == <<flightVars, groupVars>>

TypeOK ==
  /\ FlightTypeOK
  /\ gpc \in [Procs -> {"idle", "missed", "pick", "getter", "populate",
                        "return", "leave", "wait", "dead"}]
  /\ want \in [Procs -> Keys \cup {Nil}]
  /\ fetched \in [Procs -> Versions \cup {Nil}]
  /\ cache.ll \in Seq([key : Keys, val : Versions])
  /\ src \in [Keys -> Versions]
  /\ filled \in [Keys -> Versions]
  /\ seen \in [Procs -> [Keys \ Remote -> Versions]]

Init ==
  /\ FlightInit
  /\ gpc = [p \in Procs |-> "idle"]
  /\ want = [p \in Procs |-> Nil]
  /\ fetched = [p \in Procs |-> Nil]
  /\ cache = NewCache
  /\ src = [k \in Keys |-> 0]
  /\ filled = [k \in Keys |-> 0]
  /\ seen = [p \in Procs |-> [k \in Keys \ Remote |-> 0]]

Goto(p, label) == gpc' = [gpc EXCEPT ![p] = label]

(* Get returns v to its caller *)
Seen(p, k, v) ==
  seen' = IF v = Err \/ k \in Remote THEN seen ELSE [seen EXCEPT ![p][k] = v]

(* Group.Get: mainCache.get under the cache's lock *)
Hit(p, k) ==
  /\ gpc[p] = "idle"
  /\ k \in KeysOf(cache)
  /\ cache' = Touch(cache, k)
  /\ Seen(p, k, EntryOf(cache, k).val)
  /\ UNCHANGED <<flightVars, gpc, want, fetched, src, filled>>

Miss(p, k) ==
  /\ gpc[p] = "idle"
  /\ k \notin KeysOf(cache)
  /\ want' = [want EXCEPT ![p] = k]
  /\ Goto(p, "missed")
  /\ UNCHANGED <<flightVars, fetched, cache, src, filled, seen>>

(* load: loader.Do *)
LoadLead(p) ==
  /\ gpc[p] = "missed"
  /\ Lead(p, want[p])
  /\ Goto(p, "pick")
  /\ UNCHANGED <<want, fetched, cache, src, filled, seen>>

LoadJoin(p) ==
  /\ gpc[p] = "missed"
  /\ Join(p, want[p])
  /\ Goto(p, "wait")
  /\ UNCHANGED <<want, fetched, cache, src, filled, seen>>

(* getFromPeer: the value is returned as it is, and not cached here *)
FromPeer(p) ==
  /\ gpc[p] = "pick" /\ want[p] \in Remote
  /\ \E v \in 0..src[want[p]] : FnReturns(p, v)
  /\ Goto(p, "leave")
  /\ UNCHANGED <<want, fetched, cache, src, filled, seen>>

(* No peer, or an error of the peer: getLocally *)
PeerUnavailable(p) ==
  /\ gpc[p] = "pick"
  /\ Goto(p, "getter")
  /\ UNCHANGED <<flightVars, want, fetched, cache, src, filled, seen>>

GetterReads(p) ==
  /\ gpc[p] = "getter"
  /\ fetched' = [fetched EXCEPT ![p] = src[want[p]]]
  /\ Goto(p, "populate")
  /\ UNCHANGED <<flightVars, want, cache, src, filled, seen>>

GetterFails(p) ==
  /\ gpc[p] = "getter"
  /\ FnReturns(p, Err)
  /\ Goto(p, "leave")
  /\ UNCHANGED <<want, fetched, cache, src, filled, seen>>

(* The Getter panics: net/http recovers above Get, nobody does in Do *)
GetterPanics(p) ==
  /\ gpc[p] = "getter"
  /\ FnPanics(p)
  /\ Goto(p, "dead")
  /\ UNCHANGED <<want, fetched, cache, src, filled, seen>>

(* populateCache, then the closure returns *)
Populate(p) ==
  /\ gpc[p] = "populate"
  /\ cache' = AddTo(cache, want[p], fetched[p])
  /\ filled' = [filled EXCEPT ![want[p]] = fetched[p]]
  /\ Goto(p, "return")
  /\ UNCHANGED <<flightVars, want, fetched, src, seen>>

LoadReturns(p) ==
  /\ gpc[p] = "return"
  /\ FnReturns(p, fetched[p])
  /\ fetched' = [fetched EXCEPT ![p] = Nil]
  /\ Goto(p, "leave")
  /\ UNCHANGED <<want, cache, src, filled, seen>>

(* Do returns, to the leader or to a waiter, and so does Get *)
Leave(p) ==
  /\ \/ gpc[p] = "leave" /\ Unmap(p)
     \/ gpc[p] = "wait" /\ Wake(p)
  /\ Seen(p, want[p], calls[mine[p]].val)
  /\ want' = [want EXCEPT ![p] = Nil]
  /\ Goto(p, "idle")
  /\ UNCHANGED <<fetched, cache, src, filled>>

(* The data at the source changes *)
SourceChanges(k) ==
  /\ src[k] < MaxVersion
  /\ src' = [src EXCEPT ![k] = @ + 1]
  /\ UNCHANGED <<flightVars, gpc, want, fetched, cache, filled, seen>>

(* What panics leave behind: the dead, and those who wait for them *)
Lost(p) ==
  \/ gpc[p] = "dead"
  \/ gpc[p] = "wait" /\ gpc[calls[mine[p]].leader] = "dead"

Stranded == (\A p \in Procs : Lost(p)) /\ UNCHANGED vars

Get(p) == \E k \in Keys : Hit(p, k) \/ Miss(p, k)

Load(p) ==
  \/ LoadLead(p) \/ LoadJoin(p) \/ FromPeer(p) \/ PeerUnavailable(p)
  \/ GetterReads(p) \/ GetterFails(p) \/ GetterPanics(p)
  \/ Populate(p) \/ LoadReturns(p)

Next ==
  \/ \E p \in Procs : Get(p) \/ Load(p) \/ Leave(p)
  \/ \E k \in Keys : SourceChanges(k)
  \/ Stranded

Spec == Init /\ [][Next]_vars

(* Goroutines run, the Getter and the peers answer or fail *)
FairSpec == Spec /\ \A p \in Procs : WF_vars(Load(p)) /\ WF_vars(Leave(p))

-----------------------------------------------------------------------------
(* Properties *)

(* A slow load cannot put an older version over a newer one: for each key, *)
(* what is put in the cache only gets newer, across evictions too.         *)
CacheOnlyGetsNewer ==
  [][\A k \in Keys : filled'[k] >= filled[k]]_vars

(* A caller does not see a key of this node go back to an older version,   *)
(* through hits, loads of its own, and loads it only waited for.  (A peer  *)
(* may be replaced by another, with an older copy.)                        *)
MonotonicReads ==
  [][\A p \in Procs, k \in Keys \ Remote : seen'[p][k] >= seen[p][k]]_vars

(* Every Get returns, to a leader or to those who only wait for one, unless *)
(* its own Getter panicked or the one it waits for did.                     *)
GetReturns == \A p \in Procs : gpc[p] # "idle" ~> gpc[p] = "idle" \/ Lost(p)
=============================================================================
