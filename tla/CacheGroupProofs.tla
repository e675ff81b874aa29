--------------------------- MODULE CacheGroupProofs ---------------------------
(***************************************************************************)
(* Proofs about SingleFlight and about CacheGroup, for any number of       *)
(* goroutines, keys, versions and call objects.                            *)
(*                                                                         *)
(* singleflight: the invariant ties the three places a call object is      *)
(* known from to each other: the map, its leader and its waiters.  A Group *)
(* is a user of it, and because it lets one load of a key run at a time, a *)
(* slow load cannot put an older version over a newer one, and no caller   *)
(* sees a key of this node go back.                                        *)
(***************************************************************************)
EXTENDS CacheGroup, LruProofs

-----------------------------------------------------------------------------
(* singleflight *)

Leading(p) == fpc[p] \in {"run", "unmap", "dead"}

(* A leader holds an object of its own, and it is the one mapped for its   *)
(* key; the object is done, with a result, exactly when fn has returned.   *)
LeaderInv ==
  \A p \in Procs : Leading(p) =>
    /\ mine[p] \in Objects
    /\ calls[mine[p]].leader = p
    /\ calls[mine[p]].key \in Keys
    /\ m[calls[mine[p]].key] = mine[p]
    /\ calls[mine[p]].wg = IF fpc[p] = "unmap" THEN 0 ELSE 1
    /\ fpc[p] = "unmap" => calls[mine[p]].val \in Values

(* What is mapped belongs to a leader who is inside. *)
MapInv ==
  \A k \in Keys : m[k] # Nil =>
    /\ calls[m[k]].key = k
    /\ calls[m[k]].leader \in Procs
    /\ mine[calls[m[k]].leader] = m[k]
    /\ Leading(calls[m[k]].leader)

(* What a waiter holds is done, or its leader is not; outside Do nobody    *)
(* holds anything.                                                         *)
WaitInv ==
  \A p \in Procs :
    /\ fpc[p] = "out" => mine[p] = Nil
    /\ fpc[p] = "wait" =>
         /\ mine[p] \in Objects
         /\ \/ calls[mine[p]].wg = 0 /\ calls[mine[p]].val \in Values
            \/ /\ calls[mine[p]].leader \in Procs
               /\ fpc[calls[mine[p]].leader] \in {"run", "dead"}
               /\ mine[calls[mine[p]].leader] = mine[p]

FlightInv == FlightTypeOK /\ LeaderInv /\ MapInv /\ WaitInv

USE FlightAssumption

-----------------------------------------------------------------------------
(* wg.Done on the one count there is leaves an object without any. *)
LEMMA DoneCall ==
  ASSUME NEW c \in Call, c.wg = 1, NEW v \in Values
  PROVE  /\ Done(c, v) \in Call /\ Done(c, v).wg = 0 /\ Done(c, v).val = v
         /\ Done(c, v).key = c.key /\ Done(c, v).leader = c.leader
BY DEF Done, Call

(* Leading a call takes an object that nobody uses, and maps it.           *)
LEMMA LeadStep ==
  ASSUME FlightInv, NEW p \in Procs, NEW k \in Keys, Lead(p, k)
  PROVE  FlightInv'
<1> DEFINE c == CHOOSE o \in Unused : TRUE
<1>1. c \in Objects /\ (\A q \in Procs : mine[q] # c) /\ (\A j \in Keys : m[j] # c)
  <2>1. c \in Unused
    BY DEF Lead
  <2> QED
    BY <2>1 DEF Unused
<1>2. /\ fpc[p] = "out" /\ m[k] = Nil
      /\ calls' = [calls EXCEPT ![c] = NewCall(p, k)]
      /\ m' = [m EXCEPT ![k] = c]
      /\ mine' = [mine EXCEPT ![p] = c]
      /\ fpc' = [fpc EXCEPT ![p] = "run"]
  BY DEF Lead, Misses
<1> HIDE DEF c
<1>3. NewCall(p, k) \in Call
  BY DEF NewCall, Call
<1>4. FlightTypeOK'
  BY <1>1, <1>2, <1>3 DEF FlightInv, FlightTypeOK
<1>5. /\ mine \in [Procs -> Objects \cup {Nil}] /\ m \in [Keys -> Objects \cup {Nil}]
      /\ calls \in [Objects -> Call]
      /\ fpc \in [Procs -> {"out", "run", "unmap", "wait", "dead"}]
  BY DEF FlightInv, FlightTypeOK
<1>6. calls'[c] = NewCall(p, k) /\ \A o \in Objects \ {c} : calls'[o] = calls[o]
  BY <1>1, <1>2, <1>5
<1>7. LeaderInv'
  <2> SUFFICES ASSUME NEW q \in Procs, Leading(q)'
               PROVE  /\ mine'[q] \in Objects
                      /\ calls'[mine'[q]].leader = q
                      /\ calls'[mine'[q]].key \in Keys
                      /\ m'[calls'[mine'[q]].key] = mine'[q]
                      /\ calls'[mine'[q]].wg = IF fpc'[q] = "unmap" THEN 0 ELSE 1
                      /\ fpc'[q] = "unmap" => calls'[mine'[q]].val \in Values
    BY DEF LeaderInv
  <2>1. CASE q = p
    BY <2>1, <1>1, <1>2, <1>5, <1>6 DEF NewCall
  <2>2. CASE q # p
    <3>1. Leading(q) /\ mine'[q] = mine[q] /\ fpc'[q] = fpc[q]
      BY <2>2, <1>2, <1>5 DEF Leading
    <3>2. mine[q] \in Objects \ {c} /\ calls[mine[q]].key \in Keys
          /\ m[calls[mine[q]].key] = mine[q]
      BY <3>1, <1>1 DEF FlightInv, LeaderInv
    <3>3. calls[mine[q]].key # k
      BY <3>2, <1>2
    <3> QED
      BY <3>1, <3>2, <3>3, <1>2, <1>5, <1>6 DEF FlightInv, LeaderInv
  <2> QED
    BY <2>1, <2>2
<1>8. MapInv'
  <2> SUFFICES ASSUME NEW j \in Keys, m'[j] # Nil
               PROVE  /\ calls'[m'[j]].key = j
                      /\ calls'[m'[j]].leader \in Procs
                      /\ mine'[calls'[m'[j]].leader] = m'[j]
                      /\ Leading(calls[m[j]].leader)'
    BY DEF MapInv
  <2>1. CASE j = k
    <3>1. m'[j] = c
      BY <2>1, <1>2, <1>5
    <3>2. calls'[m'[j]].key = j /\ calls'[m'[j]].leader = p
      BY <2>1, <3>1, <1>6 DEF NewCall
    <3> QED
      BY <3>1, <3>2, <1>2, <1>5 DEF Leading
  <2>2. CASE j # k
    <3>1. m'[j] = m[j] /\ m[j] # Nil /\ m[j] \in Objects \ {c}
      BY <2>2, <1>1, <1>2, <1>5
    <3>2. calls'[m'[j]] = calls[m[j]]
      BY <3>1, <1>6
    <3>3. /\ calls[m[j]].key = j /\ calls[m[j]].leader \in Procs
          /\ mine[calls[m[j]].leader] = m[j] /\ Leading(calls[m[j]].leader)
      BY <3>1 DEF FlightInv, MapInv
    <3>4. calls[m[j]].leader # p
      BY <3>3, <1>2 DEF Leading
    <3> QED
      BY <3>1, <3>2, <3>3, <3>4, <1>2, <1>5 DEF Leading
  <2> QED
    BY <2>1, <2>2
<1>9. WaitInv'
  <2> SUFFICES ASSUME NEW q \in Procs
               PROVE  /\ fpc'[q] = "out" => mine'[q] = Nil
                      /\ fpc'[q] = "wait" =>
                           /\ mine'[q] \in Objects
                           /\ \/ calls'[mine'[q]].wg = 0 /\ calls'[mine'[q]].val \in Values
                              \/ /\ calls'[mine'[q]].leader \in Procs
                                 /\ fpc'[calls'[mine'[q]].leader] \in {"run", "dead"}
                                 /\ mine'[calls'[mine'[q]].leader] = mine'[q]
    BY DEF WaitInv
  <2>1. CASE q = p
    BY <2>1, <1>2, <1>5
  <2>2. CASE q # p
    <3>1. fpc'[q] = fpc[q] /\ mine'[q] = mine[q] /\ mine[q] # c
      BY <2>2, <1>1, <1>2, <1>5
    <3>2. mine[q] \in Objects => calls'[mine[q]] = calls[mine[q]]
      BY <3>1, <1>6
    <3> QED
      BY <3>1, <3>2, <1>2, <1>5 DEF FlightInv, WaitInv
  <2> QED
    BY <2>1, <2>2
<1> QED
  BY <1>4, <1>7, <1>8, <1>9 DEF FlightInv

(* A caller who joins finds an object whose leader is inside: running, or  *)
(* done with fn, and then the object has its result.                       *)
LEMMA JoinStep ==
  ASSUME FlightInv, NEW p \in Procs, NEW k \in Keys, Join(p, k)
  PROVE  FlightInv'
<1>1. /\ fpc[p] = "out" /\ m[k] # Nil
      /\ mine' = [mine EXCEPT ![p] = m[k]]
      /\ fpc' = [fpc EXCEPT ![p] = "wait"]
      /\ m' = m /\ calls' = calls
  BY DEF Join, Misses
<1>2. /\ mine \in [Procs -> Objects \cup {Nil}] /\ m \in [Keys -> Objects \cup {Nil}]
      /\ fpc \in [Procs -> {"out", "run", "unmap", "wait", "dead"}]
  BY DEF FlightInv, FlightTypeOK
<1>3. FlightTypeOK'
  BY <1>1, <1>2 DEF FlightInv, FlightTypeOK
<1>4. LeaderInv'
  BY <1>1, <1>2 DEF FlightInv, LeaderInv, Leading
<1>5. MapInv'
  BY <1>1, <1>2 DEF FlightInv, MapInv, Leading
<1>6. WaitInv'
  <2>1. /\ m[k] \in Objects /\ calls[m[k]].leader \in Procs
        /\ mine[calls[m[k]].leader] = m[k] /\ Leading(calls[m[k]].leader)
    BY <1>1, <1>2 DEF FlightInv, MapInv
  <2>2. fpc[calls[m[k]].leader] = "unmap" =>
          calls[m[k]].wg = 0 /\ calls[m[k]].val \in Values
    BY <2>1 DEF FlightInv, LeaderInv
  <2> QED
    BY <1>1, <1>2, <2>1, <2>2 DEF FlightInv, WaitInv, Leading
<1> QED
  BY <1>3, <1>4, <1>5, <1>6 DEF FlightInv

(* When fn returns, its object is done for every waiter.                   *)
LEMMA ReturnStep ==
  ASSUME FlightInv, NEW p \in Procs, NEW v \in Values, FnReturns(p, v)
  PROVE  FlightInv'
<1> DEFINE c == mine[p]
<1>1. /\ fpc[p] = "run"
      /\ calls' = [calls EXCEPT ![c] = Done(calls[c], v)]
      /\ fpc' = [fpc EXCEPT ![p] = "unmap"]
      /\ mine' = mine /\ m' = m
  BY DEF FnReturns
<1>2. /\ mine \in [Procs -> Objects \cup {Nil}] /\ m \in [Keys -> Objects \cup {Nil}]
      /\ calls \in [Objects -> Call]
      /\ fpc \in [Procs -> {"out", "run", "unmap", "wait", "dead"}]
  BY DEF FlightInv, FlightTypeOK
<1>3. c \in Objects /\ calls[c].leader = p /\ calls[c].wg = 1 /\ calls[c].key \in Keys
      /\ m[calls[c].key] = c
  BY <1>1 DEF FlightInv, LeaderInv, Leading
<1>4. /\ Done(calls[c], v) \in Call /\ Done(calls[c], v).wg = 0
      /\ Done(calls[c], v).val = v
      /\ Done(calls[c], v).key = calls[c].key
      /\ Done(calls[c], v).leader = calls[c].leader
  BY <1>2, <1>3, DoneCall
<1>5. /\ calls' \in [Objects -> Call]
      /\ calls'[c].wg = 0 /\ calls'[c].val = v
      /\ calls'[c].key = calls[c].key /\ calls'[c].leader = calls[c].leader
      /\ \A o \in Objects \ {c} : calls'[o] = calls[o]
  BY <1>1, <1>2, <1>3, <1>4
<1>6. FlightTypeOK'
  BY <1>1, <1>2, <1>5 DEF FlightTypeOK
<1>7. \A q \in Procs : Leading(q) /\ q # p => mine[q] \in Objects \ {c}
  BY <1>3 DEF FlightInv, LeaderInv
<1>8. LeaderInv'
  <2> SUFFICES ASSUME NEW q \in Procs, Leading(q)'
               PROVE  /\ mine'[q] \in Objects
                      /\ calls'[mine'[q]].leader = q
                      /\ calls'[mine'[q]].key \in Keys
                      /\ m'[calls'[mine'[q]].key] = mine'[q]
                      /\ calls'[mine'[q]].wg = IF fpc'[q] = "unmap" THEN 0 ELSE 1
                      /\ fpc'[q] = "unmap" => calls'[mine'[q]].val \in Values
    BY DEF LeaderInv
  <2>1. CASE q = p
    BY <2>1, <1>1, <1>2, <1>3, <1>5
  <2>2. CASE q # p
    <3>1. Leading(q) /\ fpc'[q] = fpc[q]
      BY <2>2, <1>1, <1>2 DEF Leading
    <3>2. calls'[mine'[q]] = calls[mine[q]]
      BY <2>2, <3>1, <1>1, <1>5, <1>7
    <3> QED
      BY <3>1, <3>2, <1>1 DEF FlightInv, LeaderInv
  <2> QED
    BY <2>1, <2>2
<1>9. \A o \in Objects : calls'[o].key = calls[o].key /\ calls'[o].leader = calls[o].leader
  BY <1>5
<1>10. MapInv'
  <2> SUFFICES ASSUME NEW j \in Keys, m[j] # Nil
               PROVE  /\ calls'[m[j]].key = j
                      /\ calls'[m[j]].leader \in Procs
                      /\ mine[calls'[m[j]].leader] = m[j]
                      /\ Leading(calls[m[j]].leader)'
    BY <1>1 DEF MapInv
  <2>1. /\ calls[m[j]].key = j /\ calls[m[j]].leader \in Procs
        /\ mine[calls[m[j]].leader] = m[j] /\ Leading(calls[m[j]].leader)
    BY DEF FlightInv, MapInv
  <2>2. calls'[m[j]].key = calls[m[j]].key /\ calls'[m[j]].leader = calls[m[j]].leader
    BY <1>2, <1>9
  <2> QED
    BY <2>1, <2>2, <1>1, <1>2 DEF Leading
<1>11. WaitInv'
  <2> SUFFICES ASSUME NEW q \in Procs
               PROVE  /\ fpc'[q] = "out" => mine[q] = Nil
                      /\ fpc'[q] = "wait" =>
                           /\ mine[q] \in Objects
                           /\ \/ calls'[mine[q]].wg = 0 /\ calls'[mine[q]].val \in Values
                              \/ /\ calls'[mine[q]].leader \in Procs
                                 /\ fpc'[calls'[mine[q]].leader] \in {"run", "dead"}
                                 /\ mine[calls'[mine[q]].leader] = mine[q]
    BY <1>1 DEF WaitInv
  <2>1. CASE fpc[q] # "wait"
    BY <2>1, <1>1, <1>2 DEF FlightInv, WaitInv
  <2>2. CASE fpc[q] = "wait" /\ mine[q] = c
    BY <2>2, <1>1, <1>2, <1>3, <1>5
  <2>3. CASE fpc[q] = "wait" /\ mine[q] # c
    <3>1. mine[q] \in Objects \ {c} /\ calls'[mine[q]] = calls[mine[q]]
      BY <2>3, <1>5 DEF FlightInv, WaitInv
    <3>2. mine[calls[mine[q]].leader] = mine[q] => calls[mine[q]].leader # p
      BY <2>3
    <3> QED
      BY <2>3, <3>1, <3>2, <1>1, <1>2 DEF FlightInv, WaitInv
  <2> QED
    BY <2>1, <2>2, <2>3
<1> QED
  BY <1>6, <1>8, <1>10, <1>11 DEF FlightInv

(* A panic leaves the object mapped and not done.                          *)
LEMMA PanicStep ==
  ASSUME FlightInv, NEW p \in Procs, FnPanics(p)
  PROVE  FlightInv'
<1>1. /\ fpc[p] = "run" /\ fpc' = [fpc EXCEPT ![p] = "dead"]
      /\ mine' = mine /\ m' = m /\ calls' = calls
  BY DEF FnPanics
<1>2. fpc \in [Procs -> {"out", "run", "unmap", "wait", "dead"}]
  BY DEF FlightInv, FlightTypeOK
<1>3. FlightTypeOK'
  BY <1>1, <1>2 DEF FlightInv, FlightTypeOK
<1>4. LeaderInv'
  BY <1>1, <1>2 DEF FlightInv, LeaderInv, Leading
<1>5. MapInv'
  BY <1>1, <1>2 DEF FlightInv, MapInv, Leading
<1>6. WaitInv'
  BY <1>1, <1>2 DEF FlightInv, WaitInv
<1> QED
  BY <1>3, <1>4, <1>5, <1>6 DEF FlightInv

(* Letting go of an object changes no object that another goroutine holds. *)
LEMMA LetGoKeeps ==
  ASSUME FlightInv, NEW p \in Procs, mine[p] \in Objects, LetGo(p)
  PROVE  /\ calls' \in [Objects -> Call]
         /\ \A q \in Procs \ {p} : mine[q] \in Objects => calls'[mine[q]] = calls[mine[q]]
<1>1. calls \in [Objects -> Call] /\ Blank \in Call
  BY DEF FlightInv, FlightTypeOK, Blank, Call
<1>2. CASE \E q \in Procs \ {p} : mine[q] = mine[p]
  BY <1>1, <1>2 DEF LetGo
<1>3. CASE ~ \E q \in Procs \ {p} : mine[q] = mine[p]
  BY <1>1, <1>3 DEF LetGo
<1> QED
  BY <1>2, <1>3

(* The leader that leaves takes exactly its own object out of the map.     *)
LEMMA UnmapStep ==
  ASSUME FlightInv, NEW p \in Procs, Unmap(p)
  PROVE  FlightInv'
<1> DEFINE k == calls[mine[p]].key
<1>1. /\ fpc[p] = "unmap"
      /\ m' = [m EXCEPT ![k] = Nil]
      /\ fpc' = [fpc EXCEPT ![p] = "out"]
      /\ mine' = [mine EXCEPT ![p] = Nil]
  BY DEF Unmap, Unmapped, LetGo
<1>2. /\ mine \in [Procs -> Objects \cup {Nil}] /\ m \in [Keys -> Objects \cup {Nil}]
      /\ fpc \in [Procs -> {"out", "run", "unmap", "wait", "dead"}]
  BY DEF FlightInv, FlightTypeOK
<1>3. /\ mine[p] \in Objects /\ calls[mine[p]].leader = p
      /\ k \in Keys /\ m[k] = mine[p]
      /\ calls[mine[p]].wg = 0 /\ calls[mine[p]].val \in Values
  BY <1>1 DEF FlightInv, LeaderInv, Leading
<1>4. /\ calls' \in [Objects -> Call]
      /\ \A q \in Procs \ {p} : mine[q] \in Objects => calls'[mine[q]] = calls[mine[q]]
  BY <1>3, LetGoKeeps DEF Unmap
<1>5. FlightTypeOK'
  BY <1>1, <1>2, <1>4 DEF FlightTypeOK
<1>6. LeaderInv'
  <2> SUFFICES ASSUME NEW q \in Procs, Leading(q)'
               PROVE  /\ mine'[q] \in Objects
                      /\ calls'[mine'[q]].leader = q
                      /\ calls'[mine'[q]].key \in Keys
                      /\ m'[calls'[mine'[q]].key] = mine'[q]
                      /\ calls'[mine'[q]].wg = IF fpc'[q] = "unmap" THEN 0 ELSE 1
                      /\ fpc'[q] = "unmap" => calls'[mine'[q]].val \in Values
    BY DEF LeaderInv
  <2>1. q # p /\ Leading(q) /\ mine'[q] = mine[q] /\ fpc'[q] = fpc[q]
    BY <1>1, <1>2 DEF Leading
  <2>2. /\ mine[q] \in Objects /\ calls[mine[q]].leader = q
        /\ calls[mine[q]].key \in Keys /\ m[calls[mine[q]].key] = mine[q]
        /\ calls[mine[q]].wg = IF fpc[q] = "unmap" THEN 0 ELSE 1
        /\ fpc[q] = "unmap" => calls[mine[q]].val \in Values
    BY <2>1 DEF FlightInv, LeaderInv
  <2>3. calls'[mine'[q]] = calls[mine[q]]
    BY <2>1, <2>2, <1>4
  <2>4. calls[mine[q]].key # k
    BY <2>1, <2>2, <1>3
  <2> QED
    BY <2>1, <2>2, <2>3, <2>4, <1>1, <1>2
<1>7. MapInv'
  <2> SUFFICES ASSUME NEW j \in Keys, m'[j] # Nil
               PROVE  /\ calls'[m'[j]].key = j
                      /\ calls'[m'[j]].leader \in Procs
                      /\ mine'[calls'[m'[j]].leader] = m'[j]
                      /\ Leading(calls[m[j]].leader)'
    BY DEF MapInv
  <2>1. j # k /\ m'[j] = m[j]
    BY <1>1, <1>2
  <2> DEFINE q == calls[m[j]].leader
  <2>2. /\ calls[m[j]].key = j /\ q \in Procs /\ mine[q] = m[j] /\ Leading(q)
    BY <2>1 DEF FlightInv, MapInv
  <2>3. q # p
    BY <2>1, <2>2, <1>3
  <2>4. calls'[m[j]] = calls[m[j]]
    BY <2>1, <2>2, <2>3, <1>2, <1>4
  <2> QED
    BY <2>1, <2>2, <2>3, <2>4, <1>1, <1>2 DEF Leading
<1>8. WaitInv'
  <2> SUFFICES ASSUME NEW q \in Procs
               PROVE  /\ fpc'[q] = "out" => mine'[q] = Nil
                      /\ fpc'[q] = "wait" =>
                           /\ mine'[q] \in Objects
                           /\ \/ calls'[mine'[q]].wg = 0 /\ calls'[mine'[q]].val \in Values
                              \/ /\ calls'[mine'[q]].leader \in Procs
                                 /\ fpc'[calls'[mine'[q]].leader] \in {"run", "dead"}
                                 /\ mine'[calls'[mine'[q]].leader] = mine'[q]
    BY DEF WaitInv
  <2>1. CASE q = p
    BY <2>1, <1>1, <1>2
  <2>2. CASE q # p
    <3>1. /\ fpc'[q] = fpc[q] /\ mine'[q] = mine[q]
          /\ mine[q] \in Objects => calls'[mine[q]] = calls[mine[q]]
      BY <2>2, <1>1, <1>2, <1>4
    <3> QED
      BY <3>1, <1>1, <1>2 DEF FlightInv, WaitInv
  <2> QED
    BY <2>1, <2>2
<1> QED
  BY <1>5, <1>6, <1>7, <1>8 DEF FlightInv

(* A waiter that wakes takes nothing from those who are still inside.      *)
LEMMA WakeStep ==
  ASSUME FlightInv, NEW p \in Procs, Wake(p)
  PROVE  FlightInv'
<1>1. /\ fpc[p] = "wait"
      /\ fpc' = [fpc EXCEPT ![p] = "out"]
      /\ mine' = [mine EXCEPT ![p] = Nil]
      /\ m' = m
  BY DEF Wake, LetGo
<1>2. /\ mine \in [Procs -> Objects \cup {Nil}] /\ m \in [Keys -> Objects \cup {Nil}]
      /\ fpc \in [Procs -> {"out", "run", "unmap", "wait", "dead"}]
  BY DEF FlightInv, FlightTypeOK
<1>3. mine[p] \in Objects
  BY <1>1 DEF FlightInv, WaitInv
<1>4. /\ calls' \in [Objects -> Call]
      /\ \A q \in Procs \ {p} : mine[q] \in Objects => calls'[mine[q]] = calls[mine[q]]
  BY <1>3, LetGoKeeps DEF Wake
<1>5. FlightTypeOK'
  BY <1>1, <1>2, <1>4 DEF FlightTypeOK
<1>6. LeaderInv'
  BY <1>1, <1>2, <1>4 DEF FlightInv, LeaderInv, Leading
<1>7. MapInv'
  <2> SUFFICES ASSUME NEW j \in Keys, m[j] # Nil
               PROVE  /\ calls'[m[j]].key = j
                      /\ calls'[m[j]].leader \in Procs
                      /\ mine'[calls'[m[j]].leader] = m[j]
                      /\ Leading(calls[m[j]].leader)'
    BY <1>1 DEF MapInv
  <2> DEFINE q == calls[m[j]].leader
  <2>1. /\ calls[m[j]].key = j /\ q \in Procs /\ mine[q] = m[j] /\ Leading(q)
    BY DEF FlightInv, MapInv
  <2>2. q # p
    BY <2>1, <1>1 DEF Leading
  <2>3. calls'[m[j]] = calls[m[j]]
    BY <2>1, <2>2, <1>2, <1>4
  <2> QED
    BY <2>1, <2>2, <2>3, <1>1, <1>2 DEF Leading
<1>8. WaitInv'
  <2> SUFFICES ASSUME NEW q \in Procs
               PROVE  /\ fpc'[q] = "out" => mine'[q] = Nil
                      /\ fpc'[q] = "wait" =>
                           /\ mine'[q] \in Objects
                           /\ \/ calls'[mine'[q]].wg = 0 /\ calls'[mine'[q]].val \in Values
                              \/ /\ calls'[mine'[q]].leader \in Procs
                                 /\ fpc'[calls'[mine'[q]].leader] \in {"run", "dead"}
                                 /\ mine'[calls'[mine'[q]].leader] = mine'[q]
    BY DEF WaitInv
  <2>1. CASE q = p
    BY <2>1, <1>1, <1>2
  <2>2. CASE q # p
    <3>1. /\ fpc'[q] = fpc[q] /\ mine'[q] = mine[q]
          /\ mine[q] \in Objects => calls'[mine[q]] = calls[mine[q]]
      BY <2>2, <1>1, <1>2, <1>4
    <3> QED
      BY <3>1, <1>1, <1>2 DEF FlightInv, WaitInv
  <2> QED
    BY <2>1, <2>2
<1> QED
  BY <1>5, <1>6, <1>7, <1>8 DEF FlightInv

(* No step of anybody breaks the ties. *)
LEMMA FlightStep ==
  ASSUME FlightInv, [FlightNext]_flightVars
  PROVE  FlightInv'
<1>1. ASSUME NEW p \in Procs, NEW k \in Keys, Lead(p, k) PROVE FlightInv'
  BY <1>1, LeadStep
<1>2. ASSUME NEW p \in Procs, NEW k \in Keys, Join(p, k) PROVE FlightInv'
  BY <1>2, JoinStep
<1>3. ASSUME NEW p \in Procs, FnEnds(p) PROVE FlightInv'
  BY <1>3, ReturnStep, PanicStep DEF FnEnds
<1>4. ASSUME NEW p \in Procs, Unmap(p) PROVE FlightInv'
  BY <1>4, UnmapStep
<1>5. ASSUME NEW p \in Procs, Wake(p) PROVE FlightInv'
  BY <1>5, WakeStep
<1>6. CASE UNCHANGED flightVars
  BY <1>6 DEF flightVars, FlightInv, FlightTypeOK, LeaderInv, MapInv, WaitInv, Leading
<1> QED
  BY <1>1, <1>2, <1>3, <1>4, <1>5, <1>6 DEF FlightNext

(* The initial state has the ties. *)
LEMMA FlightStart == FlightInit => FlightInv
BY DEF FlightInit, FlightInv, FlightTypeOK, LeaderInv, MapInv, WaitInv, Leading,
       Blank, Call

(* FlightInv is inductive: nobody can break the ties between the map, the  *)
(* leaders and the waiters, in any order of calls, returns and panics.     *)
THEOREM FlightInductive == FlightSpec => []FlightInv
BY FlightStart, FlightStep, PTL DEF FlightSpec

(* Do never runs two executions of fn for one key at a time. *)
THEOREM NoDuplicateWork == FlightSpec => []OneInFlight
<1>1. FlightInv => OneInFlight
  BY DEF FlightInv, LeaderInv, OneInFlight, Running, Leading
<1> QED
  BY <1>1, FlightInductive, PTL

(* Nobody waits for an execution that is over. *)
THEOREM NobodyWaitsInVain == FlightSpec => []WaitersHaveLeader
<1>1. FlightInv => WaitersHaveLeader
  BY DEF FlightInv, WaitInv, WaitersHaveLeader
<1> QED
  BY <1>1, FlightInductive, PTL

(* An object in the map has its leader inside Do, so that a result is not  *)
(* handed out after the execution that produced it is over.                *)
THEOREM NothingStaysMapped == FlightSpec => []MappedMeansInside
<1>1. FlightInv => MappedMeansInside
  BY DEF FlightInv, MapInv, MappedMeansInside, Leading
<1> QED
  BY <1>1, FlightInductive, PTL

-----------------------------------------------------------------------------
(* geecache.Group *)

Loading == {"pick", "getter", "populate", "return"}

GroupTypes ==
  /\ gpc \in [Procs -> {"idle", "missed", "pick", "getter", "populate",
                        "return", "leave", "wait", "dead"}]
  /\ want \in [Procs -> Keys \cup {Nil}]
  /\ fetched \in [Procs -> Versions \cup {Nil}]
  /\ src \in [Keys -> Versions]
  /\ filled \in [Keys -> Versions]

(* A Get in the closure of load runs fn of the key it wants. *)
LoadInv ==
  \A p \in Procs :
    /\ gpc[p] = "missed" => want[p] \in Keys
    /\ gpc[p] \in Loading => want[p] \in Keys /\ Running(p, want[p])

(* Nothing is newer than the source, and what a load is about to put in    *)
(* the cache is not older than what is there.                              *)
AgeInv ==
  /\ \A k \in Keys : filled[k] <= src[k]
  /\ \A p \in Procs :
       /\ gpc[p] \in {"populate", "return"} => fetched[p] \in Versions
       /\ gpc[p] = "populate" =>
            filled[want[p]] <= fetched[p] /\ fetched[p] <= src[want[p]]

GroupInv == FlightInv /\ GroupTypes /\ LoadInv /\ AgeInv

-----------------------------------------------------------------------------
(* Versions are values that fn may return. *)
LEMMA VersionIsValue == Versions \subseteq Values /\ Err \in Values /\ Versions \subseteq Nat
BY GroupAssumption DEF Versions

(* Every step of a Group is a step of its singleflight Group or leaves it  *)
(* alone.                                                                  *)
LEMMA StepIsFlight ==
  ASSUME GroupInv, [Next]_vars
  PROVE  [FlightNext]_flightVars
<1>1. ASSUME NEW p \in Procs, Get(p) PROVE UNCHANGED flightVars
  BY <1>1 DEF Get, Hit, Miss
<1>2. ASSUME NEW p \in Procs, Load(p) PROVE [FlightNext]_flightVars
  <2>1. CASE LoadLead(p) \/ LoadJoin(p)
    BY <2>1 DEF LoadLead, LoadJoin, GroupInv, LoadInv, FlightNext
  <2>2. CASE FromPeer(p)
    <3>1. want[p] \in Keys /\ src[want[p]] \in Versions
      BY <2>2 DEF FromPeer, GroupInv, LoadInv, GroupTypes, Loading
    <3>2. 0..src[want[p]] \subseteq Values
      BY <3>1, VersionIsValue, GroupAssumption DEF Versions
    <3>3. PICK v \in 0..src[want[p]] : FnReturns(p, v)
      BY <2>2 DEF FromPeer
    <3> QED
      BY <3>2, <3>3 DEF FlightNext, FnEnds
  <2>3. CASE PeerUnavailable(p) \/ GetterReads(p) \/ Populate(p)
    BY <2>3 DEF PeerUnavailable, GetterReads, Populate
  <2>4. CASE GetterFails(p) \/ GetterPanics(p)
    BY <2>4, VersionIsValue DEF GetterFails, GetterPanics, FlightNext, FnEnds
  <2>5. CASE LoadReturns(p)
    <3>1. fetched[p] \in Values /\ FnReturns(p, fetched[p])
      BY <2>5, VersionIsValue DEF LoadReturns, GroupInv, AgeInv
    <3> QED
      BY <3>1 DEF FlightNext, FnEnds
  <2> QED
    BY <1>2, <2>1, <2>2, <2>3, <2>4, <2>5 DEF Load
<1>3. ASSUME NEW p \in Procs, Leave(p) PROVE FlightNext
  BY <1>3 DEF Leave, FlightNext
<1>4. ASSUME NEW k \in Keys, SourceChanges(k) PROVE UNCHANGED flightVars
  BY <1>4 DEF SourceChanges
<1>5. CASE Stranded \/ UNCHANGED vars
  BY <1>5 DEF Stranded, vars
<1> QED
  BY <1>1, <1>2, <1>3, <1>4, <1>5 DEF Next

(* What q does in Do leaves a running fn of p alone. *)
LEMMA OthersKeepRunning ==
  ASSUME FlightInv, NEW p \in Procs, NEW q \in Procs \ {p}, NEW k \in Keys, Running(p, k),
         \/ \E j \in Keys : Lead(q, j) \/ Join(q, j)
         \/ \E v \in Values : FnReturns(q, v)
         \/ FnPanics(q) \/ Unmap(q) \/ Wake(q)
  PROVE  Running(p, k)'
<1>1. /\ fpc[p] = "run" /\ calls[mine[p]].key = k /\ mine[p] \in Objects
      /\ calls[mine[p]].leader = p
  BY DEF Running, FlightInv, LeaderInv, Leading
<1>2. /\ mine \in [Procs -> Objects \cup {Nil}] /\ calls \in [Objects -> Call]
      /\ fpc \in [Procs -> {"out", "run", "unmap", "wait", "dead"}]
  BY DEF FlightInv, FlightTypeOK
<1>3. ASSUME NEW j \in Keys, Lead(q, j) PROVE Running(p, k)'
  <2> DEFINE c == CHOOSE o \in Unused : TRUE
  <2>1. c \in Objects /\ mine[p] # c
    <3>1. c \in Unused
      BY <1>3 DEF Lead
    <3> QED
      BY <3>1 DEF Unused
  <2>2. /\ calls' = [calls EXCEPT ![c] = NewCall(q, j)]
        /\ mine' = [mine EXCEPT ![q] = c] /\ fpc' = [fpc EXCEPT ![q] = "run"]
    BY <1>3 DEF Lead
  <2> HIDE DEF c
  <2> QED
    BY <1>1, <1>2, <2>1, <2>2 DEF Running
<1>4. ASSUME NEW j \in Keys, Join(q, j) PROVE Running(p, k)'
  BY <1>1, <1>2, <1>4 DEF Join, Running
<1>5. ASSUME NEW v \in Values, FnReturns(q, v) PROVE Running(p, k)'
  <2>1. mine[q] # mine[p]
    BY <1>1, <1>5 DEF FnReturns, FlightInv, LeaderInv, Leading
  <2> QED
    BY <1>1, <1>2, <1>5, <2>1 DEF FnReturns, Running
<1>6. CASE FnPanics(q)
  BY <1>1, <1>2, <1>6 DEF FnPanics, Running
<1>7. CASE Unmap(q) \/ Wake(q)
  <2>1. mine[q] \in Objects /\ LetGo(q)
    BY <1>7 DEF Unmap, Wake, FlightInv, LeaderInv, WaitInv, Leading
  <2>2. calls'[mine[p]] = calls[mine[p]]
    BY <1>1, <2>1, LetGoKeeps
  <2> QED
    BY <1>1, <1>2, <2>1, <2>2 DEF LetGo, Running
<1> QED
  BY <1>3, <1>4, <1>5, <1>6, <1>7

(* The leader runs fn of its key when it has led. *)
LEMMA LeadRuns ==
  ASSUME FlightInv, NEW p \in Procs, NEW k \in Keys, Lead(p, k)
  PROVE  Running(p, k)'
<1> DEFINE c == CHOOSE o \in Unused : TRUE
<1>1. c \in Objects
  <2>1. c \in Unused
    BY DEF Lead
  <2> QED
    BY <2>1 DEF Unused
<1>2. /\ calls' = [calls EXCEPT ![c] = NewCall(p, k)]
      /\ mine' = [mine EXCEPT ![p] = c] /\ fpc' = [fpc EXCEPT ![p] = "run"]
  BY DEF Lead
<1> HIDE DEF c
<1>3. /\ mine \in [Procs -> Objects \cup {Nil}] /\ calls \in [Objects -> Call]
      /\ fpc \in [Procs -> {"out", "run", "unmap", "wait", "dead"}]
  BY DEF FlightInv, FlightTypeOK
<1> QED
  BY <1>1, <1>2, <1>3 DEF Running, NewCall

(* Nobody else loads a key while one loads it. *)
LEMMA OneLoad ==
  ASSUME GroupInv, NEW p \in Procs, NEW q \in Procs, gpc[p] \in Loading,
         gpc[q] \in Loading, want[p] = want[q]
  PROVE  p = q
<1>1. want[p] \in Keys /\ Running(p, want[p]) /\ Running(q, want[p])
  BY DEF GroupInv, LoadInv
<1> QED
  BY <1>1 DEF GroupInv, FlightInv, LeaderInv, Running, Leading

-----------------------------------------------------------------------------
(* The parts of GroupInv, step by step *)

(* No step leaves the types. *)
LEMMA TypesStep ==
  ASSUME GroupInv, [Next]_vars
  PROVE  GroupTypes'
<1> USE DEF GroupInv, GroupTypes
<1>1. ASSUME NEW p \in Procs, Get(p) PROVE GroupTypes'
  BY <1>1 DEF Get, Hit, Miss, Goto
<1>2. ASSUME NEW p \in Procs, Load(p) PROVE GroupTypes'
  <2>1. CASE LoadLead(p) \/ LoadJoin(p)
    BY <2>1 DEF LoadLead, LoadJoin, Goto
  <2>2. CASE FromPeer(p) \/ PeerUnavailable(p) \/ GetterFails(p) \/ GetterPanics(p)
    BY <2>2 DEF FromPeer, PeerUnavailable, GetterFails, GetterPanics, Goto
  <2>3. CASE GetterReads(p)
    <3>1. want[p] \in Keys
      BY <2>3 DEF GetterReads, LoadInv, Loading
    <3> QED
      BY <2>3, <3>1 DEF GetterReads, Goto
  <2>4. CASE Populate(p)
    <3>1. want[p] \in Keys /\ fetched[p] \in Versions
      BY <2>4 DEF Populate, LoadInv, AgeInv, Loading
    <3> QED
      BY <2>4, <3>1 DEF Populate, Goto
  <2>5. CASE LoadReturns(p)
    BY <2>5 DEF LoadReturns, Goto
  <2> QED
    BY <1>2, <2>1, <2>2, <2>3, <2>4, <2>5 DEF Load
<1>3. ASSUME NEW p \in Procs, Leave(p) PROVE GroupTypes'
  BY <1>3 DEF Leave, Goto
<1>4. ASSUME NEW k \in Keys, SourceChanges(k) PROVE GroupTypes'
  BY <1>4, GroupAssumption DEF SourceChanges, Versions
<1>5. CASE Stranded \/ UNCHANGED vars
  BY <1>5 DEF Stranded, vars, groupVars
<1> QED
  BY <1>1, <1>2, <1>3, <1>4, <1>5 DEF Next

(* A step of p's Get, load or return leaves the others where they are. *)
LEMMA OthersStay ==
  ASSUME GroupInv, NEW p \in Procs, NEW q \in Procs \ {p},
         Get(q) \/ Load(q) \/ Leave(q)
  PROVE  /\ gpc'[p] = gpc[p] /\ want'[p] = want[p] /\ fetched'[p] = fetched[p]
         /\ \A k \in Keys : Running(p, k) => Running(p, k)'
<1> USE DEF GroupInv, GroupTypes
<1>1. CASE Get(q)
  BY <1>1 DEF Get, Hit, Miss, Goto, flightVars, Running
<1>2. CASE Load(q)
  <2>1. CASE LoadLead(q) \/ LoadJoin(q)
    <3>1. \E j \in Keys : Lead(q, j) \/ Join(q, j)
      BY <2>1 DEF LoadLead, LoadJoin, LoadInv
    <3> QED
      BY <2>1, <3>1, OthersKeepRunning DEF LoadLead, LoadJoin, Goto
  <2>2. CASE FromPeer(q) \/ GetterFails(q) \/ LoadReturns(q) \/ GetterPanics(q)
    <3>1. (\E v \in Values : FnReturns(q, v)) \/ FnPanics(q)
      <4>1. CASE FromPeer(q)
        <5>1. want[q] \in Keys /\ src[want[q]] \in Versions
          BY <4>1 DEF FromPeer, LoadInv, Loading
        <5>2. 0..src[want[q]] \subseteq Values
          BY <5>1, VersionIsValue, GroupAssumption DEF Versions
        <5> QED
          BY <4>1, <5>2 DEF FromPeer
      <4>2. CASE LoadReturns(q)
        BY <4>2, VersionIsValue DEF LoadReturns, AgeInv
      <4> QED
        BY <2>2, <4>1, <4>2, VersionIsValue DEF GetterFails, GetterPanics
    <3> QED
      BY <2>2, <3>1, OthersKeepRunning
      DEF FromPeer, GetterFails, LoadReturns, GetterPanics, Goto
  <2>3. CASE PeerUnavailable(q) \/ GetterReads(q) \/ Populate(q)
    BY <2>3 DEF PeerUnavailable, GetterReads, Populate, Goto, flightVars, Running
  <2> QED
    BY <1>2, <2>1, <2>2, <2>3 DEF Load
<1>3. CASE Leave(q)
  BY <1>3, OthersKeepRunning DEF Leave, Goto
<1> QED
  BY <1>1, <1>2, <1>3

(* No step takes a Get out of its load but the return of fn.              *)
LEMMA LoadStep ==
  ASSUME GroupInv, [Next]_vars
  PROVE  LoadInv'
<1> USE DEF GroupInv, GroupTypes
<1> SUFFICES ASSUME NEW p \in Procs
             PROVE  /\ gpc'[p] = "missed" => want'[p] \in Keys
                    /\ gpc'[p] \in Loading =>
                         want'[p] \in Keys /\ Running(p, want[p])'
  BY DEF LoadInv, Running
<1>1. CASE Get(p)
  BY <1>1 DEF Get, Hit, Miss, Goto, LoadInv, Loading, Running, flightVars
<1>2. CASE Load(p)
  <2>1. CASE LoadLead(p)
    <3>1. want[p] \in Keys /\ want' = want /\ Lead(p, want[p])
      BY <2>1 DEF LoadLead, LoadInv
    <3>2. Running(p, want[p])'
      BY <3>1, LeadRuns DEF Running
    <3> QED
      BY <2>1, <3>1, <3>2 DEF LoadLead, Goto, Running
  <2>2. CASE LoadJoin(p)
    BY <2>2 DEF LoadJoin, Goto, Loading
  <2>3. CASE FromPeer(p) \/ GetterFails(p) \/ GetterPanics(p) \/ LoadReturns(p)
    BY <2>3 DEF FromPeer, GetterFails, GetterPanics, LoadReturns, Goto, Loading
  <2>4. CASE PeerUnavailable(p) \/ GetterReads(p) \/ Populate(p)
    BY <2>4 DEF PeerUnavailable, GetterReads, Populate, Goto, Loading, LoadInv,
                flightVars, Running
  <2> QED
    BY <1>2, <2>1, <2>2, <2>3, <2>4 DEF Load
<1>3. CASE Leave(p)
  BY <1>3 DEF Leave, Goto, Loading
<1>4. ASSUME NEW q \in Procs \ {p}, Get(q) \/ Load(q) \/ Leave(q)
      PROVE  /\ gpc'[p] = "missed" => want'[p] \in Keys
             /\ gpc'[p] \in Loading => want'[p] \in Keys /\ Running(p, want[p])'
  <2>1. /\ gpc'[p] = gpc[p] /\ want'[p] = want[p]
        /\ \A k \in Keys : Running(p, k) => Running(p, k)'
    BY <1>4, OthersStay
  <2> QED
    BY <2>1 DEF LoadInv, Running
<1>5. CASE (\E k \in Keys : SourceChanges(k)) \/ Stranded \/ UNCHANGED vars
  BY <1>5 DEF SourceChanges, Stranded, vars, groupVars, flightVars, LoadInv, Running
<1> QED
  BY <1>1, <1>2, <1>3, <1>4, <1>5 DEF Next
(* Only Populate writes the cache, and only for the key of its own load.   *)
LEMMA FilledByPopulate ==
  ASSUME GroupInv, [Next]_vars
  PROVE  \/ UNCHANGED filled
         \/ \E p \in Procs : Populate(p)
<1>1. ASSUME NEW p \in Procs, Get(p) \/ Load(p) \/ Leave(p)
      PROVE  UNCHANGED filled \/ Populate(p)
  BY <1>1 DEF Get, Hit, Miss, Load, LoadLead, LoadJoin, FromPeer, PeerUnavailable,
              GetterReads, GetterFails, GetterPanics, LoadReturns, Leave
<1> QED
  BY <1>1 DEF Next, SourceChanges, Stranded, vars, groupVars

(* Populate puts a version in the cache that is not older. *)
LEMMA PopulateRaises ==
  ASSUME GroupInv, NEW p \in Procs, Populate(p)
  PROVE  /\ want[p] \in Keys /\ fetched[p] \in Nat /\ gpc[p] = "populate"
         /\ filled' = [filled EXCEPT ![want[p]] = fetched[p]]
         /\ filled[want[p]] <= fetched[p] /\ fetched[p] <= src[want[p]]
BY VersionIsValue DEF Populate, GroupInv, LoadInv, AgeInv, Loading

(* The source only gets newer. *)
LEMMA SourceGrows ==
  ASSUME GroupInv, [Next]_vars
  PROVE  \A k \in Keys : src[k] \in Nat /\ src'[k] \in Nat /\ src[k] <= src'[k]
<1>1. src \in [Keys -> Versions] /\ src' \in [Keys -> Versions]
  BY TypesStep DEF GroupInv, GroupTypes
<1>2. UNCHANGED src \/ \E k \in Keys : src' = [src EXCEPT ![k] = @ + 1]
  <2>1. ASSUME NEW p \in Procs, Get(p) \/ Load(p) \/ Leave(p)
        PROVE  UNCHANGED src
    BY <2>1 DEF Get, Hit, Miss, Load, LoadLead, LoadJoin, FromPeer, PeerUnavailable,
                GetterReads, GetterFails, GetterPanics, LoadReturns, Leave, Populate
  <2> QED
    BY <2>1 DEF Next, SourceChanges, Stranded, vars, groupVars
<1>3. src \in [Keys -> Nat] /\ src' \in [Keys -> Nat]
  BY <1>1, VersionIsValue
<1> QED
  BY <1>2, <1>3

(* No step makes what a load brings older than what the cache has: the     *)
(* loads that could do so are of the same key, and there is one.           *)
LEMMA AgeStep ==
  ASSUME GroupInv, [Next]_vars
  PROVE  AgeInv'
<1>1. \A k \in Keys : filled'[k] <= src'[k]
  <2>1. \A k \in Keys : filled'[k] \in Nat /\ filled'[k] <= src[k] /\ src[k] \in Nat
    <3>1. filled \in [Keys -> Nat] /\ src \in [Keys -> Nat]
      BY VersionIsValue DEF GroupInv, GroupTypes
    <3>2. CASE UNCHANGED filled
      BY <3>1, <3>2 DEF GroupInv, AgeInv
    <3>3. ASSUME NEW p \in Procs, Populate(p)
          PROVE  \A k \in Keys : filled'[k] \in Nat /\ filled'[k] <= src[k] /\ src[k] \in Nat
      BY <3>1, <3>3, PopulateRaises DEF GroupInv, AgeInv
    <3> QED
      BY <3>2, <3>3, FilledByPopulate
  <2> QED
    BY <2>1, SourceGrows
<1>2. ASSUME NEW p \in Procs
      PROVE  /\ gpc'[p] \in {"populate", "return"} => fetched'[p] \in Versions
             /\ gpc'[p] = "populate" =>
                  filled'[want'[p]] <= fetched'[p] /\ fetched'[p] <= src'[want'[p]]
  <2> USE DEF GroupInv, GroupTypes
  <2>1. CASE GetterReads(p)
    <3>1. /\ want[p] \in Keys /\ fetched'[p] = src[want[p]] /\ want' = want
          /\ filled' = filled /\ src' = src
      BY <2>1 DEF GetterReads, LoadInv, Loading
    <3>2. fetched'[p] \in Versions /\ src[want[p]] \in Nat
      BY <3>1, VersionIsValue
    <3> QED
      BY <3>1, <3>2 DEF AgeInv
  <2>2. CASE Populate(p)
    <3>1. gpc'[p] = "return" /\ fetched' = fetched /\ gpc[p] = "populate"
      BY <2>2 DEF Populate, Goto
    <3> QED
      BY <3>1 DEF AgeInv
  <2>3. CASE \/ Get(p) \/ LoadLead(p) \/ LoadJoin(p) \/ FromPeer(p) \/ PeerUnavailable(p)
             \/ GetterFails(p) \/ GetterPanics(p) \/ LoadReturns(p) \/ Leave(p)
    <3>1. gpc'[p] \notin {"populate", "return"}
      BY <2>3 DEF Get, Hit, Miss, LoadLead, LoadJoin, FromPeer, PeerUnavailable,
                  GetterFails, GetterPanics, LoadReturns, Leave, Goto
    <3> QED
      BY <3>1
  <2>4. ASSUME gpc'[p] = gpc[p], want'[p] = want[p], fetched'[p] = fetched[p],
               \A r \in Procs : Populate(r) => r # p
        PROVE  /\ gpc'[p] \in {"populate", "return"} => fetched'[p] \in Versions
               /\ gpc'[p] = "populate" =>
                    filled'[want'[p]] <= fetched'[p] /\ fetched'[p] <= src'[want'[p]]
    <3>1. gpc[p] \in {"populate", "return"} => fetched[p] \in Versions
      BY DEF AgeInv
    <3>2. CASE gpc[p] = "populate"
      <4>1. /\ want[p] \in Keys /\ fetched[p] \in Nat
            /\ filled[want[p]] <= fetched[p] /\ fetched[p] <= src[want[p]]
        BY <3>1, <3>2, VersionIsValue DEF AgeInv, LoadInv, Loading
      <4>2. fetched[p] <= src'[want[p]]
        BY <4>1, SourceGrows
      <4>3. filled'[want[p]] = filled[want[p]]
        <5>1. ASSUME NEW q \in Procs, Populate(q) PROVE want[q] # want[p]
          BY <5>1, <2>4, <3>2, OneLoad DEF Populate, Loading
        <5>2. ASSUME NEW q \in Procs, Populate(q) PROVE filled'[want[p]] = filled[want[p]]
          BY <5>1, <5>2, <4>1, PopulateRaises
        <5> QED
          BY <5>2, FilledByPopulate
      <4> QED
        BY <2>4, <3>1, <3>2, <4>1, <4>2, <4>3
    <3> QED
      BY <2>4, <3>1, <3>2
  <2>5. ASSUME NEW q \in Procs \ {p}, Get(q) \/ Load(q) \/ Leave(q)
        PROVE  /\ gpc'[p] = gpc[p] /\ want'[p] = want[p] /\ fetched'[p] = fetched[p]
               /\ \A r \in Procs : Populate(r) => r # p
    <3>1. Populate(p) => FALSE
      <4>1. gpc[p] = "populate" => gpc'[p] = "populate"
        BY <2>5, OthersStay
      <4> QED
        BY <4>1 DEF Populate, Goto
    <3> QED
      BY <2>5, <3>1, OthersStay
  <2>6. ASSUME (\E k \in Keys : SourceChanges(k)) \/ Stranded \/ UNCHANGED vars
        PROVE  /\ gpc'[p] = gpc[p] /\ want'[p] = want[p] /\ fetched'[p] = fetched[p]
               /\ \A r \in Procs : Populate(r) => r # p
    <3>1. gpc' = gpc /\ want' = want /\ fetched' = fetched
      BY <2>6 DEF SourceChanges, Stranded, vars, groupVars
    <3> QED
      BY <3>1 DEF Populate, Goto
  <2> QED
    BY <2>1, <2>2, <2>3, <2>4, <2>5, <2>6 DEF Next, Load
<1> QED
  BY <1>1, <1>2 DEF AgeInv

-----------------------------------------------------------------------------
(* GroupInv is inductive: what a Get does in load, and how old it is. *)
THEOREM GroupInductive == Spec => []GroupInv
<1>1. Init => GroupInv
  <2> SUFFICES ASSUME Init PROVE GroupInv
    OBVIOUS
  <2>1. FlightInv
    BY FlightStart DEF Init
  <2>2. 0 \in Versions
    BY GroupAssumption DEF Versions
  <2> QED
    BY <2>1, <2>2 DEF Init, GroupInv, GroupTypes, LoadInv, AgeInv, Loading
<1>2. GroupInv /\ [Next]_vars => GroupInv'
  <2> SUFFICES ASSUME GroupInv, [Next]_vars PROVE GroupInv'
    OBVIOUS
  <2>1. FlightInv'
    BY StepIsFlight, FlightStep DEF GroupInv
  <2> QED
    BY <2>1, TypesStep, LoadStep, AgeStep DEF GroupInv
<1> QED
  BY <1>1, <1>2, PTL DEF Spec

(* A Group uses singleflight as SingleFlight describes it: every behaviour *)
(* of CacheGroup is one of SingleFlight, in which fn is the closure of     *)
(* load.                                                                   *)
THEOREM GroupUsesFlight == Spec => FlightSpec
<1>1. Init => FlightInit
  BY DEF Init
<1>2. GroupInv /\ [Next]_vars => [FlightNext]_flightVars
  BY StepIsFlight
<1> QED
  BY <1>1, <1>2, GroupInductive, PTL DEF Spec, FlightSpec

(* In a Group two loads of a key never run at once, and nobody waits for a *)
(* load that is over.                                                      *)
THEOREM GroupLoadsOnce == Spec => [](OneInFlight /\ WaitersHaveLeader)
BY GroupUsesFlight, NoDuplicateWork, NobodyWaitsInVain, PTL

(* A slow load cannot put an older version over a newer one in the cache:  *)
(* the load that Do admits next for a key reads the source after the one   *)
(* before has filled the cache.                                            *)
THEOREM GroupCacheNewer == Spec => CacheOnlyGetsNewer
<1>1. GroupInv /\ [Next]_vars => [\A k \in Keys : filled'[k] >= filled[k]]_vars
  <2> SUFFICES ASSUME GroupInv, [Next]_vars
               PROVE  \A k \in Keys : filled'[k] >= filled[k]
    OBVIOUS
  <2>1. filled \in [Keys -> Nat]
    BY VersionIsValue DEF GroupInv, GroupTypes
  <2>2. CASE UNCHANGED filled
    BY <2>1, <2>2
  <2>3. ASSUME NEW p \in Procs, Populate(p)
        PROVE  \A k \in Keys : filled'[k] >= filled[k]
    BY <2>1, <2>3, PopulateRaises
  <2> QED
    BY <2>2, <2>3, FilledByPopulate
<1> QED
  BY <1>1, GroupInductive, PTL DEF Spec, CacheOnlyGetsNewer

-----------------------------------------------------------------------------
(* What a caller gets *)

Local == Keys \ Remote

(* A Get on its way out of Do holds the object of the key it asked for.    *)
WhereInv ==
  \A p \in Procs :
    /\ gpc[p] = "leave" <=> fpc[p] = "unmap"
    /\ gpc[p] = "wait" => fpc[p] = "wait"
    /\ gpc[p] \in {"leave", "wait"} => want[p] \in Keys /\ calls[mine[p]].key = want[p]

(* The cache has the version that was put in last.                         *)
CacheInv ==
  /\ cache = [ll |-> cache.ll, nbytes |-> cache.nbytes]
  /\ ListOK(cache.ll, Keys, Versions)
  /\ \A i \in 1..Len(cache.ll) : cache.ll[i].val = filled[cache.ll[i].key]

(* What a Get of a local key is about to return: as a leader what is in    *)
(* the cache, as a waiter what was in it since it has come.                *)
Returns(p) ==
  /\ gpc[p] = "return" => fetched[p] = filled[want[p]]
  /\ gpc[p] = "leave" /\ want[p] \in Local => calls[mine[p]].val \in {Err, filled[want[p]]}
  /\ gpc[p] = "wait" /\ want[p] \in Local /\ calls[mine[p]].wg = 0 =>
       \/ calls[mine[p]].val = Err
       \/ /\ seen[p][want[p]] <= calls[mine[p]].val
          /\ calls[mine[p]].val <= filled[want[p]]

SeenInv ==
  /\ seen \in [Procs -> [Local -> Versions]]
  /\ \A p \in Procs, k \in Local : seen[p][k] <= filled[k]
  /\ \A p \in Procs : Returns(p)

ReadInv == GroupInv /\ WhereInv /\ CacheInv /\ SeenInv

(* What fn returns: what its load has fetched, an error, or what a peer    *)
(* has said.                                                               *)
LEMMA ResultIs ==
  ASSUME GroupInv, NEW p \in Procs, FromPeer(p) \/ GetterFails(p) \/ LoadReturns(p)
  PROVE  /\ want[p] \in Keys /\ Running(p, want[p]) /\ mine[p] \in Objects
         /\ \E v \in Values : /\ FnReturns(p, v)
                              /\ calls' = [calls EXCEPT ![mine[p]] = Done(calls[mine[p]], v)]
                              /\ \/ want[p] \in Remote \/ v = Err
                                 \/ gpc[p] = "return" /\ v = fetched[p]
         /\ gpc'[p] = "leave" /\ fpc'[p] = "unmap" /\ mine' = mine /\ want' = want
<1> USE DEF GroupInv, GroupTypes
<1>1. want[p] \in Keys /\ Running(p, want[p])
  BY DEF FromPeer, GetterFails, LoadReturns, LoadInv, Loading
<1>2. mine[p] \in Objects
  BY <1>1 DEF Running, FlightInv, LeaderInv, Leading
<1>3. \E v \in Values : FnReturns(p, v) /\ \/ want[p] \in Remote \/ v = Err
                                           \/ gpc[p] = "return" /\ v = fetched[p]
  <2>1. CASE FromPeer(p)
    <3>1. src[want[p]] \in Versions
      BY <1>1
    <3>2. 0..src[want[p]] \subseteq Values
      BY <3>1, VersionIsValue, GroupAssumption DEF Versions
    <3> QED
      BY <2>1, <3>2 DEF FromPeer
  <2>2. CASE GetterFails(p)
    BY <2>2, VersionIsValue DEF GetterFails
  <2>3. CASE LoadReturns(p)
    BY <2>3, VersionIsValue DEF LoadReturns, AgeInv
  <2> QED
    BY <2>1, <2>2, <2>3
<1>4. gpc'[p] = "leave" /\ want' = want
  BY DEF FromPeer, GetterFails, LoadReturns, Goto
<1>5. fpc'[p] = "unmap" /\ mine' = mine
  BY <1>3 DEF FnReturns, FlightInv, FlightTypeOK
<1> QED
  BY <1>1, <1>2, <1>3, <1>4, <1>5 DEF FnReturns

(* What others do in Do leaves the object of one who leaves or waits as it *)
(* is, unless its leader is one of them and returns.                       *)
Finishes(q, o) ==
  /\ mine[q] = o /\ want[q] \in Keys /\ calls[o].key = want[q] /\ fpc[q] = "run"
  /\ \E v \in Values : /\ calls'[o] = Done(calls[o], v)
                       /\ \/ want[q] \in Remote \/ v = Err
                          \/ gpc[q] = "return" /\ v = fetched[q]
  /\ filled' = filled

LEMMA OthersHold ==
  ASSUME GroupInv, NEW p \in Procs, NEW q \in Procs \ {p}, Get(q) \/ Load(q) \/ Leave(q),
         mine[p] \in Objects
  PROVE  /\ mine'[p] = mine[p] /\ fpc'[p] = fpc[p]
         /\ calls'[mine[p]] = calls[mine[p]] \/ Finishes(q, mine[p])
<1> USE DEF GroupInv, GroupTypes
<1>0. /\ mine \in [Procs -> Objects \cup {Nil}] /\ calls \in [Objects -> Call]
      /\ fpc \in [Procs -> {"out", "run", "unmap", "wait", "dead"}]
  BY DEF FlightInv, FlightTypeOK
<1>1. CASE Get(q)
  BY <1>1 DEF Get, Hit, Miss, flightVars
<1>2. CASE LoadLead(q)
  <2> DEFINE c == CHOOSE o \in Unused : TRUE
  <2>1. Lead(q, want[q])
    BY <1>2 DEF LoadLead
  <2>2. c \in Objects /\ mine[p] # c
    <3>1. c \in Unused
      BY <2>1 DEF Lead
    <3> QED
      BY <3>1 DEF Unused
  <2>3. /\ calls' = [calls EXCEPT ![c] = NewCall(q, want[q])]
        /\ mine' = [mine EXCEPT ![q] = c] /\ fpc' = [fpc EXCEPT ![q] = "run"]
    BY <2>1 DEF Lead
  <2> HIDE DEF c
  <2> QED
    BY <1>0, <2>2, <2>3
<1>3. CASE LoadJoin(q)
  BY <1>0, <1>3 DEF LoadJoin, Join
<1>4. CASE FromPeer(q) \/ GetterFails(q) \/ LoadReturns(q)
  <2>1. PICK v \in Values :
          /\ FnReturns(q, v)
          /\ calls' = [calls EXCEPT ![mine[q]] = Done(calls[mine[q]], v)]
          /\ \/ want[q] \in Remote \/ v = Err
             \/ gpc[q] = "return" /\ v = fetched[q]
    BY <1>4, ResultIs
  <2>2. /\ want[q] \in Keys /\ Running(q, want[q]) /\ mine[q] \in Objects
    BY <1>4, ResultIs
  <2>3. filled' = filled
    BY <1>4 DEF FromPeer, GetterFails, LoadReturns
  <2>4. mine' = mine /\ fpc' = [fpc EXCEPT ![q] = "unmap"]
    BY <2>1 DEF FnReturns
  <2>5. CASE mine[q] = mine[p]
    BY <1>0, <2>1, <2>2, <2>3, <2>4, <2>5 DEF Finishes, Running
  <2>6. CASE mine[q] # mine[p]
    BY <1>0, <2>1, <2>2, <2>4, <2>6
  <2> QED
    BY <2>5, <2>6
<1>5. CASE GetterPanics(q)
  BY <1>0, <1>5 DEF GetterPanics, FnPanics
<1>6. CASE PeerUnavailable(q) \/ GetterReads(q) \/ Populate(q)
  BY <1>6 DEF PeerUnavailable, GetterReads, Populate, flightVars
<1>7. CASE Leave(q)
  <2>1. Unmap(q) \/ Wake(q)
    BY <1>7 DEF Leave
  <2>2. mine[q] \in Objects /\ LetGo(q)
    BY <2>1 DEF Unmap, Wake, FlightInv, LeaderInv, WaitInv, Leading
  <2>3. calls'[mine[p]] = calls[mine[p]]
    BY <2>2, LetGoKeeps
  <2> QED
    BY <1>0, <2>2, <2>3 DEF LetGo
<1> QED
  BY <1>1, <1>2, <1>3, <1>4, <1>5, <1>6, <1>7 DEF Load

LEMMA OthersAway ==
  ASSUME GroupInv, NEW p \in Procs, NEW q \in Procs \ {p}, Get(q) \/ Load(q) \/ Leave(q)
  PROVE  fpc'[p] = fpc[p]
<1>0. fpc \in [Procs -> {"out", "run", "unmap", "wait", "dead"}]
  BY DEF GroupInv, FlightInv, FlightTypeOK
<1>1. CASE Get(q)
  BY <1>1 DEF Get, Hit, Miss, flightVars
<1>2. CASE Load(q)
  BY <1>0, <1>2 DEF Load, LoadLead, Lead, LoadJoin, Join, FromPeer, GetterFails, LoadReturns,
                    FnReturns, GetterPanics, FnPanics, PeerUnavailable, GetterReads, Populate,
                    flightVars
<1>3. CASE Leave(q)
  BY <1>0, <1>3 DEF Leave, Unmap, Wake, LetGo
<1> QED
  BY <1>1, <1>2, <1>3

(* One who leaves or waits holds an object, and what it gets is a value.   *)
LEMMA HoldsOne ==
  ASSUME GroupInv, WhereInv, NEW p \in Procs, gpc[p] \in {"leave", "wait"}
  PROVE  /\ mine[p] \in Objects
         /\ calls[mine[p]].wg = 0 => calls[mine[p]].val \in Values
         /\ gpc[p] = "leave" => calls[mine[p]].wg = 0
<1> USE DEF GroupInv, FlightInv
<1>1. CASE gpc[p] = "leave"
  BY <1>1 DEF WhereInv, LeaderInv, Leading
<1>2. CASE gpc[p] = "wait"
  <2>1. /\ mine[p] \in Objects
        /\ \/ calls[mine[p]].wg = 0 /\ calls[mine[p]].val \in Values
           \/ /\ calls[mine[p]].leader \in Procs
              /\ fpc[calls[mine[p]].leader] \in {"run", "dead"}
              /\ mine[calls[mine[p]].leader] = mine[p]
    BY <1>2 DEF WhereInv, WaitInv
  <2>2. \A q \in Procs : fpc[q] \in {"run", "dead"} => calls[mine[q]].wg = 1
    BY DEF LeaderInv, Leading
  <2> QED
    BY <1>2, <2>1, <2>2
<1> QED
  BY <1>1, <1>2

(* No step takes the object of its key from one who leaves or waits. *)
LEMMA WhereStep ==
  ASSUME GroupInv, WhereInv, [Next]_vars
  PROVE  WhereInv'
<1> SUFFICES ASSUME NEW p \in Procs
             PROVE  /\ gpc'[p] = "leave" <=> fpc'[p] = "unmap"
                    /\ gpc'[p] = "wait" => fpc'[p] = "wait"
                    /\ gpc'[p] \in {"leave", "wait"} =>
                         want'[p] \in Keys /\ calls'[mine'[p]].key = want'[p]
  BY DEF WhereInv
<1>0. /\ gpc \in [Procs -> {"idle", "missed", "pick", "getter", "populate",
                            "return", "leave", "wait", "dead"}]
      /\ want \in [Procs -> Keys \cup {Nil}]
      /\ mine \in [Procs -> Objects \cup {Nil}] /\ calls \in [Objects -> Call]
      /\ fpc \in [Procs -> {"out", "run", "unmap", "wait", "dead"}]
      /\ m \in [Keys -> Objects \cup {Nil}]
  BY DEF GroupInv, GroupTypes, FlightInv, FlightTypeOK
<1>1. CASE Get(p)
  BY <1>0, <1>1 DEF Get, Hit, Miss, Goto, flightVars, WhereInv
<1>2. CASE LoadJoin(p)
  <2>1. /\ want[p] \in Keys /\ want' = want /\ Join(p, want[p]) /\ gpc'[p] = "wait"
    BY <1>0, <1>2 DEF LoadJoin, Goto, GroupInv, LoadInv
  <2>2. /\ m[want[p]] # Nil /\ mine'[p] = m[want[p]] /\ fpc'[p] = "wait" /\ calls' = calls
    BY <1>0, <2>1 DEF Join, Misses
  <2>3. calls[m[want[p]]].key = want[p]
    BY <2>1, <2>2 DEF GroupInv, FlightInv, MapInv
  <2> QED
    BY <2>1, <2>2, <2>3
<1>3. CASE FromPeer(p) \/ GetterFails(p) \/ LoadReturns(p)
  <2>1. /\ want[p] \in Keys /\ Running(p, want[p]) /\ mine[p] \in Objects
        /\ gpc'[p] = "leave" /\ fpc'[p] = "unmap" /\ mine' = mine /\ want' = want
        /\ \E v \in Values : calls' = [calls EXCEPT ![mine[p]] = Done(calls[mine[p]], v)]
    BY <1>3, ResultIs DEF GroupInv
  <2>2. calls'[mine[p]].key = calls[mine[p]].key
    BY <1>0, <2>1 DEF Done
  <2> QED
    BY <2>1, <2>2 DEF Running
<1>4. CASE \/ LoadLead(p) \/ PeerUnavailable(p) \/ GetterReads(p)
           \/ GetterPanics(p) \/ Populate(p) \/ Leave(p)
  <2>1. gpc'[p] \notin {"leave", "wait"}
    BY <1>0, <1>4 DEF LoadLead, PeerUnavailable, GetterReads, GetterPanics, Populate, Leave, Goto
  <2>2. fpc'[p] # "unmap"
    <3>1. CASE LoadLead(p) \/ GetterPanics(p) \/ Leave(p)
      BY <1>0, <3>1 DEF LoadLead, Lead, GetterPanics, FnPanics, Leave, Unmap, Wake, LetGo
    <3>2. CASE PeerUnavailable(p) \/ GetterReads(p) \/ Populate(p)
      <4>1. gpc[p] \in Loading /\ fpc' = fpc
        BY <3>2 DEF PeerUnavailable, GetterReads, Populate, Loading, flightVars
      <4> QED
        BY <4>1 DEF GroupInv, LoadInv, Running
    <3> QED
      BY <1>4, <3>1, <3>2
  <2> QED
    BY <2>1, <2>2
<1>5. ASSUME NEW q \in Procs \ {p}, Get(q) \/ Load(q) \/ Leave(q)
      PROVE  /\ gpc'[p] = "leave" <=> fpc'[p] = "unmap"
             /\ gpc'[p] = "wait" => fpc'[p] = "wait"
             /\ gpc'[p] \in {"leave", "wait"} =>
                  want'[p] \in Keys /\ calls'[mine'[p]].key = want'[p]
  <2>1. gpc'[p] = gpc[p] /\ want'[p] = want[p]
    BY <1>5, OthersStay
  <2>2. CASE gpc[p] \in {"leave", "wait"}
    <3>1. mine[p] \in Objects
      BY <2>2, HoldsOne
    <3>2. /\ mine'[p] = mine[p] /\ fpc'[p] = fpc[p]
          /\ calls'[mine[p]] = calls[mine[p]] \/ Finishes(q, mine[p])
      BY <1>5, <3>1, OthersHold
    <3>3. calls'[mine[p]].key = calls[mine[p]].key
      <4>1. Finishes(q, mine[p]) => \E v \in Values : calls'[mine[p]] = Done(calls[mine[p]], v)
        BY DEF Finishes
      <4>2. \A v : Done(calls[mine[p]], v).key = calls[mine[p]].key
        BY DEF Done
      <4> QED
        BY <3>2, <4>1, <4>2
    <3> QED
      BY <2>1, <2>2, <3>2, <3>3 DEF WhereInv
  <2>3. CASE gpc[p] \notin {"leave", "wait"}
    <3>1. fpc'[p] = "unmap" => fpc[p] = "unmap"
      BY <1>5, OthersAway
    <3> QED
      BY <2>1, <2>3, <3>1 DEF WhereInv
  <2> QED
    BY <2>2, <2>3
<1>6. CASE (\E k \in Keys : SourceChanges(k)) \/ Stranded \/ UNCHANGED vars
  BY <1>6 DEF SourceChanges, Stranded, vars, groupVars, flightVars, WhereInv
<1> QED
  BY <1>1, <1>2, <1>3, <1>4, <1>5, <1>6 DEF Next, Load

(* No step leaves a version in the cache that was not put in last.         *)
LEMMA CacheStep ==
  ASSUME GroupInv, CacheInv, [Next]_vars
  PROVE  CacheInv'
<1>0. /\ cache = [ll |-> cache.ll, nbytes |-> cache.nbytes] /\ ListOK(cache.ll, Keys, Versions)
      /\ \A i \in 1..Len(cache.ll) : cache.ll[i].val = filled[cache.ll[i].key]
      /\ filled \in [Keys -> Versions]
  BY DEF CacheInv, GroupInv, GroupTypes
<1>1. CASE UNCHANGED <<cache, filled>>
  BY <1>1 DEF CacheInv
<1>2. ASSUME NEW p \in Procs, NEW k \in Keys, Hit(p, k) PROVE CacheInv'
  <2>1. cache' = Touch(cache, k) /\ filled' = filled
    BY <1>2 DEF Hit
  <2>2. ListOf(Touch(cache, k).ll, Keys, Versions, cache.ll)
    BY <1>0, TouchIs
  <2>3. ListOK(cache'.ll, Keys, Versions)
    BY <2>1, <2>2 DEF ListOf
  <2>4. cache' = [ll |-> cache'.ll, nbytes |-> cache'.nbytes]
    <3>1. Touch(cache, k) = cache \/ \E l : Touch(cache, k) = [cache EXCEPT !.ll = l]
      BY DEF Touch
    <3> QED
      BY <1>0, <2>1, <3>1
  <2>5. \A j \in 1..Len(cache'.ll) : cache'.ll[j].val = filled'[cache'.ll[j].key]
    BY <1>0, <2>1, <2>2 DEF ListOf
  <2> QED
    BY <2>3, <2>4, <2>5 DEF CacheInv
<1>3. ASSUME NEW p \in Procs, Populate(p) PROVE CacheInv'
  <2> DEFINE k == want[p]  v == fetched[p]  c == AddTo(cache, k, v)
  <2>1. cache' = c /\ filled' = [filled EXCEPT ![k] = v]
    BY <1>3 DEF Populate
  <2>2. k \in Keys /\ v \in Versions
    BY <1>3 DEF Populate, GroupInv, LoadInv, AgeInv, Loading
  <2> HIDE DEF k, v
  <2>3. /\ ListOK(c.ll, Keys, Versions) /\ NewOrOld(c.ll, k, v, cache.ll)
        /\ c = [ll |-> c.ll, nbytes |-> c.nbytes]
    BY <1>0, <2>2, AddIs
  <2> HIDE DEF c
  <2>4. \A i \in 1..Len(cache.ll) : cache.ll[i].key \in Keys
    BY <1>0, ListFacts
  <2>5. ASSUME NEW j \in 1..Len(c.ll) PROVE c.ll[j].val = filled'[c.ll[j].key]
    <3>1. CASE c.ll[j] = Entry(k, v)
      <4>1. Entry(k, v).key = k /\ Entry(k, v).val = v
        BY DEF Entry
      <4> QED
        BY <1>0, <2>1, <2>2, <3>1, <4>1
    <3>2. ASSUME NEW i \in 1..Len(cache.ll), c.ll[j] = cache.ll[i], cache.ll[i].key # k
          PROVE  c.ll[j].val = filled'[c.ll[j].key]
      BY <1>0, <2>1, <2>2, <2>4, <3>2
    <3> QED
      BY <2>3, <3>1, <3>2 DEF NewOrOld
  <2> QED
    BY <2>1, <2>3, <2>5 DEF CacheInv
<1>4. ASSUME NEW p \in Procs, Load(p) \/ Leave(p) PROVE UNCHANGED <<cache, filled>> \/ Populate(p)
  BY <1>4 DEF Load, LoadLead, LoadJoin, FromPeer, PeerUnavailable, GetterReads, GetterFails,
              GetterPanics, LoadReturns, Leave
<1>5. ASSUME NEW p \in Procs, NEW k \in Keys, Miss(p, k) PROVE UNCHANGED <<cache, filled>>
  BY <1>5 DEF Miss
<1>6. (\E k \in Keys : SourceChanges(k)) \/ Stranded \/ UNCHANGED vars
        => UNCHANGED <<cache, filled>>
  BY DEF SourceChanges, Stranded, vars, groupVars
<1> QED
  BY <1>1, <1>2, <1>3, <1>4, <1>5, <1>6 DEF Next, Get

LEMMA FilledGrows ==
  ASSUME GroupInv, [Next]_vars
  PROVE  /\ filled \in [Keys -> Nat]
         /\ \A k \in Keys : filled'[k] \in Nat /\ filled'[k] >= filled[k]
<1>1. filled \in [Keys -> Nat] /\ filled' \in [Keys -> Nat]
  BY TypesStep, VersionIsValue DEF GroupInv, GroupTypes
<1>2. CASE UNCHANGED filled
  BY <1>1, <1>2
<1>3. ASSUME NEW p \in Procs, Populate(p) PROVE \A k \in Keys : filled'[k] >= filled[k]
  BY <1>1, <1>3, PopulateRaises
<1> QED
  BY <1>1, <1>2, <1>3, FilledByPopulate

(* Whatever a caller gets of a local key is not older than what it got of  *)
(* it before, nor newer than what has been in the cache.                   *)
LEMMA SeenGrows ==
  ASSUME ReadInv, [Next]_vars
  PROVE  /\ seen' \in [Procs -> [Local -> Versions]]
         /\ \A p \in Procs, k \in Local : seen[p][k] <= seen'[p][k] /\ seen'[p][k] <= filled'[k]
<1>0. /\ seen \in [Procs -> [Local -> Versions]] /\ GroupInv
      /\ \A p \in Procs, k \in Local : seen[p][k] <= filled[k]
      /\ filled \in [Keys -> Nat] /\ Local \subseteq Keys /\ Versions \subseteq Nat
  BY FilledGrows, VersionIsValue DEF ReadInv, SeenInv, Local
<1>1. CASE seen' = seen
  <2>1. \A p \in Procs, k \in Local :
          seen[p][k] \in Nat /\ filled[k] \in Nat /\ filled'[k] \in Nat /\ filled'[k] >= filled[k]
    BY <1>0, FilledGrows
  <2> QED
    BY <1>0, <1>1, <2>1
<1>2. ASSUME NEW p \in Procs, NEW k \in Local, NEW v \in Versions,
             seen' = [seen EXCEPT ![p][k] = v], seen[p][k] <= v, v <= filled[k], filled' = filled
      PROVE  /\ seen' \in [Procs -> [Local -> Versions]]
             /\ \A q \in Procs, j \in Local : seen[q][j] <= seen'[q][j] /\ seen'[q][j] <= filled'[j]
  <2>1. seen' \in [Procs -> [Local -> Versions]]
    BY <1>0, <1>2
  <2>2. ASSUME NEW q \in Procs, NEW j \in Local
        PROVE  seen[q][j] <= seen'[q][j] /\ seen'[q][j] <= filled'[j]
    <3>1. seen[q][j] \in Nat /\ seen[q][j] <= filled[j]
      BY <1>0
    <3>2. seen'[q][j] = IF q = p /\ j = k THEN v ELSE seen[q][j]
      BY <1>0, <1>2
    <3> QED
      BY <1>2, <3>1, <3>2
  <2> QED
    BY <2>1, <2>2
<1>3. ASSUME NEW p \in Procs, NEW k \in Keys, Hit(p, k)
      PROVE  \/ seen' = seen
             \/ /\ k \in Local /\ seen' = [seen EXCEPT ![p][k] = filled[k]] /\ filled' = filled
                /\ filled[k] \in Versions
  <2>1. k \in KeysOf(cache) /\ Seen(p, k, EntryOf(cache, k).val) /\ filled' = filled
    BY <1>3 DEF Hit
  <2>2. EntryOf(cache, k).val = filled[k]
    <3>1. PlaceOf(cache, k) \in DOMAIN cache.ll /\ cache.ll[PlaceOf(cache, k)].key = k
      BY <2>1, PlaceOfIs
    <3>2. DOMAIN cache.ll = 1..Len(cache.ll)
      BY ListFacts DEF ReadInv, CacheInv
    <3> QED
      BY <3>1, <3>2 DEF EntryOf, ReadInv, CacheInv
  <2>3. filled[k] \in Versions
    BY DEF ReadInv, GroupInv, GroupTypes
  <2> QED
    BY <2>1, <2>2, <2>3 DEF Seen, Local
<1>4. ASSUME NEW p \in Procs, Leave(p)
      PROVE  \/ seen' = seen
             \/ \E k \in Local, v \in Versions :
                  /\ seen' = [seen EXCEPT ![p][k] = v] /\ filled' = filled
                  /\ seen[p][k] <= v /\ v <= filled[k]
  <2> DEFINE k == want[p]  v == calls[mine[p]].val
  <2>1. /\ gpc[p] \in {"leave", "wait"} /\ Seen(p, k, v) /\ filled' = filled
        /\ gpc[p] = "wait" => calls[mine[p]].wg = 0
    BY <1>4 DEF Leave, Wake
  <2>2. k \in Keys
    BY <2>1 DEF ReadInv, WhereInv
  <2>3. v \in Values
    BY <2>1, HoldsOne DEF ReadInv
  <2>4. CASE v = Err \/ k \in Remote
    BY <2>1, <2>4 DEF Seen
  <2>5. CASE v # Err /\ k \notin Remote
    <3>1. k \in Local /\ v \in Versions
      BY <2>2, <2>3, <2>5, GroupAssumption DEF Local
    <3>2. seen' = [seen EXCEPT ![p][k] = v]
      BY <2>1, <2>5 DEF Seen
    <3>3. seen[p][k] <= v /\ v <= filled[k]
      <4>1. Returns(p)
        BY DEF ReadInv, SeenInv
      <4>2. CASE gpc[p] = "leave"
        <5>1. v = filled[k]
          BY <2>5, <3>1, <4>1, <4>2 DEF Returns
        <5> QED
          BY <1>0, <3>1, <5>1
      <4>3. CASE gpc[p] = "wait"
        BY <2>1, <2>5, <3>1, <4>1, <4>3 DEF Returns
      <4> QED
        BY <2>1, <4>2, <4>3
    <3> QED
      BY <2>1, <3>1, <3>2, <3>3
  <2> QED
    BY <2>4, <2>5
<1>5. ASSUME NEW p \in Procs, Load(p) PROVE seen' = seen
  BY <1>5 DEF Load, LoadLead, LoadJoin, FromPeer, PeerUnavailable, GetterReads, GetterFails,
              GetterPanics, LoadReturns, Populate
<1>6. ASSUME NEW p \in Procs, NEW k \in Keys, Miss(p, k) PROVE seen' = seen
  BY <1>6 DEF Miss
<1>7. (\E k \in Keys : SourceChanges(k)) \/ Stranded \/ UNCHANGED vars => seen' = seen
  BY DEF SourceChanges, Stranded, vars, groupVars
<1>8. ASSUME NEW p \in Procs, NEW k \in Keys, Hit(p, k)
      PROVE  /\ seen' \in [Procs -> [Local -> Versions]]
             /\ \A q \in Procs, j \in Local : seen[q][j] <= seen'[q][j] /\ seen'[q][j] <= filled'[j]
  <2>1. k \in Local => seen[p][k] <= filled[k] /\ filled[k] <= filled[k]
    BY <1>0
  <2> QED
    BY <1>1, <1>2, <1>3, <1>8, <2>1
<1>9. ASSUME NEW p \in Procs, Leave(p)
      PROVE  /\ seen' \in [Procs -> [Local -> Versions]]
             /\ \A q \in Procs, j \in Local : seen[q][j] <= seen'[q][j] /\ seen'[q][j] <= filled'[j]
  BY <1>1, <1>2, <1>4, <1>9
<1> QED
  BY <1>1, <1>5, <1>6, <1>7, <1>8, <1>9 DEF Next, Get

(* Two leaders of a key are one. *)
LEMMA OneLeader ==
  ASSUME FlightInv, NEW p \in Procs, NEW q \in Procs, Leading(p), Leading(q),
         mine[p] = mine[q] \/ calls[mine[p]].key = calls[mine[q]].key
  PROVE  p = q
BY DEF FlightInv, LeaderInv

(* While one leaves with the result of its load, or is about to return it, *)
(* nobody else fills the cache for its key.                                *)
LEMMA KeepsFilled ==
  ASSUME ReadInv, [Next]_vars, NEW p \in Procs, gpc[p] \in {"return", "leave"},
         ~ Populate(p)
  PROVE  filled'[want[p]] = filled[want[p]]
<1>1. /\ Leading(p) /\ calls[mine[p]].key = want[p] /\ want[p] \in Keys
  BY DEF ReadInv, WhereInv, GroupInv, LoadInv, Loading, Running, Leading
<1>2. ASSUME NEW q \in Procs, Populate(q) PROVE filled'[want[p]] = filled[want[p]]
  <2>1. Running(q, want[q]) /\ want[q] \in Keys
    BY <1>2 DEF Populate, ReadInv, GroupInv, LoadInv, Loading
  <2>2. want[q] # want[p]
    <3> SUFFICES ASSUME want[q] = want[p] PROVE FALSE
      OBVIOUS
    <3>1. p = q
      BY <1>1, <2>1, OneLeader DEF ReadInv, GroupInv, Running, Leading
    <3> QED
      BY <1>2, <3>1
  <2>3. filled' = [filled EXCEPT ![want[q]] = fetched[q]]
    BY <1>2 DEF Populate
  <2>4. filled \in [Keys -> Nat]
    BY FilledGrows DEF ReadInv
  <2> QED
    BY <1>1, <2>1, <2>2, <2>3, <2>4
<1> QED
  BY <1>2, FilledByPopulate DEF ReadInv

(* Steps of others leave what a goroutine has seen. *)
LEMMA OthersSee ==
  ASSUME ReadInv, NEW p \in Procs, NEW q \in Procs \ {p}, Get(q) \/ Load(q) \/ Leave(q)
  PROVE  seen'[p] = seen[p]
<1>1. \A k, v : Seen(q, k, v) => seen'[p] = seen[p]
  BY DEF Seen, ReadInv, SeenInv
<1>2. CASE Get(q)
  BY <1>1, <1>2 DEF Get, Hit, Miss
<1>3. CASE Load(q)
  BY <1>3 DEF Load, LoadLead, LoadJoin, FromPeer, PeerUnavailable, GetterReads, GetterFails,
              GetterPanics, LoadReturns, Populate
<1>4. CASE Leave(q)
  BY <1>1, <1>4 DEF Leave
<1> QED
  BY <1>2, <1>3, <1>4

(* What a Get is about to return stays so, whatever the others do. *)
LEMMA ReturnsStep ==
  ASSUME ReadInv, [Next]_vars, NEW p \in Procs
  PROVE  Returns(p)'
<1>0. /\ GroupInv /\ WhereInv /\ SeenInv /\ Returns(p)
      /\ gpc \in [Procs -> {"idle", "missed", "pick", "getter", "populate",
                            "return", "leave", "wait", "dead"}]
      /\ want \in [Procs -> Keys \cup {Nil}]
      /\ mine \in [Procs -> Objects \cup {Nil}] /\ calls \in [Objects -> Call]
      /\ fpc \in [Procs -> {"out", "run", "unmap", "wait", "dead"}]
      /\ m \in [Keys -> Objects \cup {Nil}]
      /\ filled \in [Keys -> Nat] /\ Local \subseteq Keys
  BY FilledGrows DEF ReadInv, SeenInv, GroupInv, GroupTypes, FlightInv, FlightTypeOK, Local
<1>1. CASE Populate(p)
  <2>1. /\ gpc'[p] = "return" /\ fetched' = fetched /\ want' = want /\ want[p] \in Keys
        /\ filled' = [filled EXCEPT ![want[p]] = fetched[p]]
    BY <1>0, <1>1, PopulateRaises DEF Populate, Goto
  <2>2. fetched'[p] = filled'[want'[p]]
    BY <1>0, <2>1
  <2> QED
    BY <2>1, <2>2 DEF Returns
<1>2. CASE FromPeer(p) \/ GetterFails(p) \/ LoadReturns(p)
  <2>1. /\ want[p] \in Keys /\ mine[p] \in Objects
        /\ gpc'[p] = "leave" /\ mine' = mine /\ want' = want
    BY <1>0, <1>2, ResultIs
  <2>2. PICK v \in Values : /\ calls' = [calls EXCEPT ![mine[p]] = Done(calls[mine[p]], v)]
                            /\ \/ want[p] \in Remote \/ v = Err
                               \/ gpc[p] = "return" /\ v = fetched[p]
    BY <1>0, <1>2, ResultIs
  <2>3. calls'[mine[p]].val = v
    BY <1>0, <2>1, <2>2 DEF Done
  <2>4. filled' = filled
    BY <1>2 DEF FromPeer, GetterFails, LoadReturns
  <2>5. want[p] \in Local => v \in {Err, filled[want[p]]}
    BY <1>0, <2>2 DEF Returns, Local
  <2> QED
    BY <2>1, <2>3, <2>4, <2>5 DEF Returns
<1>3. CASE LoadJoin(p)
  <2> DEFINE k == want[p]
  <2>1. /\ k \in Keys /\ want' = want /\ Join(p, k) /\ gpc'[p] = "wait"
        /\ filled' = filled /\ seen' = seen
    BY <1>0, <1>3 DEF LoadJoin, Goto, GroupInv, LoadInv
  <2>2. /\ m[k] # Nil /\ mine'[p] = m[k] /\ calls' = calls
    BY <1>0, <2>1 DEF Join, Misses
  <2>3. PICK q \in Procs : mine[q] = m[k] /\ Leading(q) /\ calls[m[k]].key = k
    BY <1>0, <2>1, <2>2 DEF GroupInv, FlightInv, MapInv
  <2>4. ASSUME k \in Local, calls[m[k]].wg = 0
        PROVE  \/ calls[m[k]].val = Err
               \/ seen[p][k] <= calls[m[k]].val /\ calls[m[k]].val <= filled[k]
    <3>1. fpc[q] = "unmap"
      BY <1>0, <2>3, <2>4 DEF GroupInv, FlightInv, LeaderInv
    <3>2. gpc[q] = "leave" /\ want[q] = k
      BY <1>0, <2>3, <3>1 DEF WhereInv
    <3>3. calls[m[k]].val \in {Err, filled[k]}
      BY <1>0, <2>3, <2>4, <3>2 DEF SeenInv, Returns
    <3>4. seen[p][k] <= filled[k] /\ filled[k] \in Nat
      BY <1>0, <2>4 DEF SeenInv
    <3> QED
      BY <3>3, <3>4
  <2> QED
    BY <2>1, <2>2, <2>4 DEF Returns
<1>4. CASE \/ Get(p) \/ LoadLead(p) \/ PeerUnavailable(p) \/ GetterReads(p)
           \/ GetterPanics(p) \/ Leave(p)
  <2>1. gpc'[p] \notin {"return", "leave", "wait"}
    <3>1. CASE \E k \in Keys : Hit(p, k)
      BY <3>1 DEF Hit
    <3>2. CASE ~ \E k \in Keys : Hit(p, k)
      BY <1>0, <1>4, <3>2 DEF Get, Miss, LoadLead, PeerUnavailable, GetterReads, GetterPanics,
                              Leave, Goto
    <3> QED
      BY <3>1, <3>2
  <2> QED
    BY <2>1 DEF Returns
<1>5. ASSUME NEW q \in Procs \ {p}, Get(q) \/ Load(q) \/ Leave(q)
      PROVE  Returns(p)'
  <2>1. /\ gpc'[p] = gpc[p] /\ want'[p] = want[p] /\ fetched'[p] = fetched[p]
        /\ seen'[p] = seen[p]
    BY <1>0, <1>5, OthersStay, OthersSee
  <2>2. CASE gpc[p] \in {"return", "leave"}
    <3>1. ~ Populate(p)
      BY <2>2 DEF Populate
    <3>2. filled'[want[p]] = filled[want[p]]
      BY <2>2, <3>1, KeepsFilled
    <3>3. CASE gpc[p] = "return"
      BY <1>0, <2>1, <3>2, <3>3 DEF Returns
    <3>4. CASE gpc[p] = "leave"
      <4>1. mine[p] \in Objects /\ Leading(p)
        BY <1>0, <3>4, HoldsOne DEF WhereInv, Leading
      <4>2. /\ mine'[p] = mine[p]
            /\ calls'[mine[p]] = calls[mine[p]] \/ Finishes(q, mine[p])
        BY <1>0, <1>5, <4>1, OthersHold
      <4>3. ~ Finishes(q, mine[p])
        BY <1>0, <4>1, OneLeader DEF Finishes, Leading, GroupInv
      <4> QED
        BY <1>0, <2>1, <3>2, <3>4, <4>2, <4>3 DEF Returns
    <3> QED
      BY <2>2, <3>3, <3>4
  <2>3. CASE gpc[p] = "wait"
    <3>1. mine[p] \in Objects /\ want[p] \in Keys /\ calls[mine[p]].key = want[p]
      BY <1>0, <2>3, HoldsOne DEF WhereInv
    <3>2. /\ mine'[p] = mine[p]
          /\ calls'[mine[p]] = calls[mine[p]] \/ Finishes(q, mine[p])
      BY <1>0, <1>5, <3>1, OthersHold
    <3> SUFFICES ASSUME want[p] \in Local, calls'[mine[p]].wg = 0, calls'[mine[p]].val # Err
                 PROVE  /\ seen[p][want[p]] <= calls'[mine[p]].val
                        /\ calls'[mine[p]].val <= filled'[want[p]]
      BY <2>1, <2>3, <3>2 DEF Returns
    <3>3. CASE calls'[mine[p]] = calls[mine[p]]
      <4>1. /\ seen[p][want[p]] <= calls[mine[p]].val
            /\ calls[mine[p]].val <= filled[want[p]]
        BY <1>0, <2>3, <3>3 DEF Returns
      <4>2. calls[mine[p]].val \in Nat
        <5>1. calls[mine[p]].val \in Values
          BY <1>0, <2>3, <3>3, HoldsOne
        <5> QED
          BY <3>3, <5>1, GroupAssumption, VersionIsValue
      <4>3. filled'[want[p]] \in Nat /\ filled[want[p]] \in Nat /\ filled'[want[p]] >= filled[want[p]]
        BY <1>0, <3>1, FilledGrows
      <4> QED
        BY <3>3, <4>1, <4>2, <4>3
    <3>4. CASE Finishes(q, mine[p])
      <4>1. PICK v \in Values : /\ calls'[mine[p]] = Done(calls[mine[p]], v)
                                /\ \/ want[q] \in Remote \/ v = Err
                                   \/ gpc[q] = "return" /\ v = fetched[q]
        BY <3>4 DEF Finishes
      <4>2. want[q] = want[p] /\ filled' = filled
        BY <3>1, <3>4 DEF Finishes
      <4>3. calls'[mine[p]].val = v
        BY <4>1 DEF Done
      <4>4. gpc[q] = "return" /\ v = fetched[q]
        BY <4>1, <4>2, <4>3 DEF Local
      <4>5. v = filled[want[p]]
        BY <1>0, <4>2, <4>4 DEF SeenInv, Returns
      <4>6. seen[p][want[p]] <= filled[want[p]] /\ filled[want[p]] \in Nat
        BY <1>0 DEF SeenInv
      <4> QED
        BY <4>2, <4>3, <4>5, <4>6
    <3> QED
      BY <3>2, <3>3, <3>4
  <2>4. CASE gpc[p] \notin {"return", "leave", "wait"}
    BY <2>1, <2>4 DEF Returns
  <2> QED
    BY <2>2, <2>3, <2>4
<1>6. CASE (\E k \in Keys : SourceChanges(k)) \/ Stranded \/ UNCHANGED vars
  <2>1. UNCHANGED <<gpc, want, fetched, filled, seen, flightVars>>
    BY <1>6 DEF SourceChanges, Stranded, vars, groupVars
  <2> QED
    BY <1>0, <2>1 DEF Returns, flightVars
<1> QED
  BY <1>1, <1>2, <1>3, <1>4, <1>5, <1>6 DEF Next, Load

(* ReadInv is inductive. *)
THEOREM ReadInductive == Spec => []ReadInv
<1>1. Init => WhereInv /\ CacheInv /\ SeenInv
  <2> SUFFICES ASSUME Init PROVE WhereInv /\ CacheInv /\ SeenInv
    OBVIOUS
  <2>1. 0 \in Versions
    BY GroupAssumption DEF Versions
  <2>2. WhereInv
    BY DEF Init, FlightInit, WhereInv
  <2>3. CacheInv
    <3>1. cache = [ll |-> << >>, nbytes |-> 0]
      BY DEF Init, NewCache
    <3>2. << >> \in Seq([key : Keys, val : Versions]) /\ Len(<< >>) = 0
      OBVIOUS
    <3>3. ListOK(<< >>, Keys, Versions)
      BY <3>2 DEF ListOK, OneEach
    <3> QED
      BY <3>1, <3>2, <3>3 DEF CacheInv
  <2>4. SeenInv
    BY <2>1 DEF Init, SeenInv, Returns, Local
  <2> QED
    BY <2>2, <2>3, <2>4
<1>2. GroupInv /\ WhereInv /\ CacheInv /\ SeenInv /\ [Next]_vars
        => WhereInv' /\ CacheInv' /\ SeenInv'
  <2> SUFFICES ASSUME ReadInv, [Next]_vars PROVE WhereInv' /\ CacheInv' /\ SeenInv'
    BY DEF ReadInv
  <2>1. WhereInv' /\ CacheInv'
    BY WhereStep, CacheStep DEF ReadInv
  <2>2. SeenInv'
    BY SeenGrows, ReturnsStep DEF SeenInv
  <2> QED
    BY <2>1, <2>2
<1> QED
  BY <1>1, <1>2, GroupInductive, PTL DEF Spec, ReadInv

(* The types of a Group's variables. *)
THEOREM TypeCorrect == Spec => []TypeOK
<1>1. ReadInv => TypeOK
  <2> SUFFICES ASSUME ReadInv PROVE TypeOK
    OBVIOUS
  <2>1. cache.ll \in Seq([key : Keys, val : Versions])
    BY ListFacts DEF ReadInv, CacheInv
  <2> QED
    BY <2>1 DEF ReadInv, GroupInv, FlightInv, GroupTypes, SeenInv, Local, TypeOK
<1> QED
  BY <1>1, ReadInductive, PTL

(* No caller sees a key of this node go back to an older version, through  *)
(* hits, loads of its own, and loads it only waited for.                   *)
THEOREM ReadsOnlyNewer == Spec => MonotonicReads
<1>1. ReadInv /\ [Next]_vars
        => [\A p \in Procs, k \in Keys \ Remote : seen'[p][k] >= seen[p][k]]_vars
  <2> SUFFICES ASSUME ReadInv, [Next]_vars, NEW p \in Procs, NEW k \in Keys \ Remote
               PROVE  seen'[p][k] >= seen[p][k]
    OBVIOUS
  <2>1. k \in Local
    BY DEF Local
  <2>2. seen[p][k] \in Nat /\ seen'[p][k] \in Nat
    <3>1. /\ seen \in [Procs -> [Local -> Versions]] /\ seen' \in [Procs -> [Local -> Versions]]
      BY SeenGrows DEF ReadInv, SeenInv
    <3>2. seen[p][k] \in Versions /\ seen'[p][k] \in Versions
      BY <2>1, <3>1
    <3> QED
      BY <3>2, VersionIsValue
  <2> QED
    BY <2>1, <2>2, SeenGrows
<1> QED
  BY <1>1, ReadInductive, PTL DEF Spec, MonotonicReads
=============================================================================
