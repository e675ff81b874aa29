----------------------------- MODULE SingleFlight -----------------------------
(***************************************************************************)
(* geecache/singleflight: Group.Do(key, fn) runs fn for the first caller   *)
(* of a key, its leader, and lets the callers that come meanwhile wait for *)
(* the leader's result.  A call object outlives its place in the map m,    *)
(* because waiters hold on to it; when nobody does it is garbage and its   *)
(* place in memory may be used again.                                      *)
(* fn is the caller's: it returns some value, or panics.                   *)
(***************************************************************************)
EXTENDS Integers

CONSTANTS Procs,    \* goroutines that call Do
          Keys,
          Values,   \* what fn can return, errors included
          Objects,  \* bound: memory for call objects; one per goroutine is
                    \* enough, as each object in use is held by a goroutine
          Nil       \* Go's nil

ASSUME FlightAssumption ==
  Nil \notin Objects /\ Nil \notin Values /\ Nil \notin Keys /\ Nil \notin Procs

VARIABLES
  fpc,      \* "out" of Do, "run"ning fn, to "unmap", "wait"ing, or "dead"
  mine,     \* the call object a goroutine in Do holds
  m,        \* key -> call object, Nil where the map has no entry
  calls     \* the call objects: their key, leader, value and wg's counter

flightVars == <<fpc, mine, m, calls>>

Call  == [key : Keys \cup {Nil}, leader : Procs \cup {Nil},
          val : Values \cup {Nil}, wg : {0, 1}]
Blank == [key |-> Nil, leader |-> Nil, val |-> Nil, wg |-> 0]

FlightTypeOK ==
  /\ fpc \in [Procs -> {"out", "run", "unmap", "wait", "dead"}]
  /\ mine \in [Procs -> Objects \cup {Nil}]
  /\ m \in [Keys -> Objects \cup {Nil}]
  /\ calls \in [Objects -> Call]

FlightInit ==
  /\ fpc = [p \in Procs |-> "out"]
  /\ mine = [p \in Procs |-> Nil]
  /\ m = [k \in Keys |-> Nil]
  /\ calls = [o \in Objects |-> Blank]

(* c, ok := g.m[key] *)
MissesAlways(k) == TRUE   \* Variant: the map is not consulted
Misses(k) == m[k] = Nil

(* c := new(call); c.wg.Add(1) *)
Unused == {o \in Objects : (\A p \in Procs : mine[p] # o) /\ (\A k \in Keys : m[k] # o)}

NewCallNoAdd(p, k) ==   \* Variant: no Add, so that Done makes the counter negative
  [key |-> k, leader |-> p, val |-> Nil, wg |-> 0]
NewCall(p, k) == [key |-> k, leader |-> p, val |-> Nil, wg |-> 1]

(* The first of its key: a new call object, visible in the map at once     *)
Lead(p, k) ==
  /\ fpc[p] = "out"
  /\ Misses(k)
  /\ Unused # {}
  /\ LET c == CHOOSE o \in Unused : TRUE IN
       /\ calls' = [calls EXCEPT ![c] = NewCall(p, k)]
       /\ m' = [m EXCEPT ![k] = c]
       /\ mine' = [mine EXCEPT ![p] = c]
  /\ fpc' = [fpc EXCEPT ![p] = "run"]

(* A duplicate: it keeps the call object and leaves the lock *)
Join(p, k) ==
  /\ fpc[p] = "out"
  /\ ~Misses(k)
  /\ mine' = [mine EXCEPT ![p] = m[k]]
  /\ fpc' = [fpc EXCEPT ![p] = "wait"]
  /\ UNCHANGED <<m, calls>>

(* c.val, c.err = fn(); c.wg.Done() *)
Done(c, v) == [key |-> c.key, leader |-> c.leader, val |-> v, wg |-> c.wg - 1]

NoDone(p, v) ==   \* Variant: an early return before wg.Done
  /\ fpc[p] = "run"
  /\ calls' = [calls EXCEPT ![mine[p]].val = v]
  /\ fpc' = [fpc EXCEPT ![p] = "unmap"]
  /\ UNCHANGED <<mine, m>>

FnReturns(p, v) ==
  /\ fpc[p] = "run"
  /\ calls' = [calls EXCEPT ![mine[p]] = Done(@, v)]
  /\ fpc' = [fpc EXCEPT ![p] = "unmap"]
  /\ UNCHANGED <<mine, m>>

(* fn panics: neither wg.Done nor delete runs, for they are not deferred *)
FnPanics(p) ==
  /\ fpc[p] = "run"
  /\ fpc' = [fpc EXCEPT ![p] = "dead"]
  /\ UNCHANGED <<mine, m, calls>>

(* p lets go of its call object *)
LetGo(p) ==
  /\ calls' = IF \E q \in Procs \ {p} : mine[q] = mine[p] THEN calls
              ELSE [calls EXCEPT ![mine[p]] = Blank]
  /\ mine' = [mine EXCEPT ![p] = Nil]
  /\ fpc' = [fpc EXCEPT ![p] = "out"]

(* delete(g.m, key), and Do returns to the leader *)
Unmapped(k) == [m EXCEPT ![k] = Nil]

Unmap(p) ==
  /\ fpc[p] = "unmap"
  /\ m' = Unmapped(calls[mine[p]].key)
  /\ LetGo(p)

(* c.wg.Wait(), and Do returns to a waiter *)
Wake(p) ==
  /\ fpc[p] = "wait"
  /\ calls[mine[p]].wg = 0
  /\ LetGo(p)
  /\ UNCHANGED m

FnEnds(p) == (\E v \in Values : FnReturns(p, v)) \/ FnPanics(p)

FlightNext ==
  \E p \in Procs :
    \/ \E k \in Keys : Lead(p, k) \/ Join(p, k)
    \/ FnEnds(p) \/ Unmap(p) \/ Wake(p)

FlightSpec == FlightInit /\ [][FlightNext]_flightVars

-----------------------------------------------------------------------------
(* Properties *)

Running(p, k) == fpc[p] = "run" /\ calls[mine[p]].key = k

(* Only one execution of fn is in flight for a key at a time: the promise  *)
(* in the comment of Do.                                                   *)
OneInFlight ==
  \A p, q \in Procs, k \in Keys : Running(p, k) /\ Running(q, k) => p = q

(* Nobody waits for an execution that no longer runs: the object a waiter  *)
(* holds has its result, or its leader is in fn, unless fn panicked.       *)
WaitersHaveLeader ==
  \A p \in Procs : fpc[p] = "wait" =>
    LET c == calls[mine[p]] IN
      \/ c.wg = 0 /\ c.val \in Values
      \/ fpc[c.leader] \in {"run", "dead"} /\ mine[c.leader] = mine[p]

(* A result is not handed out again once its leader has returned from Do:  *)
(* an object in the map still has its leader inside.                       *)
MappedMeansInside ==
  \A k \in Keys : m[k] # Nil =>
    LET c == calls[m[k]] IN
      c.key = k /\ mine[c.leader] = m[k] /\ fpc[c.leader] \in {"run", "unmap", "dead"}
=============================================================================
