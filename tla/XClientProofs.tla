----------------------------- MODULE XClientProofs -----------------------------
(***************************************************************************)
(* Proofs about XClient: for any sets of servers, callers and connections. *)
(***************************************************************************)
EXTENDS XClient, TLAPS

(* Before a Broadcast its workers are not there. *)
WorkersIdle == bc.phase = "idle" => \A s \in Servers : pc[s] = "idle"

(* Whoever dials knows its server, and the pool has no client of it, for   *)
(* dial took out the old one and holds the lock since; connections it      *)
(* holds are connections.                                                  *)
DialInv ==
  /\ \A p \in Procs : pc[p] # "idle" => addr[p] \in Servers
  /\ \A p \in Procs : pc[p] \in {"connect", "handshake"} => pool[addr[p]] = None
  /\ \A p \in Procs : pc[p] \in {"handshake", "send", "call"} => client[p] \in Conns

(* A worker that is done has a result. *)
ResultInv == \A p \in Procs : pc[p] = "after" => res[p] \in Results

PoolInv == TypeOK /\ WorkersIdle /\ DialInv /\ ResultInv /\ EveryConnectionOwned

-----------------------------------------------------------------------------
LEMMA InitHolds == Init => PoolInv
<1> SUFFICES ASSUME Init PROVE PoolInv
  OBVIOUS
<1>1. TypeOK
  <2>1. bc \in [phase : {"idle", "running"}, list : SUBSET Servers, e : Results \cup {None},
                cancelled : BOOLEAN, reply : Servers \cup {None}]
    BY DEF Init, Idle
  <2> QED
    BY <2>1, XClientAssumption DEF Init, TypeOK, Procs, Results
<1>2. WorkersIdle /\ DialInv /\ ResultInv /\ EveryConnectionOwned
  BY DEF Init, WorkersIdle, DialInv, ResultInv, EveryConnectionOwned, Procs
<1> QED
  BY <1>1, <1>2 DEF PoolInv

LEMMA PooledStep ==
  ASSUME PoolInv, NEW p \in Procs, Pooled(p) PROVE PoolInv'
BY XClientAssumption
   DEF Pooled, Dialled, PoolInv, TypeOK, WorkersIdle, DialInv, ResultInv,
       EveryConnectionOwned, Procs, Results, Range

LEMMA NotPooledStep ==
  ASSUME PoolInv, NEW p \in Procs, NotPooled(p) PROVE PoolInv'
BY XClientAssumption
   DEF NotPooled, CloseStale, PoolInv, TypeOK, WorkersIdle, DialInv, ResultInv,
       EveryConnectionOwned, Procs, Results, Range

LEMMA ConnectStep ==
  ASSUME PoolInv, NEW p \in Procs, Connect(p) PROVE PoolInv'
BY XClientAssumption
   DEF Connect, Unused, PoolInv, TypeOK, WorkersIdle, DialInv, ResultInv,
       EveryConnectionOwned, Procs, Results, Range

LEMMA DialEndsStep ==
  ASSUME PoolInv, NEW p \in Procs,
         ConnectFails(p) \/ NewConn(p) \/ HandshakeError(p) \/ HandshakeTimesOut(p)
  PROVE  PoolInv'
<1>1. CASE ConnectFails(p)
  BY <1>1, XClientAssumption
     DEF ConnectFails, NotDialled, PoolInv, TypeOK, WorkersIdle, DialInv, ResultInv,
         EveryConnectionOwned, Procs, Results, Range
<1>2. CASE NewConn(p)
  BY <1>2, XClientAssumption
     DEF NewConn, Dialled, PoolInv, TypeOK, WorkersIdle, DialInv, ResultInv,
         EveryConnectionOwned, Procs, Results, Range
<1>3. CASE HandshakeError(p)
  BY <1>3, XClientAssumption
     DEF HandshakeError, Abandon, NotDialled, PoolInv, TypeOK, WorkersIdle, DialInv, ResultInv,
         EveryConnectionOwned, Procs, Results, Range
<1>4. CASE HandshakeTimesOut(p)
  BY <1>4, XClientAssumption
     DEF HandshakeTimesOut, Abandon, NotDialled, PoolInv, TypeOK, WorkersIdle, DialInv, ResultInv,
         EveryConnectionOwned, Procs, Results, Range
<1> QED
  BY <1>1, <1>2, <1>3, <1>4
LEMMA CallStep ==
  ASSUME PoolInv, NEW p \in Procs,
         CallStart(p) \/ CallEnds(p) \/ SendReturns(p) \/ (\E r \in Results : CallReturns(p, r))
  PROVE  PoolInv'
<1>1. CASE CallStart(p)
  BY <1>1, XClientAssumption
     DEF CallStart, Start, PoolInv, TypeOK, WorkersIdle, DialInv, ResultInv,
         EveryConnectionOwned, Procs, Results, Range
<1>2. CASE CallEnds(p)
  BY <1>2, XClientAssumption
     DEF CallEnds, PoolInv, TypeOK, WorkersIdle, DialInv, ResultInv,
         EveryConnectionOwned, Procs, Results, Range
<1>3. ASSUME NEW r \in Results, CallReturns(p, r) PROVE PoolInv'
  BY <1>3, XClientAssumption
     DEF CallReturns, PoolInv, TypeOK, WorkersIdle, DialInv, ResultInv,
         EveryConnectionOwned, Procs, Results, Range
<1>4. CASE SendReturns(p)
  BY <1>4, XClientAssumption
     DEF SendReturns, PoolInv, TypeOK, WorkersIdle, DialInv, ResultInv,
         EveryConnectionOwned, Procs, Results, Range
<1> QED
  BY <1>1, <1>2, <1>3, <1>4

LEMMA BroadcastStep ==
  ASSUME PoolInv,
         BroadcastStart \/ BroadcastReturns \/ (\E p \in Procs : WorkerEnds(p))
  PROVE  PoolInv'
<1>1. CASE BroadcastStart
  <2>1. PICK list \in SUBSET Servers :
          /\ bc' = [Idle EXCEPT !.phase = "running", !.list = list]
          /\ pc' = [p \in Procs |-> IF p \in list THEN "dial" ELSE pc[p]]
          /\ addr' = [p \in Procs |-> IF p \in list THEN p ELSE addr[p]]
    BY <1>1 DEF BroadcastStart
  <2>2. bc' = [phase |-> "running", list |-> list, e |-> None, cancelled |-> FALSE,
               reply |-> None]
    BY <2>1 DEF Idle
  <2>3. \A p \in list : pc[p] = "idle"
    BY <1>1 DEF BroadcastStart, PoolInv, WorkersIdle
  <2>4. UNCHANGED <<mu, pool, net, dialler, client, res, ctxEnded>>
    BY <1>1 DEF BroadcastStart
  <2>5. \A p \in Procs : p \notin list => pc'[p] = pc[p] /\ addr'[p] = addr[p]
    BY <2>1 DEF PoolInv, TypeOK
  <2>6. \A p \in list : p \in Procs /\ pc'[p] = "dial" /\ addr'[p] = p /\ p \in Servers
    BY <2>1 DEF Procs
  <2>7. TypeOK'
    <3>1. pc' \in [Procs -> {"idle", "dial", "connect", "handshake", "send", "call", "after"}]
      BY <2>1 DEF PoolInv, TypeOK
    <3>2. addr' \in [Procs -> Servers \cup {None}]
      BY <2>1 DEF PoolInv, TypeOK
    <3>3. bc' \in [phase : {"idle", "running"}, list : SUBSET Servers, e : Results \cup {None},
                  cancelled : BOOLEAN, reply : Servers \cup {None}]
      BY <2>2
    <3>4. \A p \in Procs : pc'[p] \in {"connect", "handshake"} <=> mu' = p
      BY <2>3, <2>4, <2>5, <2>6, XClientAssumption DEF PoolInv, TypeOK
    <3> QED
      BY <2>4, <3>1, <3>2, <3>3, <3>4 DEF PoolInv, TypeOK
  <2>8. WorkersIdle' /\ DialInv' /\ ResultInv' /\ EveryConnectionOwned'
    BY <2>2, <2>3, <2>4, <2>5, <2>6, XClientAssumption
       DEF PoolInv, WorkersIdle, DialInv, ResultInv, EveryConnectionOwned, Procs, Range
  <2> QED
    BY <2>7, <2>8 DEF PoolInv
<1>2. CASE BroadcastReturns
  BY <1>2, XClientAssumption
     DEF BroadcastReturns, AllDone, Idle, PoolInv, TypeOK, WorkersIdle, DialInv, ResultInv,
         EveryConnectionOwned, Procs, Results, Range
<1>3. ASSUME NEW p \in Procs, WorkerEnds(p) PROVE PoolInv'
  <2>1. res[p] \in Results
    BY <1>3 DEF WorkerEnds, PoolInv, ResultInv
  <2>2. /\ bc' \in [phase : {"idle", "running"}, list : SUBSET Servers, e : Results \cup {None},
                    cancelled : BOOLEAN, reply : Servers \cup {None}]
        /\ bc'.phase = bc.phase
    BY <1>3, <2>1 DEF WorkerEnds, Record, PoolInv, TypeOK
  <2> QED
    BY <1>3, <2>2, XClientAssumption
       DEF WorkerEnds, PoolInv, TypeOK, WorkersIdle, DialInv, ResultInv,
           EveryConnectionOwned, Procs, Results, Range
<1> QED
  BY <1>1, <1>2, <1>3

LEMMA OtherStep ==
  ASSUME PoolInv,
         \/ Close \/ ContextEnds \/ UNCHANGED vars
         \/ \E c \in Conns : HandshakeEnds(c) \/ HandshakeFails(c) \/ Breaks(c)
  PROVE  PoolInv'
<1>1. CASE Close
  BY <1>1, XClientAssumption
     DEF Close, PoolInv, TypeOK, WorkersIdle, DialInv, ResultInv,
         EveryConnectionOwned, Procs, Results, Range
<1>2. CASE ContextEnds
  BY <1>2
     DEF ContextEnds, PoolInv, TypeOK, WorkersIdle, DialInv, ResultInv,
         EveryConnectionOwned, Procs, Results, Range
<1>3. CASE UNCHANGED vars
  BY <1>3
     DEF vars, PoolInv, TypeOK, WorkersIdle, DialInv, ResultInv, EveryConnectionOwned,
         Procs, Results, Range
<1>4. ASSUME NEW c \in Conns, HandshakeEnds(c) \/ HandshakeFails(c) \/ Breaks(c)
      PROVE PoolInv'
  BY <1>4
     DEF HandshakeEnds, HandshakeFails, Breaks, PoolInv, TypeOK, WorkersIdle, DialInv,
         ResultInv, EveryConnectionOwned, Procs, Results, Range
<1> QED
  BY <1>1, <1>2, <1>3, <1>4

LEMMA PoolInvKept == PoolInv /\ [Next]_vars => PoolInv'
BY PooledStep, NotPooledStep, ConnectStep, DialEndsStep, CallStep, BroadcastStep, OtherStep
   DEF Next, DialStep

-----------------------------------------------------------------------------
(* A Broadcast has cancelled exactly when it has an error; that error is   *)
(* not "cancelled", which only a call it has cancelled returns; a reply is *)
(* of a worker that ended well, and without an error all that ended did.   *)
BroadcastInv ==
  /\ bc.phase = "idle" => bc.e = None /\ bc.reply = None
  /\ bc.cancelled <=> bc.e # None
  /\ bc.e # "cancelled"
  /\ \A s \in Servers : pc[s] = "after" /\ res[s] = "cancelled" => bc.cancelled
  /\ bc.reply # None => pc[bc.reply] = "idle" /\ res[bc.reply] = "ok"
  /\ bc.e = None => \A s \in bc.list : pc[s] = "idle" => res[s] = "ok"

LEMMA BroadcastInvInit == Init => BroadcastInv
BY XClientAssumption DEF Init, Idle, BroadcastInv, Procs, Results

LEMMA BroadcastInvKept == PoolInv /\ BroadcastInv /\ [Next]_vars => BroadcastInv'
<1> SUFFICES ASSUME PoolInv, BroadcastInv, [Next]_vars PROVE BroadcastInv'
  OBVIOUS
<1> USE DEF PoolInv, TypeOK
<1>1. ASSUME NEW p \in Procs, DialStep(p) PROVE BroadcastInv'
  <2>1. UNCHANGED bc /\ pc[p] # "idle"
    BY <1>1 DEF DialStep, Pooled, NotPooled, Connect, ConnectFails, NewConn, HandshakeError,
                HandshakeTimesOut
  <2>2. /\ pc'[p] # "idle"
        /\ pc'[p] = "after" => res'[p] = "failed"
        /\ \A q \in Procs : q # p => pc'[q] = pc[q] /\ res'[q] = res[q]
    <3>1. CASE Pooled(p) \/ NewConn(p)
      BY <3>1 DEF Pooled, NewConn, Dialled
    <3>2. CASE NotPooled(p) \/ Connect(p)
      BY <3>2 DEF NotPooled, Connect
    <3>3. CASE ConnectFails(p) \/ HandshakeError(p) \/ HandshakeTimesOut(p)
      BY <3>3 DEF ConnectFails, HandshakeError, HandshakeTimesOut, NotDialled
    <3> QED
      BY <1>1, <3>1, <3>2, <3>3 DEF DialStep
  <2> QED
    BY <2>1, <2>2 DEF BroadcastInv, Procs
<1>2. ASSUME NEW p \in Procs, CallStart(p) \/ CallEnds(p) PROVE BroadcastInv'
  <2>1. p \notin Servers /\ UNCHANGED bc
    BY <1>2, XClientAssumption DEF CallStart, CallEnds
  <2>2. \A q \in Servers : pc'[q] = pc[q] /\ res'[q] = res[q]
    BY <1>2, <2>1 DEF CallStart, Start, CallEnds, Procs
  <2> QED
    BY <2>1, <2>2 DEF BroadcastInv
<1>3. ASSUME NEW p \in Procs, NEW r \in Results, CallReturns(p, r) PROVE BroadcastInv'
  BY <1>3 DEF CallReturns, BroadcastInv, Procs, Results
<1>8. ASSUME NEW p \in Procs, SendReturns(p) PROVE BroadcastInv'
  BY <1>8 DEF SendReturns, BroadcastInv, Procs
<1>4. ASSUME NEW p \in Procs, WorkerEnds(p) PROVE BroadcastInv'
  <2>1. /\ p \in Servers /\ pc[p] = "after" /\ res[p] \in Results /\ UNCHANGED res
        /\ pc' = [pc EXCEPT ![p] = "idle"] /\ bc' = Record(res[p], p)
    BY <1>4 DEF WorkerEnds, ResultInv
  <2>2. CASE res[p] = "ok"
    BY <2>1, <2>2, XClientAssumption DEF Record, BroadcastInv, WorkersIdle, Procs
  <2>3. CASE res[p] # "ok"
    BY <2>1, <2>3, XClientAssumption DEF Record, BroadcastInv, WorkersIdle, Procs, Results
  <2> QED
    BY <2>2, <2>3
<1>5. CASE BroadcastStart
  <2>1. PICK list \in SUBSET Servers :
          /\ bc' = [Idle EXCEPT !.phase = "running", !.list = list]
          /\ pc' = [p \in Procs |-> IF p \in list THEN "dial" ELSE pc[p]]
    BY <1>5 DEF BroadcastStart
  <2>2. bc' = [phase |-> "running", list |-> list, e |-> None, cancelled |-> FALSE,
               reply |-> None]
    BY <2>1 DEF Idle
  <2>3. \A s \in Servers : pc'[s] # "after" /\ (s \in list => pc'[s] # "idle")
    BY <1>5, <2>1 DEF BroadcastStart, WorkersIdle, Procs
  <2> QED
    BY <2>2, <2>3, XClientAssumption DEF BroadcastInv, Results
<1>6. CASE BroadcastReturns
  BY <1>6, XClientAssumption DEF BroadcastReturns, AllDone, Idle, BroadcastInv, Results
<1>7. CASE \/ Close \/ ContextEnds \/ UNCHANGED vars
           \/ \E c \in Conns : HandshakeEnds(c) \/ HandshakeFails(c) \/ Breaks(c)
  <2>1. UNCHANGED <<bc, pc, res>>
    BY <1>7 DEF Close, ContextEnds, vars, HandshakeEnds, HandshakeFails, Breaks
  <2> QED
    BY <2>1 DEF BroadcastInv
<1> QED
  BY <1>1, <1>2, <1>3, <1>4, <1>5, <1>6, <1>7, <1>8 DEF Next

-----------------------------------------------------------------------------
(* The variables keep their types, and xc.mu is held by exactly the        *)
(* goroutine that connects or shakes hands in dial.                        *)
THEOREM TypeCorrect == Spec => []TypeOK
<1>1. PoolInv => TypeOK
  BY DEF PoolInv
<1> QED
  BY <1>1, InitHolds, PoolInvKept, PTL DEF Spec

(* dial never forgets a connection: whatever fails or times out while      *)
(* connecting and whoever closes the pool meanwhile.                       *)
THEOREM NoConnectionLost == Spec => []EveryConnectionOwned
<1>1. PoolInv => EveryConnectionOwned
  BY DEF PoolInv
<1> QED
  BY <1>1, InitHolds, PoolInvKept, PTL DEF Spec

(* The first error of a Broadcast, which cancels the other calls, is not   *)
(* one of those that the cancelling brings about.                          *)
THEOREM GenuineError == Spec => []ErrorIsGenuine
<1>1. BroadcastInv => ErrorIsGenuine
  BY DEF BroadcastInv, ErrorIsGenuine
<1> QED
  BY <1>1, InitHolds, PoolInvKept, BroadcastInvInit, BroadcastInvKept, PTL DEF Spec

(* A Broadcast that returns no error has been answered by all servers.     *)
THEOREM AllAnswered == Spec => []AnsweredByAll
<1>1. PoolInv /\ BroadcastInv => AnsweredByAll
  BY DEF PoolInv, TypeOK, BroadcastInv, AnsweredByAll, AllDone
<1> QED
  BY <1>1, InitHolds, PoolInvKept, BroadcastInvInit, BroadcastInvKept, PTL DEF Spec
=============================================================================
