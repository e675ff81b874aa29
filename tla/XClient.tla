------------------------------- MODULE XClient -------------------------------
(***************************************************************************)
(* gee-rpc's client of many servers (xclient/xclient.go) and the dialling  *)
(* under it (client.go: XDial, dialTimeout, NewClient, NewHTTPClient).  A  *)
(* pool holds one Client per server; dial holds xc.mu for as long as it    *)
(* takes to connect.  Goroutines call one server each, or are the workers  *)
(* of a Broadcast, one per server.  What a Client does with a call is the  *)
(* module RpcClient; here it answers, fails, or ends with its context.     *)
(***************************************************************************)
EXTENDS Integers, FiniteSets, Functions

CONSTANTS Servers,         \* addresses, and the Broadcast worker of each
          Callers,         \* goroutines that use Call
          Conns,           \* bound: connections and dialling goroutines alive at once
          ConnectTimeout,  \* whether opt.ConnectTimeout is set
          None

Procs   == Servers \cup Callers
Results == {"ok", "failed", "cancelled", "ended"}   \* "cancelled": by Broadcast itself

ASSUME XClientAssumption ==
  /\ Servers \cap Callers = {} /\ ConnectTimeout \in BOOLEAN
  /\ None \notin Procs \cup Conns \cup Results

VARIABLES
  mu,       \* who holds xc.mu
  pool,     \* xc.clients
  net,      \* a connection: "open", "dead" (its client is shut down) or "closed"
  dialler,  \* the goroutine of dialTimeout on it: "none", "running", or at ch <- ...
  pc, addr, client, res,   \* of a goroutine: where, its server, its Client, its error
  ctxEnded, \* the context the user gave to Broadcast and Call has ended
  bc        \* the Broadcast: phase, servers, e, whether cancelled, whose reply

vars == <<mu, pool, net, dialler, pc, addr, client, res, ctxEnded, bc>>

Idle == [phase |-> "idle", list |-> {}, e |-> None, cancelled |-> FALSE, reply |-> None]

TypeOK ==
  /\ mu \in Procs \cup {None}
  /\ pool \in [Servers -> Conns \cup {None}]
  /\ net \in [Conns -> {"open", "dead", "closed"}]
  /\ dialler \in [Conns -> {"none", "running", "client", "error"}]
  /\ pc \in [Procs -> {"idle", "dial", "connect", "handshake", "send", "call", "after"}]
  /\ addr \in [Procs -> Servers \cup {None}]
  /\ client \in [Procs -> Conns \cup {None}]
  /\ res \in [Procs -> Results \cup {None}]
  /\ ctxEnded \in BOOLEAN
  /\ bc \in [phase : {"idle", "running"}, list : SUBSET Servers, e : Results \cup {None},
             cancelled : BOOLEAN, reply : Servers \cup {None}]
  /\ \A p \in Procs : pc[p] \in {"connect", "handshake"} <=> mu = p

Init ==
  /\ mu = None
  /\ pool = [s \in Servers |-> None]
  /\ net = [c \in Conns |-> "closed"] /\ dialler = [c \in Conns |-> "none"]
  /\ pc = [p \in Procs |-> "idle"] /\ addr = [p \in Procs |-> None]
  /\ client = [p \in Procs |-> None] /\ res = [p \in Procs |-> None]
  /\ ctxEnded = FALSE
  /\ bc = Idle

-----------------------------------------------------------------------------
(* dial and dialTimeout *)

(* The goroutine leaves dial: with a Client, or with an error *)
Dialled(p, c) ==
  /\ mu' = None
  /\ pc' = [pc EXCEPT ![p] = "send"]
  /\ client' = [client EXCEPT ![p] = c]
  /\ UNCHANGED res

NotDialledLocked(p) ==   \* Variant: the error path does not unlock xc.mu
  /\ UNCHANGED mu
  /\ pc' = [pc EXCEPT ![p] = "after"]
  /\ client' = [client EXCEPT ![p] = None]
  /\ res' = [res EXCEPT ![p] = "failed"]

NotDialled(p) ==
  /\ mu' = None
  /\ pc' = [pc EXCEPT ![p] = "after"]
  /\ client' = [client EXCEPT ![p] = None]
  /\ res' = [res EXCEPT ![p] = "failed"]

(* A Client in the pool that is available *)
Pooled(p) ==
  /\ pc[p] = "dial" /\ mu = None
  /\ pool[addr[p]] # None /\ net[pool[addr[p]]] = "open"
  /\ Dialled(p, pool[addr[p]])
  /\ UNCHANGED <<pool, net, dialler, addr, ctxEnded, bc>>

(* None, or one that is not available any more, which is closed *)
CloseStaleForgets(p) ==   \* Variant: takes it out of the pool without closing it
  /\ pool' = [pool EXCEPT ![addr[p]] = None] /\ UNCHANGED net
CloseStale(p) ==
  /\ pool' = [pool EXCEPT ![addr[p]] = None]
  /\ net' = IF pool[addr[p]] = None THEN net ELSE [net EXCEPT ![pool[addr[p]]] = "closed"]

NotPooled(p) ==
  /\ pc[p] = "dial" /\ mu = None
  /\ pool[addr[p]] # None => net[pool[addr[p]]] # "open"
  /\ CloseStale(p)
  /\ mu' = p
  /\ pc' = [pc EXCEPT ![p] = "connect"]
  /\ UNCHANGED <<dialler, addr, client, res, ctxEnded, bc>>

(* net.DialTimeout, then f runs in a goroutine of its own *)
Unused(c) == net[c] = "closed" /\ dialler[c] = "none" /\ \A p \in Procs : client[p] # c

Connect(p) ==
  /\ pc[p] = "connect"
  /\ \E c \in Conns :
       /\ Unused(c)
       /\ net' = [net EXCEPT ![c] = "open"]
       /\ dialler' = [dialler EXCEPT ![c] = "running"]
       /\ client' = [client EXCEPT ![p] = c]
  /\ pc' = [pc EXCEPT ![p] = "handshake"]
  /\ UNCHANGED <<mu, pool, addr, res, ctxEnded, bc>>

ConnectFails(p) ==
  /\ pc[p] = "connect"
  /\ NotDialled(p)
  /\ UNCHANGED <<pool, net, dialler, addr, ctxEnded, bc>>

(* f: NewClient writes the Option, NewHTTPClient first waits for an answer *)
(* to CONNECT; either may fail, and the peer may never answer.             *)
HandshakeEnds(c) ==
  /\ dialler[c] = "running"
  /\ dialler' = [dialler EXCEPT ![c] = IF net[c] = "open" THEN "client" ELSE "error"]
  /\ UNCHANGED <<mu, pool, net, pc, addr, client, res, ctxEnded, bc>>

HandshakeFails(c) ==
  /\ dialler[c] = "running"
  /\ dialler' = [dialler EXCEPT ![c] = "error"]
  /\ UNCHANGED <<mu, pool, net, pc, addr, client, res, ctxEnded, bc>>

(* dialTimeout receives from ch *)
NewConn(p) ==
  /\ pc[p] = "handshake" /\ dialler[client[p]] = "client"
  /\ dialler' = [dialler EXCEPT ![client[p]] = "none"]
  /\ pool' = [pool EXCEPT ![addr[p]] = client[p]]
  /\ Dialled(p, client[p])
  /\ UNCHANGED <<net, addr, ctxEnded, bc>>

(* "close the connection if client is nil" *)
Abandon(p) == net' = [net EXCEPT ![client[p]] = "closed"]

HandshakeError(p) ==
  /\ pc[p] = "handshake" /\ dialler[client[p]] = "error"
  /\ dialler' = [dialler EXCEPT ![client[p]] = "none"]
  /\ Abandon(p) /\ NotDialled(p)
  /\ UNCHANGED <<pool, addr, ctxEnded, bc>>

(* time.After: f goes on, and will wait for a receiver at ch for ever *)
HandshakeTimesOut(p) ==
  /\ ConnectTimeout /\ pc[p] = "handshake"
  /\ Abandon(p) /\ NotDialled(p)
  /\ UNCHANGED <<pool, dialler, addr, ctxEnded, bc>>

-----------------------------------------------------------------------------
(* Call: discovery has chosen a server (or failed, and nothing happens) *)
Start(p, s) ==
  /\ pc' = [pc EXCEPT ![p] = "dial"]
  /\ addr' = [addr EXCEPT ![p] = s]

CallStart(p) ==
  /\ p \in Callers /\ pc[p] = "idle"
  /\ \E s \in Servers : Start(p, s)
  /\ UNCHANGED <<mu, pool, net, dialler, client, res, ctxEnded, bc>>

(* client.Call sends first, waiting for the senders before it and for the  *)
(* peer to read; whatever becomes of it, Call goes on to wait.             *)
SendReturns(p) ==
  /\ pc[p] = "send"
  /\ pc' = [pc EXCEPT ![p] = "call"]
  /\ UNCHANGED <<mu, pool, net, dialler, addr, client, res, ctxEnded, bc>>

(* Only then it looks at its context: client.Call returns.  A Client that  *)
(* was shut down meanwhile answers nothing.                                *)
CallReturns(p, r) ==
  /\ pc[p] = "call"
  /\ r = "ok" => net[client[p]] = "open"
  /\ r = "ended" => ctxEnded
  /\ r = "cancelled" => p \in Servers /\ bc.cancelled /\ ~ctxEnded
  /\ pc' = [pc EXCEPT ![p] = "after"]
  /\ res' = [res EXCEPT ![p] = r]
  /\ client' = [client EXCEPT ![p] = None]
  /\ UNCHANGED <<mu, pool, net, dialler, addr, ctxEnded, bc>>

CallEnds(p) ==
  /\ p \in Callers /\ pc[p] = "after"
  /\ pc' = [pc EXCEPT ![p] = "idle"] /\ addr' = [addr EXCEPT ![p] = None]
  /\ res' = [res EXCEPT ![p] = None]
  /\ UNCHANGED <<mu, pool, net, dialler, client, ctxEnded, bc>>

-----------------------------------------------------------------------------
(* Broadcast *)

BroadcastStart ==
  /\ bc.phase = "idle"
  /\ \E list \in SUBSET Servers :
       /\ bc' = [Idle EXCEPT !.phase = "running", !.list = list]
       /\ pc' = [p \in Procs |-> IF p \in list THEN "dial" ELSE pc[p]]
       /\ addr' = [p \in Procs |-> IF p \in list THEN p ELSE addr[p]]
  /\ UNCHANGED <<mu, pool, net, dialler, client, res, ctxEnded>>

(* What a worker does with its result, under the lock of the Broadcast *)
RecordLast(r, s) ==   \* Variant: the last error is kept, not the first
  IF r = "ok" THEN IF bc.reply = None THEN [bc EXCEPT !.reply = s] ELSE bc
  ELSE [bc EXCEPT !.e = r, !.cancelled = TRUE]
RecordOnly(r, s) ==   \* Variant: no cancel
  IF r = "ok" THEN IF bc.reply = None THEN [bc EXCEPT !.reply = s] ELSE bc
  ELSE IF bc.e = None THEN [bc EXCEPT !.e = r] ELSE bc
RecordReplyAlways(r, s) ==   \* Variant: the clone of a call that failed is copied too
  IF r = "ok" \/ bc.reply = None THEN [bc EXCEPT !.reply = s] ELSE bc

Record(r, s) ==
  IF r = "ok" THEN IF bc.reply = None THEN [bc EXCEPT !.reply = s] ELSE bc
  ELSE IF bc.e = None THEN [bc EXCEPT !.e = r, !.cancelled = TRUE] ELSE bc

WorkerEnds(s) ==
  /\ s \in Servers /\ pc[s] = "after"
  /\ bc' = Record(res[s], s)
  /\ pc' = [pc EXCEPT ![s] = "idle"] /\ addr' = [addr EXCEPT ![s] = None]
  /\ UNCHANGED <<mu, pool, net, dialler, client, res, ctxEnded>>

(* wg.Wait, and return e *)
AllDone == \A s \in Servers : pc[s] = "idle"

BroadcastReturns ==
  /\ bc.phase = "running" /\ AllDone
  /\ bc' = Idle
  /\ res' = [p \in Procs |-> IF p \in Servers THEN None ELSE res[p]]
  /\ UNCHANGED <<mu, pool, net, dialler, pc, addr, client, ctxEnded>>

-----------------------------------------------------------------------------
(* Close empties the pool; later calls fill it again *)
Close ==
  /\ mu = None
  /\ net' = [c \in Conns |-> IF c \in Range(pool) THEN "closed" ELSE net[c]]
  /\ pool' = [s \in Servers |-> None]
  /\ UNCHANGED <<mu, dialler, pc, addr, client, res, ctxEnded, bc>>

(* The environment: a connection in use breaks, the user's context ends *)
Breaks(c) ==
  /\ net[c] = "open" /\ dialler[c] = "none"
  /\ net' = [net EXCEPT ![c] = "dead"]
  /\ UNCHANGED <<mu, pool, dialler, pc, addr, client, res, ctxEnded, bc>>

ContextEnds ==
  /\ ~ctxEnded /\ ctxEnded' = TRUE
  /\ UNCHANGED <<mu, pool, net, dialler, pc, addr, client, res, bc>>

DialStep(p) ==
  \/ Pooled(p) \/ NotPooled(p) \/ Connect(p) \/ ConnectFails(p)
  \/ NewConn(p) \/ HandshakeError(p) \/ HandshakeTimesOut(p)

Next ==
  \/ \E p \in Procs : \/ DialStep(p) \/ CallStart(p) \/ CallEnds(p) \/ WorkerEnds(p)
                      \/ SendReturns(p)
                      \/ \E r \in Results : CallReturns(p, r)
  \/ \E c \in Conns : HandshakeEnds(c) \/ HandshakeFails(c) \/ Breaks(c)
  \/ BroadcastStart \/ BroadcastReturns \/ Close \/ ContextEnds

Spec == Init /\ [][Next]_vars

(* Goroutines run, timers fire, a call that has been sent ends with its    *)
(* context, a Write on a closed connection returns, and a waiter for a     *)
(* sync.Mutex gets it in the end.  A Write on any other connection may     *)
(* block for as long as the peer does not read.                            *)
FairSpec ==
  /\ Spec
  /\ \A p \in Procs : /\ SF_vars(Pooled(p) \/ NotPooled(p))
                      /\ WF_vars(ConnectFails(p)) /\ WF_vars(HandshakeTimesOut(p))
                      /\ WF_vars(CallEnds(p)) /\ WF_vars(WorkerEnds(p))
                      /\ WF_vars(SendReturns(p) /\ net[client[p]] = "closed")
                      /\ WF_vars(\E r \in {"cancelled", "ended"} : CallReturns(p, r))
  /\ WF_vars(BroadcastReturns)

-----------------------------------------------------------------------------
(* No connection is forgotten: one that is not closed is in the pool, or   *)
(* somebody is still dialling it.  Timeouts, failed handshakes, clients    *)
(* that died, and Close among them leave none behind.                      *)
EveryConnectionOwned ==
  \A c \in Conns : net[c] # "closed" =>
    \/ c \in Range(pool)
    \/ \E p \in Procs : pc[p] = "handshake" /\ client[p] = c

(* The error of a Broadcast says what went wrong: it is never one that     *)
(* Broadcast brought about itself by cancelling the other calls.           *)
ErrorIsGenuine == bc.e # "cancelled"

(* A Broadcast without an error has been answered by every server, and its *)
(* reply, if any, is that of a server that answered.                       *)
AnsweredByAll ==
  /\ bc.reply # None => res[bc.reply] = "ok"
  /\ bc.phase = "running" /\ AllDone /\ bc.e = None =>
       \A s \in bc.list : res[s] = "ok"

(* After the first error, or once the user's context has ended, Broadcast  *)
(* returns, though other servers never answer, connect, or shake hands.    *)
(* Only a server that stops reading can keep it, and only until the        *)
(* connection to it is closed: no worker looks at the context that was     *)
(* cancelled before its request is written.                                *)
StuckInSend(s) == pc[s] = "send" /\ net[client[s]] # "closed"

BroadcastEnds ==
  (\A s \in Servers : []<>~StuckInSend(s)) =>
    (bc.phase = "running" /\ (bc.e # None \/ ctxEnded) ~> bc.phase = "idle")
=============================================================================
