------------------------------ MODULE RpcClient ------------------------------
(***************************************************************************)
(* The RPC client of gee-rpc (gee-rpc/day7-registry/client.go): callers    *)
(* that share one connection, the goroutine that receives responses, and   *)
(* the map of pending calls they meet in.                                  *)
(*                                                                         *)
(* Goroutines: one per member of Calls (it runs Client.Call or Client.Go)  *)
(* and the receiver (Client.receive).  Locks: client.sending is `sending'; *)
(* client.mu is held across several steps only by terminateCalls, every    *)
(* other section it protects is a single step, so MuFree stands for it.    *)
(* The network and the server are the environment: they deliver, answer,   *)
(* stay silent, or break the connection.                                   *)
(***************************************************************************)
EXTENDS Naturals, Sequences, FiniteSets

CONSTANTS Calls,      \* invocations made on this client
          SyncCalls,  \* those made by Client.Call; the others by Client.Go
          Deadlined,  \* those whose ctx has a deadline
          Chans,      \* the channels passed as Done
          ChanOf,     \* the Done channel of a call
          CapOf,      \* its capacity
          None,       \* Go's nil, and "nobody" for a lock
          Receiver    \* the receiving goroutine, as a lock holder

(* Client.Call makes a private channel of capacity 1 for its call, and     *)
(* Client.Go panics on an unbuffered channel.                              *)
ASSUME ClientAssumption ==
  /\ SyncCalls \subseteq Calls
  /\ Deadlined \subseteq SyncCalls
  /\ ChanOf \in [Calls -> Chans]
  /\ CapOf \in [Chans -> Nat \ {0}]
  /\ \A c \in SyncCalls, d \in Calls : ChanOf[c] = ChanOf[d] => c = d
  /\ None \notin Calls /\ Receiver \notin Calls /\ None # Receiver

(* Definitions whose comment starts with "Variant" are never part of Spec: *)
(* each is a mistake one could make in the definition that follows it, and *)
(* shows that some property below would notice.                            *)

VARIABLES
  (* callers *)
  pc,        \* where each caller is
  seqOf,     \* Call.Seq, 0 until registered
  outcome,   \* Call.Error or Call.Reply: "none", "reply" or "error"
  result,    \* what Client.Call returned: "none", "reply", "error", "timeout"
  signals,   \* history: how often done() ran for the call
  chan,      \* contents of each Done channel
  (* the client *)
  sending,   \* who holds client.sending
  header,    \* client.header.Seq, shared by the senders
  seq, pending, closing, shutdown,
  (* the receiver *)
  rpc,       \* where it is
  hdr,       \* the header it read
  rcall,     \* the call it took from pending
  todo,      \* calls terminateCalls has still to signal
  (* the network and the server *)
  connUp,    \* neither side has closed the connection
  wire,      \* the seq under which a call's header was written, 0: not written
  complete,  \* calls whose whole request was written
  answered,  \* calls the server has answered
  inbox      \* responses on their way

callerVars == <<pc, seqOf, outcome, result>>
chanVars   == <<signals, chan>>
clientVars == <<header, seq, pending, closing, shutdown>>
recvVars   == <<rpc, hdr, rcall, todo>>
netVars    == <<connUp, wire, complete, answered, inbox>>
vars == <<callerVars, chanVars, sending, clientVars, recvVars, netVars>>

CallerPCs == {"idle", "lock", "register", "write", "body", "unregister",
              "fail", "wait", "expired", "returned"}
RecvPCs   == {"header", "remove", "body", "done", "lastDone", "lock",
              "term", "stopped"}
Kinds     == {"ok", "bad", "err"}
Responses == [seq : Nat, kind : Kinds, of : Calls \cup {None}]

(* The zero codec.Header each turn of the receiver's loop starts with *)
NoHeader  == [seq |-> 0, kind |-> "ok", of |-> None]

CallerType ==
  /\ pc \in [Calls -> CallerPCs]
  /\ seqOf \in [Calls -> Nat]
  /\ outcome \in [Calls -> {"none", "reply", "error"}]
  /\ result \in [Calls -> {"none", "reply", "error", "timeout"}]

ChanType ==
  /\ signals \in [Calls -> Nat]
  /\ chan \in [Chans -> Seq(Calls)]

ClientType ==
  /\ sending \in Calls \cup {None, Receiver}
  /\ header \in Nat
  /\ seq \in Nat \ {0}
  /\ DOMAIN pending \subseteq Nat \ {0}
  /\ \A s \in DOMAIN pending : pending[s] \in Calls
  /\ closing \in BOOLEAN /\ shutdown \in BOOLEAN

RecvType ==
  /\ rpc \in RecvPCs
  /\ hdr \in Responses
  /\ rcall \in Calls \cup {None}
  /\ todo \subseteq Calls

NetType ==
  /\ connUp \in BOOLEAN
  /\ wire \in [Calls -> Nat]
  /\ complete \subseteq Calls /\ answered \subseteq Calls
  /\ inbox \in Seq(Responses)

TypeOK == CallerType /\ ChanType /\ ClientType /\ RecvType /\ NetType

(* Variant: numbering starts with 0, the Seq of a call never registered *)
InitSeqZero == seq = 0

InitSeq == seq = 1

Init ==
  /\ pc = [c \in Calls |-> "idle"]
  /\ seqOf = [c \in Calls |-> 0]
  /\ outcome = [c \in Calls |-> "none"]
  /\ result = [c \in Calls |-> "none"]
  /\ signals = [c \in Calls |-> 0]
  /\ chan = [ch \in Chans |-> << >>]
  /\ sending = None
  /\ header = 0
  /\ InitSeq
  /\ pending = [s \in {} |-> None]
  /\ closing = FALSE /\ shutdown = FALSE
  /\ rpc = "header"
  /\ hdr = NoHeader
  /\ rcall = None
  /\ todo = {}
  /\ connUp = TRUE
  /\ wire = [c \in Calls |-> 0]
  /\ complete = {} /\ answered = {} /\ inbox = << >>

-----------------------------------------------------------------------------
(* Shared pieces *)

MuFree == rpc # "term"

(* pending[seq], nil when the map has no such key *)
Lookup(s) == IF s \in DOMAIN pending THEN pending[s] ELSE None

(* removeCall: what it leaves in the map *)
RemoveCallKeeps(s) == pending' = pending   \* Variant: no delete
RemoveCall(s) == pending' = [t \in DOMAIN pending \ {s} |-> pending[t]]

(* client.sending.Lock(), by a sender or by terminateCalls *)
LockShared(who) == sending' = who   \* Variant: no mutual exclusion
Lock(who) == sending = None /\ sending' = who

(* registerCall refuses once the client was closed or shut down *)
AcceptsAll == TRUE   \* Variant: no check
Accepts == ~closing /\ ~shutdown

(* removeCall after a failed Write returned the call, not nil *)
AssumesPending(c) == TRUE   \* Variant: not compared with nil
StillPending(c) == Lookup(seqOf[c]) # None

(* Where an error takes the receiver: to terminateCalls *)
ErrorQuits == "stopped"   \* Variant: return at once
ErrorLeadsTo == "lock"

(* Call.done(): a send that waits while the channel is full *)
Signal(c) ==
  /\ Len(chan[ChanOf[c]]) < CapOf[ChanOf[c]]
  /\ chan' = [chan EXCEPT ![ChanOf[c]] = Append(@, c)]
  /\ signals' = [signals EXCEPT ![c] = @ + 1]

(* Where the caller goes when send returns: Client.Call selects on its     *)
(* channel, Client.Go returns the Call.                                    *)
AfterSend(c) == IF c \in SyncCalls THEN "wait" ELSE "returned"

SendReturnsLocked(c) ==   \* Variant: the deferred Unlock is missing
  /\ pc' = [pc EXCEPT ![c] = AfterSend(c)]
  /\ UNCHANGED sending

SendReturns(c) ==
  /\ pc' = [pc EXCEPT ![c] = AfterSend(c)]
  /\ sending' = None

-----------------------------------------------------------------------------
(* Callers *)

StartCall(c) ==
  /\ pc[c] = "idle"
  /\ pc' = [pc EXCEPT ![c] = "lock"]
  /\ UNCHANGED <<seqOf, outcome, result, chanVars, sending, clientVars,
                 recvVars, netVars>>

LockSending(c) ==
  /\ pc[c] = "lock"
  /\ Lock(c)
  /\ pc' = [pc EXCEPT ![c] = "register"]
  /\ UNCHANGED <<seqOf, outcome, result, chanVars, clientVars, recvVars,
                 netVars>>

(* registerCall, and the header the call will be written under *)
Register(c) ==
  /\ pc[c] = "register"
  /\ MuFree
  /\ Accepts
  /\ seqOf' = [seqOf EXCEPT ![c] = seq]
  /\ pending' = [t \in DOMAIN pending \cup {seq} |->
                   IF t = seq THEN c ELSE pending[t]]
  /\ seq' = seq + 1
  /\ header' = seq
  /\ pc' = [pc EXCEPT ![c] = "write"]
  /\ UNCHANGED <<outcome, result, chanVars, sending, closing, shutdown,
                 recvVars, netVars>>

(* registerCall returns ErrShutdown *)
RegisterRefused(c) ==
  /\ pc[c] = "register"
  /\ MuFree
  /\ ~Accepts
  /\ outcome' = [outcome EXCEPT ![c] = "error"]
  /\ pc' = [pc EXCEPT ![c] = "fail"]
  /\ UNCHANGED <<seqOf, result, chanVars, sending, clientVars, recvVars,
                 netVars>>

(* The header reaches the server before the body does: the buffer filled,  *)
(* or the body could not be encoded and Flush sent what there was.         *)
WriteHeader(c) ==
  /\ pc[c] = "write"
  /\ connUp
  /\ wire' = [wire EXCEPT ![c] = header]
  /\ pc' = [pc EXCEPT ![c] = "body"]
  /\ UNCHANGED <<seqOf, outcome, result, chanVars, sending, clientVars,
                 recvVars, connUp, complete, answered, inbox>>

WriteBody(c) ==
  /\ pc[c] = "body"
  /\ connUp
  /\ complete' = complete \cup {c}
  /\ SendReturns(c)
  /\ UNCHANGED <<seqOf, outcome, result, chanVars, clientVars, recvVars,
                 connUp, wire, answered, inbox>>

(* The request went to a closed connection from the buffer: GobCodec.Write *)
(* drops the error of Flush and reports success.                           *)
WriteLost(c) ==
  /\ pc[c] \in {"write", "body"}
  /\ ~connUp
  /\ SendReturns(c)
  /\ UNCHANGED <<seqOf, outcome, result, chanVars, clientVars, recvVars,
                 netVars>>

(* An error of Encode: the codec closes the connection *)
WriteFail(c) ==
  /\ pc[c] \in {"write", "body"}
  /\ connUp' = FALSE
  /\ pc' = [pc EXCEPT ![c] = "unregister"]
  /\ UNCHANGED <<seqOf, outcome, result, chanVars, sending, clientVars,
                 recvVars, wire, complete, answered, inbox>>

(* removeCall after a failed Write, when the call is still pending *)
Unregister(c) ==
  /\ pc[c] = "unregister"
  /\ MuFree
  /\ StillPending(c)
  /\ RemoveCall(seqOf[c])
  /\ outcome' = [outcome EXCEPT ![c] = "error"]
  /\ pc' = [pc EXCEPT ![c] = "fail"]
  /\ UNCHANGED <<seqOf, result, chanVars, sending, header, seq, closing,
                 shutdown, recvVars, netVars>>

(* ... and when the receiver has handled it already *)
UnregisterGone(c) ==
  /\ pc[c] = "unregister"
  /\ MuFree
  /\ ~StillPending(c)
  /\ SendReturns(c)
  /\ UNCHANGED <<seqOf, outcome, result, chanVars, clientVars, recvVars,
                 netVars>>

(* done() for a call that send gave up, still under client.sending *)
SendFailed(c) ==
  /\ pc[c] = "fail"
  /\ Signal(c)
  /\ SendReturns(c)
  /\ UNCHANGED <<seqOf, outcome, result, clientVars, recvVars, netVars>>

(* Client.Call's select: the call is done *)
Receive(c) ==
  /\ pc[c] = "wait"
  /\ chan[ChanOf[c]] # << >>
  /\ chan' = [chan EXCEPT ![ChanOf[c]] = Tail(@)]
  /\ result' = [result EXCEPT ![c] = outcome[c]]
  /\ pc' = [pc EXCEPT ![c] = "returned"]
  /\ UNCHANGED <<seqOf, outcome, signals, sending, clientVars, recvVars,
                 netVars>>

(* Client.Call's select: ctx is done *)
Expire(c) ==
  /\ pc[c] = "wait"
  /\ c \in Deadlined
  /\ pc' = [pc EXCEPT ![c] = "expired"]
  /\ UNCHANGED <<seqOf, outcome, result, chanVars, sending, clientVars,
                 recvVars, netVars>>

(* ... removeCall, and the error Client.Call returns then *)
Forget(c) ==
  /\ pc[c] = "expired"
  /\ MuFree
  /\ RemoveCall(seqOf[c])
  /\ result' = [result EXCEPT ![c] = "timeout"]
  /\ pc' = [pc EXCEPT ![c] = "returned"]
  /\ UNCHANGED <<seqOf, outcome, chanVars, sending, header, seq, closing,
                 shutdown, recvVars, netVars>>

(* A user of Client.Go takes a finished call from its channel *)
Drain(ch) ==
  /\ ch \notin {ChanOf[c] : c \in SyncCalls}
  /\ chan[ch] # << >>
  /\ chan' = [chan EXCEPT ![ch] = Tail(@)]
  /\ UNCHANGED <<callerVars, signals, sending, clientVars, recvVars, netVars>>

(* Client.Close; a second one returns ErrShutdown and changes nothing *)
Close ==
  /\ MuFree
  /\ ~closing
  /\ closing' = TRUE
  /\ connUp' = FALSE
  /\ UNCHANGED <<callerVars, chanVars, sending, header, seq, pending,
                 shutdown, recvVars, wire, complete, answered, inbox>>

-----------------------------------------------------------------------------
(* The receiver *)

RecvHeader ==
  /\ rpc = "header"
  /\ inbox # << >>
  /\ hdr' = Head(inbox)
  /\ inbox' = Tail(inbox)
  /\ rpc' = "remove"
  /\ UNCHANGED <<callerVars, chanVars, sending, clientVars, rcall, todo,
                 connUp, wire, complete, answered>>

RecvHeaderFail ==
  /\ rpc = "header"
  /\ ~connUp
  /\ rpc' = ErrorLeadsTo
  /\ UNCHANGED <<callerVars, chanVars, sending, clientVars, hdr, rcall, todo,
                 netVars>>

(* call := client.removeCall(h.Seq) *)
RecvRemove ==
  /\ rpc = "remove"
  /\ rcall' = Lookup(hdr.seq)
  /\ RemoveCall(hdr.seq)
  /\ rpc' = "body"
  /\ UNCHANGED <<callerVars, chanVars, sending, header, seq, closing,
                 shutdown, hdr, todo, netVars>>

(* ReadBody fails when the connection is gone, or when the body is not of  *)
(* the type of the caller's Reply; a body nobody waits for is discarded.   *)
BodyResults ==
  IF rcall # None /\ hdr.kind = "bad" THEN {"failed"}
  ELSE {"read"} \cup (IF connUp THEN {} ELSE {"failed"})

Decoded(r) == IF r = "read" /\ hdr.kind = "ok" THEN "reply" ELSE "error"

RecvBody ==
  /\ rpc = "body"
  /\ \E r \in BodyResults :
       IF rcall = None
       THEN /\ rpc' = IF r = "failed" THEN ErrorLeadsTo ELSE "header"
            /\ hdr' = NoHeader
            /\ UNCHANGED outcome
       ELSE /\ rpc' = IF r = "failed" THEN "lastDone" ELSE "done"
            /\ outcome' = [outcome EXCEPT ![rcall] = Decoded(r)]
            /\ UNCHANGED hdr
  /\ UNCHANGED <<pc, seqOf, result, chanVars, sending, clientVars, rcall,
                 todo, netVars>>

(* call.done(), then the next header, or the end of the loop *)
RecvDone ==
  /\ rpc \in {"done", "lastDone"}
  /\ Signal(rcall)
  /\ rcall' = None
  /\ hdr' = NoHeader
  /\ rpc' = IF rpc = "done" THEN "header" ELSE ErrorLeadsTo
  /\ UNCHANGED <<callerVars, sending, clientVars, todo, netVars>>

(* terminateCalls: both locks, then every pending call in map order *)
TermLock ==
  /\ rpc = "lock"
  /\ Lock(Receiver)
  /\ shutdown' = TRUE
  /\ todo' = {pending[s] : s \in DOMAIN pending}
  /\ rpc' = "term"
  /\ UNCHANGED <<callerVars, chanVars, header, seq, pending, closing, hdr,
                 rcall, netVars>>

TermCall(c) ==
  /\ rpc = "term"
  /\ c \in todo
  /\ outcome' = [outcome EXCEPT ![c] = "error"]
  /\ Signal(c)
  /\ todo' = todo \ {c}
  /\ UNCHANGED <<pc, seqOf, result, sending, clientVars, rpc, hdr, rcall,
                 netVars>>

TermEnd ==
  /\ rpc = "term"
  /\ todo = {}
  /\ sending' = None
  /\ rpc' = "stopped"
  /\ UNCHANGED <<callerVars, chanVars, clientVars, hdr, rcall, todo, netVars>>

-----------------------------------------------------------------------------
(* The other side *)

(* The server answers a request once: with an error as soon as it has the  *)
(* header, with a reply when it has the body.                              *)
ServerRespond(c, k) ==
  /\ connUp
  /\ wire[c] # 0
  /\ c \notin answered
  /\ k # "err" => c \in complete
  /\ answered' = answered \cup {c}
  /\ inbox' = Append(inbox, [seq |-> wire[c], kind |-> k, of |-> c])
  /\ UNCHANGED <<callerVars, chanVars, sending, clientVars, recvVars, connUp,
                 wire, complete>>

ConnBreak ==
  /\ connUp
  /\ connUp' = FALSE
  /\ UNCHANGED <<callerVars, chanVars, sending, clientVars, recvVars, wire,
                 complete, answered, inbox>>

(* Everything is over *)
Finished ==
  /\ \A c \in Calls : pc[c] = "returned"
  /\ \A c \in Calls \ SyncCalls : chan[ChanOf[c]] = << >>
  /\ rpc = "stopped"
  /\ UNCHANGED vars

-----------------------------------------------------------------------------
Send(c) ==
  \/ LockSending(c) \/ Register(c) \/ RegisterRefused(c)
  \/ Unregister(c) \/ UnregisterGone(c) \/ SendFailed(c)

Write(c) == WriteHeader(c) \/ WriteBody(c) \/ WriteLost(c) \/ WriteFail(c)

Await(c) == Receive(c) \/ Expire(c) \/ Forget(c)

Receiving ==
  \/ RecvHeader \/ RecvHeaderFail \/ RecvRemove \/ RecvBody \/ RecvDone
  \/ TermLock \/ (\E c \in Calls : TermCall(c)) \/ TermEnd

CallerStep(c) == StartCall(c) \/ Send(c) \/ Write(c) \/ Await(c)

Next ==
  \/ \E c \in Calls : CallerStep(c)
  \/ \E ch \in Chans : Drain(ch)
  \/ Close
  \/ Receiving
  \/ \E c \in Calls, k \in Kinds : ServerRespond(c, k)
  \/ ConnBreak
  \/ Finished

Spec == Init /\ [][Next]_vars

(* The Go scheduler runs every goroutine that can run; sync.Mutex hands    *)
(* itself to a waiter that has starved, hence SF for the two lock waits.   *)
(* The deadline of a ctx does pass.  Nothing is assumed of the server, of  *)
(* the user who may Close and need not read Done, or of the connection     *)
(* breaking.                                                               *)
SchedulerFairness ==
  /\ \A c \in Calls :
       /\ SF_vars(LockSending(c))
       /\ WF_vars(Register(c) \/ RegisterRefused(c))
       /\ WF_vars(Unregister(c) \/ UnregisterGone(c))
       /\ WF_vars(SendFailed(c))
       /\ WF_vars(Await(c))
       /\ WF_vars(TermCall(c))
  /\ WF_vars(RecvHeader \/ RecvHeaderFail)
  /\ WF_vars(RecvRemove) /\ WF_vars(RecvBody) /\ WF_vars(RecvDone)
  /\ SF_vars(TermLock) /\ WF_vars(TermEnd)

(* A Write to the network ends: the peer reads, or the connection fails *)
WriteFairness == \A c \in Calls : WF_vars(Write(c))

(* The peer may stop reading, so that a Write never ends *)
StalledPeerSpec == Spec /\ SchedulerFairness

FairSpec == StalledPeerSpec /\ WriteFairness
-----------------------------------------------------------------------------
(* Properties *)

(* No call is completed twice: done() runs at most once, although the      *)
(* receiver, the failure path of send and terminateCalls may all come to   *)
(* the same call (send, receive and terminateCalls in client.go).          *)
SignalledAtMostOnce == \A c \in Calls : signals[c] <= 1

(* The response about to be decoded into a caller's Reply answers that     *)
(* caller's request: seq, client.header and pending agree even though all  *)
(* senders share them.                                                     *)
ReplyMatchesRequest ==
  rpc \in {"body", "done", "lastDone"} /\ rcall # None => rcall = hdr.of

(* A caller that is told its call succeeded has had its whole request      *)
(* written and answered; an ignored Flush error never counts as success.   *)
ReplyWasServed ==
  \A c \in Calls : outcome[c] = "reply" => c \in complete \cap answered

(* Once the receiver has stopped nobody is left behind: every call that    *)
(* was ever registered is signalled or gave up by its own deadline.        *)
NoOrphan ==
  rpc = "stopped" =>
    \A c \in Calls : seqOf[c] # 0 => signals[c] = 1 \/ result[c] = "timeout"

(* The calls a Done channel was given to, and one with room for them all,  *)
(* as the private channel of Client.Call always has                        *)
Users(ch) == {c \in Calls : ChanOf[c] = ch}
Roomy(ch) == IsFiniteSet(Users(ch)) /\ Cardinality(Users(ch)) <= CapOf[ch]

AboutToSignal(c) ==
  \/ pc[c] = "fail"
  \/ rpc \in {"done", "lastDone"} /\ rcall = c
  \/ c \in todo

(* done() waits while the channel is full, in send and in terminateCalls   *)
(* with client.sending or both locks held: then nobody can send, time out  *)
(* or close.  It never waits for a channel with room for its calls, though *)
(* the user may not take a single one out.                                 *)
DoneHasRoom ==
  \A c \in Calls : AboutToSignal(c) /\ Roomy(ChanOf[c]) =>
    Len(chan[ChanOf[c]]) < CapOf[ChanOf[c]]

(* After terminateCalls has marked the client as shut down, no request is  *)
(* registered and none reaches the wire.                                   *)
NothingSentAfterShutdown ==
  [][shutdown => seq' = seq /\ wire' = wire /\ complete' = complete]_vars

(* A call with a deadline returns, whatever the server does, provided the  *)
(* writes of its requests end, and though the users of Client.Go never     *)
(* read their channels, as long as these have room for their calls.        *)
DeadlinedCallReturns ==
  \A c \in Deadlined : pc[c] = "lock" ~> pc[c] = "returned"

(* gee-rpc/doc/geerpc-day4.md:48 promises that the timeout of Client.Call  *)
(* covers the whole call: sending the request, waiting and receiving.      *)
DeadlineCoversSend ==
  \A c \in Deadlined :
    pc[c] \in {"lock", "register", "write", "body"} ~> pc[c] = "returned"

(* When the connection is gone, every call made by then or later ends,     *)
(* with or without a deadline: it is signalled or times out (again with    *)
(* room in the channels, which nobody need read).                          *)
BrokenConnectionEndsCalls ==
  \A c \in Calls :
    (~connUp /\ pc[c] # "idle") ~> (signals[c] > 0 \/ result[c] = "timeout")

(* The client keeps the promises of RpcCall.  A call is open from Client.Go *)
(* or Client.Call on and settled when it is signalled.                      *)
CallStatus ==
  [c \in Calls |-> IF pc[c] = "idle" THEN "idle"
                   ELSE IF signals[c] = 0 THEN "open" ELSE "settled"]
CallVerdict == [c \in Calls |-> IF signals[c] = 0 THEN "none" ELSE outcome[c]]

Promise == INSTANCE RpcCall WITH
  status <- CallStatus, verdict <- CallVerdict, served <- answered

(* Every behaviour of the client is one RpcCall allows: one verdict per    *)
(* call, a reply only from the server, the verdict handed on unchanged.    *)
KeepsPromise == Promise!CallSpec
=============================================================================
