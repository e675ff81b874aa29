------------------------------ MODULE RpcServer ------------------------------
(***************************************************************************)
(* One connection of the gee-rpc server (gee-rpc/day7-registry/server.go): *)
(* ServeConn reads the Option, serveCodec reads requests and starts a      *)
(* handler for each, and each handler starts a worker that runs the method *)
(* while the handler waits for it or for the timeout.                      *)
(*                                                                         *)
(* Goroutines: Loop, and Handler(r) and Worker(r) for each request r.  The *)
(* client is the environment: it writes frames, in order, and may hang up. *)
(***************************************************************************)
EXTENDS Naturals, Sequences, FiniteSets, SequencesExt

CONSTANTS Reqs,      \* the requests of this connection
          Known,     \* those findService finds; the service of another may
                     \* have been registered by the time it is looked for
          BadBody,   \* those whose body does not decode into the arguments
          Timeout,   \* whether Option.HandleTimeout is not 0
          Eager,     \* whether the client writes requests behind the Option
                     \* before the server has read it
          Loop, None

Handler(r) == <<"handler", r>>
Worker(r)  == <<"worker", r>>
Procs      == {Loop} \cup {Handler(r) : r \in Reqs} \cup {Worker(r) : r \in Reqs}

ASSUME ServerAssumption ==
  /\ IsFiniteSet(Reqs)   \* bound: a client writes finitely many requests
  /\ Known \subseteq Reqs /\ BadBody \subseteq Reqs
  /\ Timeout \in BOOLEAN /\ Eager \in BOOLEAN
  /\ None \notin Reqs \cup Procs
  /\ \A r \in Reqs : Loop # Handler(r) /\ Loop # Worker(r)

VARIABLES
  pc,        \* where each goroutine is
  cur,       \* the request whose frames the loop is reading
  optionOK,  \* the Option has the magic number and a known codec
  in,        \* frames on their way to the server
  unsent,    \* frames the client has still to write
  inSync,    \* the decoder stands at a frame boundary and knows the types
  conn,      \* "open", "hungUp" by the client, "broken" by a failed Write,
             \* "closed" by ServeConn
  sending,   \* who holds the lock around responses
  verdict,   \* what the response to a request says: h.Error or the reply
  out        \* frames that reached the client

vars == <<pc, cur, optionOK, in, unsent, inSync, conn, sending, verdict, out>>

Frame(r, p)  == [req |-> r, part |-> p]
Frames       == {Frame(r, p) : r \in Reqs, p \in {"header", "body"}}
Of(p)        == IF p = Loop THEN cur ELSE p[2]

LoopPCs    == {"option", "header", "find", "body", "lock", "head", "tail",
               "wait", "closed"}
HandlerPCs == {"none", "select", "lock", "head", "tail", "waitSent", "done"}
WorkerPCs  == {"none", "call", "called", "lock", "head", "tail", "sent", "done"}
Verdicts   == {"none", "ok", "error", "timeout"}

PlacesOK ==
  /\ pc \in [Procs -> LoopPCs \cup HandlerPCs \cup WorkerPCs]
  /\ pc[Loop] \in LoopPCs
  /\ \A r \in Reqs : pc[Handler(r)] \in HandlerPCs /\ pc[Worker(r)] \in WorkerPCs

TypeOK ==
  /\ PlacesOK
  /\ cur \in Reqs \cup {None}
  /\ optionOK \in BOOLEAN /\ inSync \in BOOLEAN
  /\ in \in Seq(Frames) /\ unsent \in Seq(Frames) /\ out \in Seq(Frames)
  /\ conn \in {"open", "hungUp", "broken", "closed"}
  /\ sending \in Procs \cup {None}
  /\ verdict \in [Reqs -> Verdicts]

(* The client writes its requests in some order, each header before its    *)
(* body (client.sending keeps them whole).                                 *)
FramesOf(order) ==
  [i \in 1..(2 * Len(order)) |->
     Frame(order[(i + 1) \div 2], IF i % 2 = 1 THEN "header" ELSE "body")]

Init ==
  /\ pc = [p \in Procs |-> IF p = Loop THEN "option" ELSE "none"]
  /\ cur = None
  /\ optionOK \in BOOLEAN
  /\ in = << >>
  /\ \E order \in SetToSeqs(Reqs) : unsent = FramesOf(order)
  /\ inSync = TRUE
  /\ conn = "open"
  /\ sending = None
  /\ verdict = [r \in Reqs |-> "none"]
  /\ out = << >>

-----------------------------------------------------------------------------
(* The client *)

ClientWrite ==
  /\ unsent # << >> /\ conn = "open"
  /\ Eager \/ pc[Loop] # "option"
  /\ in' = Append(in, Head(unsent))
  /\ unsent' = Tail(unsent)
  /\ UNCHANGED <<pc, cur, optionOK, inSync, conn, sending, verdict, out>>

(* What has not arrived when the connection ends may be lost *)
HangUp ==
  /\ conn = "open"
  /\ conn' = "hungUp"
  /\ \E n \in 0..Len(in) : in' = SubSeq(in, 1, n)
  /\ UNCHANGED <<pc, cur, optionOK, unsent, inSync, sending, verdict, out>>

-----------------------------------------------------------------------------
(* The loop *)

Goto(p, label) == pc' = [pc EXCEPT ![p] = label]

(* json.NewDecoder reads ahead: what has arrived behind the Option may end *)
(* in a buffer that is dropped with the decoder.                           *)
Swallowed == 0..Len(in)

ReadOption ==
  /\ pc[Loop] = "option"
  /\ optionOK
  /\ \E n \in Swallowed :
       /\ in' = SubSeq(in, n + 1, Len(in))
       /\ inSync' = (n = 0)
  /\ Goto(Loop, "header")
  /\ UNCHANGED <<cur, optionOK, unsent, conn, sending, verdict, out>>

(* No Option, or one that ServeConn refuses: the connection is closed *)
RefuseOption ==
  /\ pc[Loop] = "option"
  /\ ~optionOK \/ conn = "hungUp"
  /\ conn' = "closed"
  /\ Goto(Loop, "closed")
  /\ UNCHANGED <<cur, optionOK, in, unsent, inSync, sending, verdict, out>>

ReadHeader ==
  /\ pc[Loop] = "header"
  /\ in # << >> /\ inSync /\ Head(in).part = "header"
  /\ cur' = Head(in).req
  /\ in' = Tail(in)
  /\ Goto(Loop, "find")
  /\ UNCHANGED <<optionOK, unsent, inSync, conn, sending, verdict, out>>

(* The end of the stream, or bytes that are not a header *)
NoMoreHeadersNoEOF ==   \* Variant: EOF does not end the loop
  \/ conn = "broken"
  \/ in # << >> /\ (~inSync \/ Head(in).part # "header")
NoMoreHeaders ==
  \/ conn = "broken"
  \/ conn = "hungUp" /\ in = << >>
  \/ in # << >> /\ (~inSync \/ Head(in).part # "header")

ReadHeaderFail ==
  /\ pc[Loop] = "header"
  /\ NoMoreHeaders
  /\ Goto(Loop, "wait")
  /\ UNCHANGED <<cur, optionOK, in, unsent, inSync, conn, sending, verdict, out>>

(* findService; on failure readRequest returns without reading the body *)
FindService ==
  /\ pc[Loop] = "find"
  /\ \/ Goto(Loop, "body") /\ UNCHANGED verdict
     \/ /\ cur \notin Known
        /\ Goto(Loop, "lock") /\ verdict' = [verdict EXCEPT ![cur] = "error"]
  /\ UNCHANGED <<cur, optionOK, in, unsent, inSync, conn, sending, out>>

(* ReadBody succeeds: wg.Add and a handler, whose worker starts the method *)
ReadBody ==
  /\ pc[Loop] = "body"
  /\ in # << >> /\ cur \notin BadBody
  /\ in' = Tail(in)
  /\ pc' = [pc EXCEPT ![Loop] = "header", ![Handler(cur)] = "select",
                      ![Worker(cur)] = "call"]
  /\ cur' = None
  /\ UNCHANGED <<optionOK, unsent, inSync, conn, sending, verdict, out>>

(* ReadBody fails: the body is of another type, or never arrives *)
ReadBodyFail ==
  /\ pc[Loop] = "body"
  /\ \/ in # << >> /\ cur \in BadBody /\ in' = Tail(in)
     \/ conn = "broken" /\ UNCHANGED in
     \/ in = << >> /\ conn # "open" /\ UNCHANGED in
  /\ verdict' = [verdict EXCEPT ![cur] = "error"]
  /\ Goto(Loop, "lock")
  /\ UNCHANGED <<cur, optionOK, unsent, inSync, conn, sending, out>>

(* wg.Wait, then cc.Close *)
NobodyWaited == TRUE   \* Variant: no WaitGroup
HandlersDone == \A r \in Reqs : pc[Handler(r)] \in {"none", "done"}

CloseConn ==
  /\ pc[Loop] = "wait"
  /\ HandlersDone
  /\ conn' = "closed"
  /\ Goto(Loop, "closed")
  /\ UNCHANGED <<cur, optionOK, in, unsent, inSync, sending, verdict, out>>

-----------------------------------------------------------------------------
(* sendResponse, by the loop, a handler or a worker *)

AfterSendSame(p) ==   \* Variant: a handler that timed out sends on `sent' too
  IF p = Loop THEN "header" ELSE "sent"
AfterSend(p) == IF p = Loop THEN "header"
                ELSE IF p[1] = "handler" THEN "done" ELSE "sent"

LockFree(p) == sending = None

LockSending(p) ==
  /\ pc[p] = "lock"
  /\ LockFree(p)
  /\ sending' = p
  /\ Goto(p, "head")
  /\ UNCHANGED <<cur, optionOK, in, unsent, inSync, conn, verdict, out>>

(* A frame reaches the client as long as the connection is open *)
Emit(f) == out' = IF conn = "open" THEN Append(out, f) ELSE out

WriteHead(p) ==
  /\ pc[p] = "head"
  /\ Emit(Frame(Of(p), "header"))
  /\ Goto(p, "tail")
  /\ UNCHANGED <<cur, optionOK, in, unsent, inSync, conn, sending, verdict>>

WriteTail(p) ==
  /\ pc[p] = "tail"
  /\ Emit(Frame(Of(p), "body"))
  /\ sending' = None
  /\ Goto(p, AfterSend(p))
  /\ cur' = IF p = Loop THEN None ELSE cur
  /\ UNCHANGED <<optionOK, in, unsent, inSync, conn, verdict>>

(* Write fails to encode something: the codec closes the connection and    *)
(* the error is only logged                                                *)
WriteFail(p) ==
  /\ pc[p] \in {"head", "tail"}
  /\ conn' = "broken"
  /\ sending' = None
  /\ Goto(p, AfterSend(p))
  /\ cur' = IF p = Loop THEN None ELSE cur
  /\ UNCHANGED <<optionOK, in, unsent, inSync, verdict, out>>

-----------------------------------------------------------------------------
(* handleRequest *)

(* The method returns; the worker offers `called' before it answers *)
MethodReturns(r) ==
  /\ pc[Worker(r)] = "call"
  /\ Goto(Worker(r), "called")
  /\ UNCHANGED <<cur, optionOK, in, unsent, inSync, conn, sending, verdict, out>>

(* `called' is unbuffered: the worker answers only when its handler has    *)
(* taken the message, that is, has not timed out.                          *)
CalledBuffered(r) ==   \* Variant: make(chan struct{}, 1)
  /\ pc[Worker(r)] = "called"
  /\ pc' = [pc EXCEPT ![Worker(r)] = "lock",
              ![Handler(r)] = IF @ = "select" THEN "waitSent" ELSE @]
  /\ \E v \in {"ok", "error"} : verdict' = [verdict EXCEPT ![r] = v]
  /\ UNCHANGED <<cur, optionOK, in, unsent, inSync, conn, sending, out>>

Called(r) ==
  /\ pc[Worker(r)] = "called" /\ pc[Handler(r)] = "select"
  /\ pc' = [pc EXCEPT ![Worker(r)] = "lock", ![Handler(r)] = "waitSent"]
  /\ \E v \in {"ok", "error"} : verdict' = [verdict EXCEPT ![r] = v]
  /\ UNCHANGED <<cur, optionOK, in, unsent, inSync, conn, sending, out>>

SentNotAwaited(r) ==   \* Variant: the handler does not receive from `sent'
  /\ pc[Handler(r)] = "waitSent"
  /\ Goto(Handler(r), "done")
  /\ UNCHANGED <<cur, optionOK, in, unsent, inSync, conn, sending, verdict, out>>

(* `sent' is unbuffered too *)
Sent(r) ==
  /\ pc[Worker(r)] = "sent" /\ pc[Handler(r)] = "waitSent"
  /\ pc' = [pc EXCEPT ![Worker(r)] = "done", ![Handler(r)] = "done"]
  /\ UNCHANGED <<cur, optionOK, in, unsent, inSync, conn, sending, verdict, out>>

(* time.After: the handler answers, and nobody receives from `called' *)
TimeOutSilent(r) ==   \* Variant: it gives up without an answer
  /\ Timeout
  /\ pc[Handler(r)] = "select"
  /\ verdict' = [verdict EXCEPT ![r] = "timeout"]
  /\ Goto(Handler(r), "done")
  /\ UNCHANGED <<cur, optionOK, in, unsent, inSync, conn, sending, out>>

TimeOut(r) ==
  /\ Timeout
  /\ pc[Handler(r)] = "select"
  /\ verdict' = [verdict EXCEPT ![r] = "timeout"]
  /\ Goto(Handler(r), "lock")
  /\ UNCHANGED <<cur, optionOK, in, unsent, inSync, conn, sending, out>>

Finished ==
  /\ pc[Loop] = "closed"
  /\ \A r \in Reqs : pc[Worker(r)] \in {"none", "called", "done"}
  /\ UNCHANGED vars

-----------------------------------------------------------------------------
Reading == ReadOption \/ RefuseOption \/ ReadHeader \/ ReadHeaderFail
           \/ FindService \/ ReadBody \/ ReadBodyFail \/ CloseConn

Writing(p) == WriteHead(p) \/ WriteTail(p) \/ WriteFail(p)

Sending(p) == LockSending(p) \/ Writing(p)

Handling(r) == Called(r) \/ Sent(r) \/ TimeOut(r)

Next ==
  \/ ClientWrite \/ HangUp
  \/ Reading
  \/ \E p \in Procs : Sending(p)
  \/ \E r \in Reqs : MethodReturns(r) \/ Handling(r)
  \/ Finished

Spec == Init /\ [][Next]_vars

(* Goroutines run, the mutex is fair to those who starve, timers fire, and *)
(* a client that has begun to write goes on.  A method may run forever.    *)
(* Of a handler and its worker at most one can lock, write or move on, so  *)
(* that they share their conditions.                                       *)
Fairness ==
  /\ WF_vars(ClientWrite)
  /\ WF_vars(Reading \/ Writing(Loop)) /\ SF_vars(LockSending(Loop))
  /\ \A r \in Reqs :
       /\ WF_vars(Handling(r) \/ Writing(Handler(r)) \/ Writing(Worker(r)))
       /\ SF_vars(LockSending(Handler(r)) \/ LockSending(Worker(r)))

FairSpec == Spec /\ Fairness

(* ... and every method returns *)
ReturningSpec == FairSpec /\ \A r \in Reqs : WF_vars(MethodReturns(r))

-----------------------------------------------------------------------------
(* Properties *)

Answered(r) == {Frame(r, "header"), Frame(r, "body")} \subseteq Range(out)

(* A request is answered at most once, with one header and one body,       *)
(* although a handler that timed out and its worker both want to answer    *)
(* (gee-rpc/doc/geerpc-day4.md:192), and responses of concurrent handlers  *)
(* do not mix on the connection: header and body of one response stand     *)
(* side by side.                                                           *)
OneWholeResponse ==
  /\ \A i, j \in DOMAIN out : out[i] = out[j] => i = j
  /\ \A i \in DOMAIN out :
       IF out[i].part = "header"
       THEN i < Len(out) => out[i + 1] = Frame(out[i].req, "body")
       ELSE i > 1 /\ out[i - 1] = Frame(out[i].req, "header")

(* A request the loop has given to a handler or has refused, and one for   *)
(* which a goroutine still runs that will write a response, or may         *)
Accepted(r) == pc[Handler(r)] # "none" \/ verdict[r] # "none"
Answering(r) ==
  \/ pc[Handler(r)] \in {"select", "lock", "head", "tail"}
  \/ pc[Worker(r)] \in {"lock", "head", "tail"}

(* The server closes a connection only behind its handlers: nobody is left *)
(* who could write to the closed codec, be it that the method still runs,  *)
(* and on a connection that was neither hung up nor broken by a failed     *)
(* Write every request that was accepted has its whole response out.       *)
AnsweredBeforeClose ==
  [][pc[Loop] = "wait" /\ pc'[Loop] = "closed" =>
       \A r \in Reqs :
         /\ ~Answering(r)
         /\ Accepted(r) => conn # "open" \/ Answered(r)]_vars

(* A worker is left behind only by a timeout: when the handler of a        *)
(* request that was answered in time is done, so is its worker.            *)
OnlyTimeoutsLeak ==
  \A r \in Reqs : pc[Handler(r)] = "done" /\ verdict[r] # "timeout" =>
                    pc[Worker(r)] = "done"

(* With a handle timeout, a request that was read gets its answer even if  *)
(* its method never returns.                                               *)
AcceptedIsAnswered ==
  \A r \in Reqs :
    pc[Handler(r)] = "select" ~> Answered(r) \/ conn # "open"

(* The connection is given up in the end once the client has hung up: the  *)
(* loop does not wait forever for its handlers.                            *)
HangUpEndsServing == conn = "hungUp" ~> pc[Loop] = "closed"

(* gee-rpc/doc/geerpc-day1.md:304: best effort, the loop ends only when a  *)
(* header cannot be parsed.  The client writes well-formed headers only,   *)
(* so the loop may end only when the connection does.                      *)
LoopOutlivesBadRequests == pc[Loop] = "wait" => conn # "open"

(* gee-rpc/doc/geerpc-day1.md:196 lays a connection out as Option, Header1, *)
(* Body1, Header2, ...: every request behind the Option is read and        *)
(* answered unless the client ends it.                                     *)
RequestsBehindOptionAnswered ==
  \A r \in Reqs :
    optionOK /\ conn = "open" /\ Frame(r, "body") \in Range(in) ~>
      Answered(r) \/ conn \in {"hungUp", "broken"}
=============================================================================
