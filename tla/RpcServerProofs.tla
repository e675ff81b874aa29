--------------------------- MODULE RpcServerProofs ----------------------------
(* Proofs about RpcServer, for every set of requests. *)
EXTENDS RpcServer, SequenceTheorems, FiniteSetTheorems, TLAPS

(* Whoever holds the lock around responses writes one, and nobody else *)
LockInv == \A p \in Procs : pc[p] \in {"head", "tail"} <=> sending = p

(* A handler and its worker are together in one of these places, and the   *)
(* verdict tells whether the timeout parted them                           *)
Together(h, w, v) ==
  \/ h = "none" /\ w = "none" /\ v \in {"none", "error"}
  \/ h = "select" /\ w \in {"call", "called"} /\ v = "none"
  \/ h \in {"lock", "head", "tail", "done"} /\ w \in {"call", "called"} /\ v = "timeout"
  \/ h = "waitSent" /\ w \in {"lock", "head", "tail", "sent"} /\ v \in {"ok", "error"}
  \/ h = "done" /\ w = "done" /\ v \in {"ok", "error"}

PairInv == \A r \in Reqs : Together(pc[Handler(r)], pc[Worker(r)], verdict[r])

(* The request the loop has in its hands belongs to nobody else *)
LoopInv ==
  /\ cur # None <=> pc[Loop] \in {"find", "body", "lock", "head", "tail"}
  /\ cur # None =>
       /\ pc[Handler(cur)] = "none"
       /\ verdict[cur] = IF pc[Loop] \in {"find", "body"} THEN "none" ELSE "error"

(* A header arrives once, for a request nobody knows yet *)
StreamInv ==
  /\ \A i, j \in DOMAIN in : in[i] = in[j] => i = j
  /\ \A i, j \in DOMAIN unsent : unsent[i] = unsent[j] => i = j
  /\ \A i \in DOMAIN in, j \in DOMAIN unsent : in[i] # unsent[j]
  /\ \A r \in Reqs :
       Frame(r, "header") \in Range(in) \cup Range(unsent) =>
         cur # r /\ verdict[r] = "none" /\ pc[Handler(r)] = "none"

(* Of a response that is out only the header, somebody writes the body *)
Half(r) ==
  \/ cur = r /\ pc[Loop] = "tail"
  \/ pc[Handler(r)] = "tail"
  \/ pc[Worker(r)] = "tail"

(* Nobody will answer this request any more *)
Over(r) ==
  \/ pc[Handler(r)] = "done"
  \/ pc[Worker(r)] = "sent"
  \/ pc[Handler(r)] = "none" /\ verdict[r] = "error" /\ cur # r

OutInv ==
  /\ OneWholeResponse
  /\ \A i \in DOMAIN out, r \in Reqs :
       /\ out[i] = Frame(r, "header") => Over(r) \/ Half(r)
       /\ out[i] = Frame(r, "body") => Over(r)
  /\ conn = "open" =>
       \A r \in Reqs :
         /\ Half(r) <=> out # << >> /\ out[Len(out)] = Frame(r, "header")
         /\ Over(r) => Answered(r)

IInv == TypeOK /\ LockInv /\ PairInv /\ LoopInv /\ StreamInv /\ OutInv

-----------------------------------------------------------------------------
(* The goroutines are distinct, and each knows its request. *)
LEMMA ProcFacts ==
  /\ Loop \in Procs /\ None \notin Procs /\ None \notin Reqs
  /\ \A r \in Reqs : /\ Handler(r) \in Procs /\ Worker(r) \in Procs
                     /\ Handler(r) # Loop /\ Worker(r) # Loop
  /\ \A r, s \in Reqs : /\ Handler(r) # Worker(s)
                        /\ Handler(r) = Handler(s) => r = s
                        /\ Worker(r) = Worker(s) => r = s
  /\ \A p \in Procs : p = Loop \/ \E r \in Reqs : p = Handler(r) \/ p = Worker(r)
BY ServerAssumption DEF ServerAssumption, Procs, Handler, Worker

LEMMA SendFacts ==
  /\ Of(Loop) = cur /\ AfterSend(Loop) = "header"
  /\ \A r \in Reqs : /\ Of(Handler(r)) = r /\ AfterSend(Handler(r)) = "done"
                     /\ Of(Worker(r)) = r /\ AfterSend(Worker(r)) = "sent"
BY ServerAssumption DEF ServerAssumption, Of, AfterSend, Handler, Worker

(* Frames are frames of a request, and equal only for one request. *)
LEMMA FrameFacts ==
  /\ \A r \in Reqs, p \in {"header", "body"} :
       /\ Frame(r, p) \in Frames
       /\ Frame(r, p).req = r /\ Frame(r, p).part = p
  /\ \A f \in Frames : /\ f.req \in Reqs /\ f.part \in {"header", "body"}
                       /\ f = Frame(f.req, f.part)
<1>1. \A r \in Reqs, p \in {"header", "body"} :
        /\ Frame(r, p) \in Frames
        /\ Frame(r, p).req = r /\ Frame(r, p).part = p
  BY DEF Frame, Frames
<1>2. ASSUME NEW f \in Frames
      PROVE  f.req \in Reqs /\ f.part \in {"header", "body"} /\ f = Frame(f.req, f.part)
  <2>1. PICK r \in Reqs, p \in {"header", "body"} : f = Frame(r, p)
    BY DEF Frames
  <2> QED BY <2>1, <1>1
<1> QED BY <1>1, <1>2

(* Reading from a stream, or losing its end, leaves a part of it. *)
LEMMA PartOfStream ==
  ASSUME NEW s \in Seq(Frames), NEW m \in 1..(Len(s) + 1), NEW n \in 0..Len(s),
         NEW t, t = SubSeq(s, m, n)
  PROVE  /\ t \in Seq(Frames)
         /\ \A i \in DOMAIN t : i + (m - 1) \in DOMAIN s /\ t[i] = s[i + (m - 1)]
<1>1. SubSeq(s, m, n) \in Seq(Frames)
  BY SubSeqProperties
<1>2. /\ Len(t) = IF m <= n THEN n - m + 1 ELSE 0
      /\ \A i \in 1..(n - m + 1) : t[i] = s[m + i - 1]
  BY SubSeqProperties
<1> QED BY <1>1, <1>2

LEMMA TailOfStream ==
  ASSUME NEW s \in Seq(Frames), s # << >>
  PROVE  /\ Head(s) \in Frames /\ Head(s) = s[1] /\ 1 \in DOMAIN s
         /\ Tail(s) \in Seq(Frames)
         /\ \A i \in DOMAIN Tail(s) : i + 1 \in DOMAIN s /\ Tail(s)[i] = s[i + 1]
BY HeadTailProperties

-----------------------------------------------------------------------------
(* A step keeps the goroutines at places of their own kind. *)
LEMMA PlacesStep ==
  ASSUME TypeOK, LoopInv, [Next]_vars PROVE PlacesOK'
<1> USE ProcFacts, SendFacts DEF TypeOK, PlacesOK, LoopPCs, HandlerPCs, WorkerPCs
<1>1. CASE Reading
  <2>1. CASE ReadBody
    BY <2>1 DEF ReadBody, LoopInv
  <2> QED
    BY <1>1, <2>1 DEF Reading, ReadOption, RefuseOption, ReadHeader, ReadHeaderFail,
        FindService, ReadBodyFail, CloseConn, Goto
<1>2. ASSUME NEW p \in Procs, Sending(p) PROVE PlacesOK'
  <2>1. PICK l : /\ pc' = [pc EXCEPT ![p] = l]
                 /\ l \in {"head", "tail"} \/ l = AfterSend(p)
    BY <1>2 DEF Sending, Writing, LockSending, WriteHead, WriteTail, WriteFail, Goto
  <2>2. CASE p = Loop
    BY <2>1, <2>2
  <2>3. ASSUME NEW r \in Reqs, p = Handler(r) PROVE PlacesOK'
    BY <2>1, <2>3
  <2>4. ASSUME NEW r \in Reqs, p = Worker(r) PROVE PlacesOK'
    BY <2>1, <2>4
  <2> QED BY <2>2, <2>3, <2>4
<1>3. ASSUME NEW r \in Reqs, MethodReturns(r) \/ Handling(r) PROVE PlacesOK'
  <2>1. CASE MethodReturns(r) \/ TimeOut(r)
    BY <2>1 DEF MethodReturns, TimeOut, Goto
  <2>2. CASE Called(r)
    BY <2>2 DEF Called
  <2>3. CASE Sent(r)
    BY <2>3 DEF Sent
  <2> QED BY <1>3, <2>1, <2>2, <2>3 DEF Handling
<1>4. CASE ClientWrite \/ HangUp \/ UNCHANGED vars
  BY <1>4 DEF ClientWrite, HangUp, vars
<1> QED BY <1>1, <1>2, <1>3, <1>4 DEF Next, Finished

(* Who writes a response has a request. *)
LEMMA OfWriter ==
  ASSUME TypeOK, LoopInv, NEW p \in Procs, pc[p] \in {"lock", "head", "tail"}
  PROVE  Of(p) \in Reqs
BY ProcFacts, SendFacts DEF TypeOK, LoopInv

(* A step keeps the variables in their types. *)
LEMMA TypeStep ==
  ASSUME TypeOK, LoopInv, [Next]_vars PROVE TypeOK'
<1>0. PlacesOK' BY PlacesStep
<1> USE <1>0, ProcFacts, SendFacts, FrameFacts DEF TypeOK, Verdicts
<1>1. CASE ClientWrite
  BY <1>1, TailOfStream DEF ClientWrite
<1>2. CASE HangUp
  BY <1>2, PartOfStream DEF HangUp
<1>3. CASE ReadOption
  BY <1>3, PartOfStream DEF ReadOption, Swallowed, Goto
<1>4. CASE RefuseOption
  BY <1>4 DEF RefuseOption, Goto
<1>5. CASE ReadHeader
  BY <1>5, TailOfStream DEF ReadHeader, Goto
<1>6. CASE ReadHeaderFail
  BY <1>6 DEF ReadHeaderFail, Goto
<1>7. CASE FindService
  BY <1>7 DEF FindService, Goto
<1>8. CASE ReadBody
  BY <1>8, TailOfStream DEF ReadBody
<1>9. CASE ReadBodyFail
  <2>1. in' \in Seq(Frames)
    <3>1. (in # << >> /\ in' = Tail(in)) \/ in' = in
      BY <1>9 DEF ReadBodyFail
    <3> QED BY <3>1, TailOfStream
  <2> QED BY <1>9, <2>1 DEF ReadBodyFail
<1>10. CASE CloseConn
  BY <1>10 DEF CloseConn, Goto
<1>11. ASSUME NEW p \in Procs, Sending(p) PROVE TypeOK'
  <2>1. CASE LockSending(p)
    BY <2>1 DEF LockSending, Goto
  <2>2. CASE WriteHead(p)
    <3>1. out' \in Seq(Frames)
      BY <2>2, OfWriter DEF WriteHead, Emit
    <3> QED BY <2>2, <3>1 DEF WriteHead
  <2>3. CASE WriteTail(p)
    <3>1. out' \in Seq(Frames)
      BY <2>3, OfWriter DEF WriteTail, Emit
    <3> QED BY <2>3, <3>1 DEF WriteTail
  <2>4. CASE WriteFail(p)
    BY <2>4 DEF WriteFail, Goto
  <2> QED BY <1>11, <2>1, <2>2, <2>3, <2>4 DEF Sending, Writing
<1>12. ASSUME NEW r \in Reqs, MethodReturns(r) \/ Handling(r) PROVE TypeOK'
  BY <1>12 DEF MethodReturns, Handling, Called, Sent, TimeOut, Goto
<1>13. CASE UNCHANGED vars
  BY <1>13 DEF vars
<1> QED
  BY <1>1, <1>2, <1>3, <1>4, <1>5, <1>6, <1>7, <1>8, <1>9, <1>10, <1>11, <1>12,
     <1>13 DEF Next, Reading, Finished

(* sendResponse: the lock is taken and given back with the place. *)
LEMMA LockStep ==
  ASSUME TypeOK, LockInv, PairInv, LoopInv, [Next]_vars PROVE LockInv'
<1> USE ProcFacts, SendFacts DEF TypeOK, PlacesOK, LockInv
<1>1. CASE Reading
  <2>1. CASE ReadBody
    BY <2>1 DEF ReadBody, LoopInv, PairInv, Together
  <2> QED
    BY <1>1, <2>1 DEF Reading, ReadOption, RefuseOption, ReadHeader, ReadHeaderFail,
        FindService, ReadBodyFail, CloseConn, Goto
<1>2. ASSUME NEW p \in Procs, Sending(p) PROVE LockInv'
  <2>1. CASE LockSending(p)
    BY <2>1 DEF LockSending, LockFree, Goto
  <2>2. CASE WriteHead(p)
    BY <2>2 DEF WriteHead, Goto
  <2>3. CASE WriteTail(p) \/ WriteFail(p)
    BY <2>3 DEF WriteTail, WriteFail, Goto
  <2> QED BY <1>2, <2>1, <2>2, <2>3 DEF Sending, Writing
<1>3. ASSUME NEW r \in Reqs, MethodReturns(r) \/ Handling(r) PROVE LockInv'
  <2>1. CASE MethodReturns(r) \/ TimeOut(r)
    BY <2>1 DEF MethodReturns, TimeOut, Goto
  <2>2. CASE Called(r)
    BY <2>2 DEF Called
  <2>3. CASE Sent(r)
    BY <2>3 DEF Sent
  <2> QED BY <1>3, <2>1, <2>2, <2>3 DEF Handling
<1>4. CASE ClientWrite \/ HangUp \/ UNCHANGED vars
  BY <1>4 DEF ClientWrite, HangUp, vars
<1> QED BY <1>1, <1>2, <1>3, <1>4 DEF Next, Finished

(* The loop, the handlers and the workers stay in step with each other. *)
LEMMA PairStep ==
  ASSUME TypeOK, PairInv, LoopInv, StreamInv, [Next]_vars PROVE PairInv' /\ LoopInv'
<1> USE ProcFacts, SendFacts DEF TypeOK, PlacesOK, LoopInv, PairInv, Together
<1>1. CASE Reading
  <2>1. CASE ReadOption \/ RefuseOption \/ ReadHeaderFail \/ CloseConn
    BY <2>1 DEF ReadOption, RefuseOption, ReadHeaderFail, CloseConn, Goto
  <2>2. CASE ReadHeader
    <3>1. Head(in) \in Frames /\ Head(in) = Frame(Head(in).req, "header")
      BY <2>2, TailOfStream, FrameFacts DEF ReadHeader
    <3>2. Frame(Head(in).req, "header") \in Range(in) /\ Head(in).req \in Reqs
      BY <2>2, <3>1, TailOfStream, FrameFacts DEF ReadHeader, Range
    <3>3. verdict[cur'] = "none" /\ pc[Handler(cur')] = "none" /\ cur' \in Reqs
      BY <2>2, <3>2 DEF ReadHeader, StreamInv
    <3> QED BY <2>2, <3>3 DEF ReadHeader, Goto
  <2>3. CASE FindService
    BY <2>3 DEF FindService, Goto
  <2>4. CASE ReadBody
    BY <2>4 DEF ReadBody
  <2>5. CASE ReadBodyFail
    BY <2>5 DEF ReadBodyFail, Goto
  <2> QED BY <1>1, <2>1, <2>2, <2>3, <2>4, <2>5 DEF Reading
<1>2. ASSUME NEW p \in Procs, Sending(p) PROVE PairInv' /\ LoopInv'
  <2>1. PICK l : /\ pc' = [pc EXCEPT ![p] = l]
                 /\ \/ pc[p] = "lock" /\ l = "head" /\ cur' = cur
                    \/ pc[p] = "head" /\ l = "tail" /\ cur' = cur
                    \/ /\ pc[p] \in {"head", "tail"} /\ l = AfterSend(p)
                       /\ cur' = IF p = Loop THEN None ELSE cur
                 /\ verdict' = verdict
    BY <1>2 DEF Sending, Writing, LockSending, WriteHead, WriteTail, WriteFail, Goto
  <2>2. CASE p = Loop
    BY <2>1, <2>2
  <2>3. ASSUME NEW r \in Reqs, p = Handler(r) PROVE PairInv' /\ LoopInv'
    BY <2>1, <2>3
  <2>4. ASSUME NEW r \in Reqs, p = Worker(r) PROVE PairInv' /\ LoopInv'
    BY <2>1, <2>4
  <2> QED BY <2>2, <2>3, <2>4
<1>3. ASSUME NEW r \in Reqs, MethodReturns(r) \/ Handling(r) PROVE PairInv' /\ LoopInv'
  <2>1. CASE MethodReturns(r)
    BY <2>1 DEF MethodReturns, Goto
  <2>2. CASE TimeOut(r)
    BY <2>2 DEF TimeOut, Goto
  <2>3. CASE Called(r)
    BY <2>3 DEF Called
  <2>4. CASE Sent(r)
    BY <2>4 DEF Sent
  <2> QED BY <1>3, <2>1, <2>2, <2>3, <2>4 DEF Handling
<1>4. CASE ClientWrite \/ HangUp \/ UNCHANGED vars
  BY <1>4 DEF ClientWrite, HangUp, vars
<1> QED BY <1>1, <1>2, <1>3, <1>4 DEF Next, Finished

(* What is on its way: nothing comes twice *)
Once == /\ \A i, j \in DOMAIN in : in[i] = in[j] => i = j
        /\ \A i, j \in DOMAIN unsent : unsent[i] = unsent[j] => i = j
        /\ \A i \in DOMAIN in, j \in DOMAIN unsent : in[i] # unsent[j]

Coming == Range(in) \cup Range(unsent)

(* A stream that loses its front or its end has nothing new in it. *)
LEMMA PartOnce ==
  ASSUME TypeOK, Once, unsent' = unsent, NEW m \in 1..(Len(in) + 1), NEW n \in 0..Len(in),
         in' = SubSeq(in, m, n)
  PROVE  Once' /\ Coming' \subseteq Coming
BY PartOfStream DEF TypeOK, Once, Coming, Range

LEMMA TailOnce ==
  ASSUME TypeOK, Once, unsent' = unsent, in # << >>, in' = Tail(in)
  PROVE  Once' /\ Coming' \subseteq Coming /\ Head(in) \in Coming \ Coming'
BY TailOfStream DEF TypeOK, Once, Coming, Range

(* The client's next frame moves from one stream to the other. *)
LEMMA WriteOnce ==
  ASSUME TypeOK, Once, ClientWrite
  PROVE  Once' /\ Coming' \subseteq Coming
<1>1. /\ Head(unsent) = unsent[1] /\ 1 \in DOMAIN unsent
      /\ \A i \in DOMAIN unsent' : i + 1 \in DOMAIN unsent /\ unsent'[i] = unsent[i + 1]
      /\ \A i \in DOMAIN unsent' : i \in Nat /\ i # 0
  BY TailOfStream DEF ClientWrite, TypeOK
<1>2. \A i \in DOMAIN in' : \/ i \in DOMAIN in /\ in'[i] = in[i]
                            \/ i \notin DOMAIN in /\ i = Len(in) + 1 /\ in'[i] = unsent[1]
  BY <1>1 DEF ClientWrite, TypeOK
<1>3. \A i, j \in DOMAIN in' : in'[i] = in'[j] => i = j
  BY <1>1, <1>2 DEF Once
<1>4. \A i, j \in DOMAIN unsent' : unsent'[i] = unsent'[j] => i = j
  BY <1>1 DEF Once
<1>5. \A i \in DOMAIN in', j \in DOMAIN unsent' : in'[i] # unsent'[j]
  <2> TAKE i \in DOMAIN in', j \in DOMAIN unsent'
  <2>1. j + 1 \in DOMAIN unsent /\ j + 1 # 1 /\ unsent'[j] = unsent[j + 1]
    BY <1>1
  <2> QED BY <1>1, <1>2, <2>1 DEF Once
<1>6. Coming' \subseteq Coming
  BY <1>1, <1>2 DEF Coming, Range
<1> QED BY <1>3, <1>4, <1>5, <1>6 DEF Once

(* A request is read from the stream once. *)
LEMMA StreamStep ==
  ASSUME TypeOK, PairInv, LoopInv, StreamInv, [Next]_vars PROVE StreamInv'
<1> DEFINE Unknown == \A r \in Reqs : Frame(r, "header") \in Coming =>
                        cur # r /\ verdict[r] = "none" /\ pc[Handler(r)] = "none"
<1>a. StreamInv <=> Once /\ Unknown
  BY DEF StreamInv, Once, Coming
<1>b. StreamInv' <=> Once' /\ Unknown'
  BY DEF StreamInv, Once, Coming
<1> USE ProcFacts, SendFacts DEF TypeOK, PlacesOK
<1>1. CASE ClientWrite
  BY <1>a, <1>b, <1>1, WriteOnce DEF ClientWrite
<1>2. CASE HangUp
  BY <1>a, <1>b, <1>2, PartOnce DEF HangUp
<1>3. CASE Reading
  <2>1. CASE ReadOption
    <3>1. PICK n \in 0..Len(in) : in' = SubSeq(in, n + 1, Len(in))
      BY <2>1 DEF ReadOption, Swallowed
    <3>2. n + 1 \in 1..(Len(in) + 1) /\ Len(in) \in 0..Len(in)
      BY <3>1
    <3>3. Once' /\ Coming' \subseteq Coming
      BY <1>a, <2>1, <3>1, <3>2, PartOnce DEF ReadOption
    <3> QED BY <1>a, <1>b, <2>1, <3>3 DEF ReadOption, Goto
  <2>2. CASE RefuseOption \/ ReadHeaderFail \/ CloseConn
    <3>1. Once' /\ Coming' = Coming
      BY <1>a, <2>2 DEF RefuseOption, ReadHeaderFail, CloseConn, Once, Coming
    <3> QED BY <1>a, <1>b, <2>2, <3>1 DEF RefuseOption, ReadHeaderFail, CloseConn, Goto
  <2>3. CASE ReadHeader
    <3>1. Once' /\ Coming' \subseteq Coming /\ Head(in) \in Coming \ Coming'
      BY <1>a, <2>3, TailOnce DEF ReadHeader
    <3>2. Head(in) = Frame(cur', "header")
      BY <2>3, TailOfStream, FrameFacts DEF ReadHeader
    <3> QED BY <1>a, <1>b, <2>3, <3>1, <3>2 DEF ReadHeader, Goto
  <2>4. CASE FindService
    <3>1. Once' /\ Coming' = Coming
      BY <1>a, <2>4 DEF FindService, Once, Coming
    <3> QED BY <1>a, <1>b, <2>4, <3>1 DEF FindService, Goto
  <2>5. CASE ReadBody
    <3>1. Once' /\ Coming' \subseteq Coming
      BY <1>a, <2>5, TailOnce DEF ReadBody
    <3> QED BY <1>a, <1>b, <2>5, <3>1 DEF ReadBody, LoopInv
  <2>6. CASE ReadBodyFail
    <3>1. Once' /\ Coming' \subseteq Coming
      <4>1. unsent' = unsent /\ ((in # << >> /\ in' = Tail(in)) \/ in' = in)
        BY <2>6 DEF ReadBodyFail
      <4>2. CASE in' = in
        BY <1>a, <4>1, <4>2 DEF Once, Coming
      <4> QED BY <1>a, <4>1, <4>2, TailOnce
    <3> QED BY <1>a, <1>b, <2>6, <3>1 DEF ReadBodyFail, Goto
  <2> QED BY <1>3, <2>1, <2>2, <2>3, <2>4, <2>5, <2>6 DEF Reading
<1>4. ASSUME NEW p \in Procs, Sending(p) PROVE StreamInv'
  <2>1. PICK l : /\ pc' = [pc EXCEPT ![p] = l]
                 /\ pc[p] \in {"lock", "head", "tail"}
                 /\ cur' \in {cur, None}
                 /\ verdict' = verdict /\ in' = in /\ unsent' = unsent
    BY <1>4 DEF Sending, Writing, LockSending, WriteHead, WriteTail, WriteFail, Goto
  <2>2. Once' /\ Coming' = Coming
    BY <1>a, <2>1 DEF Once, Coming
  <2>3. \A r \in Reqs : pc[Handler(r)] = "none" => pc'[Handler(r)] = "none"
    BY <2>1
  <2> QED BY <1>a, <1>b, <2>1, <2>2, <2>3
<1>5. ASSUME NEW r \in Reqs, MethodReturns(r) \/ Handling(r) PROVE StreamInv'
  <2>1. /\ in' = in /\ unsent' = unsent /\ cur' = cur
        /\ pc[Handler(r)] # "none" \/ pc' = [pc EXCEPT ![Worker(r)] = "called"]
        /\ \A s \in Reqs \ {r} : verdict'[s] = verdict[s] /\ pc'[Handler(s)] = pc[Handler(s)]
        /\ pc[Handler(r)] = "none" => verdict' = verdict
    BY <1>5 DEF MethodReturns, Handling, Called, Sent, TimeOut, Goto
  <2>2. Once' /\ Coming' = Coming
    BY <1>a, <2>1 DEF Once, Coming
  <2> QED BY <1>a, <1>b, <2>1, <2>2
<1>6. CASE UNCHANGED vars
  BY <1>6, <1>a, <1>b DEF vars, Once, Coming
<1> QED BY <1>1, <1>2, <1>3, <1>4, <1>5, <1>6 DEF Next, Finished

(* Whoever writes is the only one, for a request that is not over. *)
LEMMA WriterAlone ==
  ASSUME TypeOK, LockInv, PairInv, LoopInv, NEW p \in Procs, pc[p] \in {"head", "tail"}
  PROVE  /\ Of(p) \in Reqs /\ ~Over(Of(p))
         /\ \A r \in Reqs : Half(r) <=> pc[p] = "tail" /\ r = Of(p)
<1> USE ProcFacts, SendFacts DEF TypeOK, PlacesOK, PairInv, Together, LoopInv, Over, Half
<1>0. \A q \in Procs : q # p => pc[q] \notin {"head", "tail"}
  BY DEF LockInv
<1>1. CASE p = Loop
  BY <1>0, <1>1
<1>2. ASSUME NEW r \in Reqs, p = Handler(r)
      PROVE  Of(p) = r /\ ~Over(r) /\ \A s \in Reqs : Half(s) <=> pc[p] = "tail" /\ s = r
  BY <1>0, <1>2
<1>3. ASSUME NEW r \in Reqs, p = Worker(r)
      PROVE  Of(p) = r /\ ~Over(r) /\ \A s \in Reqs : Half(s) <=> pc[p] = "tail" /\ s = r
  BY <1>0, <1>3
<1> QED BY <1>1, <1>2, <1>3

(* With the header out its response is half done, with the body over. *)
LEMMA WriterMoves ==
  ASSUME TypeOK, LockInv, PairInv, LoopInv, NEW p \in Procs, pc[p] \in {"head", "tail"},
         verdict' = verdict
  PROVE  /\ pc' = [pc EXCEPT ![p] = "tail"] /\ cur' = cur =>
              \A r \in Reqs : (Half(r)' <=> r = Of(p)) /\ (Over(r)' <=> Over(r))
         /\ pc' = [pc EXCEPT ![p] = AfterSend(p)]
              /\ cur' = (IF p = Loop THEN None ELSE cur) =>
              \A r \in Reqs : ~Half(r)' /\ (Over(r)' <=> Over(r) \/ r = Of(p))
<1> USE ProcFacts, SendFacts DEF TypeOK, PlacesOK, PairInv, Together, LoopInv, Over, Half
<1>0. \A q \in Procs : q # p => pc[q] \notin {"head", "tail"}
  BY DEF LockInv
<1>1. ASSUME pc' = [pc EXCEPT ![p] = "tail"], cur' = cur, NEW r \in Reqs
      PROVE  (Half(r)' <=> r = Of(p)) /\ (Over(r)' <=> Over(r))
  <2>1. CASE p = Loop
    BY <1>0, <1>1, <2>1
  <2>2. ASSUME NEW s \in Reqs, p = Handler(s)
        PROVE  (Half(r)' <=> r = Of(p)) /\ (Over(r)' <=> Over(r))
    BY <1>0, <1>1, <2>2
  <2>3. ASSUME NEW s \in Reqs, p = Worker(s)
        PROVE  (Half(r)' <=> r = Of(p)) /\ (Over(r)' <=> Over(r))
    BY <1>0, <1>1, <2>3
  <2> QED BY <2>1, <2>2, <2>3
<1>2. ASSUME pc' = [pc EXCEPT ![p] = AfterSend(p)],
             cur' = IF p = Loop THEN None ELSE cur, NEW r \in Reqs
      PROVE  ~Half(r)' /\ (Over(r)' <=> Over(r) \/ r = Of(p))
  <2>1. CASE p = Loop
    BY <1>0, <1>2, <2>1
  <2>2. ASSUME NEW s \in Reqs, p = Handler(s)
        PROVE  ~Half(r)' /\ (Over(r)' <=> Over(r) \/ r = Of(p))
    BY <1>0, <1>2, <2>2
  <2>3. ASSUME NEW s \in Reqs, p = Worker(s)
        PROVE  ~Half(r)' /\ (Over(r)' <=> Over(r) \/ r = Of(p))
    BY <1>0, <1>2, <2>3
  <2> QED BY <2>1, <2>2, <2>3
<1> QED BY <1>1, <1>2

(* Where nothing is written nothing changes for the responses. *)
LEMMA QuietStep ==
  ASSUME OutInv, out' = out, conn' = "open" => conn = "open",
         \A r \in Reqs : (Half(r)' <=> Half(r)) /\ (Over(r)' <=> Over(r))
  PROVE  OutInv'
BY DEF OutInv, OneWholeResponse, Answered

(* What a frame sent behind the others does to the connection. *)
LEMMA OneMore ==
  ASSUME TypeOK, NEW r \in Reqs, NEW p \in {"header", "body"},
         out' = Append(out, Frame(r, p))
  PROVE  /\ Len(out) \in Nat /\ Len(out') = Len(out) + 1
         /\ DOMAIN out = 1..Len(out) /\ DOMAIN out' = 1..(Len(out) + 1)
         /\ out'[Len(out) + 1] = Frame(r, p) /\ out' # << >>
         /\ \A i \in DOMAIN out : i \in Nat /\ out'[i] = out[i]
BY FrameFacts DEF TypeOK

(* A header may follow anything but a header, a body only its own header. *)
LEMMA WholeStep ==
  ASSUME TypeOK, OneWholeResponse, NEW r \in Reqs, NEW p \in {"header", "body"},
         out' = Append(out, Frame(r, p)),
         \A i \in DOMAIN out : out[i] # Frame(r, p),
         IF p = "header" THEN out # << >> => out[Len(out)].part = "body"
         ELSE out # << >> /\ out[Len(out)] = Frame(r, "header")
  PROVE  OneWholeResponse'
<1>1. Frame(r, p).req = r /\ Frame(r, p).part = p /\ Frame(r, "header").part = "header"
      /\ Frame(r, "header").req = r
  BY FrameFacts
<1>2. \A i, j \in DOMAIN out' : out'[i] = out'[j] => i = j
  BY OneMore DEF OneWholeResponse
<1>3. ASSUME NEW i \in DOMAIN out', out'[i].part = "header", i < Len(out')
      PROVE  out'[i + 1] = Frame(out'[i].req, "body")
  <2>1. i \in DOMAIN out /\ out'[i] = out[i]
    BY <1>3, OneMore
  <2>2. CASE i = Len(out)
    BY <1>1, <1>3, <2>1, <2>2, OneMore
  <2>3. CASE i # Len(out)
    <3>1. i + 1 \in DOMAIN out /\ i < Len(out)
      BY <2>1, <2>3, OneMore
    <3>2. out[i + 1] = Frame(out[i].req, "body")
      BY <1>3, <2>1, <3>1 DEF OneWholeResponse
    <3> QED BY <2>1, <3>1, <3>2, OneMore
  <2> QED BY <2>2, <2>3
<1>4. ASSUME NEW i \in DOMAIN out', out'[i].part # "header"
      PROVE  i > 1 /\ out'[i - 1] = Frame(out'[i].req, "header")
  <2>1. CASE i \in DOMAIN out
    <3>1. i > 1 /\ out[i - 1] = Frame(out[i].req, "header")
      BY <1>4, <2>1, OneMore DEF OneWholeResponse
    <3>2. i - 1 \in DOMAIN out
      BY <2>1, <3>1, OneMore
    <3> QED BY <2>1, <3>1, <3>2, OneMore
  <2>2. CASE i = Len(out) + 1
    <3>1. p = "body" /\ Len(out) \in DOMAIN out
      BY <1>1, <1>4, <2>2, OneMore
    <3> QED BY <1>1, <2>2, <3>1, OneMore
  <2> QED BY <2>1, <2>2, OneMore
<1> QED BY <1>2, <1>3, <1>4 DEF OneWholeResponse

LEMMA WriteHeadStep ==
  ASSUME IInv, NEW p \in Procs, WriteHead(p) PROVE OutInv'
<1> USE DEF IInv
<1>1. Of(p) \in Reqs /\ ~Over(Of(p)) /\ \A r \in Reqs : ~Half(r)
  BY WriterAlone DEF WriteHead
<1>2. \A r \in Reqs : (Half(r)' <=> r = Of(p)) /\ (Over(r)' <=> Over(r))
  BY WriterMoves DEF WriteHead, Goto
<1>3. CASE conn # "open"
  BY <1>1, <1>2, <1>3 DEF WriteHead, Emit, OutInv, OneWholeResponse
<1>4. CASE conn = "open"
  <2> DEFINE f == Frame(Of(p), "header")
  <2>1. out' = Append(out, f) /\ conn' = conn
    BY <1>4 DEF WriteHead, Emit
  <2>2. \A i \in DOMAIN out : out[i] # f
    BY <1>1 DEF OutInv
  <2>3. out # << >> => out[Len(out)].part = "body"
    <3>1. out # << >> => Len(out) \in DOMAIN out /\ out[Len(out)] \in Frames
      BY DEF TypeOK
    <3> QED BY <1>1, <1>4, <3>1, FrameFacts DEF OutInv
  <2>4. OneWholeResponse'
    BY <1>1, <2>1, <2>2, <2>3, WholeStep DEF OutInv
  <2>5. /\ \A i \in DOMAIN out' : (i \in DOMAIN out /\ out'[i] = out[i]) \/ out'[i] = f
        /\ \A i \in DOMAIN out : i \in DOMAIN out' /\ out'[i] = out[i]
        /\ out' # << >> /\ out'[Len(out')] = f
    BY <1>1, <2>1, OneMore
  <2>6. \A r \in Reqs : (f = Frame(r, "header") <=> r = Of(p)) /\ f # Frame(r, "body")
    BY <1>1, FrameFacts
  <2> HIDE DEF f
  <2>7. \A i \in DOMAIN out', r \in Reqs :
          /\ out'[i] = Frame(r, "header") => Over(r)' \/ Half(r)'
          /\ out'[i] = Frame(r, "body") => Over(r)'
    BY <1>1, <1>2, <2>5, <2>6 DEF OutInv
  <2>8. \A r \in Reqs : Over(r)' => Answered(r)'
    BY <1>2, <1>4, <2>5 DEF OutInv, Answered, Range
  <2> QED BY <1>2, <2>4, <2>5, <2>6, <2>7, <2>8 DEF OutInv
<1> QED BY <1>3, <1>4

LEMMA WriteTailStep ==
  ASSUME IInv, NEW p \in Procs, WriteTail(p) PROVE OutInv'
<1> USE DEF IInv
<1>1. Of(p) \in Reqs /\ ~Over(Of(p)) /\ \A r \in Reqs : Half(r) <=> r = Of(p)
  BY WriterAlone DEF WriteTail
<1>2. \A r \in Reqs : ~Half(r)' /\ (Over(r)' <=> Over(r) \/ r = Of(p))
  BY WriterMoves DEF WriteTail, Goto
<1>3. CASE conn # "open"
  BY <1>1, <1>2, <1>3 DEF WriteTail, Emit, OutInv, OneWholeResponse
<1>4. CASE conn = "open"
  <2> DEFINE f == Frame(Of(p), "body")
  <2>1. out' = Append(out, f) /\ conn' = conn
    BY <1>4 DEF WriteTail, Emit
  <2>2. \A i \in DOMAIN out : out[i] # f
    BY <1>1 DEF OutInv
  <2>3. out # << >> /\ out[Len(out)] = Frame(Of(p), "header") /\ Len(out) \in DOMAIN out
    BY <1>1, <1>4 DEF OutInv, TypeOK
  <2>4. OneWholeResponse'
    BY <1>1, <2>1, <2>2, <2>3, WholeStep DEF OutInv
  <2>5. /\ \A i \in DOMAIN out' : (i \in DOMAIN out /\ out'[i] = out[i]) \/ out'[i] = f
        /\ \A i \in DOMAIN out : i \in DOMAIN out' /\ out'[i] = out[i]
        /\ out' # << >> /\ Len(out') \in DOMAIN out' /\ out'[Len(out')] = f
    BY <1>1, <2>1, OneMore
  <2>6. \A r \in Reqs : (f = Frame(r, "body") <=> r = Of(p)) /\ f # Frame(r, "header")
    BY <1>1, FrameFacts
  <2>7. \A r \in Reqs : r = Of(p) => Answered(r)'
    BY <2>3, <2>5 DEF Answered, Range
  <2> HIDE DEF f
  <2>8. \A i \in DOMAIN out', r \in Reqs :
          /\ out'[i] = Frame(r, "header") => Over(r)' \/ Half(r)'
          /\ out'[i] = Frame(r, "body") => Over(r)'
    BY <1>1, <1>2, <2>5, <2>6 DEF OutInv
  <2>9. \A r \in Reqs : Over(r) => Answered(r)'
    BY <1>4, <2>5 DEF OutInv, Answered, Range
  <2>10. \A r \in Reqs : Over(r)' => Answered(r)'
    BY <1>2, <2>7, <2>9
  <2> QED BY <1>2, <2>4, <2>5, <2>6, <2>8, <2>10 DEF OutInv
<1> QED BY <1>3, <1>4

LEMMA WriteFailStep ==
  ASSUME IInv, NEW p \in Procs, WriteFail(p) PROVE OutInv'
<1>1. \A r \in Reqs : Half(r) => r = Of(p)
  BY WriterAlone DEF IInv, WriteFail
<1>2. \A r \in Reqs : Over(r)' <=> Over(r) \/ r = Of(p)
  BY WriterMoves DEF IInv, WriteFail, Goto
<1> QED BY <1>1, <1>2 DEF IInv, OutInv, OneWholeResponse, WriteFail

(* What is on the connection stays whole in every step. *)
LEMMA OutStep ==
  ASSUME IInv, [Next]_vars PROVE OutInv'
<1> USE ProcFacts, SendFacts DEF IInv, TypeOK, PlacesOK
<1>1. CASE Reading
  <2>1. out' = out /\ (conn' = "open" => conn = "open")
    BY <1>1 DEF Reading, ReadOption, RefuseOption, ReadHeader, ReadHeaderFail,
        FindService, ReadBody, ReadBodyFail, CloseConn
  <2>2. \A r \in Reqs : (Half(r)' <=> Half(r)) /\ (Over(r)' <=> Over(r))
    <3>1. CASE ReadHeader
      <4>1. Head(in) \in Frames /\ Head(in) = Frame(cur', "header")
        BY <3>1, TailOfStream, FrameFacts DEF ReadHeader
      <4>2. Frame(cur', "header") \in Range(in) /\ cur' \in Reqs
        BY <3>1, <4>1, TailOfStream, FrameFacts DEF ReadHeader, Range
      <4>3. verdict[cur'] = "none"
        BY <4>2 DEF StreamInv
      <4> QED
        BY <3>1, <4>3 DEF ReadHeader, Goto, Half, Over, LoopInv
    <3>2. CASE ReadBody
      BY <3>2 DEF ReadBody, Half, Over, LoopInv, PairInv, Together
    <3>3. CASE FindService \/ ReadBodyFail
      BY <3>3 DEF FindService, ReadBodyFail, Goto, Half, Over, LoopInv
    <3>4. CASE ReadOption \/ RefuseOption \/ ReadHeaderFail \/ CloseConn
      BY <3>4 DEF ReadOption, RefuseOption, ReadHeaderFail, CloseConn, Goto, Half, Over
    <3> QED BY <1>1, <3>1, <3>2, <3>3, <3>4 DEF Reading
  <2> QED BY <2>1, <2>2, QuietStep
<1>2. ASSUME NEW p \in Procs, Sending(p) PROVE OutInv'
  <2>1. CASE LockSending(p)
    <3>1. /\ pc[p] = "lock" /\ pc' = [pc EXCEPT ![p] = "head"]
          /\ cur' = cur /\ verdict' = verdict /\ out' = out /\ conn' = conn
      BY <2>1 DEF LockSending, Goto
    <3>2. \A r \in Reqs : (Half(r)' <=> Half(r)) /\ (Over(r)' <=> Over(r))
      BY <3>1 DEF Half, Over
    <3> QED BY <3>1, <3>2, QuietStep
  <2> QED
    BY <1>2, <2>1, WriteHeadStep, WriteTailStep, WriteFailStep DEF Sending, Writing
<1>3. ASSUME NEW r \in Reqs, MethodReturns(r) \/ Handling(r) PROVE OutInv'
  <2>1. out' = out /\ conn' = conn
    BY <1>3 DEF MethodReturns, Handling, Called, Sent, TimeOut
  <2>2. \A s \in Reqs : (Half(s)' <=> Half(s)) /\ (Over(s)' <=> Over(s))
    <3>1. CASE MethodReturns(r)
      BY <3>1 DEF MethodReturns, Goto, Half, Over
    <3>2. CASE Called(r)
      BY <3>2 DEF Called, Half, Over
    <3>3. CASE Sent(r)
      BY <3>3 DEF Sent, Half, Over
    <3>4. CASE TimeOut(r)
      BY <3>4 DEF TimeOut, Goto, Half, Over
    <3> QED BY <1>3, <3>1, <3>2, <3>3, <3>4 DEF Handling
  <2> QED BY <2>1, <2>2, QuietStep
<1>4. CASE ClientWrite \/ HangUp \/ UNCHANGED vars
  <2>1. /\ pc' = pc /\ cur' = cur /\ verdict' = verdict /\ out' = out
        /\ conn' = "open" => conn = "open"
    BY <1>4 DEF ClientWrite, HangUp, vars
  <2>2. \A r \in Reqs : (Half(r)' <=> Half(r)) /\ (Over(r)' <=> Over(r))
    BY <2>1 DEF Half, Over
  <2> QED BY <2>1, <2>2, QuietStep
<1> QED BY <1>1, <1>2, <1>3, <1>4 DEF Next, Finished

-----------------------------------------------------------------------------
(* The client's frames, written out in the order of its requests. *)
LEMMA FirstFrames ==
  ASSUME NEW order \in SetToSeqs(Reqs)
  PROVE  /\ FramesOf(order) \in Seq(Frames)
         /\ \A i, j \in DOMAIN FramesOf(order) :
              FramesOf(order)[i] = FramesOf(order)[j] => i = j
<1>1. Cardinality(Reqs) \in Nat
  BY ServerAssumption, FS_CardinalityType DEF ServerAssumption
<1>2. /\ Len(order) \in Nat /\ order \in [1..Len(order) -> Reqs]
      /\ \A i, j \in 1..Len(order) : order[i] = order[j] => i = j
  BY <1>1 DEF SetToSeqs, IsInjective
<1> DEFINE n == Len(order)
           at(i) == (i + 1) \div 2
           part(i) == IF i % 2 = 1 THEN "header" ELSE "body"
<1>3. \A i \in 1..(2 * n) : at(i) \in 1..n
  BY <1>2
<1>4. \A i, j \in 1..(2 * n) : at(i) = at(j) /\ (i % 2 = 1 <=> j % 2 = 1) => i = j
  BY <1>2
<1>5. FramesOf(order) = [i \in 1..(2 * n) |-> Frame(order[at(i)], part(i))]
  BY DEF FramesOf
<1>6. \A i \in 1..(2 * n) : order[at(i)] \in Reqs /\ part(i) \in {"header", "body"}
  BY <1>2, <1>3
<1> HIDE DEF n, at
<1>7. FramesOf(order) \in [1..(2 * n) -> Frames] /\ 2 * n \in Nat
  BY <1>2, <1>5, <1>6, FrameFacts DEF n
<1>8. \A i, j \in 1..(2 * n) :
        FramesOf(order)[i] = FramesOf(order)[j] => order[at(i)] = order[at(j)] /\ part(i) = part(j)
  BY <1>5, <1>6, FrameFacts
<1>9. \A i, j \in 1..(2 * n) : FramesOf(order)[i] = FramesOf(order)[j] => i = j
  BY <1>2, <1>3, <1>4, <1>8 DEF n
<1> QED BY <1>7, <1>9

LEMMA InitInv == ASSUME Init PROVE IInv
<1> USE ProcFacts DEF Init
<1>1. unsent \in Seq(Frames) /\ \A i, j \in DOMAIN unsent : unsent[i] = unsent[j] => i = j
  BY FirstFrames
<1>2. TypeOK
  BY <1>1 DEF TypeOK, PlacesOK, LoopPCs, HandlerPCs, WorkerPCs, Verdicts
<1>3. LockInv /\ PairInv /\ LoopInv /\ StreamInv
  BY <1>1 DEF LockInv, PairInv, Together, LoopInv, StreamInv
<1>4. \A r \in Reqs : ~Half(r) /\ ~Over(r)
  BY DEF Half, Over
<1>5. OutInv
  BY <1>4 DEF OutInv, OneWholeResponse
<1> QED BY <1>2, <1>3, <1>5 DEF IInv

(* The inductive invariant holds in every state a connection reaches. *)
THEOREM Inductive == Spec => []IInv
<1>1. IInv /\ [Next]_vars => IInv'
  BY TypeStep, LockStep, PairStep, StreamStep, OutStep DEF IInv
<1> QED BY <1>1, InitInv, PTL DEF Spec

(* The server's state keeps its types, whatever the client sends. *)
THEOREM TypeCorrect == Spec => []TypeOK
<1>1. IInv => TypeOK
  BY DEF IInv
<1> QED BY <1>1, Inductive, PTL

(* sendResponse and handleRequest: one whole response to a request at most. *)
THEOREM AnsweredOnce == Spec => []OneWholeResponse
<1>1. IInv => OneWholeResponse
  BY DEF IInv, OutInv
<1> QED BY <1>1, Inductive, PTL

(* A handler that was answered in time leaves no worker behind. *)
THEOREM LeaksAreTimeouts == Spec => []OnlyTimeoutsLeak
<1>1. IInv => OnlyTimeoutsLeak
  BY DEF IInv, PairInv, Together, OnlyTimeoutsLeak
<1> QED BY <1>1, Inductive, PTL

(* serveCodec closes the connection behind the last handler: every request *)
(* it accepted, also one whose method was slow, is answered.               *)
THEOREM ClosesBehindAnswers == Spec => AnsweredBeforeClose
<1> DEFINE Served == pc[Loop] = "wait" /\ pc'[Loop] = "closed" =>
                       \A r \in Reqs :
                         /\ ~Answering(r)
                         /\ Accepted(r) => conn # "open" \/ Answered(r)
<1>1. IInv /\ [Next]_vars => [Served]_vars
  <2> SUFFICES ASSUME IInv, Next, pc[Loop] = "wait", pc'[Loop] = "closed", NEW r \in Reqs
               PROVE  ~Answering(r) /\ (Accepted(r) /\ conn = "open" => Answered(r))
    OBVIOUS
  <2> USE ProcFacts, SendFacts DEF IInv, TypeOK, PlacesOK
  <2>1. CASE CloseConn
    <3>1. pc[Handler(r)] \in {"none", "done"} /\ cur # r
      BY <2>1 DEF CloseConn, HandlersDone, LoopInv
    <3>2. ~Answering(r)
      BY <3>1 DEF Answering, PairInv, Together
    <3>3. ASSUME Accepted(r), conn = "open" PROVE Answered(r)
      <4>1. Over(r)
        BY <3>1, <3>3 DEF Accepted, Over, PairInv, Together
      <4> QED BY <3>3, <4>1 DEF OutInv
    <3> QED BY <3>2, <3>3
  <2>2. CASE Reading
    BY <2>1, <2>2 DEF Reading, ReadOption, RefuseOption, ReadHeader, ReadHeaderFail,
        FindService, ReadBody, ReadBodyFail
  <2>3. ASSUME NEW p \in Procs, Sending(p) PROVE FALSE
    BY <2>3 DEF Sending, Writing, LockSending, WriteHead, WriteTail, WriteFail, Goto
  <2>4. ASSUME NEW s \in Reqs, MethodReturns(s) \/ Handling(s) PROVE FALSE
    BY <2>4 DEF MethodReturns, Handling, Called, Sent, TimeOut, Goto
  <2>5. CASE ClientWrite \/ HangUp \/ Finished
    BY <2>5 DEF ClientWrite, HangUp, Finished, vars
  <2> QED BY <2>2, <2>3, <2>4, <2>5 DEF Next
<1> QED BY <1>1, Inductive, PTL DEF Spec, AnsweredBeforeClose
=============================================================================
