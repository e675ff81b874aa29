--------------------------- MODULE RpcClientProofs ----------------------------
(* Proofs about RpcClient, for every set of calls, deadlines and channels. *)
EXTENDS RpcClientInv, SequenceTheorems, FiniteSetTheorems, TLAPS

(* A pending call is found in the map under its own sequence number. *)
LEMMA PendingOwner ==
  ASSUME TypeOK, SeqInv, NEW c \in Calls, Pending(c)
  PROVE  pending[seqOf[c]] = c
BY DEF TypeOK, CallerType, ClientType, SeqInv, Pending

(* A step keeps the callers' variables in their types. *)
LEMMA CallerTypeStep ==
  ASSUME TypeOK, [Next]_vars PROVE CallerType'
<1> USE DEF callerVars, chanVars, clientVars, recvVars, netVars
<1>1. ASSUME NEW c \in Calls, CallerStep(c) PROVE CallerType'
  <2>1. CASE StartCall(c)
    BY <2>1 DEF StartCall, CallerType, CallerPCs, TypeOK
  <2>2. CASE LockSending(c)
    BY <2>2 DEF LockSending, Lock, CallerType, CallerPCs, TypeOK
  <2>3. CASE Register(c)
    BY <2>3 DEF Register, Accepts, ClientType, CallerType, CallerPCs, TypeOK
  <2>4. CASE RegisterRefused(c)
    BY <2>4 DEF RegisterRefused, Accepts, CallerType, CallerPCs, TypeOK
  <2>5. CASE Unregister(c)
    BY <2>5 DEF Unregister, RemoveCall, StillPending, CallerType, CallerPCs,
        TypeOK
  <2>6. CASE UnregisterGone(c)
    BY <2>6 DEF UnregisterGone, SendReturns, AfterSend, CallerType, CallerPCs,
        TypeOK
  <2>7. CASE SendFailed(c)
    BY <2>7 DEF SendFailed, Signal, SendReturns, AfterSend, CallerType,
        CallerPCs, TypeOK
  <2>8. CASE WriteHeader(c)
    BY <2>8 DEF WriteHeader, CallerType, CallerPCs, TypeOK
  <2>9. CASE WriteBody(c)
    BY <2>9 DEF WriteBody, SendReturns, AfterSend, CallerType, CallerPCs,
        TypeOK
  <2>10. CASE WriteLost(c)
    BY <2>10 DEF WriteLost, SendReturns, AfterSend, CallerType, CallerPCs,
        TypeOK
  <2>11. CASE WriteFail(c)
    BY <2>11 DEF WriteFail, CallerType, CallerPCs, TypeOK
  <2>12. CASE Receive(c)
    BY <2>12 DEF Receive, CallerType, CallerPCs, TypeOK
  <2>13. CASE Expire(c)
    BY <2>13 DEF Expire, CallerType, CallerPCs, TypeOK
  <2>14. CASE Forget(c)
    BY <2>14 DEF Forget, RemoveCall, CallerType, CallerPCs, TypeOK
  <2> QED BY <1>1, <2>1, <2>2, <2>3, <2>4, <2>5, <2>6, <2>7, <2>8, <2>9, <2>10,
      <2>11, <2>12, <2>13, <2>14 DEF CallerStep, Send, Write, Await
<1>2. ASSUME Receiving PROVE CallerType'
  <2>1. CASE RecvBody
    BY <2>1 DEF RecvBody, BodyResults, Decoded, ErrorLeadsTo, CallerType,
        CallerPCs, TypeOK
  <2>2. CASE RecvHeader \/ RecvHeaderFail \/ RecvRemove \/ RecvDone \/ TermLock
           \/ TermEnd
    BY <2>2 DEF RecvHeader, RecvHeaderFail, RecvRemove, RecvDone, TermLock,
        TermEnd, RemoveCall, Signal, CallerType, CallerPCs, TypeOK
  <2>3. ASSUME NEW c \in Calls, TermCall(c) PROVE CallerType'
    BY <2>3 DEF TermCall, Signal, CallerType, CallerPCs, TypeOK
  <2> QED BY <1>2, <2>1, <2>2, <2>3 DEF Receiving
<1>3. ASSUME NEW ch \in Chans, Drain(ch) PROVE CallerType'
  BY <1>3 DEF Drain, CallerType, CallerPCs, TypeOK
<1>4. ASSUME Close PROVE CallerType'
  BY <1>4 DEF Close, CallerType, CallerPCs, TypeOK
<1>5. ASSUME NEW c \in Calls, NEW k \in Kinds, ServerRespond(c, k)
      PROVE  CallerType'
  BY <1>5 DEF ServerRespond, CallerType, CallerPCs, TypeOK
<1>6. ASSUME ConnBreak PROVE CallerType'
  BY <1>6 DEF ConnBreak, CallerType, CallerPCs, TypeOK
<1>7. CASE UNCHANGED vars BY <1>7 DEF vars, CallerType, CallerPCs, TypeOK
<1> QED BY <1>1, <1>2, <1>3, <1>4, <1>5, <1>6, <1>7 DEF Next, Finished

(* A step keeps the channels in their type: only calls are put in them. *)
LEMMA ChanTypeStep ==
  ASSUME TypeOK, ReceiverInv, [Next]_vars PROVE ChanType'
<1> USE ClientAssumption DEF callerVars, chanVars, clientVars, recvVars, netVars
<1>1. ASSUME NEW c \in Calls, CallerStep(c) PROVE ChanType'
  <2>1. CASE SendFailed(c)
    BY <2>1 DEF SendFailed, Signal, SendReturns, AfterSend, ChanType, TypeOK,
        ClientAssumption
  <2>2. CASE Receive(c)
    BY <2>2 DEF Receive, ChanType, TypeOK, ClientAssumption
  <2>3. CASE StartCall(c) \/ LockSending(c) \/ Register(c) \/
           RegisterRefused(c) \/ Unregister(c) \/ UnregisterGone(c) \/
           WriteHeader(c) \/ WriteBody(c) \/ WriteLost(c) \/ WriteFail(c) \/
           Expire(c) \/ Forget(c)
    BY <2>3 DEF StartCall, LockSending, Register, RegisterRefused, Unregister,
        UnregisterGone, WriteHeader, WriteBody, WriteLost, WriteFail, Expire,
        Forget, RemoveCall, SendReturns, ChanType, TypeOK, ClientAssumption
  <2> QED BY <1>1, <2>1, <2>2, <2>3 DEF CallerStep, Send, Write, Await
<1>2. ASSUME Receiving PROVE ChanType'
  <2>1. CASE RecvDone
    BY <2>1 DEF RecvDone, Signal, ErrorLeadsTo, ReceiverInv, RecvType,
        ChanType, TypeOK, ClientAssumption
  <2>2. CASE RecvHeader \/ RecvHeaderFail \/ RecvRemove \/ RecvBody \/ TermLock
           \/ TermEnd
    BY <2>2 DEF RecvHeader, RecvHeaderFail, RecvRemove, RecvBody, TermLock,
        TermEnd, RemoveCall, ChanType, TypeOK, ClientAssumption
  <2>3. ASSUME NEW c \in Calls, TermCall(c) PROVE ChanType'
    BY <2>3 DEF TermCall, Signal, ChanType, TypeOK, ClientAssumption
  <2> QED BY <1>2, <2>1, <2>2, <2>3 DEF Receiving
<1>3. ASSUME NEW ch \in Chans, Drain(ch) PROVE ChanType'
  BY <1>3 DEF Drain, ChanType, TypeOK, ClientAssumption
<1>4. ASSUME Close PROVE ChanType'
  BY <1>4 DEF Close, ChanType, TypeOK, ClientAssumption
<1>5. ASSUME NEW c \in Calls, NEW k \in Kinds, ServerRespond(c, k)
      PROVE  ChanType'
  BY <1>5 DEF ServerRespond, ChanType, TypeOK, ClientAssumption
<1>6. ASSUME ConnBreak PROVE ChanType'
  BY <1>6 DEF ConnBreak, ChanType, TypeOK, ClientAssumption
<1>7. CASE UNCHANGED vars BY <1>7 DEF vars, ChanType, TypeOK, ClientAssumption
<1> QED BY <1>1, <1>2, <1>3, <1>4, <1>5, <1>6, <1>7 DEF Next, Finished

(* A step keeps the client's own variables in their types. *)
LEMMA ClientTypeStep ==
  ASSUME TypeOK, [Next]_vars PROVE ClientType'
<1> USE DEF callerVars, chanVars, clientVars, recvVars, netVars
<1>1. ASSUME NEW c \in Calls, CallerStep(c) PROVE ClientType'
  <2>1. CASE LockSending(c)
    BY <2>1 DEF LockSending, Lock, ClientType, TypeOK
  <2>2. CASE Register(c)
    BY <2>2 DEF Register, Accepts, ClientType, TypeOK
  <2>3. CASE Unregister(c)
    BY <2>3 DEF Unregister, RemoveCall, StillPending, ClientType, TypeOK
  <2>4. CASE UnregisterGone(c)
    BY <2>4 DEF UnregisterGone, SendReturns, AfterSend, ClientType, TypeOK
  <2>5. CASE SendFailed(c)
    BY <2>5 DEF SendFailed, Signal, SendReturns, AfterSend, ClientType, TypeOK
  <2>6. CASE WriteBody(c)
    BY <2>6 DEF WriteBody, SendReturns, AfterSend, ClientType, TypeOK
  <2>7. CASE WriteLost(c)
    BY <2>7 DEF WriteLost, SendReturns, AfterSend, ClientType, TypeOK
  <2>8. CASE Forget(c)
    BY <2>8 DEF Forget, RemoveCall, ClientType, TypeOK
  <2>9. CASE StartCall(c) \/ RegisterRefused(c) \/ WriteHeader(c) \/
           WriteFail(c) \/ Receive(c) \/ Expire(c)
    BY <2>9 DEF StartCall, RegisterRefused, WriteHeader, WriteFail, Receive,
        Expire, ClientType, TypeOK
  <2> QED BY <1>1, <2>1, <2>2, <2>3, <2>4, <2>5, <2>6, <2>7, <2>8, <2>9 DEF
      CallerStep, Send, Write, Await
<1>2. ASSUME Receiving PROVE ClientType'
  <2>1. CASE RecvRemove
    BY <2>1 DEF RecvRemove, RemoveCall, Lookup, ClientType, TypeOK
  <2>2. CASE TermLock
    BY <2>2 DEF TermLock, Lock, ClientType, TypeOK
  <2>3. CASE TermEnd
    BY <2>3 DEF TermEnd, ClientType, TypeOK
  <2>4. CASE RecvHeader \/ RecvHeaderFail \/ RecvBody \/ RecvDone
    BY <2>4 DEF RecvHeader, RecvHeaderFail, RecvBody, RecvDone, Signal,
        ClientType, TypeOK
  <2>5. ASSUME NEW c \in Calls, TermCall(c) PROVE ClientType'
    BY <2>5 DEF TermCall, Signal, ClientType, TypeOK
  <2> QED BY <1>2, <2>1, <2>2, <2>3, <2>4, <2>5 DEF Receiving
<1>3. ASSUME NEW ch \in Chans, Drain(ch) PROVE ClientType'
  BY <1>3 DEF Drain, ClientType, TypeOK
<1>4. ASSUME Close PROVE ClientType'
  BY <1>4 DEF Close, ClientType, TypeOK
<1>5. ASSUME NEW c \in Calls, NEW k \in Kinds, ServerRespond(c, k)
      PROVE  ClientType'
  BY <1>5 DEF ServerRespond, ClientType, TypeOK
<1>6. ASSUME ConnBreak PROVE ClientType'
  BY <1>6 DEF ConnBreak, ClientType, TypeOK
<1>7. CASE UNCHANGED vars BY <1>7 DEF vars, ClientType, TypeOK
<1> QED BY <1>1, <1>2, <1>3, <1>4, <1>5, <1>6, <1>7 DEF Next, Finished

(* A step keeps the receiver's variables in their types. *)
LEMMA RecvTypeStep ==
  ASSUME TypeOK, [Next]_vars PROVE RecvType'
<1> USE DEF callerVars, chanVars, clientVars, recvVars, netVars
<1>1. ASSUME NEW c \in Calls, CallerStep(c) PROVE RecvType'
  BY <1>1 DEF CallerStep, Send, Write, Await, StartCall, LockSending, Register,
      RegisterRefused, Unregister, UnregisterGone, SendFailed, WriteHeader,
      WriteBody, WriteLost, WriteFail, Receive, Expire, Forget, SendReturns,
      Signal, RemoveCall, RecvType, RecvPCs, TypeOK
<1>2. ASSUME Receiving PROVE RecvType'
  <2>1. CASE RecvHeader
    BY <2>1 DEF RecvHeader, NetType, RecvType, RecvPCs, TypeOK
  <2>2. CASE RecvHeaderFail
    BY <2>2 DEF RecvHeaderFail, ErrorLeadsTo, RecvType, RecvPCs, TypeOK
  <2>3. CASE RecvRemove
    BY <2>3 DEF RecvRemove, RemoveCall, Lookup, ClientType, RecvType, RecvPCs,
        TypeOK
  <2>4. CASE RecvBody
    BY <2>4 DEF RecvBody, BodyResults, Decoded, ErrorLeadsTo, NoHeader,
        Responses, Kinds, RecvType, RecvPCs, TypeOK
  <2>5. CASE RecvDone
    BY <2>5 DEF RecvDone, Signal, ErrorLeadsTo, NoHeader, Responses, Kinds,
        RecvType, RecvPCs, TypeOK
  <2>6. CASE TermLock
    BY <2>6 DEF TermLock, Lock, ClientType, RecvType, RecvPCs, TypeOK
  <2>7. CASE TermEnd
    BY <2>7 DEF TermEnd, RecvType, RecvPCs, TypeOK
  <2>8. ASSUME NEW c \in Calls, TermCall(c) PROVE RecvType'
    BY <2>8 DEF TermCall, Signal, RecvType, RecvPCs, TypeOK
  <2> QED BY <1>2, <2>1, <2>2, <2>3, <2>4, <2>5, <2>6, <2>7, <2>8 DEF Receiving
<1>3. ASSUME NEW ch \in Chans, Drain(ch) PROVE RecvType'
  BY <1>3 DEF Drain, RecvType, RecvPCs, TypeOK
<1>4. ASSUME Close PROVE RecvType'
  BY <1>4 DEF Close, RecvType, RecvPCs, TypeOK
<1>5. ASSUME NEW c \in Calls, NEW k \in Kinds, ServerRespond(c, k)
      PROVE  RecvType'
  BY <1>5 DEF ServerRespond, RecvType, RecvPCs, TypeOK
<1>6. ASSUME ConnBreak PROVE RecvType'
  BY <1>6 DEF ConnBreak, RecvType, RecvPCs, TypeOK
<1>7. CASE UNCHANGED vars BY <1>7 DEF vars, RecvType, RecvPCs, TypeOK
<1> QED BY <1>1, <1>2, <1>3, <1>4, <1>5, <1>6, <1>7 DEF Next, Finished

(* A step keeps the network in its type. *)
LEMMA NetTypeStep ==
  ASSUME TypeOK, [Next]_vars PROVE NetType'
<1> USE DEF callerVars, chanVars, clientVars, recvVars, netVars
<1>1. ASSUME NEW c \in Calls, CallerStep(c) PROVE NetType'
  <2>1. CASE WriteHeader(c)
    BY <2>1 DEF WriteHeader, ClientType, NetType, TypeOK
  <2>2. CASE WriteBody(c)
    BY <2>2 DEF WriteBody, SendReturns, AfterSend, NetType, TypeOK
  <2>3. CASE WriteFail(c)
    BY <2>3 DEF WriteFail, NetType, TypeOK
  <2>4. CASE StartCall(c) \/ LockSending(c) \/ Register(c) \/
           RegisterRefused(c) \/ Unregister(c) \/ UnregisterGone(c) \/
           SendFailed(c) \/ WriteLost(c) \/ Receive(c) \/ Expire(c) \/
           Forget(c)
    BY <2>4 DEF StartCall, LockSending, Register, RegisterRefused, Unregister,
        UnregisterGone, SendFailed, WriteLost, Receive, Expire, Forget,
        RemoveCall, SendReturns, Signal, NetType, TypeOK
  <2> QED BY <1>1, <2>1, <2>2, <2>3, <2>4 DEF CallerStep, Send, Write, Await
<1>2. ASSUME Receiving PROVE NetType'
  <2>1. CASE RecvHeader
    BY <2>1 DEF RecvHeader, NetType, TypeOK
  <2>2. CASE RecvHeaderFail \/ RecvRemove \/ RecvBody \/ RecvDone \/ TermLock
           \/ TermEnd
    BY <2>2 DEF RecvHeaderFail, RecvRemove, RecvBody, RecvDone, TermLock,
        TermEnd, RemoveCall, Signal, NetType, TypeOK
  <2>3. ASSUME NEW c \in Calls, TermCall(c) PROVE NetType'
    BY <2>3 DEF TermCall, Signal, NetType, TypeOK
  <2> QED BY <1>2, <2>1, <2>2, <2>3 DEF Receiving
<1>3. ASSUME NEW ch \in Chans, Drain(ch) PROVE NetType'
  BY <1>3 DEF Drain, NetType, TypeOK
<1>4. ASSUME Close PROVE NetType'
  BY <1>4 DEF Close, NetType, TypeOK
<1>5. ASSUME NEW c \in Calls, NEW k \in Kinds, ServerRespond(c, k)
      PROVE  NetType'
  BY <1>5 DEF ServerRespond, Responses, NetType, TypeOK
<1>6. ASSUME ConnBreak PROVE NetType'
  BY <1>6 DEF ConnBreak, NetType, TypeOK
<1>7. CASE UNCHANGED vars BY <1>7 DEF vars, NetType, TypeOK
<1> QED BY <1>1, <1>2, <1>3, <1>4, <1>5, <1>6, <1>7 DEF Next, Finished

(* A step keeps the two locks with their holders: client.sending is taken and
    released along with the position in send, and terminateCalls has both
    locks. *)
LEMMA LockInvStep ==
  ASSUME TypeOK, LockInv, [Next]_vars PROVE LockInv'
<1> USE ClientAssumption DEF callerVars, chanVars, clientVars, recvVars, netVars
<1>1. ASSUME NEW c \in Calls, CallerStep(c) PROVE LockInv'
  <2>1. CASE StartCall(c)
    BY <2>1 DEF StartCall, LockInv, HoldingPCs, TypeOK, CallerType,
        ClientAssumption
  <2>2. CASE LockSending(c)
    BY <2>2 DEF LockSending, Lock, LockInv, HoldingPCs, TypeOK, CallerType,
        ClientAssumption
  <2>3. CASE Register(c)
    BY <2>3 DEF Register, Accepts, LockInv, HoldingPCs, TypeOK, CallerType,
        ClientAssumption
  <2>4. CASE RegisterRefused(c)
    BY <2>4 DEF RegisterRefused, Accepts, LockInv, HoldingPCs, TypeOK,
        CallerType, ClientAssumption
  <2>5. CASE Unregister(c)
    BY <2>5 DEF Unregister, RemoveCall, StillPending, LockInv, HoldingPCs,
        TypeOK, CallerType, ClientAssumption
  <2>6. CASE UnregisterGone(c)
    BY <2>6 DEF UnregisterGone, SendReturns, AfterSend, LockInv, HoldingPCs,
        TypeOK, CallerType, ClientAssumption
  <2>7. CASE SendFailed(c)
    BY <2>7 DEF SendFailed, Signal, SendReturns, AfterSend, LockInv,
        HoldingPCs, TypeOK, CallerType, ClientAssumption
  <2>8. CASE WriteHeader(c)
    BY <2>8 DEF WriteHeader, LockInv, HoldingPCs, TypeOK, CallerType,
        ClientAssumption
  <2>9. CASE WriteBody(c)
    BY <2>9 DEF WriteBody, SendReturns, AfterSend, LockInv, HoldingPCs, TypeOK,
        CallerType, ClientAssumption
  <2>10. CASE WriteLost(c)
    BY <2>10 DEF WriteLost, SendReturns, AfterSend, LockInv, HoldingPCs,
        TypeOK, CallerType, ClientAssumption
  <2>11. CASE WriteFail(c)
    BY <2>11 DEF WriteFail, LockInv, HoldingPCs, TypeOK, CallerType,
        ClientAssumption
  <2>12. CASE Receive(c)
    BY <2>12 DEF Receive, LockInv, HoldingPCs, TypeOK, CallerType,
        ClientAssumption
  <2>13. CASE Expire(c)
    BY <2>13 DEF Expire, LockInv, HoldingPCs, TypeOK, CallerType,
        ClientAssumption
  <2>14. CASE Forget(c)
    BY <2>14 DEF Forget, RemoveCall, LockInv, HoldingPCs, TypeOK, CallerType,
        ClientAssumption
  <2> QED BY <1>1, <2>1, <2>2, <2>3, <2>4, <2>5, <2>6, <2>7, <2>8, <2>9, <2>10,
      <2>11, <2>12, <2>13, <2>14 DEF CallerStep, Send, Write, Await
<1>2. ASSUME Receiving PROVE LockInv'
  <2>1. CASE RecvHeader
    BY <2>1 DEF RecvHeader, LockInv, HoldingPCs, TypeOK, CallerType,
        ClientAssumption
  <2>2. CASE RecvHeaderFail
    BY <2>2 DEF RecvHeaderFail, ErrorLeadsTo, LockInv, HoldingPCs, TypeOK,
        CallerType, ClientAssumption
  <2>3. CASE RecvRemove
    BY <2>3 DEF RecvRemove, RemoveCall, Lookup, LockInv, HoldingPCs, TypeOK,
        CallerType, ClientAssumption
  <2>4. CASE RecvBody
    BY <2>4 DEF RecvBody, BodyResults, Decoded, ErrorLeadsTo, LockInv,
        HoldingPCs, TypeOK, CallerType, ClientAssumption
  <2>5. CASE RecvDone
    BY <2>5 DEF RecvDone, Signal, ErrorLeadsTo, LockInv, HoldingPCs, TypeOK,
        CallerType, ClientAssumption
  <2>6. CASE TermLock
    BY <2>6 DEF TermLock, Lock, LockInv, HoldingPCs, TypeOK, CallerType,
        ClientAssumption
  <2>7. CASE TermEnd
    BY <2>7 DEF TermEnd, LockInv, HoldingPCs, TypeOK, CallerType,
        ClientAssumption
  <2>8. ASSUME NEW c \in Calls, TermCall(c) PROVE LockInv'
    BY <2>8 DEF TermCall, Signal, LockInv, HoldingPCs, TypeOK, CallerType,
        ClientAssumption
  <2> QED BY <1>2, <2>1, <2>2, <2>3, <2>4, <2>5, <2>6, <2>7, <2>8 DEF Receiving
<1>3. ASSUME NEW ch \in Chans, Drain(ch) PROVE LockInv'
  BY <1>3 DEF Drain, LockInv, HoldingPCs, TypeOK, CallerType, ClientAssumption
<1>4. ASSUME Close PROVE LockInv'
  BY <1>4 DEF Close, LockInv, HoldingPCs, TypeOK, CallerType, ClientAssumption
<1>5. ASSUME NEW c \in Calls, NEW k \in Kinds, ServerRespond(c, k)
      PROVE  LockInv'
  BY <1>5 DEF ServerRespond, LockInv, HoldingPCs, TypeOK, CallerType,
      ClientAssumption
<1>6. ASSUME ConnBreak PROVE LockInv'
  BY <1>6 DEF ConnBreak, LockInv, HoldingPCs, TypeOK, CallerType,
      ClientAssumption
<1>7. CASE UNCHANGED vars BY <1>7 DEF vars, LockInv, HoldingPCs, TypeOK,
    CallerType, ClientAssumption
<1> QED BY <1>1, <1>2, <1>3, <1>4, <1>5, <1>6, <1>7 DEF Next, Finished

(* A step keeps sequence numbers unique and the map keyed by them. *)
LEMMA SeqInvStep ==
  ASSUME TypeOK, LockInv, SeqInv, [Next]_vars PROVE SeqInv'
<1> USE DEF callerVars, chanVars, clientVars, recvVars, netVars
<1>1. ASSUME NEW c \in Calls, CallerStep(c) PROVE SeqInv'
  <2>1. CASE StartCall(c)
    BY <2>1 DEF StartCall, SeqInv, TypeOK, CallerType, ClientType
  <2>2. CASE LockSending(c)
    BY <2>2 DEF LockSending, Lock, SeqInv, TypeOK, CallerType, ClientType
  <2>3. CASE Register(c)
    BY <2>3 DEF Register, Accepts, LockInv, HoldingPCs, SeqInv, TypeOK,
        CallerType, ClientType
  <2>4. CASE RegisterRefused(c)
    BY <2>4 DEF RegisterRefused, Accepts, SeqInv, TypeOK, CallerType,
        ClientType
  <2>5. CASE Unregister(c)
    BY <2>5 DEF Unregister, RemoveCall, StillPending, SeqInv, TypeOK,
        CallerType, ClientType
  <2>6. CASE UnregisterGone(c)
    BY <2>6 DEF UnregisterGone, SendReturns, AfterSend, SeqInv, TypeOK,
        CallerType, ClientType
  <2>7. CASE SendFailed(c)
    BY <2>7 DEF SendFailed, Signal, SendReturns, AfterSend, SeqInv, TypeOK,
        CallerType, ClientType
  <2>8. CASE WriteHeader(c)
    BY <2>8 DEF WriteHeader, NetType, SeqInv, TypeOK, CallerType, ClientType
  <2>9. CASE WriteBody(c)
    BY <2>9 DEF WriteBody, SendReturns, AfterSend, SeqInv, TypeOK, CallerType,
        ClientType
  <2>10. CASE WriteLost(c)
    BY <2>10 DEF WriteLost, SendReturns, AfterSend, SeqInv, TypeOK, CallerType,
        ClientType
  <2>11. CASE WriteFail(c)
    BY <2>11 DEF WriteFail, SeqInv, TypeOK, CallerType, ClientType
  <2>12. CASE Receive(c)
    BY <2>12 DEF Receive, SeqInv, TypeOK, CallerType, ClientType
  <2>13. CASE Expire(c)
    BY <2>13 DEF Expire, SeqInv, TypeOK, CallerType, ClientType
  <2>14. CASE Forget(c)
    BY <2>14 DEF Forget, RemoveCall, SeqInv, TypeOK, CallerType, ClientType
  <2> QED BY <1>1, <2>1, <2>2, <2>3, <2>4, <2>5, <2>6, <2>7, <2>8, <2>9, <2>10,
      <2>11, <2>12, <2>13, <2>14 DEF CallerStep, Send, Write, Await
<1>2. ASSUME Receiving PROVE SeqInv'
  <2>1. CASE RecvRemove
    BY <2>1 DEF RecvRemove, RemoveCall, Lookup, SeqInv, TypeOK, CallerType,
        ClientType
  <2>2. CASE RecvHeader \/ RecvHeaderFail \/ RecvBody \/ RecvDone \/ TermLock
           \/ TermEnd
    BY <2>2 DEF RecvHeader, RecvHeaderFail, RecvBody, RecvDone, TermLock,
        TermEnd, Signal, SeqInv, TypeOK, CallerType, ClientType
  <2>3. ASSUME NEW c \in Calls, TermCall(c) PROVE SeqInv'
    BY <2>3 DEF TermCall, Signal, SeqInv, TypeOK, CallerType, ClientType
  <2> QED BY <1>2, <2>1, <2>2, <2>3 DEF Receiving
<1>3. ASSUME NEW ch \in Chans, Drain(ch) PROVE SeqInv'
  BY <1>3 DEF Drain, SeqInv, TypeOK, CallerType, ClientType
<1>4. ASSUME Close PROVE SeqInv'
  BY <1>4 DEF Close, SeqInv, TypeOK, CallerType, ClientType
<1>5. ASSUME NEW c \in Calls, NEW k \in Kinds, ServerRespond(c, k)
      PROVE  SeqInv'
  BY <1>5 DEF ServerRespond, SeqInv, TypeOK, CallerType, ClientType
<1>6. ASSUME ConnBreak PROVE SeqInv'
  BY <1>6 DEF ConnBreak, SeqInv, TypeOK, CallerType, ClientType
<1>7. CASE UNCHANGED vars BY <1>7 DEF vars, SeqInv, TypeOK, CallerType,
    ClientType
<1> QED BY <1>1, <1>2, <1>3, <1>4, <1>5, <1>6, <1>7 DEF Next, Finished

(* A step keeps every response under way, or in the receiver's hands, marked
    with the sequence number of the request it answers. *)
LEMMA ResponseInvStep ==
  ASSUME TypeOK, SeqInv, ReceiverInv, ResponseInv, [Next]_vars
  PROVE  ResponseInv'
<1> USE ClientAssumption DEF callerVars, chanVars, clientVars, recvVars, netVars
<1>1. ASSUME NEW c \in Calls, CallerStep(c) PROVE ResponseInv'
  <2>1. CASE Register(c)
    BY <2>1 DEF Register, Accepts, SeqInv, ResponseInv, ReceiverInv, Genuine,
        TypeOK, ClientAssumption
  <2>2. CASE WriteHeader(c)
    BY <2>2 DEF WriteHeader, SeqInv, ResponseInv, ReceiverInv, Genuine, TypeOK,
        ClientAssumption
  <2>3. CASE WriteBody(c)
    BY <2>3 DEF WriteBody, SendReturns, AfterSend, ResponseInv, ReceiverInv,
        Genuine, TypeOK, ClientAssumption
  <2>4. CASE StartCall(c) \/ LockSending(c) \/ RegisterRefused(c) \/
           Unregister(c) \/ UnregisterGone(c) \/ SendFailed(c) \/ WriteLost(c)
           \/ WriteFail(c) \/ Receive(c) \/ Expire(c) \/ Forget(c)
    BY <2>4 DEF StartCall, LockSending, RegisterRefused, Unregister,
        UnregisterGone, SendFailed, WriteLost, WriteFail, Receive, Expire,
        Forget, RemoveCall, SendReturns, Signal, ResponseInv, ReceiverInv,
        Genuine, TypeOK, ClientAssumption
  <2> QED BY <1>1, <2>1, <2>2, <2>3, <2>4 DEF CallerStep, Send, Write, Await
<1>2. ASSUME Receiving PROVE ResponseInv'
  <2>1. CASE RecvHeader
    <3>1. /\ hdr' = inbox[1] /\ 1 \in 1..Len(inbox)
          /\ \A i \in 1..Len(inbox') :
               i + 1 \in 1..Len(inbox) /\ inbox'[i] = inbox[i + 1]
      BY <2>1 DEF RecvHeader, TypeOK, NetType
    <3> QED
      BY <2>1, <3>1 DEF RecvHeader, ResponseInv, ReceiverInv, Genuine
  <2>2. CASE RecvHeaderFail
    BY <2>2 DEF RecvHeaderFail, ErrorLeadsTo, ResponseInv, ReceiverInv,
        Genuine, TypeOK, ClientAssumption
  <2>3. CASE RecvRemove
    BY <2>3 DEF RecvRemove, RemoveCall, Lookup, SeqInv, ClientType,
        ResponseInv, ReceiverInv, Genuine, TypeOK, ClientAssumption
  <2>4. CASE RecvBody
    BY <2>4 DEF RecvBody, BodyResults, Decoded, ErrorLeadsTo, ResponseInv,
        ReceiverInv, Genuine, TypeOK, ClientAssumption
  <2>5. CASE RecvDone
    BY <2>5 DEF RecvDone, Signal, ErrorLeadsTo, ResponseInv, ReceiverInv,
        Genuine, TypeOK, ClientAssumption
  <2>6. CASE TermLock
    BY <2>6 DEF TermLock, Lock, ResponseInv, ReceiverInv, Genuine, TypeOK,
        ClientAssumption
  <2>7. CASE TermEnd
    BY <2>7 DEF TermEnd, ResponseInv, ReceiverInv, Genuine, TypeOK,
        ClientAssumption
  <2>8. ASSUME NEW c \in Calls, TermCall(c) PROVE ResponseInv'
    BY <2>8 DEF TermCall, Signal, ResponseInv, ReceiverInv, Genuine, TypeOK,
        ClientAssumption
  <2> QED BY <1>2, <2>1, <2>2, <2>3, <2>4, <2>5, <2>6, <2>7, <2>8 DEF Receiving
<1>3. ASSUME NEW ch \in Chans, Drain(ch) PROVE ResponseInv'
  BY <1>3 DEF Drain, ResponseInv, ReceiverInv, Genuine, TypeOK,
      ClientAssumption
<1>4. ASSUME Close PROVE ResponseInv'
  BY <1>4 DEF Close, ResponseInv, ReceiverInv, Genuine, TypeOK,
      ClientAssumption
<1>5. ASSUME NEW c \in Calls, NEW k \in Kinds, ServerRespond(c, k)
      PROVE  ResponseInv'
  BY <1>5 DEF ServerRespond, NetType, Responses, ResponseInv, ReceiverInv,
      Genuine, TypeOK, ClientAssumption
<1>6. ASSUME ConnBreak PROVE ResponseInv'
  BY <1>6 DEF ConnBreak, ResponseInv, ReceiverInv, Genuine, TypeOK,
      ClientAssumption
<1>7. CASE UNCHANGED vars BY <1>7 DEF vars, ResponseInv, ReceiverInv, Genuine,
    TypeOK, ClientAssumption
<1> QED BY <1>1, <1>2, <1>3, <1>4, <1>5, <1>6, <1>7 DEF Next, Finished

(* A step keeps the receiver's call and terminateCalls' list where they belong.
    *)
LEMMA ReceiverInvStep ==
  ASSUME ReceiverInv, [Next]_vars PROVE ReceiverInv'
<1> USE DEF callerVars, chanVars, clientVars, recvVars, netVars
<1>1. ASSUME NEW c \in Calls, CallerStep(c) PROVE ReceiverInv'
  BY <1>1 DEF CallerStep, Send, Write, Await, StartCall, LockSending, Register,
      RegisterRefused, Unregister, UnregisterGone, SendFailed, WriteHeader,
      WriteBody, WriteLost, WriteFail, Receive, Expire, Forget, SendReturns,
      Signal, RemoveCall, ReceiverInv
<1>2. ASSUME Receiving PROVE ReceiverInv'
  <2>1. CASE RecvHeader
    BY <2>1 DEF RecvHeader, ReceiverInv
  <2>2. CASE RecvHeaderFail
    BY <2>2 DEF RecvHeaderFail, ErrorLeadsTo, ReceiverInv
  <2>3. CASE RecvRemove
    BY <2>3 DEF RecvRemove, RemoveCall, Lookup, ReceiverInv
  <2>4. CASE RecvBody
    BY <2>4 DEF RecvBody, BodyResults, Decoded, ErrorLeadsTo, ReceiverInv
  <2>5. CASE RecvDone
    BY <2>5 DEF RecvDone, Signal, ErrorLeadsTo, ReceiverInv
  <2>6. CASE TermLock
    BY <2>6 DEF TermLock, Lock, ReceiverInv
  <2>7. CASE TermEnd
    BY <2>7 DEF TermEnd, ReceiverInv
  <2>8. ASSUME NEW c \in Calls, TermCall(c) PROVE ReceiverInv'
    BY <2>8 DEF TermCall, Signal, ReceiverInv
  <2> QED BY <1>2, <2>1, <2>2, <2>3, <2>4, <2>5, <2>6, <2>7, <2>8 DEF Receiving
<1>3. ASSUME NEW ch \in Chans, Drain(ch) PROVE ReceiverInv'
  BY <1>3 DEF Drain, ReceiverInv
<1>4. ASSUME Close PROVE ReceiverInv'
  BY <1>4 DEF Close, ReceiverInv
<1>5. ASSUME NEW c \in Calls, NEW k \in Kinds, ServerRespond(c, k)
      PROVE  ReceiverInv'
  BY <1>5 DEF ServerRespond, ReceiverInv
<1>6. ASSUME ConnBreak PROVE ReceiverInv'
  BY <1>6 DEF ConnBreak, ReceiverInv
<1>7. CASE UNCHANGED vars BY <1>7 DEF vars, ReceiverInv
<1> QED BY <1>1, <1>2, <1>3, <1>4, <1>5, <1>6, <1>7 DEF Next, Finished

(* A step leaves every unsignalled call with exactly one place that may signal
    it. Register hands a call to the map, removeCall hands it to whoever
    removed it, and terminateCalls takes what is left in the map. *)
LEMMA DutyInvStep ==
  ASSUME IInv, [Next]_vars PROVE DutyInv'
<1> USE ClientAssumption DEF callerVars, chanVars, clientVars, recvVars, netVars
<1>1. ASSUME NEW c \in Calls, CallerStep(c) PROVE DutyInv'
  <2>1. CASE StartCall(c)
    BY <2>1 DEF StartCall, DutyInv, Pending, IInv, TypeOK, CallerType,
        ChanType, ClientType, ClientAssumption
  <2>2. CASE LockSending(c)
    BY <2>2 DEF LockSending, Lock, DutyInv, Pending, IInv, TypeOK, CallerType,
        ChanType, ClientType, ClientAssumption
  <2>3. CASE Register(c)
    <3>1. /\ seqOf[c] = 0 /\ signals[c] = 0
          /\ rcall # None => seqOf[rcall] # 0 /\ seqOf[rcall] < seq
          /\ seq \notin DOMAIN pending
      BY <2>3 DEF Register, IInv, TypeOK, RecvType, ClientType, CallerType,
                  SeqInv, DutyInv, ResponseInv, ReceiverInv, Genuine
    <3>2. \A d \in Calls : Pending(d)' => Pending(d) \/ d = c
      BY <2>3, <3>1 DEF Register, Pending, IInv, TypeOK, CallerType, SeqInv
    <3>3. \A d \in Calls : signals[d] <= 1
      BY DEF IInv, DutyInv
    <3>4. rcall # None => rcall # c /\ ~Pending(rcall)'
      BY <2>3, <3>1, <3>2 DEF Register, IInv, TypeOK, RecvType, DutyInv
    <3> QED
      BY <2>3, <3>1, <3>2, <3>3, <3>4
      DEF Register, IInv, TypeOK, CallerType, LockInv, SeqInv, DutyInv,
          HoldingPCs, Accepts
  <2>4. CASE RegisterRefused(c)
    BY <2>4 DEF RegisterRefused, Accepts, SeqInv, ReceiverInv, LockInv,
        ResponseInv, Genuine, DutyInv, Pending, IInv, TypeOK, CallerType,
        ChanType, ClientType, ClientAssumption
  <2>5. CASE Unregister(c)
    BY <2>5 DEF Unregister, RemoveCall, StillPending, Lookup, SeqInv, LockInv,
        ReceiverInv, DutyInv, Pending, IInv, TypeOK, CallerType, ChanType,
        ClientType, ClientAssumption
  <2>6. CASE UnregisterGone(c)
    BY <2>6 DEF UnregisterGone, SendReturns, AfterSend, DutyInv, Pending, IInv,
        TypeOK, CallerType, ChanType, ClientType, ClientAssumption
  <2>7. CASE SendFailed(c)
    BY <2>7 DEF SendFailed, Signal, SendReturns, AfterSend, LockInv, DutyInv,
        Pending, IInv, TypeOK, CallerType, ChanType, ClientType,
        ClientAssumption
  <2>8. CASE WriteHeader(c)
    BY <2>8 DEF WriteHeader, DutyInv, Pending, IInv, TypeOK, CallerType,
        ChanType, ClientType, ClientAssumption
  <2>9. CASE WriteBody(c)
    BY <2>9 DEF WriteBody, SendReturns, AfterSend, DutyInv, Pending, IInv,
        TypeOK, CallerType, ChanType, ClientType, ClientAssumption
  <2>10. CASE WriteLost(c)
    BY <2>10 DEF WriteLost, SendReturns, AfterSend, DutyInv, Pending, IInv,
        TypeOK, CallerType, ChanType, ClientType, ClientAssumption
  <2>11. CASE WriteFail(c)
    BY <2>11 DEF WriteFail, DutyInv, Pending, IInv, TypeOK, CallerType,
        ChanType, ClientType, ClientAssumption
  <2>12. CASE Receive(c)
    BY <2>12 DEF Receive, DutyInv, Pending, IInv, TypeOK, CallerType, ChanType,
        ClientType, ClientAssumption
  <2>13. CASE Expire(c)
    BY <2>13 DEF Expire, DutyInv, Pending, IInv, TypeOK, CallerType, ChanType,
        ClientType, ClientAssumption
  <2>14. CASE Forget(c)
    BY <2>14 DEF Forget, RemoveCall, SeqInv, DutyInv, Pending, IInv, TypeOK,
        CallerType, ChanType, ClientType, ClientAssumption
  <2> QED BY <1>1, <2>1, <2>2, <2>3, <2>4, <2>5, <2>6, <2>7, <2>8, <2>9, <2>10,
      <2>11, <2>12, <2>13, <2>14 DEF CallerStep, Send, Write, Await
<1>2. ASSUME Receiving PROVE DutyInv'
  <2>1. CASE RecvRemove
    BY <2>1 DEF RecvRemove, RemoveCall, Lookup, SeqInv, ReceiverInv, LockInv,
        DutyInv, Pending, IInv, TypeOK, CallerType, ChanType, ClientType,
        ClientAssumption
  <2>2. CASE RecvDone
    BY <2>2 DEF RecvDone, Signal, ErrorLeadsTo, ReceiverInv, RecvType, LockInv,
        SeqInv, ResponseInv, Genuine, DutyInv, Pending, IInv, TypeOK,
        CallerType, ChanType, ClientType, ClientAssumption
  <2>3. CASE TermLock
    BY <2>3 DEF TermLock, Lock, LockInv, SeqInv, ReceiverInv, RecvType,
        DutyInv, Pending, IInv, TypeOK, CallerType, ChanType, ClientType,
        ClientAssumption
  <2>4. CASE RecvHeader \/ RecvHeaderFail \/ RecvBody \/ TermEnd
    BY <2>4 DEF RecvHeader, RecvHeaderFail, RecvBody, TermEnd, DutyInv,
        Pending, IInv, TypeOK, CallerType, ChanType, ClientType,
        ClientAssumption
  <2>5. ASSUME NEW c \in Calls, TermCall(c) PROVE DutyInv'
    BY <2>5 DEF TermCall, Signal, LockInv, SeqInv, ReceiverInv, DutyInv,
        Pending, IInv, TypeOK, CallerType, ChanType, ClientType,
        ClientAssumption
  <2> QED BY <1>2, <2>1, <2>2, <2>3, <2>4, <2>5 DEF Receiving
<1>3. ASSUME NEW ch \in Chans, Drain(ch) PROVE DutyInv'
  BY <1>3 DEF Drain, DutyInv, Pending, IInv, TypeOK, CallerType, ChanType,
      ClientType, ClientAssumption
<1>4. ASSUME Close PROVE DutyInv'
  BY <1>4 DEF Close, DutyInv, Pending, IInv, TypeOK, CallerType, ChanType,
      ClientType, ClientAssumption
<1>5. ASSUME NEW c \in Calls, NEW k \in Kinds, ServerRespond(c, k)
      PROVE  DutyInv'
  BY <1>5 DEF ServerRespond, DutyInv, Pending, IInv, TypeOK, CallerType,
      ChanType, ClientType, ClientAssumption
<1>6. ASSUME ConnBreak PROVE DutyInv'
  BY <1>6 DEF ConnBreak, DutyInv, Pending, IInv, TypeOK, CallerType, ChanType,
      ClientType, ClientAssumption
<1>7. CASE UNCHANGED vars BY <1>7 DEF vars, DutyInv, Pending, IInv, TypeOK,
    CallerType, ChanType, ClientType, ClientAssumption
<1> QED BY <1>1, <1>2, <1>3, <1>4, <1>5, <1>6, <1>7 DEF Next, Finished

(* A step loses no registered call: until it is signalled or times out, it is
    in the map, in the receiver's hands, being given up by send, or on the list
    of terminateCalls. *)
LEMMA OwedInvStep ==
  ASSUME IInv, [Next]_vars PROVE OwedInv'
<1> USE ClientAssumption DEF callerVars, chanVars, clientVars, recvVars, netVars
<1>1. ASSUME NEW c \in Calls, CallerStep(c) PROVE OwedInv'
  <2>1. CASE StartCall(c)
    BY <2>1 DEF StartCall, OwedInv, Pending, IInv, TypeOK, CallerType,
        ChanType, ClientType, ClientAssumption
  <2>2. CASE LockSending(c)
    BY <2>2 DEF LockSending, Lock, OwedInv, Pending, IInv, TypeOK, CallerType,
        ChanType, ClientType, ClientAssumption
  <2>3. CASE Register(c)
    BY <2>3 DEF Register, Accepts, LockInv, SeqInv, ReceiverInv, OwedInv,
        Pending, IInv, TypeOK, CallerType, ChanType, ClientType,
        ClientAssumption
  <2>4. CASE RegisterRefused(c)
    BY <2>4 DEF RegisterRefused, Accepts, SeqInv, OwedInv, Pending, IInv,
        TypeOK, CallerType, ChanType, ClientType, ClientAssumption
  <2>5. CASE Unregister(c)
    BY <2>5 DEF Unregister, RemoveCall, StillPending, Lookup, SeqInv, LockInv,
        OwedInv, Pending, IInv, TypeOK, CallerType, ChanType, ClientType,
        ClientAssumption
  <2>6. CASE UnregisterGone(c)
    BY <2>6 DEF UnregisterGone, SendReturns, AfterSend, OwedInv, Pending, IInv,
        TypeOK, CallerType, ChanType, ClientType, ClientAssumption
  <2>7. CASE SendFailed(c)
    BY <2>7 DEF SendFailed, Signal, SendReturns, AfterSend, OwedInv, Pending,
        IInv, TypeOK, CallerType, ChanType, ClientType, ClientAssumption
  <2>8. CASE WriteHeader(c)
    BY <2>8 DEF WriteHeader, OwedInv, Pending, IInv, TypeOK, CallerType,
        ChanType, ClientType, ClientAssumption
  <2>9. CASE WriteBody(c)
    BY <2>9 DEF WriteBody, SendReturns, AfterSend, OwedInv, Pending, IInv,
        TypeOK, CallerType, ChanType, ClientType, ClientAssumption
  <2>10. CASE WriteLost(c)
    BY <2>10 DEF WriteLost, SendReturns, AfterSend, OwedInv, Pending, IInv,
        TypeOK, CallerType, ChanType, ClientType, ClientAssumption
  <2>11. CASE WriteFail(c)
    BY <2>11 DEF WriteFail, OwedInv, Pending, IInv, TypeOK, CallerType,
        ChanType, ClientType, ClientAssumption
  <2>12. CASE Receive(c)
    BY <2>12 DEF Receive, OwedInv, Pending, IInv, TypeOK, CallerType, ChanType,
        ClientType, ClientAssumption
  <2>13. CASE Expire(c)
    BY <2>13 DEF Expire, OwedInv, Pending, IInv, TypeOK, CallerType, ChanType,
        ClientType, ClientAssumption
  <2>14. CASE Forget(c)
    BY <2>14 DEF Forget, RemoveCall, SeqInv, LockInv, OwedInv, Pending, IInv,
        TypeOK, CallerType, ChanType, ClientType, ClientAssumption
  <2> QED BY <1>1, <2>1, <2>2, <2>3, <2>4, <2>5, <2>6, <2>7, <2>8, <2>9, <2>10,
      <2>11, <2>12, <2>13, <2>14 DEF CallerStep, Send, Write, Await
<1>2. ASSUME Receiving PROVE OwedInv'
  <2>1. CASE RecvRemove
    BY <2>1 DEF RecvRemove, RemoveCall, Lookup, SeqInv, ReceiverInv, LockInv,
        OwedInv, Pending, IInv, TypeOK, CallerType, ChanType, ClientType,
        ClientAssumption
  <2>2. CASE RecvDone
    BY <2>2 DEF RecvDone, Signal, ErrorLeadsTo, ReceiverInv, RecvType, LockInv,
        OwedInv, Pending, IInv, TypeOK, CallerType, ChanType, ClientType,
        ClientAssumption
  <2>3. CASE TermLock
    <3>1. \A c \in Calls : pc[c] # "fail" /\ rcall = None /\ ~shutdown
      BY <2>3 DEF TermLock, Lock, IInv, TypeOK, RecvType, LockInv, HoldingPCs,
                  ReceiverInv
    <3>2. \A c \in Calls : Pending(c) => c \in todo'
      BY <2>3, PendingOwner DEF TermLock, IInv, Pending
    <3> QED BY <2>3, <3>1, <3>2 DEF TermLock, IInv, OwedInv
  <2>4. CASE RecvHeader \/ RecvHeaderFail \/ RecvBody \/ TermEnd
    BY <2>4 DEF RecvHeader, RecvHeaderFail, RecvBody, TermEnd, OwedInv,
        Pending, IInv, TypeOK, CallerType, ChanType, ClientType,
        ClientAssumption
  <2>5. ASSUME NEW c \in Calls, TermCall(c) PROVE OwedInv'
    BY <2>5 DEF TermCall, Signal, LockInv, OwedInv, Pending, IInv, TypeOK,
        CallerType, ChanType, ClientType, ClientAssumption
  <2> QED BY <1>2, <2>1, <2>2, <2>3, <2>4, <2>5 DEF Receiving
<1>3. ASSUME NEW ch \in Chans, Drain(ch) PROVE OwedInv'
  BY <1>3 DEF Drain, OwedInv, Pending, IInv, TypeOK, CallerType, ChanType,
      ClientType, ClientAssumption
<1>4. ASSUME Close PROVE OwedInv'
  BY <1>4 DEF Close, OwedInv, Pending, IInv, TypeOK, CallerType, ChanType,
      ClientType, ClientAssumption
<1>5. ASSUME NEW c \in Calls, NEW k \in Kinds, ServerRespond(c, k)
      PROVE  OwedInv'
  BY <1>5 DEF ServerRespond, OwedInv, Pending, IInv, TypeOK, CallerType,
      ChanType, ClientType, ClientAssumption
<1>6. ASSUME ConnBreak PROVE OwedInv'
  BY <1>6 DEF ConnBreak, OwedInv, Pending, IInv, TypeOK, CallerType, ChanType,
      ClientType, ClientAssumption
<1>7. CASE UNCHANGED vars BY <1>7 DEF vars, OwedInv, Pending, IInv, TypeOK,
    CallerType, ChanType, ClientType, ClientAssumption
<1> QED BY <1>1, <1>2, <1>3, <1>4, <1>5, <1>6, <1>7 DEF Next, Finished

(* The invariant holds at the start and is kept by every step. *)
THEOREM Inductive == Spec => []IInv
<1>1. Init => IInv
  <2> SUFFICES ASSUME Init PROVE IInv
    OBVIOUS
  <2> USE ClientAssumption DEF Init, InitSeq, ClientAssumption
  <2>1. CallerType /\ ChanType
    BY DEF CallerType, ChanType, CallerPCs
  <2>2. ClientType
    <3>1. DOMAIN pending = {}
      OBVIOUS
    <3>2. /\ sending \in Calls \cup {None, Receiver}
          /\ header \in Nat /\ seq \in Nat \ {0}
      OBVIOUS
    <3>3. closing \in BOOLEAN /\ shutdown \in BOOLEAN
      OBVIOUS
    <3> QED BY <3>1, <3>2, <3>3 DEF ClientType
  <2>3. RecvType /\ NetType
    BY DEF RecvType, NetType, RecvPCs, Responses, NoHeader, Kinds
  <2>4. LockInv /\ SeqInv /\ ResponseInv /\ ReceiverInv
    BY DEF LockInv, SeqInv, ResponseInv, ReceiverInv, HoldingPCs
  <2>5. DutyInv /\ OwedInv
    BY DEF DutyInv, OwedInv, Pending
  <2> QED BY <2>1, <2>2, <2>3, <2>4, <2>5 DEF IInv, TypeOK
<1>2. IInv /\ [Next]_vars => IInv'
  <2> SUFFICES ASSUME IInv, [Next]_vars PROVE IInv'
    OBVIOUS
  <2>1. TypeOK'
    BY CallerTypeStep, ChanTypeStep, ClientTypeStep, RecvTypeStep, NetTypeStep
    DEF IInv, TypeOK
  <2>2. LockInv' /\ SeqInv' /\ ResponseInv' /\ ReceiverInv'
    BY LockInvStep, SeqInvStep, ResponseInvStep, ReceiverInvStep DEF IInv
  <2>3. DutyInv' /\ OwedInv'
    BY DutyInvStep, OwedInvStep
  <2> QED BY <2>1, <2>2, <2>3 DEF IInv
<1> QED BY <1>1, <1>2, PTL DEF Spec

(* The client's variables keep their types, for every set of calls. *)
THEOREM TypeCorrect == Spec => []TypeOK
<1>1. IInv => TypeOK BY DEF IInv
<1> QED BY <1>1, Inductive, PTL

(* done() runs at most once for a call: send, receive and terminateCalls   *)
(* never both complete the same call.                                      *)
THEOREM SignalledOnce == Spec => []SignalledAtMostOnce
<1>1. IInv => SignalledAtMostOnce
  BY DEF IInv, DutyInv, SignalledAtMostOnce
<1> QED BY <1>1, Inductive, PTL

(* The call in the receiver's hands is the one the response answers: they  *)
(* have the same sequence number, and no two calls share one.              *)
LEMMA MatchingCall == ASSUME IInv PROVE ReplyMatchesRequest
<1> SUFFICES ASSUME rpc \in {"body", "done", "lastDone"}, rcall # None
             PROVE  rcall = hdr.of
  BY DEF ReplyMatchesRequest
<1>1. /\ Genuine(hdr) /\ seqOf[rcall] = hdr.seq
      /\ rcall \in Calls /\ hdr.of \in Calls
  BY DEF IInv, ResponseInv, Genuine, TypeOK, RecvType, NetType
<1>2. hdr.seq = seqOf[hdr.of] /\ hdr.seq # 0
  BY <1>1 DEF IInv, SeqInv, Genuine
<1> QED BY <1>1, <1>2 DEF IInv, SeqInv

(* receive decodes a response into the Reply of the call it answers. *)
THEOREM RepliesMatch == Spec => []ReplyMatchesRequest
BY MatchingCall, Inductive, PTL


(* Only receive makes a call successful, from a genuine response. *)
LEMMA ServedStep ==
  ASSUME IInv, ReplyWasServed, [Next]_vars PROVE ReplyWasServed'
<1> USE DEF callerVars, chanVars, clientVars, recvVars, netVars
<1>1. ASSUME NEW c \in Calls, CallerStep(c) PROVE ReplyWasServed'
  <2>1. CASE RegisterRefused(c)
    BY <2>1 DEF RegisterRefused, Accepts, ReplyWasServed, IInv, TypeOK,
        CallerType
  <2>2. CASE Unregister(c)
    BY <2>2 DEF Unregister, RemoveCall, StillPending, ReplyWasServed, IInv,
        TypeOK, CallerType
  <2>3. CASE WriteBody(c)
    BY <2>3 DEF WriteBody, SendReturns, AfterSend, ReplyWasServed, IInv,
        TypeOK, CallerType
  <2>4. CASE StartCall(c) \/ LockSending(c) \/ Register(c) \/ UnregisterGone(c)
           \/ SendFailed(c) \/ WriteHeader(c) \/ WriteLost(c) \/ WriteFail(c)
           \/ Receive(c) \/ Expire(c) \/ Forget(c)
    BY <2>4 DEF StartCall, LockSending, Register, UnregisterGone, SendFailed,
        WriteHeader, WriteLost, WriteFail, Receive, Expire, Forget,
        SendReturns, Signal, RemoveCall, ReplyWasServed, IInv, TypeOK,
        CallerType
  <2> QED BY <1>1, <2>1, <2>2, <2>3, <2>4 DEF CallerStep, Send, Write, Await
<1>2. ASSUME Receiving PROVE ReplyWasServed'
  <2>1. CASE RecvBody
    <3>1. rcall # None /\ hdr.kind = "ok" => rcall \in complete \cap answered
      BY <2>1, MatchingCall
      DEF RecvBody, BodyResults, ReplyMatchesRequest, IInv, ResponseInv, Genuine
    <3> QED
      BY <2>1, <3>1 DEF RecvBody, Decoded, BodyResults, ReplyWasServed, IInv,
                        TypeOK, CallerType
  <2>2. CASE RecvHeader \/ RecvHeaderFail \/ RecvRemove \/ RecvDone \/ TermLock
           \/ TermEnd
    BY <2>2 DEF RecvHeader, RecvHeaderFail, RecvRemove, RecvDone, TermLock,
        TermEnd, RemoveCall, Signal, ReplyWasServed, IInv, TypeOK, CallerType
  <2>3. ASSUME NEW c \in Calls, TermCall(c) PROVE ReplyWasServed'
    BY <2>3 DEF TermCall, Signal, ReplyWasServed, IInv, TypeOK, CallerType
  <2> QED BY <1>2, <2>1, <2>2, <2>3 DEF Receiving
<1>3. ASSUME NEW ch \in Chans, Drain(ch) PROVE ReplyWasServed'
  BY <1>3 DEF Drain, ReplyWasServed, IInv, TypeOK, CallerType
<1>4. ASSUME Close PROVE ReplyWasServed'
  BY <1>4 DEF Close, ReplyWasServed, IInv, TypeOK, CallerType
<1>5. ASSUME NEW c \in Calls, NEW k \in Kinds, ServerRespond(c, k)
      PROVE  ReplyWasServed'
  BY <1>5 DEF ServerRespond, ReplyWasServed, IInv, TypeOK, CallerType
<1>6. ASSUME ConnBreak PROVE ReplyWasServed'
  BY <1>6 DEF ConnBreak, ReplyWasServed, IInv, TypeOK, CallerType
<1>7. CASE UNCHANGED vars BY <1>7 DEF vars, ReplyWasServed, IInv, TypeOK,
    CallerType
<1> QED BY <1>1, <1>2, <1>3, <1>4, <1>5, <1>6, <1>7 DEF Next, Finished

(* A caller told of success had its request written and answered. *)
THEOREM Served == Spec => []ReplyWasServed
<1>1. Init => ReplyWasServed
  BY DEF Init, ReplyWasServed
<1> QED BY <1>1, ServedStep, Inductive, PTL DEF Spec

(* When the receiver has stopped, no registered call is left waiting. *)
THEOREM NobodyOrphaned == Spec => []NoOrphan
<1>1. IInv => NoOrphan
  BY DEF IInv, TypeOK, ChanType, NoOrphan, LockInv, ReceiverInv, DutyInv,
         OwedInv
<1> QED BY <1>1, Inductive, PTL

(* terminateCalls closes the door: nothing is registered or written after. *)
THEOREM Shut == Spec => NothingSentAfterShutdown
<1> DEFINE Quiet ==
             shutdown => seq' = seq /\ wire' = wire /\ complete' = complete
<1>1. IInv /\ [Next]_vars => [Quiet]_vars
  <2> SUFFICES ASSUME IInv, Next, shutdown
               PROVE  seq' = seq /\ wire' = wire /\ complete' = complete
    BY DEF vars
  <2> USE DEF callerVars, chanVars, clientVars, recvVars, netVars
  <2>1. ASSUME NEW c \in Calls, CallerStep(c)
        PROVE  seq' = seq /\ wire' = wire /\ complete' = complete
    <3>1. ~Register(c) /\ ~WriteHeader(c) /\ ~WriteBody(c)
      BY DEF Register, Accepts, WriteHeader, WriteBody, IInv, LockInv
    <3> QED
      BY <2>1, <3>1
      DEF CallerStep, Send, Write, Await, StartCall, LockSending,
          RegisterRefused, Unregister, UnregisterGone, SendFailed, WriteLost,
          WriteFail, Receive, Expire, Forget
  <2>2. ASSUME Receiving
        PROVE  seq' = seq /\ wire' = wire /\ complete' = complete
    BY <2>2
    DEF Receiving, RecvHeader, RecvHeaderFail, RecvRemove, RecvBody, RecvDone,
        TermLock, TermCall, TermEnd
  <2> QED
    BY <2>1, <2>2
    DEF Next, Drain, Close, ServerRespond, ConnBreak, Finished, vars
<1> QED BY <1>1, Inductive, PTL DEF Spec, NothingSentAfterShutdown

-----------------------------------------------------------------------------
(* The client implements RpcCall. *)

(* What the mapping needs besides IInv: a Done channel holds only calls of *)
(* its own that are settled, and whoever is about to settle a call has its *)
(* verdict.                                                                *)
MapInv ==
  /\ \A ch \in Chans : \A i \in 1..Len(chan[ch]) :
       ChanOf[chan[ch][i]] = ch /\ signals[chan[ch][i]] > 0
  /\ \A c \in Calls : /\ pc[c] = "wait" => c \in SyncCalls
                      /\ pc[c] = "expired" => c \in Deadlined
                      /\ pc[c] = "fail" => outcome[c] = "error"
  /\ rpc \in {"done", "lastDone"} => outcome[rcall] \in {"reply", "error"}

(* A channel from which the first call is taken, or to which one is added. *)
LEMMA ChanAfter ==
  ASSUME IInv, MapInv, NEW ch \in Chans, NEW c \in Calls, ChanOf[c] = ch,
         \/ chan[ch] # << >> /\ chan' = [chan EXCEPT ![ch] = Tail(@)] /\ signals' = signals
         \/ chan' = [chan EXCEPT ![ch] = Append(@, c)]
            /\ signals' = [signals EXCEPT ![c] = @ + 1]
  PROVE  \A h \in Chans : \A i \in 1..Len(chan'[h]) :
           ChanOf[chan'[h][i]] = h /\ signals'[chan'[h][i]] > 0
<1> USE DEF IInv, TypeOK, ChanType, MapInv
<1>1. \A h \in Chans : h # ch => chan'[h] = chan[h]
  OBVIOUS
<1>2. ASSUME NEW d \in Calls, signals[d] > 0 PROVE signals'[d] > 0
  <2>1. signals[d] \in Nat
    OBVIOUS
  <2>2. CASE signals' = signals
    BY <2>2, <1>2
  <2>3. CASE signals' = [signals EXCEPT ![c] = @ + 1]
    <3>1. signals'[d] = IF d = c THEN signals[d] + 1 ELSE signals[d]
      BY <2>3
    <3> QED BY <3>1, <2>1, <1>2
  <2> QED BY <2>2, <2>3
<1>3. \A h \in Chans : \A i \in 1..Len(chan[h]) : chan[h][i] \in Calls
  OBVIOUS
<1>4. \A i \in 1..Len(chan'[ch]) :
        \/ chan'[ch][i] = c /\ signals'[c] > 0
        \/ \E j \in 1..Len(chan[ch]) : chan'[ch][i] = chan[ch][j]
  <2>1. CASE chan[ch] # << >> /\ chan' = [chan EXCEPT ![ch] = Tail(@)]
    <3>1. \A i \in 1..Len(chan'[ch]) : i + 1 \in 1..Len(chan[ch]) /\ chan'[ch][i] = chan[ch][i + 1]
      BY <2>1
    <3> QED BY <3>1
  <2>2. CASE chan' = [chan EXCEPT ![ch] = Append(@, c)] /\ signals' = [signals EXCEPT ![c] = @ + 1]
    BY <2>2
  <2> QED BY <2>1, <2>2
<1>5. ASSUME NEW h \in Chans, NEW i \in 1..Len(chan'[h])
      PROVE  ChanOf[chan'[h][i]] = h /\ signals'[chan'[h][i]] > 0
  <2>1. CASE h # ch
    <3>1. i \in 1..Len(chan[h]) /\ chan'[h][i] = chan[h][i]
      BY <2>1, <1>1, <1>5
    <3>2. ChanOf[chan[h][i]] = h /\ signals[chan[h][i]] > 0 /\ chan[h][i] \in Calls
      BY <3>1, <1>3
    <3> QED BY <3>1, <3>2, <1>2
  <2>2. CASE h = ch /\ chan'[ch][i] = c /\ signals'[c] > 0
    BY <2>2
  <2>3. CASE h = ch /\ \E j \in 1..Len(chan[ch]) : chan'[ch][i] = chan[ch][j]
    <3>1. PICK j \in 1..Len(chan[ch]) : chan'[ch][i] = chan[ch][j]
      BY <2>3
    <3>2. ChanOf[chan[ch][j]] = ch /\ signals[chan[ch][j]] > 0 /\ chan[ch][j] \in Calls
      BY <1>3
    <3> QED BY <2>3, <3>1, <3>2, <1>2
  <2> QED BY <2>1, <2>2, <2>3, <1>4, <1>5
<1> QED BY <1>5

(* A step keeps the mapping's invariant. *)
LEMMA MapStep ==
  ASSUME IInv, MapInv, [Next]_vars PROVE MapInv'
<1> USE ClientAssumption
    DEF callerVars, chanVars, clientVars, recvVars, netVars, IInv, TypeOK, CallerType
<1>1. ASSUME NEW c \in Calls, CallerStep(c) PROVE MapInv'
  <2>1. CASE SendFailed(c)
    <3>1. \A h \in Chans : \A i \in 1..Len(chan'[h]) :
            ChanOf[chan'[h][i]] = h /\ signals'[chan'[h][i]] > 0
      BY <2>1, ChanAfter DEF SendFailed, Signal, ClientAssumption
    <3> QED
      BY <2>1, <3>1 DEF SendFailed, SendReturns, AfterSend, MapInv
  <2>2. CASE Receive(c)
    <3>1. \A h \in Chans : \A i \in 1..Len(chan'[h]) :
            ChanOf[chan'[h][i]] = h /\ signals'[chan'[h][i]] > 0
      BY <2>2, ChanAfter DEF Receive, ClientAssumption
    <3> QED BY <2>2, <3>1 DEF Receive, MapInv
  <2>3. CASE RegisterRefused(c) \/ Unregister(c)
    <3>1. /\ chan' = chan /\ signals' = signals /\ rpc' = rpc /\ rcall' = rcall
          /\ pc' = [pc EXCEPT ![c] = "fail"]
          /\ outcome' = [outcome EXCEPT ![c] = "error"]
      BY <2>3 DEF RegisterRefused, Unregister
    <3>2. rpc \in {"done", "lastDone"} => outcome'[rcall] \in {"reply", "error"}
      <4>1. rcall = c \/ outcome'[rcall] = outcome[rcall]
        BY <3>1
      <4>2. outcome'[c] = "error"
        BY <3>1
      <4> QED BY <4>1, <4>2 DEF MapInv
    <3> QED BY <3>1, <3>2 DEF MapInv
  <2>4. CASE StartCall(c) \/ LockSending(c) \/ Register(c) \/ UnregisterGone(c)
           \/ WriteHeader(c) \/ WriteBody(c) \/ WriteLost(c) \/ WriteFail(c)
    BY <2>4 DEF StartCall, LockSending, Register, UnregisterGone, WriteHeader, WriteBody,
        WriteLost, WriteFail, SendReturns, AfterSend, MapInv
  <2>5. CASE Expire(c) \/ Forget(c)
    BY <2>5 DEF Expire, Forget, RemoveCall, MapInv
  <2> QED BY <1>1, <2>1, <2>2, <2>3, <2>4, <2>5 DEF CallerStep, Send, Write, Await
<1>2. ASSUME Receiving PROVE MapInv'
  <2>1. CASE RecvDone
    <3>1. rcall \in Calls
      BY <2>1 DEF RecvDone, ReceiverInv, RecvType
    <3>2. \A h \in Chans : \A i \in 1..Len(chan'[h]) :
            ChanOf[chan'[h][i]] = h /\ signals'[chan'[h][i]] > 0
      BY <2>1, <3>1, ChanAfter DEF RecvDone, Signal, ClientAssumption
    <3> QED BY <2>1, <3>2 DEF RecvDone, ErrorLeadsTo, MapInv
  <2>2. ASSUME NEW c \in Calls, TermCall(c) PROVE MapInv'
    <3>1. \A h \in Chans : \A i \in 1..Len(chan'[h]) :
            ChanOf[chan'[h][i]] = h /\ signals'[chan'[h][i]] > 0
      BY <2>2, ChanAfter DEF TermCall, Signal, ClientAssumption
    <3> QED BY <2>2, <3>1 DEF TermCall, MapInv, RecvType
  <2>3. CASE RecvBody
    BY <2>3 DEF RecvBody, Decoded, ErrorLeadsTo, MapInv, RecvType, DutyInv
  <2>4. CASE RecvHeader \/ RecvHeaderFail \/ RecvRemove \/ TermLock \/ TermEnd
    BY <2>4 DEF RecvHeader, RecvHeaderFail, RecvRemove, RemoveCall, TermLock, TermEnd,
        ErrorLeadsTo, MapInv
  <2> QED BY <1>2, <2>1, <2>2, <2>3, <2>4 DEF Receiving
<1>3. ASSUME NEW ch \in Chans, Drain(ch) PROVE MapInv'
  <2>0. chan[ch] \in Seq(Calls) /\ chan[ch] # << >>
    BY <1>3 DEF Drain, ChanType
  <2>a. 1 \in 1..Len(chan[ch]) /\ chan[ch][1] \in Calls
    BY <2>0
  <2>1. chan[ch][1] \in Calls /\ ChanOf[chan[ch][1]] = ch
    BY <2>a DEF MapInv
  <2>2. \A h \in Chans : \A i \in 1..Len(chan'[h]) :
          ChanOf[chan'[h][i]] = h /\ signals'[chan'[h][i]] > 0
    BY <1>3, <2>1, ChanAfter DEF Drain
  <2> QED BY <1>3, <2>2 DEF Drain, MapInv
<1>4. CASE Close \/ ConnBreak \/ UNCHANGED vars
  BY <1>4 DEF Close, ConnBreak, vars, MapInv
<1>5. ASSUME NEW c \in Calls, NEW k \in Kinds, ServerRespond(c, k) PROVE MapInv'
  BY <1>5 DEF ServerRespond, MapInv
<1> QED BY <1>1, <1>2, <1>3, <1>4, <1>5 DEF Next, Finished

(* Steps of the client that RpcCall does not see. *)
LEMMA Unseen ==
  ASSUME IInv, signals' = signals, answered' = answered, result' = result,
         \A c \in Calls : /\ pc'[c] = "idle" <=> pc[c] = "idle"
                          /\ signals[c] > 0 => outcome'[c] = outcome[c]
  PROVE  UNCHANGED Promise!callVars
<1>1. CallStatus' = CallStatus
  BY DEF CallStatus
<1>2. CallVerdict' = CallVerdict
  BY DEF CallVerdict, IInv, TypeOK, ChanType
<1> QED BY <1>1, <1>2 DEF Promise!callVars

(* A call is settled when it is signalled, with the verdict it has then. *)
LEMMA Settles ==
  ASSUME IInv, ReplyWasServed, NEW c \in Calls, NEW v \in {"reply", "error"},
         pc[c] # "idle", signals[c] = 0, signals' = [signals EXCEPT ![c] = @ + 1],
         outcome'[c] = v, v = "reply" => outcome[c] = "reply",
         answered' = answered, result' = result,
         \A d \in Calls \ {c} : outcome'[d] = outcome[d],
         \A d \in Calls : pc'[d] = "idle" <=> pc[d] = "idle"
  PROVE  Promise!Settle(c, v)
<1> USE DEF IInv, TypeOK, ChanType
<1>1. CallStatus[c] = "open" /\ (v = "reply" => c \in answered)
  BY DEF CallStatus, ReplyWasServed
<1>a. signals'[c] = 1 /\ \A d \in Calls \ {c} : signals'[d] = signals[d]
  OBVIOUS
<1>2. CallStatus' = [CallStatus EXCEPT ![c] = "settled"]
  <2>1. \A d \in Calls : CallStatus'[d] = IF d = c THEN "settled" ELSE CallStatus[d]
    BY <1>a DEF CallStatus
  <2> QED BY <2>1 DEF CallStatus
<1>3. CallVerdict' = [CallVerdict EXCEPT ![c] = v]
  <2>1. \A d \in Calls : CallVerdict'[d] = IF d = c THEN v ELSE CallVerdict[d]
    BY <1>a DEF CallVerdict
  <2> QED BY <2>1 DEF CallVerdict
<1> QED BY <1>1, <1>2, <1>3 DEF Promise!Settle

(* Every step of the client is a step of RpcCall, or none. *)
LEMMA PromiseStep ==
  ASSUME IInv, MapInv, ReplyWasServed, [Next]_vars
  PROVE  [Promise!CallNext]_(Promise!callVars)
<1> DEFINE Goal == Promise!CallNext \/ UNCHANGED Promise!callVars
<1> SUFFICES Goal OBVIOUS
<1> HIDE DEF Goal
<1>a. UNCHANGED Promise!callVars => Goal
  BY DEF Goal
<1>b. \A c \in Calls : /\ Promise!Make(c) \/ Promise!Serve(c) \/ Promise!Answer(c)
                            \/ Promise!TimeOut(c) => Goal
                       /\ \A v \in {"reply", "error"} : Promise!Settle(c, v) => Goal
  BY DEF Goal, Promise!CallNext
<1> USE ClientAssumption
    DEF callerVars, chanVars, clientVars, recvVars, netVars, IInv, TypeOK, CallerType
<1>1. ASSUME NEW c \in Calls, CallerStep(c) PROVE Goal
  <2>1. CASE StartCall(c)
    <3>1. CallStatus[c] = "idle" /\ CallStatus' = [CallStatus EXCEPT ![c] = "open"]
      BY <2>1 DEF StartCall, CallStatus, DutyInv
    <3>2. CallVerdict' = CallVerdict
      BY <2>1 DEF StartCall, CallVerdict
    <3>3. Promise!Make(c)
      BY <2>1, <3>1, <3>2 DEF StartCall, Promise!Make
    <3> QED BY <3>3, <1>b
  <2>2. CASE Receive(c)
    <3>1. c \in SyncCalls /\ chan[ChanOf[c]] \in Seq(Calls) /\ chan[ChanOf[c]] # << >>
      BY <2>2 DEF Receive, MapInv, ChanType, ClientAssumption
    <3>2. 1 \in 1..Len(chan[ChanOf[c]]) /\ chan[ChanOf[c]][1] \in Calls
      BY <3>1
    <3>3. ChanOf[chan[ChanOf[c]][1]] = ChanOf[c] /\ signals[chan[ChanOf[c]][1]] > 0
      BY <3>2 DEF MapInv, ClientAssumption
    <3>4. signals[c] > 0 /\ result[c] = "none" /\ pc[c] = "wait"
      BY <2>2, <3>1, <3>2, <3>3 DEF Receive, OwedInv, ClientAssumption
    <3>5. CallStatus[c] = "settled" /\ CallVerdict[c] = outcome[c]
      BY <3>4 DEF CallStatus, CallVerdict, ChanType
    <3>6. CallStatus' = CallStatus /\ CallVerdict' = CallVerdict
      BY <2>2 DEF Receive, CallStatus, CallVerdict
    <3>7. Promise!Answer(c)
      BY <2>2, <3>4, <3>5, <3>6 DEF Receive, Promise!Answer
    <3> QED BY <3>7, <1>b
  <2>3. CASE Forget(c)
    <3>1. c \in Deadlined /\ result[c] = "none" /\ CallStatus[c] # "idle"
      BY <2>3 DEF Forget, MapInv, OwedInv, CallStatus
    <3>2. CallStatus' = CallStatus /\ CallVerdict' = CallVerdict
      BY <2>3 DEF Forget, CallStatus, CallVerdict
    <3>3. Promise!TimeOut(c)
      BY <2>3, <3>1, <3>2 DEF Forget, Promise!TimeOut
    <3> QED BY <3>3, <1>b
  <2>4. CASE SendFailed(c)
    <3>1. Promise!Settle(c, "error")
      BY <2>4, Settles DEF SendFailed, Signal, SendReturns, AfterSend, MapInv, DutyInv
    <3> QED BY <3>1, <1>b
  <2>5. CASE RegisterRefused(c)
    BY <2>5, Unseen, <1>a DEF RegisterRefused, DutyInv
  <2>6. CASE Unregister(c)
    <3>1. signals[c] = 0
      BY <2>6 DEF Unregister, StillPending, Lookup, DutyInv, LockInv, Pending
    <3> QED BY <2>6, <3>1, Unseen, <1>a DEF Unregister
  <2>7. CASE LockSending(c) \/ Register(c) \/ WriteHeader(c) \/ WriteFail(c) \/ Expire(c)
    BY <2>7, Unseen, <1>a DEF LockSending, Register, WriteHeader, WriteFail, Expire
  <2>8. CASE UnregisterGone(c) \/ WriteBody(c) \/ WriteLost(c)
    BY <2>8, Unseen, <1>a
    DEF UnregisterGone, WriteBody, WriteLost, SendReturns, AfterSend
  <2> QED BY <1>1, <2>1, <2>2, <2>3, <2>4, <2>5, <2>6, <2>7, <2>8
          DEF CallerStep, Send, Write, Await
<1>2. ASSUME Receiving PROVE Goal
  <2>1. CASE RecvDone
    <3>1. rcall \in Calls /\ signals[rcall] = 0 /\ pc[rcall] # "idle"
      BY <2>1 DEF RecvDone, ReceiverInv, RecvType, DutyInv, ResponseInv, Genuine, SeqInv
    <3>2. outcome[rcall] \in {"reply", "error"}
      BY <2>1 DEF RecvDone, MapInv
    <3>3. Promise!Settle(rcall, outcome[rcall])
      BY <2>1, <3>1, <3>2, Settles DEF RecvDone, Signal
    <3> QED BY <3>1, <3>2, <3>3, <1>b
  <2>2. ASSUME NEW c \in Calls, TermCall(c) PROVE Goal
    <3>1. signals[c] = 0 /\ pc[c] # "idle"
      BY <2>2 DEF TermCall, DutyInv, SeqInv
    <3>2. Promise!Settle(c, "error")
      BY <2>2, <3>1, Settles DEF TermCall, Signal
    <3> QED BY <3>2, <1>b
  <2>3. CASE RecvBody
    <3>1. \A c \in Calls : signals[c] > 0 => outcome'[c] = outcome[c]
      BY <2>3 DEF RecvBody, DutyInv
    <3> QED BY <2>3, <3>1, Unseen, <1>a DEF RecvBody
  <2>4. CASE RecvHeader \/ RecvHeaderFail \/ RecvRemove \/ TermLock \/ TermEnd
    BY <2>4, Unseen, <1>a DEF RecvHeader, RecvHeaderFail, RecvRemove, TermLock, TermEnd
  <2> QED BY <1>2, <2>1, <2>2, <2>3, <2>4 DEF Receiving
<1>3. ASSUME NEW c \in Calls, NEW k \in Kinds, ServerRespond(c, k) PROVE Goal
  <2>1. CallStatus[c] # "idle"
    BY <1>3 DEF ServerRespond, SeqInv, CallStatus, NetType
  <2>2. CallStatus' = CallStatus /\ CallVerdict' = CallVerdict
    BY <1>3 DEF ServerRespond, CallStatus, CallVerdict
  <2>3. Promise!Serve(c)
    BY <1>3, <2>1, <2>2 DEF ServerRespond, Promise!Serve
  <2> QED BY <2>3, <1>b
<1>4. CASE (\E ch \in Chans : Drain(ch)) \/ Close \/ ConnBreak \/ UNCHANGED vars
  BY <1>4, Unseen, <1>a DEF Drain, Close, ConnBreak, vars
<1> QED BY <1>1, <1>2, <1>3, <1>4 DEF Next, Finished

(* client.go implements the promise a caller relies on: one verdict for    *)
(* each call, success only from the server, timeouts only with a deadline. *)
THEOREM PromiseKept == Spec => KeepsPromise
<1>1. Init => MapInv /\ Promise!CallInit
  BY ClientAssumption
  DEF Init, MapInv, CallStatus, CallVerdict, Promise!CallInit, ClientAssumption
<1>2. IInv /\ MapInv /\ [Next]_vars => MapInv'
  BY MapStep
<1>3. IInv /\ MapInv /\ ReplyWasServed /\ [Next]_vars => [Promise!CallNext]_(Promise!callVars)
  BY PromiseStep
<1> QED
  BY <1>1, <1>2, <1>3, Inductive, Served, PTL DEF Spec, KeepsPromise, Promise!CallSpec

-----------------------------------------------------------------------------
(* A Done channel with room never makes done() wait. *)

(* Nobody puts a call into its channel twice. *)
OnceInv ==
  \A ch \in Chans : \A i, j \in 1..Len(chan[ch]) : chan[ch][i] = chan[ch][j] => i = j

LEMMA ChanMoves ==
  ASSUME IInv, [Next]_vars
  PROVE  \/ chan' = chan
         \/ \E ch \in Chans : chan[ch] # << >> /\ chan' = [chan EXCEPT ![ch] = Tail(@)]
         \/ \E c \in Calls : /\ signals[c] = 0
                            /\ chan' = [chan EXCEPT ![ChanOf[c]] = Append(@, c)]
<1> DEFINE Moves ==
         \/ chan' = chan
         \/ \E ch \in Chans : chan[ch] # << >> /\ chan' = [chan EXCEPT ![ch] = Tail(@)]
         \/ \E c \in Calls : /\ signals[c] = 0
                            /\ chan' = [chan EXCEPT ![ChanOf[c]] = Append(@, c)]
<1> USE DEF callerVars, chanVars, clientVars, recvVars, netVars
<1>1. ASSUME NEW c \in Calls, CallerStep(c) PROVE Moves
  <2>1. CASE SendFailed(c)
    BY <2>1 DEF SendFailed, Signal, IInv, DutyInv
  <2>2. CASE Receive(c)
    BY <2>2, ClientAssumption DEF Receive
  <2>3. CASE ~SendFailed(c) /\ ~Receive(c)
    BY <1>1, <2>3 DEF CallerStep, Send, Write, Await, StartCall, LockSending, Register,
        RegisterRefused, Unregister, UnregisterGone, WriteHeader, WriteBody, WriteLost,
        WriteFail, Expire, Forget
  <2> QED BY <2>1, <2>2, <2>3
<1>2. ASSUME Receiving PROVE Moves
  <2>1. CASE RecvDone
    <3>1. rcall \in Calls /\ signals[rcall] = 0
      BY <2>1 DEF RecvDone, IInv, TypeOK, RecvType, ReceiverInv, DutyInv
    <3> QED BY <2>1, <3>1 DEF RecvDone, Signal
  <2>2. ASSUME NEW c \in Calls, TermCall(c) PROVE Moves
    BY <2>2 DEF TermCall, Signal, IInv, DutyInv
  <2>3. CASE RecvHeader \/ RecvHeaderFail \/ RecvRemove \/ RecvBody \/ TermLock \/ TermEnd
    BY <2>3 DEF RecvHeader, RecvHeaderFail, RecvRemove, RecvBody, TermLock, TermEnd
  <2> QED BY <1>2, <2>1, <2>2, <2>3 DEF Receiving
<1>3. ASSUME NEW ch \in Chans, Drain(ch) PROVE Moves
  BY <1>3 DEF Drain
<1>4. CASE Close \/ ConnBreak \/ UNCHANGED vars
  BY <1>4 DEF Close, ConnBreak, vars
<1>5. ASSUME NEW c \in Calls, NEW k \in Kinds, ServerRespond(c, k) PROVE Moves
  BY <1>5 DEF ServerRespond
<1>6. CASE Finished
  BY <1>4, <1>6 DEF Finished
<1> QED BY <1>1, <1>2, <1>3, <1>4, <1>5, <1>6 DEF Next

LEMMA OnceStep ==
  ASSUME IInv, MapInv, OnceInv, [Next]_vars PROVE OnceInv'
<1> USE DEF IInv, TypeOK, ChanType
<1>1. CASE chan' = chan
  BY <1>1 DEF OnceInv
<1>2. ASSUME NEW ch \in Chans, chan[ch] # << >>, chan' = [chan EXCEPT ![ch] = Tail(@)]
      PROVE  OnceInv'
  <2>1. /\ \A h \in Chans : h # ch => chan'[h] = chan[h]
        /\ \A i \in 1..Len(chan'[ch]) :
             i + 1 \in 1..Len(chan[ch]) /\ chan'[ch][i] = chan[ch][i + 1]
    BY <1>2
  <2> SUFFICES ASSUME NEW h \in Chans, NEW i \in 1..Len(chan'[h]), NEW j \in 1..Len(chan'[h]),
                      chan'[h][i] = chan'[h][j]
               PROVE  i = j
    BY DEF OnceInv
  <2>2. CASE h = ch
    <3>1. i + 1 = j + 1
      BY <2>1, <2>2 DEF OnceInv
    <3> QED BY <3>1
  <2>3. CASE h # ch
    BY <2>1, <2>3 DEF OnceInv
  <2> QED BY <2>2, <2>3
<1>3. ASSUME NEW c \in Calls, signals[c] = 0,
             chan' = [chan EXCEPT ![ChanOf[c]] = Append(@, c)]
      PROVE  OnceInv'
  <2> DEFINE ch == ChanOf[c]
  <2>1. ch \in Chans /\ chan[ch] \in Seq(Calls)
    BY ClientAssumption
  <2>2. \A i \in 1..Len(chan[ch]) : chan[ch][i] # c
    BY <1>3, <2>1 DEF MapInv
  <2>3. /\ \A h \in Chans : h # ch => chan'[h] = chan[h]
        /\ Len(chan'[ch]) = Len(chan[ch]) + 1 /\ chan'[ch][Len(chan[ch]) + 1] = c
        /\ \A i \in 1..Len(chan[ch]) : chan'[ch][i] = chan[ch][i]
    BY <1>3, <2>1
  <2> HIDE DEF ch
  <2> SUFFICES ASSUME NEW h \in Chans, NEW i \in 1..Len(chan'[h]), NEW j \in 1..Len(chan'[h]),
                      chan'[h][i] = chan'[h][j]
               PROVE  i = j
    BY DEF OnceInv
  <2>4. CASE h = ch
    <3>1. /\ i \in 1..Len(chan[ch]) \/ i = Len(chan[ch]) + 1
          /\ j \in 1..Len(chan[ch]) \/ j = Len(chan[ch]) + 1
      BY <2>1, <2>3, <2>4
    <3> QED BY <2>1, <2>2, <2>3, <2>4, <3>1 DEF OnceInv
  <2>5. CASE h # ch
    BY <2>3, <2>5 DEF OnceInv
  <2> QED BY <2>4, <2>5
<1> QED BY <1>1, <1>2, <1>3, ChanMoves

(* Whoever is about to run done() finds room in a channel that has room    *)
(* for all its calls: those in it are others, each there once.             *)
LEMMA FindsRoom ==
  ASSUME IInv, MapInv, OnceInv PROVE DoneHasRoom
<1> SUFFICES ASSUME NEW c \in Calls, AboutToSignal(c), Roomy(ChanOf[c])
             PROVE  Len(chan[ChanOf[c]]) < CapOf[ChanOf[c]]
  BY DEF DoneHasRoom
<1> DEFINE ch == ChanOf[c]  others == Users(ch) \ {c}
<1>1. ch \in Chans /\ chan[ch] \in Seq(Calls) /\ CapOf[ch] \in Nat /\ Len(chan[ch]) \in Nat
  BY ClientAssumption DEF IInv, TypeOK, ChanType
<1>2. signals[c] = 0
  BY DEF AboutToSignal, IInv, TypeOK, RecvType, ReceiverInv, DutyInv
<1>3. \A i \in 1..Len(chan[ch]) : chan[ch][i] \in others
  BY <1>1, <1>2 DEF MapInv, Users
<1>4. /\ IsFiniteSet(others) /\ Cardinality(others) = Cardinality(Users(ch)) - 1
      /\ Cardinality(Users(ch)) \in Nat /\ Cardinality(Users(ch)) <= CapOf[ch]
  <2>1. IsFiniteSet(Users(ch)) /\ Cardinality(Users(ch)) <= CapOf[ch] /\ c \in Users(ch)
    BY DEF Roomy, Users
  <2> HIDE DEF ch
  <2>2. Cardinality(Users(ch)) \in Nat
    BY <2>1, FS_CardinalityType
  <2> QED BY <2>1, <2>2, FS_RemoveElement
<1>5. Len(chan[ch]) <= Cardinality(others)
  <2>1. chan[ch] \in Injection(1..Len(chan[ch]), others)
    BY <1>1, <1>3 DEF Injection, IsInjective, OnceInv
  <2>2. Cardinality(1..Len(chan[ch])) = Len(chan[ch])
    <3> DEFINE n == Len(chan[ch])
    <3>1. n \in Nat
      BY <1>1
    <3> HIDE DEF n
    <3>2. Cardinality(1..n) = n
      BY <3>1, FS_Interval
    <3> QED BY <3>2 DEF n
  <2> HIDE DEF ch, others
  <2>3. Cardinality(1..Len(chan[ch])) <= Cardinality(others)
    BY <1>4, <2>1, FS_Injection
  <2> QED BY <2>2, <2>3
<1> QED BY <1>1, <1>4, <1>5

(* done() does not wait, with or without the locks, for a user who gave a  *)
(* channel with room for all the calls he gave it to.                      *)
THEOREM DoneNeverWaits == Spec => []DoneHasRoom
<1>1. Init => MapInv /\ OnceInv
  BY ClientAssumption DEF Init, MapInv, OnceInv
<1>2. IInv /\ MapInv /\ [Next]_vars => MapInv'
  BY MapStep
<1>3. IInv /\ MapInv /\ OnceInv /\ [Next]_vars => OnceInv'
  BY OnceStep
<1>4. IInv /\ MapInv /\ OnceInv => DoneHasRoom
  BY FindsRoom
<1> QED BY <1>1, <1>2, <1>3, <1>4, Inductive, PTL DEF Spec
=============================================================================
