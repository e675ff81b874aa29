----------------------------- MODULE RpcClientInv -----------------------------
(* The inductive invariant behind the safety properties of RpcClient. *)
EXTENDS RpcClient

HoldingPCs == {"register", "write", "body", "unregister", "fail"}
Pending(c) == seqOf[c] \in DOMAIN pending

(* Who holds the locks, and that nobody is inside send once shut down,     *)
(* save to be refused                                                      *)
LockInv ==
  /\ \A c \in Calls : pc[c] \in HoldingPCs <=> sending = c
  /\ rpc = "term" <=> sending = Receiver
  /\ shutdown <=> rpc \in {"term", "stopped"}
  /\ shutdown => \A c \in Calls : pc[c] \notin {"write", "body", "unregister"}

(* Sequence numbers identify calls, in the map and on the wire *)
SeqInv ==
  /\ \A c \in Calls : seqOf[c] < seq
  /\ \A c, d \in Calls : seqOf[c] = seqOf[d] /\ seqOf[c] # 0 => c = d
  /\ \A s \in DOMAIN pending : seqOf[pending[s]] = s
  /\ \A c \in Calls : pc[c] \in {"idle", "lock", "register"} => seqOf[c] = 0
  /\ \A c \in Calls : pc[c] = "write" => header = seqOf[c]
  /\ \A c \in Calls : wire[c] # 0 => wire[c] = seqOf[c]

(* A response carries the seq of the request it answers *)
Genuine(m) ==
  /\ m.of \in answered
  /\ m.seq = wire[m.of] /\ m.seq # 0
  /\ m.kind = "ok" => m.of \in complete

ResponseInv ==
  /\ \A i \in 1..Len(inbox) : Genuine(inbox[i])
  /\ rpc \in {"remove", "body", "done", "lastDone"} => Genuine(hdr)
  /\ rcall # None => seqOf[rcall] = hdr.seq

(* The receiver's private state *)
ReceiverInv ==
  /\ rcall # None => rpc \in {"body", "done", "lastDone"}
  /\ rpc \in {"done", "lastDone"} => rcall # None
  /\ todo # {} => rpc = "term"

(* Exactly one place has the duty to signal a call that was not signalled: *)
(* the map, the receiver, terminateCalls, or the sender that gave it up.   *)
DutyInv ==
  /\ \A c \in Calls : signals[c] <= 1
  /\ \A c \in Calls : pc[c] \in {"idle", "lock", "register", "fail"}
                        => signals[c] = 0
  /\ \A c \in Calls : Pending(c) /\ ~shutdown => signals[c] = 0
  /\ rcall # None => signals[rcall] = 0 /\ ~Pending(rcall)
  /\ \A c \in todo : signals[c] = 0 /\ seqOf[c] # 0
  /\ \A c \in Calls : pc[c] = "fail" => ~Pending(c) /\ c # rcall /\ c \notin todo

(* ... and there is such a place for every registered call *)
OwedInv ==
  /\ \A c \in Calls : result[c] # "none" => pc[c] = "returned"
  /\ \A c \in Calls :
       seqOf[c] # 0 /\ signals[c] = 0 /\ result[c] # "timeout" =>
         IF shutdown THEN c \in todo
         ELSE Pending(c) \/ rcall = c \/ pc[c] = "fail"

(* The strengthening of the safety properties that every step preserves:   *)
(* who holds client.sending, which seq belongs to whom, and who owes the   *)
(* done() of each call.                                                    *)
IInv ==
  TypeOK /\ LockInv /\ SeqInv /\ ResponseInv /\ ReceiverInv /\ DutyInv /\ OwedInv
=============================================================================
