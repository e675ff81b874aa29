------------------------------- MODULE RpcCall -------------------------------
(***************************************************************************)
(* What a gee-rpc client promises about each call, without connection,     *)
(* locks or sequence numbers: a call that was made is settled at most      *)
(* once, successfully only if the server served it, and Client.Call hands  *)
(* its caller exactly that verdict, or a timeout that only a call with a   *)
(* deadline can see.                                                       *)
(***************************************************************************)
EXTENDS Naturals

CONSTANTS Calls, Deadlined

VARIABLES status,   \* "idle", "open" or "settled"
          verdict,  \* "none", "reply" or "error"
          served,   \* calls the server has served
          result    \* what the caller was told

callVars == <<status, verdict, served, result>>

CallTypeOK ==
  /\ status \in [Calls -> {"idle", "open", "settled"}]
  /\ verdict \in [Calls -> {"none", "reply", "error"}]
  /\ served \subseteq Calls
  /\ result \in [Calls -> {"none", "reply", "error", "timeout"}]

CallInit ==
  /\ status = [c \in Calls |-> "idle"]
  /\ verdict = [c \in Calls |-> "none"]
  /\ served = {}
  /\ result = [c \in Calls |-> "none"]

Make(c) ==
  /\ status[c] = "idle"
  /\ status' = [status EXCEPT ![c] = "open"]
  /\ UNCHANGED <<verdict, served, result>>

Serve(c) ==
  /\ status[c] # "idle"
  /\ c \notin served
  /\ served' = served \cup {c}
  /\ UNCHANGED <<status, verdict, result>>

Settle(c, v) ==
  /\ status[c] = "open"
  /\ v = "reply" => c \in served
  /\ status' = [status EXCEPT ![c] = "settled"]
  /\ verdict' = [verdict EXCEPT ![c] = v]
  /\ UNCHANGED <<served, result>>

Answer(c) ==
  /\ status[c] = "settled"
  /\ result[c] = "none"
  /\ result' = [result EXCEPT ![c] = verdict[c]]
  /\ UNCHANGED <<status, verdict, served>>

TimeOut(c) ==
  /\ c \in Deadlined
  /\ status[c] # "idle"
  /\ result[c] = "none"
  /\ result' = [result EXCEPT ![c] = "timeout"]
  /\ UNCHANGED <<status, verdict, served>>

CallNext ==
  \E c \in Calls :
    \/ Make(c) \/ Serve(c) \/ Answer(c) \/ TimeOut(c)
    \/ \E v \in {"reply", "error"} : Settle(c, v)

CallSpec == CallInit /\ [][CallNext]_callVars
=============================================================================
