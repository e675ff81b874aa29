------------------------------ MODULE GeeContext ------------------------------
(***************************************************************************)
(* One request in gee (gee context.go, recovery.go, gee.go, router.go):    *)
(* handlers 0..Size-1, the middlewares of the groups and the handler of    *)
(* the route or of 404, share c.index.  Next runs the rest of the chain,   *)
(* and every handler may call it, several times or never, may Fail, and    *)
(* may panic.                                                              *)
(***************************************************************************)
EXTENDS Integers, Sequences, SequencesExt, FiniteSetsExt

CONSTANTS Size,       \* len(c.handlers)
          Recovers,   \* the handlers that are Recovery()
          MaxNext     \* bound: calls of Next by one handler

ASSUME ContextAssumption ==
  Size \in Nat \ {0} /\ Recovers \subseteq 0..Size - 2 /\ MaxNext \in Nat \ {0}

VARIABLES index,    \* c.index
          stack,    \* the handlers that run, each called by a Next of the one below
          failed,   \* history: Fail was called
          ran       \* history: the handlers started, in order

contextVars == <<index, stack, failed, ran>>

ContextTypeOK ==
  /\ index \in Int /\ index >= -1
  /\ stack \in Seq([handler : 0..Size - 1, nexts : 0..MaxNext])
  /\ failed \in BOOLEAN
  /\ ran \in Seq(0..Size - 1)

(* newContext *)
ContextInit == index = -1 /\ stack = << >> /\ failed = FALSE /\ ran = << >>

Top == Last(stack)

Calls(i, s) ==
  /\ index' = i
  /\ stack' = Append(s, [handler |-> i, nexts |-> 0])
  /\ ran' = Append(ran, i)
  /\ UNCHANGED failed

(* The test of the loop in Next with index i: the next handler is called,  *)
(* or Next returns to the handler on top of s                              *)
Loop(i, s) ==
  \/ i < Size /\ Calls(i, s)
  \/ i >= Size /\ index' = i /\ stack' = s /\ UNCHANGED <<failed, ran>>

(* router.handle: the first Next, with at least one handler *)
Handle == index = -1 /\ Calls(0, << >>)

EnterAt   == index       \* Variant: Next does not move on first
EnterNext == index + 1

CallsNext ==
  /\ stack # << >> /\ Top.nexts < (IF Top.handler \in Recovers THEN 1 ELSE MaxNext)
  /\ Loop(EnterNext,
          Append(Front(stack), [Top EXCEPT !.nexts = @ + 1]))

(* The handler returns into the loop that called it, which goes on *)
Returns ==
  /\ stack # << >>
  /\ Top.handler \in Recovers => Top.nexts = 1
  /\ Loop(index + 1, Front(stack))

(* Fail skips the rest of the chain, and the handler goes on *)
Skipped    == Size
Fail ==
  /\ stack # << >> /\ Top.handler \notin Recovers
  /\ index' = Skipped
  /\ failed' = TRUE
  /\ UNCHANGED <<stack, ran>>

(* A panic ends every handler down to the nearest Recovery, whose deferred *)
(* function calls Fail; it returns into its loop.  With none, net/http     *)
(* recovers and nothing of the chain is left.                              *)
Recovering == {i \in DOMAIN stack : stack[i].handler \in Recovers}

Panic ==
  /\ stack # << >> /\ Top.handler \notin Recovers
  /\ stack' = IF Recovering = {} THEN << >>
              ELSE SubSeq(stack, 1, Max(Recovering) - 1)
  /\ index' = IF Recovering = {} THEN index ELSE Size + 1
  /\ failed' = (failed \/ Recovering # {})
  /\ UNCHANGED ran

ContextNext == Handle \/ CallsNext \/ Returns \/ Fail \/ Panic

-----------------------------------------------------------------------------
(* However Next, Fail and panics are nested: no handler is run twice, none *)
(* before one that stands in front of it, and none after Fail.             *)
EachOnceNoneAfterFail ==
  [][ran' # ran => ~failed /\ \A i \in DOMAIN ran : ran[i] < Last(ran')]_contextVars
=============================================================================
