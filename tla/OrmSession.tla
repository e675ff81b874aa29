------------------------------ MODULE OrmSession ------------------------------
(***************************************************************************)
(* A geeorm Session (geeorm session/, clause/): conditions are chained on  *)
(* it, Model fixes the table, and Insert, Find, Update, Delete and Count   *)
(* put their own clause beside the conditions, build the statement, run it *)
(* and clear the session.  CreateTable, DropTable, HasTable and Raw run a  *)
(* statement of their own text and clear the session as well.  Hooks of    *)
(* the model run before and after an operation with the same session in    *)
(* their hands: they may chain on it, turn it to another table, or run     *)
(* statements.  A clause is its type and one argument that stands for its  *)
(* text and its variables.                                                 *)
(***************************************************************************)
EXTENDS Integers, Sequences, Functions

CONSTANTS Models,   \* tables
          Args,     \* arguments of a condition
          Nil

ASSUME SessionAssumption == Nil \notin Models

VARIABLES refTable,   \* the table of the last Model
          clause,     \* the conditions set: type -> argument
          call,       \* the operation that is running, or Nil
          asked,      \* history: the conditions chained for the user's next or
                      \* current operation, by the user or a hook before it
          meant,      \* history: the table the user named last
          spoiled,    \* history: what hooks and panics did, see below
          sent        \* history: the statement just run for the user, or Nil

sessionVars == <<refTable, clause, call, asked, meant, spoiled, sent>>

Conditions == {"WHERE", "ORDERBY", "LIMIT"}
Empty      == << >>

(* The clause an operation sets itself, and those Build is asked for; the  *)
(* VALUES of an Insert are always set with it.                             *)
HeadOf == [Insert |-> "INSERT", Find |-> "SELECT", Update |-> "UPDATE",
           Delete |-> "DELETE", Count |-> "COUNT"]
Orders == [Insert |-> {"INSERT", "VALUES"},
           Find   |-> {"SELECT", "WHERE", "ORDERBY", "LIMIT"},
           Update |-> {"UPDATE", "WHERE"},
           Delete |-> {"DELETE", "WHERE"},
           Count  |-> {"COUNT", "WHERE"}]
Ops == DOMAIN HeadOf

(* Spoiled: a hook before the operation ran a statement, with which what   *)
(* was chained is lost; a panic or a hook after an operation left a        *)
(* condition behind; a hook turned the session to another table.           *)
SessionTypeOK ==
  /\ refTable \in Models \cup {Nil}
  /\ DOMAIN clause \subseteq Conditions /\ DOMAIN asked \subseteq Conditions
  /\ call = Nil \/ (call.op \in Ops /\ call.at \in {"before", "after"})
  /\ meant \in Models \cup {Nil}
  /\ spoiled \subseteq {"lost", "left", "table"}

SessionInit ==
  /\ refTable = Nil /\ clause = Empty /\ call = Nil
  /\ asked = Empty /\ meant = Nil /\ spoiled = {} /\ sent = Nil

(* clause.Set: a second clause of a type replaces the first *)
Set(f, t, x) == [u \in DOMAIN f \cup {t} |-> IF u = t THEN x ELSE f[u]]

(* Where, OrderBy and Limit *)
Chain(t, x) ==
  /\ call = Nil
  /\ clause' = Set(clause, t, x)
  /\ asked' = Set(asked, t, x)
  /\ UNCHANGED <<refTable, call, meant, spoiled>>

Model(m) ==
  /\ call = Nil
  /\ refTable' = m
  /\ meant' = m
  /\ spoiled' = spoiled \ {"table"}
  /\ UNCHANGED <<clause, call, asked>>

(* A panic ends the operation: what was chained stays in the session.     *)
Panics ==
  /\ call' = Nil
  /\ asked' = Empty
  /\ spoiled' = (spoiled \ {"lost", "left"}) \cup
                (IF clause = Empty THEN {} ELSE {"left"})
  /\ UNCHANGED <<refTable, clause, meant>>

(* The operation begins: hooks are looked up on refTable, and Count reads  *)
(* its name, whether or not there is one.  First is Limit and Find.        *)
Begins(o, m) ==
  /\ call = Nil
  /\ IF refTable = Nil THEN Panics
     ELSE /\ call' = [op |-> o, of |-> m, at |-> "before"]
          /\ UNCHANGED <<refTable, clause, asked, meant, spoiled>>

(* Exec, QueryRow and QueryRows end with Clear, also when they fail *)
Kept  == clause   \* Variant: the session is not cleared
Clear == Empty

(* A hook has the session in its hands.  Count has no hooks.               *)
InHook == call # Nil /\ call.op # "Count"

(* It chains a condition: for the statement in hand, or, after it, for     *)
(* whichever comes next.                                                   *)
HookChains(t, x) ==
  /\ InHook
  /\ clause' = Set(clause, t, x)
  /\ IF call.at = "before"
     THEN asked' = Set(asked, t, x) /\ UNCHANGED spoiled
     ELSE spoiled' = spoiled \cup {"left"} /\ UNCHANGED asked
  /\ UNCHANGED <<refTable, call, meant>>

Turned(m) == IF m = refTable THEN {} ELSE {"table"}

(* It calls Model *)
HookTurns(m) ==
  /\ InHook
  /\ refTable' = m
  /\ spoiled' = spoiled \cup Turned(m)
  /\ UNCHANGED <<clause, call, asked, meant>>

(* It runs statements, each of which ends with Clear and may be of another *)
(* table.                                                                  *)
HookUses(m) ==
  /\ InHook
  /\ refTable' = m
  /\ clause' = Clear
  /\ spoiled' = (spoiled \ {"left"}) \cup Turned(m) \cup
                (IF call.at = "before" THEN {"lost"} ELSE {})
  /\ UNCHANGED <<call, asked, meant>>

(* A hook panics, or the arguments of Update or Find are not of their form *)
OpPanics == InHook /\ Panics

(* Build takes the clauses of the operation's order that are set *)
Build(f, o) == Restrict(f, DOMAIN f \cap Orders[o])

(* A statement of the user's was run, well or not, and the session cleared *)
Sends(o, table, conds, named) ==
  /\ sent' = [op |-> o, table |-> table, conds |-> conds,
              meant |-> named, asked |-> asked, spoiled |-> spoiled]
  /\ clause' = Clear
  /\ asked' = Empty

(* The operation sets its clause, which needs the table; Insert and Find   *)
(* take the table of their argument; the statement runs, or fails.         *)
Executes(ok) ==
  /\ call # Nil /\ call.at = "before"
  /\ LET o     == call.op
         named == o \in {"Insert", "Find"}
         table == IF named THEN call.of ELSE refTable
         built == Build(Set(clause, HeadOf[o], table), o)
     IN /\ Sends(o, built[HeadOf[o]],
                 Restrict(built, DOMAIN built \ {HeadOf[o]}),
                 IF named THEN table ELSE meant)
        /\ refTable' = table
        /\ meant' = IF named THEN table ELSE meant
        /\ spoiled' = spoiled \ (IF named THEN {"lost", "left", "table"}
                                 ELSE {"lost", "left"})
        /\ call' = IF ok /\ o # "Count" THEN [call EXCEPT !.at = "after"] ELSE Nil

OpReturns ==
  /\ call # Nil /\ call.at = "after"
  /\ call' = Nil
  /\ UNCHANGED <<refTable, clause, asked, meant, spoiled>>

(* CreateTable, DropTable and HasTable: of the session they read the table *)
OfTable ==
  /\ call = Nil
  /\ IF refTable = Nil THEN Panics /\ sent' = Nil
     ELSE /\ Sends("Table", refTable, Empty, meant)
          /\ spoiled' = spoiled \ {"left"}
          /\ UNCHANGED <<refTable, call, meant>>

(* Raw with Exec, QueryRow or QueryRows: the statement is the user's text  *)
RawRuns ==
  /\ call = Nil
  /\ Sends("Raw", Nil, Empty, Nil)
  /\ spoiled' = spoiled \ {"left"}
  /\ UNCHANGED <<refTable, call, meant>>

SessionNext ==
  \/ /\ \/ \E t \in Conditions, x \in Args : Chain(t, x) \/ HookChains(t, x)
        \/ \E m \in Models : \/ Model(m) \/ HookTurns(m) \/ HookUses(m)
                             \/ \E o \in Ops : Begins(o, m)
        \/ OpPanics \/ OpReturns
     /\ sent' = Nil
  \/ \E ok \in BOOLEAN : Executes(ok)
  \/ OfTable \/ RawRuns

-----------------------------------------------------------------------------
(* The conditions each operation is documented to take (record.go:72-126); *)
(* a statement of CreateTable, DropTable, HasTable or Raw has none.        *)
Takes == [Find |-> Conditions, Insert |-> {}, Table |-> {}, Raw |-> {},
          Update |-> {"WHERE"}, Delete |-> {"WHERE"}, Count |-> {"WHERE"}]

Within(f, g) == \A t \in DOMAIN f : t \in DOMAIN g /\ f[t] = g[t]

(* A statement has the conditions chained for it since the user's last     *)
(* statement, by the user or by a hook before it, those its operation      *)
(* takes.  One it does not take (OrderBy or Limit before Update, Delete or *)
(* Count, any before an Insert or a statement without clauses) is dropped: *)
(* it is not in this statement and not in a later one.  Whatever was run,  *)
(* failed or panicked before, there is                                     *)
(*  - no other condition in it, unless a panic or a hook that ran after an *)
(*    operation left one in the session;                                   *)
(*  - none missing, unless a hook before it ran a statement of its own;    *)
(* and it goes to the table the user named last, unless a hook turned the  *)
(* session to another.                                                     *)
OwnConditions ==
  sent # Nil =>
    LET taken == Restrict(sent.asked, DOMAIN sent.asked \cap Takes[sent.op])
    IN /\ "left" \notin sent.spoiled => Within(sent.conds, taken)
       /\ "lost" \notin sent.spoiled => Within(taken, sent.conds)
       /\ "table" \notin sent.spoiled /\ sent.op # "Raw" => sent.table = sent.meant
=============================================================================
