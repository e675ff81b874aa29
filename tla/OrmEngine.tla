------------------------------ MODULE OrmEngine -------------------------------
(***************************************************************************)
(* geeorm.Engine (geeorm.go): Transaction runs a function of the user, or  *)
(* the one of Migrate, between Begin and Commit or Rollback.  The database *)
(* is external: it has the table of the model and the table tmp_ that      *)
(* Migrate makes, any statement may fail and then changes nothing, and a   *)
(* transaction works on a copy that Commit installs or, failing, drops.    *)
(***************************************************************************)
EXTENDS Integers, FiniteSets, Functions

CONSTANTS Columns,    \* columns a table may have
          Fields,     \* those of the struct Migrate is called with
          Contents,       \* values of a column
          Null,       \* the value of a column just added
          NoTable

ASSUME EngineAssumption ==
  Fields \subseteq Columns /\ Fields # {} /\ Null \notin Contents

VARIABLES db,        \* the committed tables
          work,      \* what the transaction sees
          kind,      \* the function that runs in it: the user's or Migrate's
          step,      \* where it is
          added,     \* addCols not yet added
          removed,   \* delCols
          outcome,   \* of the function, then of Transaction
          before     \* history: db at Begin

engineVars == <<db, work, kind, step, added, removed, outcome, before>>

TableOf(cols, rows) == [cols |-> cols, rows |-> rows]
IsTable(t) ==
  /\ t.cols \subseteq Columns /\ t.cols # {}
  /\ \A r \in t.rows : r \in [t.cols -> Contents \cup {Null}]

EngineTypeOK ==
  /\ \A t \in UNION {{d.main, d.tmp} : d \in {db, work, before}} : t = NoTable \/ IsTable(t)
  /\ kind \in {"user", "migrate"}
  /\ step \in {"idle", "user", "hasTable", "columns", "alter", "deferred"}
  /\ added \subseteq Fields /\ removed \subseteq Columns
  /\ outcome \in {"none", "nil", "error", "panic"}

(* The tables may be missing, empty or filled, and a tmp_ left behind *)
EngineInit ==
  /\ \E c \in (SUBSET Columns) \ {{}}, left \in BOOLEAN :
       \E r \in {{}, [c -> Contents]} : \E main \in {NoTable, TableOf(c, r)} :
         db = [main |-> main, tmp |-> IF left THEN TableOf(c, r) ELSE NoTable]
  /\ work = db /\ before = db
  /\ kind = "user" /\ step = "idle"
  /\ added = {} /\ removed = {} /\ outcome = "none"

(* The function returns, or panics, and the deferred function is next *)
Ends(how) == step' = "deferred" /\ outcome' = how

(* NewSession and Begin *)
Begin(k) ==
  /\ step = "idle"
  /\ kind' = k
  /\ step' = IF k = "user" THEN "user" ELSE "hasTable"
  /\ work' = db /\ before' = db
  /\ outcome' = "none"
  /\ UNCHANGED <<db, added, removed>>

BeginFails(k) ==
  /\ step = "idle"
  /\ kind' = k
  /\ before' = db
  /\ outcome' = "error"
  /\ UNCHANGED <<db, work, step, added, removed>>

(* The user's function: statements, and a return of any kind *)
UserWrites(t) ==
  /\ step = "user"
  /\ work' = [work EXCEPT !.main = t]
  /\ UNCHANGED <<db, kind, step, added, removed, outcome, before>>

UserEnds(how) ==
  /\ step = "user"
  /\ Ends(how)
  /\ UNCHANGED <<db, work, kind, added, removed, before>>

(* HasTable drops the error of Scan: a query that fails finds no table, and *)
(* CreateTable, which then fails, reports it                               *)
TableIsThere ==
  /\ step = "hasTable" /\ work.main # NoTable
  /\ step' = "columns"
  /\ UNCHANGED <<db, work, kind, added, removed, outcome, before>>

Creates ==
  /\ step = "hasTable" /\ work.main = NoTable
  /\ work' = [work EXCEPT !.main = TableOf(Fields, {})]
  /\ Ends("nil")
  /\ UNCHANGED <<db, kind, added, removed, before>>

CreateFails ==
  /\ step = "hasTable"
  /\ Ends("error")
  /\ UNCHANGED <<db, work, kind, added, removed, before>>

(* difference(a, b), the columns of a that b has not *)
difference(a, b) == a \ b

ReadColumns ==
  /\ step = "columns"
  /\ added' = difference(Fields, work.main.cols)
  /\ removed' = difference(work.main.cols, Fields)
  /\ step' = "alter"
  /\ UNCHANGED <<db, work, kind, outcome, before>>

(* The error of the query is dropped: Columns of the nil rows panics *)
ColumnsFails ==
  /\ step = "columns"
  /\ Ends("panic")
  /\ UNCHANGED <<db, work, kind, added, removed, before>>

(* ALTER TABLE ADD COLUMN, one statement for each; a column twice fails *)
WithColumn(t, c) ==
  TableOf(t.cols \cup {c},
          {[x \in t.cols \cup {c} |-> IF x = c THEN Null ELSE r[x]] : r \in t.rows})

Alter(c) ==
  /\ step = "alter" /\ c \in added \ work.main.cols
  /\ work' = [work EXCEPT !.main = WithColumn(@, c)]
  /\ added' = added \ {c}
  /\ UNCHANGED <<db, kind, step, removed, outcome, before>>

AlterFails ==
  /\ step = "alter" /\ added # {}
  /\ Ends("error")
  /\ UNCHANGED <<db, work, kind, added, removed, before>>

(* len(delCols) == 0 *)
AtMostOneToRemove == Cardinality(removed) <= 1   \* Variant
NoneToRemove      == removed = {}

NothingToRemove ==
  /\ step = "alter" /\ added = {} /\ NoneToRemove
  /\ Ends("nil")
  /\ UNCHANGED <<db, work, kind, added, removed, before>>

(* CREATE TABLE tmp_ AS SELECT the fields, DROP TABLE and RENAME, in one    *)
(* Exec that runs them one after the other and may fail at each            *)
Selected(t) == TableOf(Fields, {Restrict(r, Fields) : r \in t.rows})
Rebuilt(w, n) ==
  LET copied == [w EXCEPT !.tmp = Selected(w.main)]
  IN CASE n = 0 -> w
       [] n = 1 -> copied
       [] n = 2 -> [copied EXCEPT !.main = NoTable]
       [] n = 3 -> [main |-> copied.tmp, tmp |-> NoTable]

Rebuild(n) ==
  /\ step = "alter" /\ added = {} /\ ~NoneToRemove
  /\ work.tmp # NoTable \/ ~(Fields \subseteq work.main.cols) => n = 0
  /\ work' = Rebuilt(work, n)
  /\ Ends(IF n = 3 THEN "nil" ELSE "error")
  /\ UNCHANGED <<db, kind, added, removed, before>>

(* The deferred function: Rollback after a panic or an error, else Commit, *)
(* whose error becomes the result                                          *)
InstallAlways(committed) == work   \* Variant: Commit on every path
Install(committed) == IF committed THEN work ELSE db

Deferred(ok) ==
  /\ step = "deferred"
  /\ LET committed == outcome = "nil" /\ ok
     IN /\ db' = Install(committed)
        /\ outcome' = IF outcome = "nil" /\ ~ok THEN "error" ELSE outcome
  /\ step' = "idle"
  /\ UNCHANGED <<work, kind, added, removed, before>>

EngineNext ==
  \/ \E k \in {"user", "migrate"} : Begin(k) \/ BeginFails(k)
  \/ \E c \in (SUBSET Columns) \ {{}} : \E r \in {{}, [c -> Contents]} :
       UserWrites(TableOf(c, r))
  \/ \E how \in {"nil", "error", "panic"} : UserEnds(how)
  \/ TableIsThere \/ Creates \/ CreateFails \/ ReadColumns \/ ColumnsFails
  \/ \E c \in Fields : Alter(c)
  \/ AlterFails \/ NothingToRemove
  \/ \E n \in 0..3 : Rebuild(n)
  \/ \E ok \in BOOLEAN : Deferred(ok)

-----------------------------------------------------------------------------
Returned == step = "idle" /\ outcome # "none"

(* Transaction is all or nothing on every path: without an error every     *)
(* write of its function is in the database; after an error, of the        *)
(* function or of Commit, or a panic, none is.                             *)
AllOrNothing ==
  Returned => db = IF outcome = "nil" THEN work ELSE before

(* A Migrate that returns no error leaves a table with the fields of the   *)
(* struct and no others, and keeps what every row had in the columns that  *)
(* stay; one that fails at any of its statements leaves all as it was.     *)
MigrateKeepsColumns ==
  Returned /\ kind = "migrate" =>
    IF outcome # "nil" THEN db = before
    ELSE /\ db.main.cols = Fields
         /\ db.tmp = before.tmp
         /\ before.main # NoTable =>
              db.main.rows =
                {[c \in Fields |-> IF c \in before.main.cols THEN r[c] ELSE Null] :
                   r \in before.main.rows}
=============================================================================
