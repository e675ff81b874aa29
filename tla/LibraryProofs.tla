---------------------------- MODULE LibraryProofs -----------------------------
(***************************************************************************)
(* Proofs about the sequential libraries: the sessions and the engine of   *)
(* geeorm, one request in gee, the LRU cache and the router of gee.  For   *)
(* any tables, columns and contents, any conditions and any statement that *)
(* fails; for chains of any length with any places of Recovery and any     *)
(* calls of Next; for entries of any sizes; for patterns of any length,    *)
(* any wildcards and any number of routes.                                 *)
(***************************************************************************)
EXTENDS Libraries, LruProofs

-----------------------------------------------------------------------------
(* geeorm.Engine *)

EngineSpec == EngineInit /\ [][EngineNext]_engineVars

(* While a transaction runs the committed tables are those it began with,  *)
(* and afterwards they are what its outcome says.                          *)
CommitInv ==
  /\ step # "idle" => db = before
  /\ step = "deferred" => outcome # "none"
  /\ AllOrNothing

LEMMA CommitInit == EngineInit => CommitInv
BY DEF EngineInit, CommitInv, AllOrNothing, Returned

LEMMA CommitKept == CommitInv /\ [EngineNext]_engineVars => CommitInv'
<1> SUFFICES ASSUME CommitInv, [EngineNext]_engineVars PROVE CommitInv'
  OBVIOUS
<1>1. ASSUME NEW k \in {"user", "migrate"}, Begin(k) \/ BeginFails(k) PROVE CommitInv'
  BY <1>1 DEF Begin, BeginFails, CommitInv, AllOrNothing, Returned
<1>2. ASSUME NEW how \in {"nil", "error", "panic"}, UserEnds(how) PROVE CommitInv'
  BY <1>2 DEF UserEnds, Ends, CommitInv, AllOrNothing, Returned
<1>3. ASSUME NEW t, UserWrites(t) PROVE CommitInv'
  BY <1>3 DEF UserWrites, CommitInv, AllOrNothing, Returned
<1>4. CASE TableIsThere \/ Creates \/ CreateFails
  BY <1>4 DEF TableIsThere, Creates, CreateFails, Ends, CommitInv, AllOrNothing, Returned
<1>5. CASE ReadColumns \/ ColumnsFails
  BY <1>5 DEF ReadColumns, ColumnsFails, Ends, CommitInv, AllOrNothing, Returned
<1>6. ASSUME NEW c \in Fields, Alter(c) PROVE CommitInv'
  BY <1>6 DEF Alter, CommitInv, AllOrNothing, Returned
<1>7. CASE AlterFails \/ NothingToRemove
  BY <1>7 DEF AlterFails, NothingToRemove, Ends, CommitInv, AllOrNothing, Returned
<1>8. ASSUME NEW n \in 0..3, Rebuild(n) PROVE CommitInv'
  BY <1>8 DEF Rebuild, Ends, CommitInv, AllOrNothing, Returned
<1>9. ASSUME NEW ok \in BOOLEAN, Deferred(ok) PROVE CommitInv'
  BY <1>9 DEF Deferred, Install, CommitInv, AllOrNothing, Returned
<1>10. CASE UNCHANGED engineVars
  BY <1>10 DEF engineVars, CommitInv, AllOrNothing, Returned
<1> QED
  BY <1>1, <1>2, <1>3, <1>4, <1>5, <1>6, <1>7, <1>8, <1>9, <1>10 DEF EngineNext

-----------------------------------------------------------------------------
(* Transaction is all or nothing, for any function, its panics, and a      *)
(* Begin or Commit that fails.                                             *)
THEOREM TransactionAtomic == EngineSpec => []AllOrNothing
<1>1. CommitInv => AllOrNothing
  BY DEF CommitInv
<1> QED
  BY <1>1, CommitInit, CommitKept, PTL DEF EngineSpec

-----------------------------------------------------------------------------
(* A table is made of rows that have its columns and no others.            *)
Table(t) == t = TableOf(t.cols, t.rows) /\ \A r \in t.rows : r = [c \in t.cols |-> r[c]]
Sound(d) == d = [main |-> d.main, tmp |-> d.tmp] /\ (d.main = NoTable \/ Table(d.main))

TablesInv == Sound(db) /\ Sound(work) /\ Sound(before)

(* The rows of a table t with the columns cs instead of its own.           *)
RowsWith(t, cs) == {[c \in cs |-> IF c \in t.cols THEN r[c] ELSE Null] : r \in t.rows}

(* Migrate on the way: nothing is done before the first ALTER; then the    *)
(* table has its old columns, and of the new ones those no longer in added. *)
Altered ==
  /\ work.tmp = before.tmp
  /\ added \subseteq Fields \ before.main.cols
  /\ removed = before.main.cols \ Fields
  /\ work.main.cols = before.main.cols \cup ((Fields \ before.main.cols) \ added)
  /\ work.main.rows = RowsWith(before.main, work.main.cols)

Migrated(d) ==
  /\ d.main.cols = Fields
  /\ d.tmp = before.tmp
  /\ before.main # NoTable => d.main.rows = RowsWith(before.main, Fields)

MigrateInv ==
  kind = "migrate" =>
    /\ step # "user"
    /\ step \in {"hasTable", "columns"} => work = before
    /\ step \in {"columns", "alter"} => before.main # NoTable
    /\ step = "alter" => Altered
    /\ step = "deferred" /\ outcome = "nil" => Migrated(work)
    /\ step = "idle" /\ outcome = "nil" => Migrated(db)

LEMMA OwnRows == ASSUME NEW t, Table(t) PROVE RowsWith(t, t.cols) = t.rows
<1>1. \A r \in t.rows : [c \in t.cols |-> IF c \in t.cols THEN r[c] ELSE Null] = r
  <2> SUFFICES ASSUME NEW r \in t.rows
               PROVE  [c \in t.cols |-> IF c \in t.cols THEN r[c] ELSE Null] = r
    OBVIOUS
  <2>1. [c \in t.cols |-> IF c \in t.cols THEN r[c] ELSE Null] = [c \in t.cols |-> r[c]]
    OBVIOUS
  <2> QED
    BY <2>1 DEF Table
<1> QED
  BY <1>1 DEF RowsWith

LEMMA ColumnAdded ==
  ASSUME NEW b, NEW t, NEW x, x \notin b.cols, b.cols \subseteq t.cols,
         t.rows = RowsWith(b, t.cols)
  PROVE  WithColumn(t, x).rows = RowsWith(b, t.cols \cup {x})
<1> DEFINE W(r) == [c \in t.cols \cup {x} |-> IF c = x THEN Null ELSE r[c]]
           F(r) == [c \in t.cols |-> IF c \in b.cols THEN r[c] ELSE Null]
           G(r) == [c \in t.cols \cup {x} |-> IF c \in b.cols THEN r[c] ELSE Null]
<1>1. ASSUME NEW r \in b.rows PROVE W(F(r)) = G(r)
  OBVIOUS
<1>2. WithColumn(t, x).rows = {W(r) : r \in t.rows}
  BY DEF WithColumn, TableOf
<1>3. t.rows = {F(r) : r \in b.rows}
  BY DEF RowsWith
<1>4. RowsWith(b, t.cols \cup {x}) = {G(r) : r \in b.rows}
  BY DEF RowsWith
<1> HIDE DEF W, F, G
<1> QED
  BY <1>1, <1>2, <1>3, <1>4

LEMMA ColumnsSelected ==
  ASSUME NEW b, NEW t, Fields \subseteq t.cols, t.rows = RowsWith(b, t.cols)
  PROVE  Selected(t).cols = Fields /\ Selected(t).rows = RowsWith(b, Fields)
<1> DEFINE F(r) == [c \in t.cols |-> IF c \in b.cols THEN r[c] ELSE Null]
           G(r) == [c \in Fields |-> IF c \in b.cols THEN r[c] ELSE Null]
<1>1. ASSUME NEW r \in b.rows PROVE Restrict(F(r), Fields) = G(r)
  BY DEF Restrict
<1>2. Selected(t).cols = Fields /\ Selected(t).rows = {Restrict(r, Fields) : r \in t.rows}
  BY DEF Selected, TableOf
<1>3. t.rows = {F(r) : r \in b.rows}
  BY DEF RowsWith
<1>4. RowsWith(b, Fields) = {G(r) : r \in b.rows}
  BY DEF RowsWith
<1> HIDE DEF F, G
<1> QED
  BY <1>1, <1>2, <1>3, <1>4

LEMMA TablesMade ==
  /\ \A c, r : r \in {{}, [c -> Contents]} => Table(TableOf(c, r))
  /\ \A t, x : Table(WithColumn(t, x))
  /\ \A t : Table(Selected(t))
  /\ Table(TableOf(Fields, {}))
<1>1. ASSUME NEW c, NEW r, r \in {{}, [c -> Contents]} PROVE Table(TableOf(c, r))
  BY <1>1 DEF Table, TableOf
<1>2. ASSUME NEW t, NEW x PROVE Table(WithColumn(t, x))
  BY DEF Table, TableOf, WithColumn
<1>3. ASSUME NEW t PROVE Table(Selected(t))
  BY DEF Table, TableOf, Selected, Restrict
<1>4. Table(TableOf(Fields, {}))
  BY DEF Table, TableOf
<1> QED
  BY <1>1, <1>2, <1>3, <1>4

LEMMA TablesInit == EngineInit => TablesInv
<1> SUFFICES ASSUME EngineInit PROVE TablesInv
  OBVIOUS
<1>1. PICK c \in (SUBSET Columns) \ {{}}, left \in BOOLEAN :
        \E r \in {{}, [c -> Contents]} : \E main \in {NoTable, TableOf(c, r)} :
          db = [main |-> main, tmp |-> IF left THEN TableOf(c, r) ELSE NoTable]
  BY DEF EngineInit
<1>2. PICK r \in {{}, [c -> Contents]} : \E main \in {NoTable, TableOf(c, r)} :
        db = [main |-> main, tmp |-> IF left THEN TableOf(c, r) ELSE NoTable]
  BY <1>1
<1>3. Sound(db)
  BY <1>2, TablesMade DEF Sound
<1> QED
  BY <1>3 DEF EngineInit, TablesInv

LEMMA TablesKept == TablesInv /\ [EngineNext]_engineVars => TablesInv'
<1> SUFFICES ASSUME TablesInv, [EngineNext]_engineVars PROVE TablesInv'
  OBVIOUS
<1> USE DEF TablesInv
<1>1. ASSUME NEW k \in {"user", "migrate"}, Begin(k) \/ BeginFails(k) PROVE TablesInv'
  BY <1>1 DEF Begin, BeginFails, Sound
<1>2. ASSUME NEW how \in {"nil", "error", "panic"}, UserEnds(how) PROVE TablesInv'
  BY <1>2 DEF UserEnds, Sound
<1>3. ASSUME NEW c \in (SUBSET Columns) \ {{}}, NEW r \in {{}, [c -> Contents]},
             UserWrites(TableOf(c, r))
      PROVE  TablesInv'
  BY <1>3, TablesMade DEF UserWrites, Sound
<1>4. CASE TableIsThere \/ CreateFails \/ ReadColumns \/ ColumnsFails
  BY <1>4 DEF TableIsThere, CreateFails, ReadColumns, ColumnsFails, Sound
<1>5. CASE Creates
  BY <1>5, TablesMade DEF Creates, Sound
<1>6. ASSUME NEW c \in Fields, Alter(c) PROVE TablesInv'
  BY <1>6, TablesMade DEF Alter, Sound
<1>7. CASE AlterFails \/ NothingToRemove
  BY <1>7 DEF AlterFails, NothingToRemove, Sound
<1>8. ASSUME NEW n \in 0..3, Rebuild(n) PROVE TablesInv'
  <2>1. Sound(Rebuilt(work, n))
    <3>1. CASE n = 0
      BY <3>1 DEF Rebuilt
    <3>2. CASE n = 1
      BY <3>2 DEF Rebuilt, Sound
    <3>3. CASE n = 2
      <4>1. work = [main |-> work.main, tmp |-> work.tmp]
        BY DEF Sound
      <4> DEFINE copied == [work EXCEPT !.tmp = Selected(work.main)]
      <4>2. copied = [main |-> work.main, tmp |-> Selected(work.main)]
        BY <4>1
      <4>3. Rebuilt(work, n) = [copied EXCEPT !.main = NoTable]
        BY <3>3 DEF Rebuilt
      <4> HIDE DEF copied
      <4>4. Rebuilt(work, n) = [main |-> NoTable, tmp |-> Selected(work.main)]
        BY <4>2, <4>3
      <4> QED
        BY <4>4 DEF Sound
    <3>4. CASE n = 3
      BY <3>4, TablesMade DEF Rebuilt, Sound
    <3> QED
      BY <3>1, <3>2, <3>3, <3>4
  <2> QED
    BY <1>8, <2>1 DEF Rebuild, Sound
<1>9. ASSUME NEW ok \in BOOLEAN, Deferred(ok) PROVE TablesInv'
  BY <1>9 DEF Deferred, Install, Sound
<1>10. CASE UNCHANGED engineVars
  BY <1>10 DEF engineVars, Sound
<1> QED
  BY <1>1, <1>2, <1>3, <1>4, <1>5, <1>6, <1>7, <1>8, <1>9, <1>10 DEF EngineNext

LEMMA MigrateKept ==
  TablesInv /\ MigrateInv /\ [EngineNext]_engineVars => MigrateInv'
<1> SUFFICES ASSUME TablesInv, MigrateInv, [EngineNext]_engineVars PROVE MigrateInv'
  OBVIOUS
<1>1. ASSUME NEW k \in {"user", "migrate"}, Begin(k) \/ BeginFails(k) PROVE MigrateInv'
  BY <1>1 DEF Begin, BeginFails, MigrateInv
<1>2. ASSUME NEW how \in {"nil", "error", "panic"}, UserEnds(how) PROVE MigrateInv'
  BY <1>2 DEF UserEnds, MigrateInv
<1>3. ASSUME NEW t, UserWrites(t) PROVE MigrateInv'
  BY <1>3 DEF UserWrites, MigrateInv
<1>4. CASE TableIsThere \/ CreateFails \/ ColumnsFails
  BY <1>4 DEF TableIsThere, CreateFails, ColumnsFails, Ends, MigrateInv
<1>5. CASE Creates
  <2>1. kind = "migrate" => Migrated(work)'
    BY <1>5 DEF Creates, MigrateInv, Migrated, TableOf, TablesInv, Sound
  <2> QED
    BY <1>5, <2>1 DEF Creates, Ends, MigrateInv, Migrated
<1>6. CASE ReadColumns
  <2>1. ASSUME kind = "migrate" PROVE Altered'
    <3>1. /\ work = before /\ Table(before.main)
          /\ added' = Fields \ before.main.cols /\ removed' = before.main.cols \ Fields
          /\ work' = work /\ before' = before
      BY <1>6, <2>1 DEF ReadColumns, difference, MigrateInv, TablesInv, Sound
    <3>2. RowsWith(before.main, before.main.cols) = before.main.rows
      BY <3>1, OwnRows
    <3> QED
      BY <3>1, <3>2 DEF Altered
  <2> QED
    BY <1>6, <2>1 DEF ReadColumns, MigrateInv
<1>7. ASSUME NEW c \in Fields, Alter(c) PROVE MigrateInv'
  <2>1. ASSUME kind = "migrate" PROVE Altered'
    <3>1. Altered /\ c \in added /\ c \notin work.main.cols /\ c \notin before.main.cols
      BY <1>7, <2>1 DEF Alter, MigrateInv, Altered
    <3>2. /\ work'.main = WithColumn(work.main, c) /\ work'.tmp = work.tmp
          /\ added' = added \ {c} /\ removed' = removed /\ before' = before
      BY <1>7 DEF Alter, TablesInv, Sound
    <3>3. work'.main.cols = work.main.cols \cup {c}
      BY <3>2 DEF WithColumn, TableOf
    <3>4. work'.main.rows = RowsWith(before.main, work.main.cols \cup {c})
      <4>1. /\ c \notin before.main.cols /\ before.main.cols \subseteq work.main.cols
            /\ work.main.rows = RowsWith(before.main, work.main.cols)
        BY <3>1 DEF Altered
      <4>2. WithColumn(work.main, c).rows = RowsWith(before.main, work.main.cols \cup {c})
        BY <4>1, ColumnAdded
      <4> QED
        BY <3>2, <4>2
    <3> QED
      BY <3>1, <3>2, <3>3, <3>4 DEF Altered
  <2> QED
    BY <1>7, <2>1 DEF Alter, MigrateInv
<1>8. CASE AlterFails
  BY <1>8 DEF AlterFails, Ends, MigrateInv
<1>9. CASE NothingToRemove
  <2>1. kind = "migrate" => Migrated(work)
    BY <1>9 DEF NothingToRemove, NoneToRemove, MigrateInv, Altered, Migrated
  <2> QED
    BY <1>9, <2>1 DEF NothingToRemove, Ends, MigrateInv, Migrated
<1>10. ASSUME NEW n \in 0..3, Rebuild(n) PROVE MigrateInv'
  <2>1. ASSUME kind = "migrate", n = 3 PROVE Migrated(work)'
    <3>1. /\ Altered /\ added = {} /\ work.tmp = NoTable
          /\ work'.main = Selected(work.main) /\ work'.tmp = NoTable /\ before' = before
      BY <1>10, <2>1 DEF Rebuild, Rebuilt, MigrateInv, TablesInv, Sound
    <3>2. Fields \subseteq work.main.cols
      BY <3>1 DEF Altered
    <3>3. Selected(work.main).cols = Fields
          /\ Selected(work.main).rows = RowsWith(before.main, Fields)
      BY <3>1, <3>2, ColumnsSelected DEF Altered
    <3> QED
      BY <3>1, <3>3 DEF Migrated, Altered
  <2> QED
    BY <1>10, <2>1 DEF Rebuild, Ends, MigrateInv
<1>11. ASSUME NEW ok \in BOOLEAN, Deferred(ok) PROVE MigrateInv'
  BY <1>11 DEF Deferred, Install, MigrateInv, Migrated
<1>12. CASE UNCHANGED engineVars
  BY <1>12 DEF engineVars, MigrateInv, Altered, Migrated
<1> QED
  BY <1>1, <1>2, <1>3, <1>4, <1>5, <1>6, <1>7, <1>8, <1>9, <1>10, <1>11, <1>12 DEF EngineNext

-----------------------------------------------------------------------------
(* A Migrate that succeeds leaves exactly the columns of the struct, with  *)
(* what every row had in them; one that fails anywhere changes nothing.    *)
THEOREM MigrationKeepsRows == EngineSpec => []MigrateKeepsColumns
<1>1. EngineInit => MigrateInv
  BY DEF EngineInit, MigrateInv
<1>2. CommitInv /\ MigrateInv => MigrateKeepsColumns
  <2> SUFFICES ASSUME CommitInv, MigrateInv, Returned, kind = "migrate"
               PROVE  IF outcome # "nil" THEN db = before
                      ELSE /\ db.main.cols = Fields /\ db.tmp = before.tmp
                           /\ before.main # NoTable =>
                                db.main.rows = RowsWith(before.main, Fields)
    BY DEF MigrateKeepsColumns, RowsWith
  <2>1. CASE outcome # "nil"
    BY <2>1 DEF CommitInv, AllOrNothing
  <2>2. CASE outcome = "nil"
    BY <2>2 DEF MigrateInv, Migrated, Returned
  <2> QED
    BY <2>1, <2>2
<1> QED
  BY <1>1, <1>2, CommitInit, CommitKept, TablesInit, TablesKept, MigrateKept, PTL
     DEF EngineSpec

(* The types of the tables, and that a Migrate past HasTable has one.      *)
Typed(d) ==
  /\ d = [main |-> d.main, tmp |-> d.tmp]
  /\ d.main = NoTable \/ IsTable(d.main)
  /\ d.tmp = NoTable \/ IsTable(d.tmp)

EngineInv ==
  /\ Typed(db) /\ Typed(work) /\ Typed(before)
  /\ kind \in {"user", "migrate"}
  /\ step \in {"idle", "user", "hasTable", "columns", "alter", "deferred"}
  /\ added \subseteq Fields /\ removed \subseteq Columns
  /\ outcome \in {"none", "nil", "error", "panic"}
  /\ step \in {"columns", "alter"} => IsTable(work.main)

LEMMA TablesTyped ==
  /\ \A c \in (SUBSET Columns) \ {{}} : \A r \in {{}, [c -> Contents]} : IsTable(TableOf(c, r))
  /\ \A t : \A x \in Fields : IsTable(t) => IsTable(WithColumn(t, x))
  /\ \A t : IsTable(t) /\ Fields \subseteq t.cols => IsTable(Selected(t))
  /\ IsTable(TableOf(Fields, {}))
<1>1. ASSUME NEW c \in (SUBSET Columns) \ {{}}, NEW r \in {{}, [c -> Contents]}
      PROVE  IsTable(TableOf(c, r))
  <2>1. \A x \in r : x \in [c -> Contents \cup {Null}]
    OBVIOUS
  <2>2. TableOf(c, r).cols = c /\ TableOf(c, r).rows = r
    BY DEF TableOf
  <2>3. c \subseteq Columns /\ c # {}
    OBVIOUS
  <2> QED
    BY <2>1, <2>2, <2>3 DEF IsTable
<1>2. ASSUME NEW t, NEW x \in Fields, IsTable(t) PROVE IsTable(WithColumn(t, x))
  <2> DEFINE d == t.cols \cup {x}
             W(r) == [c \in d |-> IF c = x THEN Null ELSE r[c]]
  <2>1. ASSUME NEW r \in t.rows PROVE W(r) \in [d -> Contents \cup {Null}]
    <3>1. r \in [t.cols -> Contents \cup {Null}]
      BY <1>2 DEF IsTable
    <3> QED BY <3>1
  <2>2. d \subseteq Columns /\ d # {}
    BY <1>2, EngineAssumption DEF IsTable
  <2>3. WithColumn(t, x) = [cols |-> d, rows |-> {W(r) : r \in t.rows}]
    BY DEF WithColumn, TableOf
  <2> HIDE DEF W, d
  <2> QED BY <2>1, <2>2, <2>3 DEF IsTable
<1>3. ASSUME NEW t, IsTable(t), Fields \subseteq t.cols PROVE IsTable(Selected(t))
  <2>1. ASSUME NEW r \in t.rows PROVE Restrict(r, Fields) \in [Fields -> Contents \cup {Null}]
    <3>1. r \in [t.cols -> Contents \cup {Null}]
      BY <1>3 DEF IsTable
    <3> QED BY <1>3, <3>1 DEF Restrict
  <2>2. Selected(t) = [cols |-> Fields, rows |-> {Restrict(r, Fields) : r \in t.rows}]
    BY DEF Selected, TableOf
  <2> QED BY <2>1, <2>2, EngineAssumption DEF IsTable
<1>4. IsTable(TableOf(Fields, {}))
  BY EngineAssumption DEF IsTable, TableOf
<1> QED
  BY <1>1, <1>2, <1>3, <1>4

LEMMA EngineTypesInit == EngineInit => EngineInv
<1> SUFFICES ASSUME EngineInit PROVE EngineInv
  OBVIOUS
<1>1. PICK c \in (SUBSET Columns) \ {{}}, left \in BOOLEAN :
        \E r \in {{}, [c -> Contents]} : \E main \in {NoTable, TableOf(c, r)} :
          db = [main |-> main, tmp |-> IF left THEN TableOf(c, r) ELSE NoTable]
  BY DEF EngineInit
<1>2. PICK r \in {{}, [c -> Contents]} : \E main \in {NoTable, TableOf(c, r)} :
        db = [main |-> main, tmp |-> IF left THEN TableOf(c, r) ELSE NoTable]
  BY <1>1
<1>3. IsTable(TableOf(c, r))
  BY <1>1, <1>2, TablesTyped
<1>4. Typed(db)
  BY <1>2, <1>3 DEF Typed
<1> QED
  BY <1>4 DEF EngineInit, EngineInv

LEMMA EngineTypesKept == EngineInv /\ [EngineNext]_engineVars => EngineInv'
<1> SUFFICES ASSUME EngineInv, [EngineNext]_engineVars PROVE EngineInv'
  OBVIOUS
<1> USE DEF EngineInv
<1>1. ASSUME NEW k \in {"user", "migrate"}, Begin(k) \/ BeginFails(k) PROVE EngineInv'
  BY <1>1 DEF Begin, BeginFails
<1>2. ASSUME NEW how \in {"nil", "error", "panic"}, UserEnds(how) PROVE EngineInv'
  BY <1>2 DEF UserEnds, Ends
<1>3. ASSUME NEW c \in (SUBSET Columns) \ {{}}, NEW r \in {{}, [c -> Contents]},
             UserWrites(TableOf(c, r))
      PROVE  EngineInv'
  <2>1. Typed(work')
    BY <1>3, TablesTyped DEF UserWrites, Typed
  <2> QED
    BY <1>3, <2>1 DEF UserWrites
<1>4. CASE TableIsThere \/ CreateFails \/ ColumnsFails
  BY <1>4 DEF TableIsThere, CreateFails, ColumnsFails, Ends, Typed
<1>5. CASE Creates
  <2>1. Typed(work')
    BY <1>5, TablesTyped DEF Creates, Typed
  <2> QED
    BY <1>5, <2>1 DEF Creates, Ends
<1>6. CASE ReadColumns
  BY <1>6 DEF ReadColumns, Typed, IsTable, difference
<1>7. ASSUME NEW c \in Fields, Alter(c) PROVE EngineInv'
  <2>1. IsTable(WithColumn(work.main, c)) /\ work' = [work EXCEPT !.main = WithColumn(work.main, c)]
    BY <1>7, TablesTyped DEF Alter, Typed
  <2>2. Typed(work') /\ IsTable(work'.main)
    BY <2>1 DEF Typed
  <2> QED
    BY <1>7, <2>2 DEF Alter
<1>8. CASE AlterFails \/ NothingToRemove
  BY <1>8 DEF AlterFails, NothingToRemove, Ends
<1>9. ASSUME NEW n \in 0..3, Rebuild(n) PROVE EngineInv'
  <2>1. step = "alter" /\ IsTable(work.main)
    BY <1>9 DEF Rebuild, Typed
  <2>2. n = 0 \/ IsTable(Selected(work.main))
    BY <1>9, <2>1, TablesTyped DEF Rebuild
  <2>3. work' = Rebuilt(work, n)
    BY <1>9 DEF Rebuild
  <2>4. n \in {0, 1, 2, 3}
    OBVIOUS
  <2>5. Typed(work)
    BY DEF EngineInv
  <2>6. ASSUME n = 0 PROVE Typed(work')
    BY <2>3, <2>5, <2>6 DEF Rebuilt
  <2>7. ASSUME n = 1 PROVE Typed(work')
    BY <2>2, <2>3, <2>5, <2>7 DEF Rebuilt, Typed
  <2>8. ASSUME n = 2 PROVE Typed(work')
    <3>1. work = [main |-> work.main, tmp |-> work.tmp]
      BY <2>5 DEF Typed
    <3>2. [work EXCEPT !.tmp = Selected(work.main)] =
            [main |-> work.main, tmp |-> Selected(work.main)]
      BY <3>1
    <3>3. Rebuilt(work, 2) = [[work EXCEPT !.tmp = Selected(work.main)] EXCEPT !.main = NoTable]
      BY DEF Rebuilt
    <3>4. work' = [main |-> NoTable, tmp |-> Selected(work.main)]
      BY <2>3, <2>8, <3>2, <3>3
    <3> QED BY <2>2, <2>8, <3>4 DEF Typed
  <2>9. ASSUME n = 3 PROVE Typed(work')
    BY <2>2, <2>3, <2>5, <2>9 DEF Rebuilt, Typed
  <2> QED
    BY <1>9, <2>4, <2>6, <2>7, <2>8, <2>9 DEF Rebuild, Ends, EngineInv
<1>10. ASSUME NEW ok \in BOOLEAN, Deferred(ok) PROVE EngineInv'
  BY <1>10 DEF Deferred, Install
<1>11. CASE UNCHANGED engineVars
  BY <1>11 DEF engineVars
<1> QED
  BY <1>1, <1>2, <1>3, <1>4, <1>5, <1>6, <1>7, <1>8, <1>9, <1>10, <1>11 DEF EngineNext

(* The types, through any transaction and any statement of a migration     *)
(* that fails: tables have columns, and rows have the columns of theirs.   *)
THEOREM EngineTypes == EngineSpec => []EngineTypeOK
<1>1. EngineInv => EngineTypeOK
  BY DEF EngineInv, EngineTypeOK, Typed
<1> QED
  BY <1>1, EngineTypesInit, EngineTypesKept, PTL DEF EngineSpec

-----------------------------------------------------------------------------
(* geeorm.Session *)

SessionSpec == SessionInit /\ [][SessionNext]_sessionVars

(* Between statements the session holds what was chained for the next one, *)
(* no more unless something was left in it, no less unless something was   *)
(* lost, and the table named last; an operation that was executed has used *)
(* up what was chained.                                                    *)
ChainInv ==
  /\ SessionTypeOK
  /\ "left" \notin spoiled => Within(clause, asked)
  /\ "lost" \notin spoiled => Within(asked, clause)
  /\ "table" \notin spoiled => refTable = meant
  /\ call # Nil => call.of \in Models /\ (call.at = "after" => asked = Empty)
  /\ OwnConditions

LEMMA NothingWithin == DOMAIN Empty = {} /\ \A f : Within(Empty, f)
BY DEF Empty, Within

LEMMA SetWithin ==
  ASSUME NEW f, NEW g, NEW t, NEW x, Within(f, g)
  PROVE  Within(Set(f, t, x), Set(g, t, x))
BY DEF Within, Set

LEMMA PanicsKeepsChain ==
  ASSUME ChainInv, Panics, sent' = Nil PROVE ChainInv'
<1>1. clause = Empty => Within(clause, Empty)
  BY NothingWithin
<1> QED
  BY <1>1, NothingWithin DEF Panics, ChainInv, SessionTypeOK, OwnConditions

(* The statement of an operation is made of its own clause, with the table *)
(* in it, and those of the session's conditions that the operation takes.  *)
Built(o, table) == Build(Set(clause, HeadOf[o], table), o)
Conds(o, table) ==
  Restrict(Built(o, table), DOMAIN Built(o, table) \ {HeadOf[o]})

LEMMA BuiltStatement ==
  ASSUME NEW o \in Ops, NEW table, DOMAIN clause \subseteq Conditions
  PROVE  /\ Built(o, table)[HeadOf[o]] = table
         /\ DOMAIN Conds(o, table) = DOMAIN clause \cap Takes[o]
         /\ \A t \in DOMAIN Conds(o, table) : Conds(o, table)[t] = clause[t]
<1>1. /\ HeadOf[o] \in Orders[o] /\ HeadOf[o] \notin Conditions
      /\ Orders[o] \cap Conditions = Takes[o]
  BY DEF Ops, HeadOf, Orders, Conditions, Takes
<1> DEFINE f     == Set(clause, HeadOf[o], table)
           built == Built(o, table)
           conds == Conds(o, table)
<1>2. DOMAIN f = DOMAIN clause \cup {HeadOf[o]} /\ f[HeadOf[o]] = table
      /\ \A t \in DOMAIN clause : t # HeadOf[o] => f[t] = clause[t]
  BY DEF Set
<1> HIDE DEF f
<1>3. DOMAIN built = DOMAIN f \cap Orders[o] /\ \A t \in DOMAIN built : built[t] = f[t]
  BY DEF Built, Build, Restrict, f
<1>4. DOMAIN conds = DOMAIN built \ {HeadOf[o]} /\ \A t \in DOMAIN conds : conds[t] = built[t]
  BY DEF Conds, Restrict
<1> HIDE DEF built, conds
<1>5. /\ built[HeadOf[o]] = table
      /\ DOMAIN conds = DOMAIN clause \cap Takes[o]
      /\ \A t \in DOMAIN conds : conds[t] = clause[t]
  BY <1>1, <1>2, <1>3, <1>4
<1> QED
  BY <1>5 DEF built, conds

LEMMA ChainKept ==
  ASSUME SessionAssumption, ChainInv, [SessionNext]_sessionVars PROVE ChainInv'
<1>1. ASSUME NEW t \in Conditions, NEW x \in Args, Chain(t, x) \/ HookChains(t, x), sent' = Nil
      PROVE  ChainInv'
  <2>1. DOMAIN Set(clause, t, x) \subseteq Conditions /\ DOMAIN Set(asked, t, x) \subseteq Conditions
    BY DEF Set, ChainInv, SessionTypeOK
  <2>2. CASE Chain(t, x) \/ call.at = "before"
    <3>1. clause' = Set(clause, t, x) /\ asked' = Set(asked, t, x)
          /\ UNCHANGED <<refTable, call, meant, spoiled>>
      BY <1>1, <2>2 DEF Chain, HookChains
    <3> QED
      BY <1>1, <2>1, <2>2, <3>1, SetWithin
         DEF ChainInv, SessionTypeOK, OwnConditions, Chain
  <2>3. CASE HookChains(t, x) /\ call.at # "before"
    <3>1. /\ clause' = Set(clause, t, x) /\ asked' = asked /\ asked = Empty
          /\ spoiled' = spoiled \cup {"left"} /\ UNCHANGED <<refTable, call, meant>>
      BY <2>3 DEF HookChains, InHook, ChainInv, SessionTypeOK
    <3> QED
      BY <1>1, <2>1, <3>1, NothingWithin DEF ChainInv, SessionTypeOK, OwnConditions
  <2> QED
    BY <1>1, <2>2, <2>3
<1>2. ASSUME NEW m \in Models, Model(m) \/ HookTurns(m), sent' = Nil PROVE ChainInv'
  BY <1>2 DEF Model, HookTurns, Turned, ChainInv, SessionTypeOK, OwnConditions
<1>3. ASSUME NEW o \in Ops, NEW m \in Models, Begins(o, m), sent' = Nil PROVE ChainInv'
  <2>1. CASE refTable = Nil
    BY <1>3, <2>1, PanicsKeepsChain DEF Begins
  <2>2. CASE refTable # Nil
    <3>1. /\ call' = [op |-> o, of |-> m, at |-> "before"]
          /\ UNCHANGED <<refTable, clause, asked, meant, spoiled>>
      BY <1>3, <2>2 DEF Begins
    <3>2. call'.op \in Ops /\ call'.of \in Models /\ call'.at = "before"
      BY <3>1
    <3>3. OwnConditions'
      BY <1>3 DEF OwnConditions
    <3> QED
      BY <3>1, <3>2, <3>3 DEF ChainInv, SessionTypeOK
  <2> QED
    BY <2>1, <2>2
<1>4. ASSUME NEW m \in Models, HookUses(m), sent' = Nil PROVE ChainInv'
  BY <1>4, NothingWithin
     DEF HookUses, InHook, Turned, Clear, ChainInv, SessionTypeOK, OwnConditions
<1>5. ASSUME OpPanics \/ OpReturns, sent' = Nil PROVE ChainInv'
  BY <1>5, PanicsKeepsChain DEF OpPanics, OpReturns, ChainInv, SessionTypeOK, OwnConditions
<1>6. ASSUME NEW ok \in BOOLEAN, Executes(ok) PROVE ChainInv'
  <2> DEFINE o     == call.op
             named == o \in {"Insert", "Find"}
             table == IF named THEN call.of ELSE refTable
             built == Built(o, table)
             conds == Conds(o, table)
  <2>1. /\ call # Nil /\ call.of \in Models /\ o \in Ops
        /\ Sends(o, built[HeadOf[o]], conds, IF named THEN table ELSE meant)
        /\ refTable' = table
        /\ meant' = (IF named THEN table ELSE meant)
        /\ spoiled' = spoiled \ (IF named THEN {"lost", "left", "table"} ELSE {"lost", "left"})
        /\ call' \in {Nil, [call EXCEPT !.at = "after"]}
    BY <1>6 DEF Executes, Built, Conds, ChainInv, SessionTypeOK
  <2>2. /\ built[HeadOf[o]] = table
        /\ DOMAIN conds = DOMAIN clause \cap Takes[o]
        /\ \A t \in DOMAIN conds : conds[t] = clause[t]
    <3>1. o \in Ops /\ DOMAIN clause \subseteq Conditions
      BY <2>1 DEF ChainInv, SessionTypeOK
    <3> HIDE DEF o, table
    <3> QED
      BY <3>1, BuiltStatement
  <2> HIDE DEF built, conds
  <2>3. /\ clause' = Empty /\ asked' = Empty /\ DOMAIN Empty = {}
        /\ \A f : Within(Empty, f)
    BY <2>1, NothingWithin DEF Sends, Clear
  <2>4. call' = Nil \/ (/\ call'.op \in Ops /\ call'.at \in {"before", "after"}
                        /\ call'.of \in Models)
    BY <1>6, <2>1 DEF ChainInv, SessionTypeOK, Executes
  <2>5. OwnConditions'
    <3> DEFINE taken == Restrict(asked, DOMAIN asked \cap Takes[o])
    <3>1. DOMAIN taken = DOMAIN asked \cap Takes[o] /\ \A t \in DOMAIN taken : taken[t] = asked[t]
      BY DEF Restrict
    <3>2. /\ sent'.op = o /\ sent'.table = table /\ sent'.conds = conds
          /\ sent'.asked = asked /\ sent'.spoiled = spoiled
          /\ sent'.meant = (IF named THEN table ELSE meant)
      BY <2>1, <2>2 DEF Sends
    <3>3. "left" \notin spoiled => Within(conds, taken)
      BY <2>2, <3>1 DEF ChainInv, Within
    <3>4. "lost" \notin spoiled => Within(taken, conds)
      BY <2>2, <3>1 DEF ChainInv, Within
    <3>5. "table" \notin spoiled => table = (IF named THEN table ELSE meant)
      BY DEF ChainInv
    <3>6. Restrict(sent'.asked, DOMAIN sent'.asked \cap Takes[sent'.op]) = taken
      BY <3>2
    <3> HIDE DEF taken, o, named, table
    <3> QED
      BY <3>2, <3>3, <3>4, <3>5, <3>6 DEF OwnConditions
  <2> QED
    BY <2>1, <2>3, <2>4, <2>5 DEF ChainInv, SessionTypeOK
<1>7. CASE OfTable \/ RawRuns
  <2>1. CASE refTable = Nil /\ OfTable
    BY <2>1, PanicsKeepsChain DEF OfTable
  <2>2. CASE ~(refTable = Nil /\ OfTable)
    <3>1. /\ clause' = Empty /\ asked' = Empty /\ call = Nil
          /\ spoiled' = spoiled \ {"left"} /\ UNCHANGED <<refTable, call, meant>>
      BY <1>7, <2>2 DEF OfTable, RawRuns, Sends, Clear
    <3>2. /\ sent'.op = "Raw" \/ (sent'.op = "Table" /\ sent'.table = refTable)
          /\ sent'.conds = Empty /\ sent'.asked = asked
          /\ sent'.spoiled = spoiled
          /\ sent'.op = "Table" => sent'.meant = meant
      BY <1>7, <2>2 DEF OfTable, RawRuns, Sends
    <3>3. \A f : Within(Restrict(f, DOMAIN f \cap {}), Empty)
      BY DEF Restrict, Within
    <3>4. Takes[sent'.op] = {}
      BY <3>2 DEF Takes
    <3>5. OwnConditions'
      BY <3>2, <3>3, <3>4, NothingWithin DEF OwnConditions, ChainInv
    <3> QED
      BY <3>1, <3>5, NothingWithin DEF ChainInv, SessionTypeOK
  <2> QED
    BY <2>1, <2>2
<1>8. CASE UNCHANGED sessionVars
  BY <1>8 DEF sessionVars, ChainInv, SessionTypeOK, OwnConditions
<1> QED
  BY <1>1, <1>2, <1>3, <1>4, <1>5, <1>6, <1>7, <1>8 DEF SessionNext

(* A statement has the conditions chained for it that its operation takes, *)
(* no more unless a panic or a hook after an operation left one, no fewer  *)
(* unless a hook before it ran a statement, and goes to the table named    *)
(* last unless a hook turned the session to another.                       *)
THEOREM SendsOwnConditions == SessionSpec => [](SessionTypeOK /\ OwnConditions)
<1>1. SessionInit => ChainInv
  BY NothingWithin DEF SessionInit, ChainInv, SessionTypeOK, OwnConditions
<1>2. ChainInv => SessionTypeOK /\ OwnConditions
  BY DEF ChainInv
<1> QED
  BY <1>1, <1>2, ChainKept, SessionAssumption, PTL DEF SessionSpec

-----------------------------------------------------------------------------
(* gee.Context *)

ContextSpec == ContextInit /\ [][ContextNext]_contextVars

(* The index is never behind a handler that was started, and behind all of *)
(* them after Fail: it only grows, except that Fail and a panic may bring   *)
(* it back to a place where nothing is left to start.                      *)
IndexInv ==
  /\ index \in Int /\ index >= -1
  /\ ran \in Seq(0..Size - 1)
  /\ \A i \in DOMAIN ran : ran[i] <= index
  /\ failed \in BOOLEAN
  /\ failed => index >= Size

(* What a step that may start a handler does, and what the others do.      *)
Starts(i) == i < Size /\ ran' = Append(ran, i) /\ index' = i /\ UNCHANGED failed
Moves     ==
  /\ UNCHANGED ran
  /\ index' \in Int /\ index' >= -1
  /\ index' >= index \/ index' >= Size
  /\ failed' \in BOOLEAN
  /\ failed' => index' >= Size

LEMMA LoopStep ==
  ASSUME ContextAssumption, IndexInv, NEW s, Loop(index + 1, s)
  PROVE  Starts(index + 1) \/ Moves
BY DEF ContextAssumption, IndexInv, Loop, Calls, Starts, Moves

LEMMA StartsOrMoves ==
  ASSUME ContextAssumption, IndexInv, [ContextNext]_contextVars
  PROVE  Starts(index + 1) \/ Moves
<1>1. CASE Handle
  BY <1>1, ContextAssumption DEF Handle, Calls, Starts, IndexInv
<1>2. CASE CallsNext
  BY <1>2, LoopStep DEF CallsNext, EnterNext
<1>3. CASE Returns
  BY <1>3, LoopStep DEF Returns
<1>4. CASE Fail
  BY <1>4, ContextAssumption DEF Fail, Skipped, Moves, IndexInv
<1>5. CASE Panic
  BY <1>5, ContextAssumption DEF Panic, Moves, IndexInv
<1>6. CASE UNCHANGED contextVars
  BY <1>6 DEF contextVars, Moves, IndexInv
<1> QED
  BY <1>1, <1>2, <1>3, <1>4, <1>5, <1>6 DEF ContextNext

LEMMA StartIsNew ==
  ASSUME ContextAssumption, IndexInv, Starts(index + 1)
  PROVE  /\ IndexInv'
         /\ ~failed
         /\ Last(ran') = index + 1
         /\ \A i \in DOMAIN ran : ran[i] < Last(ran')
<1>1. index \in Int /\ index + 1 < Size /\ Size \in Nat /\ ran \in Seq(0..Size - 1)
  BY ContextAssumption DEF IndexInv, Starts
<1>2. \A i \in DOMAIN ran : ran[i] \in Int /\ ran[i] <= index
  BY <1>1 DEF IndexInv
<1>3. /\ ran' = Append(ran, index + 1) /\ index' = index + 1 /\ UNCHANGED failed
      /\ ~failed
  BY <1>1 DEF Starts, IndexInv
<1>4. CASE index + 1 \in 0..Size - 1
  <2>1. /\ ran' \in Seq(0..Size - 1) /\ DOMAIN ran' = 1..(Len(ran) + 1)
        /\ ran'[Len(ran) + 1] = index + 1 /\ Len(ran') = Len(ran) + 1
        /\ \A i \in DOMAIN ran : ran'[i] = ran[i]
    BY <1>1, <1>3, <1>4
  <2>2. Last(ran') = index + 1
    BY <2>1 DEF Last
  <2>3. \A i \in DOMAIN ran' : i \in DOMAIN ran \/ i = Len(ran) + 1
    BY <1>1, <2>1
  <2>4. \A i \in DOMAIN ran' : ran'[i] <= index'
    BY <1>1, <1>2, <1>3, <2>1, <2>3
  <2> QED
    BY <1>1, <1>2, <1>3, <2>1, <2>2, <2>4 DEF IndexInv
<1> QED
  BY <1>1, <1>4 DEF IndexInv

LEMMA IndexKept ==
  ASSUME ContextAssumption, IndexInv, [ContextNext]_contextVars
  PROVE  IndexInv'
<1>1. CASE Moves
  BY <1>1, ContextAssumption DEF Moves, IndexInv
<1> QED
  BY <1>1, StartsOrMoves, StartIsNew

LEMMA IndexInit == ContextInit => IndexInv
<1> SUFFICES ASSUME ContextInit PROVE IndexInv
  OBVIOUS
<1>1. index = -1 /\ failed = FALSE /\ ran = << >>
  BY DEF ContextInit
<1>2. ran \in Seq(0..Size - 1) /\ DOMAIN ran = {}
  BY <1>1
<1>3. index \in Int /\ index >= -1
  BY <1>1
<1>4. failed \in BOOLEAN /\ ~failed
  BY <1>1, Zenon
<1> QED
  BY <1>2, <1>3, <1>4 DEF IndexInv

-----------------------------------------------------------------------------
(* No handler of a chain is run twice, none before one that stands in      *)
(* front of it, and none after Fail or a recovered panic, whatever the     *)
(* handlers do with Next.                                                  *)
THEOREM RunsInOrder == ContextSpec => EachOnceNoneAfterFail
<1>1. ContextInit => IndexInv
  BY IndexInit
<1>2. IndexInv /\ [ContextNext]_contextVars => IndexInv'
  BY ContextAssumption, IndexKept
<1>3. IndexInv /\ [ContextNext]_contextVars =>
        [ran' # ran => ~failed /\ \A i \in DOMAIN ran : ran[i] < Last(ran')]_contextVars
  BY ContextAssumption, StartsOrMoves, StartIsNew DEF Moves
<1> QED
  BY <1>1, <1>2, <1>3, PTL DEF ContextSpec, EachOnceNoneAfterFail

Frames == [handler : 0..Size - 1, nexts : 0..MaxNext]
StackInv == IndexInv /\ stack \in Seq(Frames)

LEMMA FrontIs ==
  ASSUME NEW S, NEW s \in Seq(S), s # << >>
  PROVE  Front(s) \in Seq(S) /\ Last(s) \in S
<1>1. Len(s) \in Nat \ {0} /\ DOMAIN s = 1..Len(s)
  OBVIOUS
<1>2. SubSeq(s, 1, Len(s) - 1) \in Seq(S) /\ s[Len(s)] \in S
  BY <1>1, SubSeqProperties
<1> QED
  BY <1>2 DEF Front, Last

LEMMA MaxIs ==
  ASSUME NEW n \in Nat, NEW T, T \subseteq 1..n, T # {}
  PROVE  Max(T) \in T
<1> DEFINE D == {n - x : x \in T}
<1>1. D \subseteq Nat /\ D # {}
  <2>1. \A x \in T : n - x \in Nat
    OBVIOUS
  <2>2. PICK x : x \in T
    OBVIOUS
  <2>3. n - x \in D
    BY <2>2
  <2> QED
    BY <2>1, <2>3
<1> HIDE DEF D
<1>2. PICK d \in D : \A e \in D : d <= e
  BY <1>1, LeastNatural
<1>3. PICK x \in T : d = n - x
  BY <1>2 DEF D
<1>4. \A y \in T : x >= y
  <2> SUFFICES ASSUME NEW y \in T PROVE x >= y
    OBVIOUS
  <2>1. n - y \in D
    BY DEF D
  <2>2. n - x <= n - y
    BY <1>2, <1>3, <2>1
  <2>3. x \in 1..n /\ y \in 1..n
    OBVIOUS
  <2> QED
    BY <2>2, <2>3
<1> QED
  BY <1>3, <1>4 DEF Max

(* A handler that is called is put on the stack. *)
LEMMA LoopKeepsTypes ==
  ASSUME ContextAssumption, NEW i \in Nat, NEW s \in Seq(Frames), Loop(i, s)
  PROVE  stack' \in Seq(Frames)
<1>1. CASE i < Size /\ Calls(i, s)
  <2>1. [handler |-> i, nexts |-> 0] \in Frames
    BY <1>1 DEF Frames, ContextAssumption
  <2> QED
    BY <1>1, <2>1 DEF Calls
<1>2. CASE stack' = s
  BY <1>2
<1> QED
  BY <1>1, <1>2 DEF Loop

LEMMA StackKept ==
  ASSUME ContextAssumption, IndexInv, stack \in Seq(Frames), [ContextNext]_contextVars
  PROVE  stack' \in Seq(Frames)
<1>1. CASE Handle
  <2>1. << >> \in Seq(Frames) /\ Loop(0, << >>)
    BY <1>1 DEF Handle, Loop, ContextAssumption
  <2> QED
    BY <2>1, LoopKeepsTypes
<1>2. CASE CallsNext
  <2> DEFINE top == [Top EXCEPT !.nexts = Top.nexts + 1]
             s   == Append(Front(stack), top)
  <2>1. Front(stack) \in Seq(Frames) /\ Top \in Frames
    BY <1>2, FrontIs DEF CallsNext, Top
  <2>2. Top.nexts < MaxNext \/ Top.nexts < 1
    BY <1>2 DEF CallsNext
  <2>3. top \in Frames
    <3>1. /\ Top = [handler |-> Top.handler, nexts |-> Top.nexts]
          /\ Top.handler \in 0..Size - 1 /\ Top.nexts \in 0..MaxNext
      BY <2>1 DEF Frames
    <3>2. top = [handler |-> Top.handler, nexts |-> Top.nexts + 1]
      BY <3>1
    <3>3. Top.nexts + 1 \in 0..MaxNext
      BY <2>2, <3>1 DEF ContextAssumption
    <3> QED
      BY <3>1, <3>2, <3>3 DEF Frames
  <2>4. Loop(index + 1, s)
    BY <1>2 DEF CallsNext, EnterNext
  <2> HIDE DEF top
  <2>5. s \in Seq(Frames)
    BY <2>1, <2>3
  <2> HIDE DEF s
  <2>6. index + 1 \in Nat
    BY DEF IndexInv
  <2> QED
    BY <2>4, <2>5, <2>6, LoopKeepsTypes
<1>3. CASE Returns
  <2>1. Front(stack) \in Seq(Frames) /\ Loop(index + 1, Front(stack))
    BY <1>3, FrontIs DEF Returns
  <2>2. index + 1 \in Nat
    BY DEF IndexInv
  <2> QED
    BY <2>1, <2>2, LoopKeepsTypes
<1>4. CASE Panic
  <2>1. CASE Recovering = {}
    BY <1>4, <2>1 DEF Panic
  <2>2. CASE Recovering # {}
    <3>1. Recovering \subseteq 1..Len(stack) /\ Len(stack) \in Nat
      BY DEF Recovering
    <3>2. Max(Recovering) \in 1..Len(stack)
      BY <2>2, <3>1, MaxIs
    <3>3. SubSeq(stack, 1, Max(Recovering) - 1) \in Seq(Frames)
      BY <3>2, SubSeqProperties
    <3> QED
      BY <1>4, <2>2, <3>3 DEF Panic
  <2> QED
    BY <2>1, <2>2
<1>5. CASE Fail \/ UNCHANGED contextVars
  BY <1>5 DEF Fail, contextVars
<1> QED
  BY <1>1, <1>2, <1>3, <1>4, <1>5 DEF ContextNext

(* The types: every handler that runs is one of the chain, and the index   *)
(* never falls behind the start.                                           *)
THEOREM ContextTypes == ContextSpec => []ContextTypeOK
<1>1. ContextInit => StackInv
  BY IndexInit DEF ContextInit, StackInv
<1>2. StackInv => ContextTypeOK
  BY DEF StackInv, IndexInv, Frames, ContextTypeOK
<1>3. StackInv /\ [ContextNext]_contextVars => StackInv'
  BY ContextAssumption, IndexKept, StackKept DEF StackInv
<1> QED
  BY <1>1, <1>2, <1>3, PTL DEF ContextSpec

-----------------------------------------------------------------------------
(* lru.Cache *)

LruSpec == LruInit /\ [][LruNext]_lruVars

(* The list is in the order of use, without the keys used longest ago.     *)
InOrder(l, r) ==
  /\ r \in Seq(Keys) /\ (\A i, j \in 1..Len(r) : r[i] = r[j] => i = j)
  /\ Len(l) <= Len(r) /\ \A i \in 1..Len(l) : l[i].key = r[i]

Counted(c) == c = [ll |-> c.ll, nbytes |-> c.nbytes] /\ c.nbytes = Bytes(c.ll)

LruInv ==
  /\ ListOK(cache.ll, Keys, Vals)
  /\ InOrder(cache.ll, recency)
  /\ Counted(cache) /\ ~TooLarge(cache)

(* The use of a key brings it to the front of the recency, or puts it there. *)
LEMMA UseIs ==
  ASSUME NEW k \in Keys, Use(k), recency \in Seq(Keys),
         \A i, j \in 1..Len(recency) : recency[i] = recency[j] => i = j
  PROVE  /\ recency' \in Seq(Keys) /\ recency'[1] = k
         /\ \/ \E p \in 1..Len(recency) : recency[p] = k /\ Brought(recency', recency, p)
            \/ /\ \A i \in 1..Len(recency) : recency[i] # k
               /\ Pushed(recency', recency)
<1>1. DOMAIN recency = 1..Len(recency)
  OBVIOUS
<1>2. CASE \E i \in DOMAIN recency : recency[i] = k
  <2> DEFINE p == CHOOSE i \in DOMAIN recency : recency[i] = k
  <2>1. p \in DOMAIN recency /\ recency[p] = k
    BY <1>2
  <2>2. recency' = MoveToFront(recency, p)
    BY <1>2 DEF Use
  <2> HIDE DEF p
  <2>3. /\ MoveToFront(recency, p) \in Seq(Keys) /\ MoveToFront(recency, p)[1] = recency[p]
        /\ Brought(MoveToFront(recency, p), recency, p)
    BY <2>1, MoveBrings
  <2> QED BY <1>1, <2>1, <2>2, <2>3
<1>3. CASE ~ \E i \in DOMAIN recency : recency[i] = k
  <2>1. recency' = <<k>> \o recency
    BY <1>3 DEF Use
  <2>2. /\ <<k>> \o recency \in Seq(Keys) /\ (<<k>> \o recency)[1] = k
        /\ Pushed(<<k>> \o recency, recency)
    BY PushIs
  <2> QED BY <1>1, <1>3, <2>1, <2>2
<1> QED BY <1>2, <1>3

(* No key is twice in the recency. *)
LEMMA UseKeepsOnce ==
  ASSUME NEW k \in Keys, Use(k), recency \in Seq(Keys),
         \A i, j \in 1..Len(recency) : recency[i] = recency[j] => i = j
  PROVE  \A i, j \in 1..Len(recency') : recency'[i] = recency'[j] => i = j
<1> DEFINE n == Len(recency)
<1>1. n \in Nat
  OBVIOUS
<1>2. recency' \in Seq(Keys) /\ recency'[1] = k
  BY UseIs
<1>3. ASSUME NEW p \in 1..n, recency[p] = k, Brought(recency', recency, p)
      PROVE  \A i, j \in 1..Len(recency') : recency'[i] = recency'[j] => i = j
  <2>1. /\ Len(recency') = n
        /\ \A j \in 2..n : Stood(p, j) \in 1..n /\ Stood(p, j) # p
                           /\ recency'[j] = recency[Stood(p, j)]
    BY <1>3 DEF Brought
  <2> HIDE DEF n
  <2>2. \A j \in 2..n : recency'[j] # k
    BY <1>3, <2>1 DEF n
  <2>3. \A i, j \in 2..n : recency'[i] = recency'[j] => i = j
    <3> SUFFICES ASSUME NEW i \in 2..n, NEW j \in 2..n, recency'[i] = recency'[j]
                 PROVE  i = j
      OBVIOUS
    <3>1. Stood(p, i) = Stood(p, j)
      BY <2>1 DEF n
    <3> QED BY <1>1, <3>1, <2>1 DEF Stood
  <2>4. \A h \in 1..n : h = 1 \/ h \in 2..n
    BY <1>1
  <2> QED BY <1>2, <2>1, <2>2, <2>3, <2>4
<1>4. ASSUME \A i \in 1..n : recency[i] # k, Pushed(recency', recency)
      PROVE  \A i, j \in 1..Len(recency') : recency'[i] = recency'[j] => i = j
  <2>1. Len(recency') = n + 1 /\ \A j \in 1..n : recency'[j + 1] = recency[j]
    BY <1>4 DEF Pushed
  <2> HIDE DEF n
  <2>2. \A j \in 2..(n + 1) : j - 1 \in 1..n /\ recency'[j] = recency[j - 1]
    <3> SUFFICES ASSUME NEW j \in 2..(n + 1)
                 PROVE  j - 1 \in 1..n /\ recency'[j] = recency[j - 1]
      OBVIOUS
    <3>1. j - 1 \in 1..n /\ (j - 1) + 1 = j
      BY <1>1
    <3>2. recency'[(j - 1) + 1] = recency[j - 1]
      BY <2>1, <3>1
    <3> QED BY <3>1, <3>2
  <2>3. \A i, j \in 2..(n + 1) : recency'[i] = recency'[j] => i = j
    <3> SUFFICES ASSUME NEW i \in 2..(n + 1), NEW j \in 2..(n + 1), recency'[i] = recency'[j]
                 PROVE  i = j
      OBVIOUS
    <3>1. i - 1 = j - 1
      BY <2>2 DEF n
    <3> QED BY <1>1, <3>1
  <2>4. \A h \in 1..(n + 1) : h = 1 \/ h \in 2..(n + 1)
    BY <1>1
  <2>5. \A j \in 2..(n + 1) : recency'[j] # k
    BY <1>4, <2>2
  <2> QED BY <1>2, <2>1, <2>3, <2>4, <2>5
<1> QED BY <1>3, <1>4, UseIs

(* The use of a key does to the list what it does to the recency. *)
LEMMA UseKeepsOrder ==
  ASSUME NEW k \in Keys, Use(k), ListOK(cache.ll, Keys, Vals), InOrder(cache.ll, recency),
         NEW l, l \in Seq([key : Keys, val : Vals]), l[1].key = k,
         \/ k \in KeysOf(cache) /\ Brought(l, cache.ll, PlaceOf(cache, k))
         \/ k \notin KeysOf(cache) /\ Pushed(l, cache.ll)
  PROVE  InOrder(l, recency')
<1> DEFINE n == Len(cache.ll)
<1>1. n \in Nat /\ DOMAIN cache.ll = 1..n
  BY ListFacts
<1>2. /\ recency \in Seq(Keys) /\ Len(recency) \in Nat /\ n <= Len(recency)
      /\ \A i, j \in 1..Len(recency) : recency[i] = recency[j] => i = j
      /\ \A i \in 1..n : cache.ll[i].key = recency[i] /\ i \in 1..Len(recency)
  BY <1>1 DEF InOrder
<1>3. /\ recency' \in Seq(Keys) /\ recency'[1] = k
      /\ \/ \E p \in 1..Len(recency) : recency[p] = k /\ Brought(recency', recency, p)
         \/ /\ \A i \in 1..Len(recency) : recency[i] # k
            /\ Pushed(recency', recency)
  BY <1>2, UseIs
<1>4. \A i, j \in 1..Len(recency') : recency'[i] = recency'[j] => i = j
  BY <1>2, UseKeepsOnce
<1> SUFFICES Len(l) <= Len(recency') /\ \A i \in 1..Len(l) : l[i].key = recency'[i]
  BY <1>3, <1>4 DEF InOrder
<1> HIDE DEF n
<1>5. CASE k \in KeysOf(cache) /\ Brought(l, cache.ll, PlaceOf(cache, k))
  <2> DEFINE q == PlaceOf(cache, k)
  <2>1. q \in 1..n /\ cache.ll[q].key = k
    BY <1>1, <1>5, PlaceOfIs
  <2>2. /\ Len(l) = n
        /\ \A j \in 2..n : Stood(q, j) \in 1..n /\ l[j] = cache.ll[Stood(q, j)]
    BY <1>5 DEF Brought, n
  <2> HIDE DEF q
  <2>3. recency[q] = k /\ q \in 1..Len(recency)
    BY <1>2, <2>1
  <2>4. Brought(recency', recency, q)
    BY <1>2, <1>3, <2>3
  <2>5. /\ Len(recency') = Len(recency)
        /\ \A j \in 2..Len(recency) : recency'[j] = recency[Stood(q, j)]
    BY <2>4 DEF Brought
  <2>6. ASSUME NEW j \in 2..n PROVE l[j].key = recency'[j]
    <3>1. j \in 2..Len(recency)
      BY <1>1, <1>2
    <3> QED BY <1>2, <2>2, <2>5, <3>1
  <2>7. \A h \in 1..n : h = 1 \/ h \in 2..n
    BY <1>1
  <2> QED BY <1>2, <1>3, <2>2, <2>5, <2>6, <2>7
<1>6. CASE k \notin KeysOf(cache) /\ Pushed(l, cache.ll)
  <2>1. Len(l) = n + 1 /\ \A j \in 1..n : l[j + 1] = cache.ll[j] /\ cache.ll[j].key # k
    BY <1>1, <1>6 DEF Pushed, KeysOf, n
  <2>2. ASSUME NEW j \in 2..(n + 1) PROVE j - 1 \in 1..n /\ l[j].key = recency[j - 1]
    <3>1. j - 1 \in 1..n /\ (j - 1) + 1 = j
      BY <1>1
    <3>2. l[(j - 1) + 1] = cache.ll[j - 1]
      BY <2>1, <3>1
    <3> QED BY <1>2, <3>1, <3>2
  <2>3. \A h \in 1..(n + 1) : h = 1 \/ h \in 2..(n + 1)
    BY <1>1
  <2>4. ASSUME NEW p \in 1..Len(recency), recency[p] = k, Brought(recency', recency, p)
        PROVE  Len(l) <= Len(recency') /\ \A i \in 1..Len(l) : l[i].key = recency'[i]
    <3>1. p > n
      <4>1. ~(p \in 1..n)
        BY <1>2, <2>1, <2>4
      <4> QED BY <1>1, <1>2, <4>1
    <3>2. /\ Len(recency') = Len(recency)
          /\ \A j \in 2..Len(recency) : recency'[j] = recency[Stood(p, j)]
      BY <2>4 DEF Brought
    <3>3. ASSUME NEW j \in 2..(n + 1) PROVE l[j].key = recency'[j]
      <4>1. j \in 2..Len(recency) /\ Stood(p, j) = j - 1
        BY <1>1, <1>2, <3>1 DEF Stood
      <4> QED BY <2>2, <3>2, <4>1
    <3>4. Len(l) <= Len(recency')
      BY <1>1, <1>2, <2>1, <3>1, <3>2
    <3> QED BY <1>3, <2>1, <2>3, <3>3, <3>4
  <2>5. ASSUME \A i \in 1..Len(recency) : recency[i] # k, Pushed(recency', recency)
        PROVE  Len(l) <= Len(recency') /\ \A i \in 1..Len(l) : l[i].key = recency'[i]
    <3>1. /\ Len(recency') = Len(recency) + 1
          /\ \A j \in 1..Len(recency) : recency'[j + 1] = recency[j]
      BY <2>5 DEF Pushed
    <3>2. ASSUME NEW j \in 2..(n + 1) PROVE l[j].key = recency'[j]
      <4>1. j - 1 \in 1..Len(recency) /\ (j - 1) + 1 = j
        BY <1>1, <1>2
      <4>2. recency'[(j - 1) + 1] = recency[j - 1]
        BY <3>1, <4>1
      <4> QED BY <2>2, <4>1, <4>2
    <3>3. Len(l) <= Len(recency')
      BY <1>1, <1>2, <2>1, <3>1
    <3> QED BY <1>3, <2>1, <2>3, <3>2, <3>3
  <2> QED BY <1>3, <2>4, <2>5
<1> QED BY <1>5, <1>6

LEMMA OrderShorter ==
  ASSUME NEW c, ListOK(c.ll, Keys, Vals), NEW n \in 0..Len(c.ll), NEW r, InOrder(c.ll, r)
  PROVE  InOrder(WithoutOldest(c, n).ll, r)
<1> DEFINE l == WithoutOldest(c, n).ll  E == [key : Keys, val : Vals]
<1>1. Len(c.ll) \in Nat /\ c.ll \in Seq(E)
  BY ListFacts
<1>2. l \in Seq(E) /\ Len(l) = Len(c.ll) - n /\ \A i \in 1..Len(l) : l[i] = c.ll[i]
  <2> HIDE DEF E
  <2> QED BY <1>1, WithoutOldestIs
<1> HIDE DEF l
<1>3. Len(r) \in Nat
  BY DEF InOrder
<1>4. Len(l) <= Len(r) /\ \A i \in 1..Len(l) : i \in 1..Len(c.ll)
  BY <1>1, <1>2, <1>3 DEF InOrder
<1>5. InOrder(l, r)
  BY <1>2, <1>4 DEF InOrder
<1> QED BY <1>5 DEF l

LEMMA LruKept == LruInv /\ [LruNext]_lruVars => LruInv'
<1> SUFFICES ASSUME LruInv, [LruNext]_lruVars PROVE LruInv'
  OBVIOUS
<1>0. SizesOK(Keys, Vals) /\ MaxBytes \in Nat
  BY LruAssumption DEF SizesOK
<1>1. /\ ListOK(cache.ll, Keys, Vals) /\ InOrder(cache.ll, recency)
      /\ cache.nbytes = Bytes(cache.ll) /\ ~TooLarge(cache)
      /\ cache = [ll |-> cache.ll, nbytes |-> cache.nbytes]
  BY DEF LruInv, Counted
<1>2. cache.ll \in Seq([key : Keys, val : Vals])
  BY <1>1, ListFacts
<1>3. CASE Evict
  <2>1. /\ cache' = RemoveOldest(cache) /\ recency' = recency /\ cache.ll # << >>
    BY <1>3 DEF Evict
  <2>2. /\ 1 \in 0..Len(cache.ll) /\ RemoveOldest(cache) = WithoutOldest(cache, 1)
        /\ RemoveOldest(cache).nbytes = Bytes(RemoveOldest(cache).ll)
        /\ ~TooLarge(RemoveOldest(cache))
    BY <1>0, <1>1, <1>2, <2>1, RemoveOldestCounts
  <2>3. ListOK(cache'.ll, Keys, Vals) /\ InOrder(cache'.ll, recency')
    BY <1>1, <2>1, <2>2, WithoutOldestOK, OrderShorter
  <2>4. cache' = [ll |-> cache'.ll, nbytes |-> cache'.nbytes]
    BY <2>1, <2>2 DEF WithoutOldest
  <2> QED BY <2>1, <2>2, <2>3, <2>4 DEF LruInv, Counted
<1>4. ASSUME NEW k \in Keys, Get(k) PROVE LruInv'
  <2> DEFINE p == PlaceOf(cache, k)  l == MoveToFront(cache.ll, p)
  <2>1. k \in KeysOf(cache) /\ Use(k) /\ cache' = [cache EXCEPT !.ll = l]
    BY <1>4 DEF Get, Touch
  <2>2. p \in DOMAIN cache.ll /\ cache.ll[p].key = k
    BY <2>1, PlaceOfIs
  <2> HIDE DEF p
  <2>3. /\ l \in Seq([key : Keys, val : Vals]) /\ l[1] = cache.ll[p] /\ Brought(l, cache.ll, p)
    BY <1>2, <2>2, MoveBrings
  <2>4. Bytes(l) = Bytes(cache.ll)
    BY <1>0, <1>2, <2>2, MoveToFrontCounts
  <2> HIDE DEF l
  <2>5. cache' = [ll |-> l, nbytes |-> cache.nbytes]
    BY <1>1, <2>1
  <2>6. InOrder(l, recency')
    BY <1>1, <2>1, <2>2, <2>3, UseKeepsOrder DEF p
  <2>7. OneEach(l)
    BY <2>3, <2>6 DEF InOrder, OneEach
  <2>8. ListOK(l, Keys, Vals)
    BY <2>3, <2>7 DEF ListOK
  <2>9. Counted(cache') /\ ~TooLarge(cache')
    BY <1>1, <2>4, <2>5 DEF Counted, TooLarge
  <2> QED BY <2>5, <2>6, <2>8, <2>9 DEF LruInv
<1>5. ASSUME NEW k \in Keys, NEW v \in Vals, Add(k, v) PROVE LruInv'
  <2> DEFINE c == Put(cache, k, v)
  <2>1. cache' = Shrink(c) /\ Use(k)
    BY <1>5 DEF Add, AddTo
  <2>2. ListOK(c.ll, Keys, Vals) /\ c.nbytes = Bytes(c.ll)
    BY <1>0, <1>1, PutIs, PutCounts
  <2>3. InOrder(c.ll, recency')
    <3>1. HeadIs(c.ll, Keys, Vals, Entry(k, v))
      BY <1>1, PutBrings, PutPushes
    <3>2. \/ k \in KeysOf(cache) /\ Brought(c.ll, cache.ll, PlaceOf(cache, k))
          \/ k \notin KeysOf(cache) /\ Pushed(c.ll, cache.ll)
      BY <1>1, PutBrings, PutPushes
    <3> HIDE DEF c
    <3>3. c.ll \in Seq([key : Keys, val : Vals]) /\ c.ll[1].key = k
      BY <3>1 DEF HeadIs, Entry
    <3> QED BY <1>1, <2>1, <3>2, <3>3, UseKeepsOrder
  <2> HIDE DEF c
  <2>4. c.ll \in Seq([key : Keys, val : Vals]) /\ Len(c.ll) \in Nat
    BY <2>2, ListFacts
  <2>5. PICK n \in 0..Len(c.ll) : Shrink(c) = WithoutOldest(c, n)
    BY <2>4, ShrinkIs
  <2>6. ListOK(cache'.ll, Keys, Vals) /\ InOrder(cache'.ll, recency')
    BY <2>1, <2>2, <2>3, <2>5, WithoutOldestOK, OrderShorter
  <2>7. cache'.nbytes = Bytes(cache'.ll) /\ ~TooLarge(cache')
    BY <1>0, <2>1, <2>2, <2>4, ShrinkCounts
  <2>8. cache' = [ll |-> cache'.ll, nbytes |-> cache'.nbytes]
    BY <2>1, <2>5 DEF WithoutOldest
  <2> QED BY <2>6, <2>7, <2>8 DEF LruInv, Counted
<1>6. CASE UNCHANGED lruVars
  BY <1>1, <1>6 DEF lruVars, LruInv, Counted, InOrder, TooLarge
<1> QED BY <1>3, <1>4, <1>5, <1>6 DEF LruNext

(* LruInv is inductive. *)
THEOREM LruInductive == LruSpec => []LruInv
<1>1. LruInit => LruInv
  <2> SUFFICES ASSUME LruInit PROVE LruInv
    OBVIOUS
  <2>1. cache = [ll |-> << >>, nbytes |-> 0] /\ recency = << >>
    BY DEF LruInit, NewCache
  <2>2. << >> \in Seq([key : Keys, val : Vals]) /\ Len(<< >>) = 0 /\ << >> \in Seq(Keys)
    OBVIOUS
  <2>3. SizesOK(Keys, Vals) /\ MaxBytes \in Nat
    BY LruAssumption DEF SizesOK
  <2>4. Bytes(<< >>) = 0
    BY <2>2, <2>3, SizesAre
  <2>5. ListOK(cache.ll, Keys, Vals)
    BY <2>1, <2>2 DEF ListOK, OneEach
  <2>6. InOrder(cache.ll, recency)
    BY <2>1, <2>2 DEF InOrder
  <2>7. Counted(cache)
    BY <2>1, <2>4 DEF Counted
  <2>8. ~TooLarge(cache)
    BY <2>1, <2>3 DEF TooLarge
  <2> QED BY <2>5, <2>6, <2>7, <2>8 DEF LruInv
<1> QED BY <1>1, LruKept, PTL DEF LruSpec

(* The types, for a cache of any keys and values. *)
THEOREM LruTypes == LruSpec => []LruTypeOK
<1>1. LruInv => LruTypeOK
  <2> SUFFICES ASSUME LruInv PROVE LruTypeOK
    OBVIOUS
  <2>1. SizesOK(Keys, Vals)
    BY LruAssumption DEF SizesOK
  <2>2. cache.ll \in Seq([key : Keys, val : Vals])
    BY ListFacts DEF LruInv
  <2>3. cache.nbytes \in Nat
    BY <2>1, <2>2, SizesAre DEF LruInv, Counted
  <2> QED BY <2>2, <2>3 DEF LruTypeOK, LruInv, InOrder
<1> QED BY <1>1, LruInductive, PTL

(* The bytes are counted right through any adds, updates and evictions,    *)
(* and stay within the limit.                                              *)
THEOREM CountsBytes == LruSpec => []BytesWithinLimit
<1>1. LruInv => BytesWithinLimit
  BY DEF LruInv, Counted, BytesWithinLimit
<1> QED BY <1>1, LruInductive, PTL

(* What is evicted is always what was used longest ago. *)
THEOREM EvictsOldest == LruSpec => []KeepsMostRecent
<1>1. LruInv => KeepsMostRecent
  <2> SUFFICES ASSUME LruInv PROVE KeepsMostRecent
    OBVIOUS
  <2> DEFINE n == Len(cache.ll)  r == SubSeq(recency, 1, n)
  <2>1. n \in Nat /\ DOMAIN cache.ll = 1..n
    BY ListFacts DEF LruInv
  <2>2. /\ recency \in Seq(Keys) /\ Len(recency) \in Nat /\ n <= Len(recency)
        /\ \A i \in 1..n : cache.ll[i].key = recency[i] /\ recency[i] \in Keys
    BY <2>1 DEF LruInv, InOrder
  <2> HIDE DEF n
  <2>3. /\ r \in Seq(Keys) /\ Len(r) = IF 1 <= n THEN n - 1 + 1 ELSE 0
        /\ \A i \in 1..(n - 1 + 1) : r[i] = recency[1 + i - 1]
    BY <2>1, <2>2, SubSeqProperties
  <2>4. DOMAIN r = 1..n /\ \A i \in 1..n : r[i] = recency[i]
    BY <2>1, <2>2, <2>3
  <2> HIDE DEF r
  <2>5. r = [i \in 1..n |-> cache.ll[i].key]
    BY <2>2, <2>3, <2>4
  <2> QED BY <2>1, <2>5 DEF KeepsMostRecent, r, n
<1> QED BY <1>1, LruInductive, PTL

-----------------------------------------------------------------------------
(* The router of gee: the trie *)

LEMMA MinIs ==
  ASSUME NEW T, T \subseteq Nat, T # {}
  PROVE  Min(T) \in T /\ \A y \in T : Min(T) <= y
BY LeastNatural DEF Min

(* The recursion of insert defines a function of the height.               *)
IsWalk(g, t, p, n) ==
  g = [h \in 0..n |-> IF h = 0 THEN [at |-> << >>, trie |-> t] ELSE Descend(g[h - 1], p[h])]

LEMMA WalkExists == \A t, p : \A n \in Nat : \E g : IsWalk(g, t, p, n)
<1> TAKE t, p
<1> DEFINE Root == [at |-> << >>, trie |-> t]
           Is(g, m) == g = [h \in 0..m |-> IF h = 0 THEN Root ELSE Descend(g[h - 1], p[h])]
           T == {m \in Nat : ~ \E g : Is(g, m)}
<1> SUFFICES ASSUME T # {} PROVE FALSE
  BY DEF IsWalk
<1>1. PICK m \in T : \A y \in T : m <= y
  <2> HIDE DEF Is
  <2> QED BY LeastNatural
<1>2. CASE m = 0
  <2> DEFINE g == [h \in 0..0 |-> Root]
  <2>1. Is(g, 0)
    OBVIOUS
  <2> HIDE DEF Is, g
  <2> QED BY <1>1, <1>2, <2>1
<1>3. CASE m > 0
  <2>1. m - 1 \in Nat /\ m - 1 \notin T
    <3> m \in Nat
      BY <1>1
    <3> HIDE DEF T
    <3> QED BY <1>1, <1>3
  <2>2. PICK f : Is(f, m - 1)
    <3> HIDE DEF Is
    <3> QED BY <2>1
  <2> DEFINE g == [h \in 0..m |-> IF h = m THEN Descend(f[m - 1], p[m]) ELSE f[h]]
  <2>3. ASSUME NEW h \in 0..m
        PROVE  g[h] = IF h = 0 THEN Root ELSE Descend(g[h - 1], p[h])
    <3>1. CASE h = m
      <4>1. m - 1 \in 0..m /\ m - 1 # m /\ h # 0
        BY <1>3, <3>1
      <4>2. g[m - 1] = f[m - 1]
        BY <4>1
      <4>3. g[h] = Descend(f[m - 1], p[m])
        BY <3>1
      <4> HIDE DEF g
      <4> QED BY <3>1, <4>1, <4>2, <4>3
    <3>2. CASE h < m
      <4>1. h \in 0..(m - 1) /\ h # m
        BY <1>3, <3>2
      <4>2. f[h] = IF h = 0 THEN Root ELSE Descend(f[h - 1], p[h])
        BY <2>2, <4>1
      <4>3. h # 0 => h - 1 \in 0..m /\ h - 1 # m
        BY <4>1
      <4>4. h # 0 => g[h - 1] = f[h - 1]
        BY <4>3
      <4>5. g[h] = f[h]
        BY <4>1
      <4> HIDE DEF g, Root
      <4> QED BY <4>2, <4>4, <4>5
    <3> QED BY <3>1, <3>2
  <2>4. g = [h \in 0..m |-> g[h]]
    OBVIOUS
  <2>5. Is(g, m)
    <3> HIDE DEF g, Root
    <3> QED BY <2>3, <2>4
  <2> HIDE DEF Is, g
  <2> QED BY <1>1, <2>5
<1> QED BY <1>1, <1>2, <1>3

LEMMA WalkIs ==
  ASSUME NEW t, NEW p, Len(p) \in Nat
  PROVE  /\ Walk(t, p)[0] = [at |-> << >>, trie |-> t]
         /\ \A h \in 1..Len(p) : Walk(t, p)[h] = Descend(Walk(t, p)[h - 1], p[h])
<1> DEFINE w == Walk(t, p)
<1>1. \E g : IsWalk(g, t, p, Len(p))
  BY WalkExists
<1>2. w = CHOOSE g : IsWalk(g, t, p, Len(p))
  BY DEF Walk, IsWalk
<1>3. IsWalk(w, t, p, Len(p))
  <2> HIDE DEF w
  <2> QED BY <1>1, <1>2
<1>4. w[0] = [at |-> << >>, trie |-> t]
  <2> HIDE DEF w
  <2> QED BY <1>3 DEF IsWalk
<1>5. ASSUME NEW h \in 1..Len(p) PROVE w[h] = Descend(w[h - 1], p[h])
  <2>1. h \in 0..Len(p) /\ h # 0
    OBVIOUS
  <2> HIDE DEF w
  <2> QED BY <1>3, <2>1 DEF IsWalk
<1> QED BY <1>4, <1>5

(* And so does that of search, a function of the parts that are left.       *)
IsFound(g, t, p, n) ==
  g = [h \in 0..n |-> IF h = 0 THEN t.pattern ELSE SearchLevel(t, p[Len(p) - h + 1], g[h - 1])]

LEMMA FoundExists == \A t, p : \A n \in Nat : \E g : IsFound(g, t, p, n)
<1> TAKE t, p
<1> DEFINE Root == t.pattern
           Is(g, m) == g = [h \in 0..m |-> IF h = 0 THEN Root ELSE SearchLevel(t, p[Len(p) - h + 1], g[h - 1])]
           T == {m \in Nat : ~ \E g : Is(g, m)}
<1> SUFFICES ASSUME T # {} PROVE FALSE
  BY DEF IsFound
<1>1. PICK m \in T : \A y \in T : m <= y
  <2> HIDE DEF Is
  <2> QED BY LeastNatural
<1>2. CASE m = 0
  <2> DEFINE g == [h \in 0..0 |-> Root]
  <2>1. Is(g, 0)
    OBVIOUS
  <2> HIDE DEF Is, g
  <2> QED BY <1>1, <1>2, <2>1
<1>3. CASE m > 0
  <2>1. m - 1 \in Nat /\ m - 1 \notin T
    <3> m \in Nat
      BY <1>1
    <3> HIDE DEF T
    <3> QED BY <1>1, <1>3
  <2>2. PICK f : Is(f, m - 1)
    <3> HIDE DEF Is
    <3> QED BY <2>1
  <2> DEFINE g == [h \in 0..m |-> IF h = m THEN SearchLevel(t, p[Len(p) - m + 1], f[m - 1]) ELSE f[h]]
  <2>3. ASSUME NEW h \in 0..m
        PROVE  g[h] = IF h = 0 THEN Root ELSE SearchLevel(t, p[Len(p) - h + 1], g[h - 1])
    <3>1. CASE h = m
      <4>1. m - 1 \in 0..m /\ m - 1 # m /\ h # 0
        BY <1>3, <3>1
      <4>2. g[m - 1] = f[m - 1]
        BY <4>1
      <4>3. g[h] = SearchLevel(t, p[Len(p) - m + 1], f[m - 1])
        BY <3>1
      <4> HIDE DEF g
      <4> QED BY <3>1, <4>1, <4>2, <4>3
    <3>2. CASE h < m
      <4>1. h \in 0..(m - 1) /\ h # m
        BY <1>3, <3>2
      <4>2. f[h] = IF h = 0 THEN Root ELSE SearchLevel(t, p[Len(p) - h + 1], f[h - 1])
        BY <2>2, <4>1
      <4>3. h # 0 => h - 1 \in 0..m /\ h - 1 # m
        BY <4>1
      <4>4. h # 0 => g[h - 1] = f[h - 1]
        BY <4>3
      <4>5. g[h] = f[h]
        BY <4>1
      <4> HIDE DEF g, Root
      <4> QED BY <4>2, <4>4, <4>5
    <3> QED BY <3>1, <3>2
  <2>4. g = [h \in 0..m |-> g[h]]
    OBVIOUS
  <2>5. Is(g, m)
    <3> HIDE DEF g, Root
    <3> QED BY <2>3, <2>4
  <2> HIDE DEF Is, g
  <2> QED BY <1>1, <2>5
<1> QED BY <1>1, <1>2, <1>3

LEMMA FoundIs ==
  ASSUME NEW t, NEW p, Len(p) \in Nat
  PROVE  /\ Found(t, p)[0] = t.pattern
         /\ \A h \in 1..Len(p) : Found(t, p)[h] = SearchLevel(t, p[Len(p) - h + 1], Found(t, p)[h - 1])
<1> DEFINE w == Found(t, p)
<1>1. \E g : IsFound(g, t, p, Len(p))
  BY FoundExists
<1>2. w = CHOOSE g : IsFound(g, t, p, Len(p))
  BY DEF Found, IsFound
<1>3. IsFound(w, t, p, Len(p))
  <2> HIDE DEF w
  <2> QED BY <1>1, <1>2
<1>4. w[0] = t.pattern
  <2> HIDE DEF w
  <2> QED BY <1>3 DEF IsFound
<1>5. ASSUME NEW h \in 1..Len(p) PROVE w[h] = SearchLevel(t, p[Len(p) - h + 1], w[h - 1])
  <2>1. h \in 0..Len(p) /\ h # 0
    OBVIOUS
  <2> HIDE DEF w
  <2> QED BY <1>3, <2>1 DEF IsFound
<1> QED BY <1>4, <1>5

-----------------------------------------------------------------------------
(* Nodes as sequences of parts                                             *)

LEMMA PrefixIs ==
  ASSUME NEW S, NEW p \in Seq(S), NEW h \in 0..Len(p)
  PROVE  /\ SubSeq(p, 1, h) \in Seq(S) /\ Len(SubSeq(p, 1, h)) = h
         /\ \A i \in 1..h : SubSeq(p, 1, h)[i] = p[i]
         /\ DOMAIN SubSeq(p, 1, h) = 1..h
BY SubSeqProperties

LEMMA SameSeq ==
  ASSUME NEW S, NEW p \in Seq(S), NEW q \in Seq(S), Len(p) = Len(q),
         \A i \in 1..Len(p) : p[i] = q[i]
  PROVE  p = q
BY SeqEqual

LEMMA PrefixOfPrefix ==
  ASSUME NEW S, NEW p \in Seq(S), NEW h \in 0..Len(p), NEW i \in 0..h
  PROVE  SubSeq(SubSeq(p, 1, h), 1, i) = SubSeq(p, 1, i)
<1> DEFINE a == SubSeq(p, 1, h)  b == SubSeq(a, 1, i)  c == SubSeq(p, 1, i)
<1>1. a \in Seq(S) /\ Len(a) = h /\ \A j \in 1..h : a[j] = p[j]
  BY PrefixIs
<1>2. i \in 0..Len(p) /\ i \in 0..Len(a) /\ h \in Nat /\ \A j \in 1..i : j \in 1..h
  BY <1>1
<1>3. c \in Seq(S) /\ Len(c) = i /\ \A j \in 1..i : c[j] = p[j]
  BY <1>2, PrefixIs
<1> HIDE DEF a
<1>4. b \in Seq(S) /\ Len(b) = i /\ \A j \in 1..i : b[j] = a[j]
  BY <1>1, <1>2, PrefixIs
<1>5. \A j \in 1..i : b[j] = c[j]
  BY <1>1, <1>2, <1>3, <1>4
<1> HIDE DEF b, c
<1> QED BY <1>3, <1>4, <1>5, SameSeq DEF a, b, c

LEMMA WholePrefix ==
  ASSUME NEW S, NEW p \in Seq(S)
  PROVE  SubSeq(p, 1, Len(p)) = p /\ SubSeq(p, 1, 0) = << >> /\ Len(p) \in 0..Len(p)
<1>1. Len(p) \in Nat /\ Len(p) \in 0..Len(p) /\ 0 \in 0..Len(p)
  OBVIOUS
<1>2. SubSeq(p, 1, Len(p)) = p
  BY <1>1, PrefixIs, SameSeq
<1>3. SubSeq(p, 1, 0) \in Seq(S) /\ Len(SubSeq(p, 1, 0)) = 0
  BY <1>1, PrefixIs
<1> QED BY <1>1, <1>2, <1>3, EmptySeq

LEMMA ChildIs ==
  ASSUME NEW S, NEW c \in Seq(S), c # << >>
  PROVE  /\ Len(c) \in Nat \ {0} /\ Len(c) \in 1..Len(c)
         /\ Front(c) = SubSeq(c, 1, Len(c) - 1) /\ Last(c) = c[Len(c)]
         /\ Front(c) \in Seq(S) /\ Len(Front(c)) = Len(c) - 1 /\ Last(c) \in S
         /\ \A i \in 1..(Len(c) - 1) : Front(c)[i] = c[i]
<1>1. Len(c) \in Nat \ {0}
  BY EmptySeq
<1>2. Len(c) - 1 \in 0..Len(c) /\ Len(c) \in 1..Len(c)
  BY <1>1
<1> DEFINE f == SubSeq(c, 1, Len(c) - 1)
<1>3. f \in Seq(S) /\ Len(f) = Len(c) - 1 /\ \A i \in 1..(Len(c) - 1) : f[i] = c[i]
  BY <1>2, PrefixIs
<1>4. Front(c) = f /\ Last(c) = c[Len(c)]
  BY DEF Front, Last
<1>5. c[Len(c)] \in S
  BY <1>2
<1> HIDE DEF f
<1> QED BY <1>1, <1>2, <1>3, <1>4, <1>5 DEF f

LEMMA AppendIs ==
  ASSUME NEW S, NEW a \in Seq(S), NEW x \in S
  PROVE  /\ Append(a, x) \in Seq(S) /\ Append(a, x) # << >>
         /\ Len(Append(a, x)) = Len(a) + 1
         /\ Front(Append(a, x)) = a /\ Last(Append(a, x)) = x
<1> DEFINE c == Append(a, x)
<1>1. c \in Seq(S) /\ Len(c) = Len(a) + 1 /\ Len(a) \in Nat /\ c[Len(a) + 1] = x
      /\ \A i \in 1..Len(a) : c[i] = a[i]
  OBVIOUS
<1> HIDE DEF c
<1>2. c # << >>
  BY <1>1
<1>3. Len(Front(c)) = Len(a) /\ Front(c) \in Seq(S)
  BY <1>1, <1>2, ChildIs
<1>4. \A i \in 1..Len(a) : Front(c)[i] = a[i]
  BY <1>1, <1>2, ChildIs
<1>5. Front(c) = a
  BY <1>3, <1>4, SameSeq
<1>6. Last(c) = x
  BY <1>1, <1>2, ChildIs
<1> QED BY <1>1, <1>2, <1>5, <1>6 DEF c

(* A child of the prefix of a path with the path's next part is the next   *)
(* prefix.                                                                 *)
LEMMA NextPrefix ==
  ASSUME NEW S, NEW p \in Seq(S), NEW h \in 1..Len(p)
  PROVE  /\ SubSeq(p, 1, h) # << >> /\ p[h] \in S
         /\ Front(SubSeq(p, 1, h)) = SubSeq(p, 1, h - 1)
         /\ Last(SubSeq(p, 1, h)) = p[h]
<1> DEFINE c == SubSeq(p, 1, h)  f == SubSeq(p, 1, h - 1)
<1>1. h \in 0..Len(p) /\ h - 1 \in 0..Len(p) /\ h \in 1..h /\ h - 1 \in 0..h /\ h \in Nat \ {0}
  OBVIOUS
<1>2. c \in Seq(S) /\ Len(c) = h /\ \A i \in 1..h : c[i] = p[i]
  BY <1>1, PrefixIs
<1>3. SubSeq(c, 1, h - 1) = f
  BY <1>1, PrefixOfPrefix
<1> HIDE DEF c, f
<1>4. c # << >>
  BY <1>1, <1>2
<1>5. Front(c) = f /\ Last(c) = p[h]
  BY <1>1, <1>2, <1>3, <1>4, ChildIs
<1> QED BY <1>4, <1>5 DEF c, f

LEMMA SameChild ==
  ASSUME NEW S, NEW c \in Seq(S), NEW d \in Seq(S), c # << >>, d # << >>,
         Front(c) = Front(d), Last(c) = Last(d)
  PROVE  c = d
<1>1. /\ Len(c) \in Nat \ {0} /\ Len(d) \in Nat \ {0}
      /\ Len(Front(c)) = Len(c) - 1 /\ Len(Front(d)) = Len(d) - 1
      /\ Last(c) = c[Len(c)] /\ Last(d) = d[Len(d)]
      /\ \A i \in 1..(Len(c) - 1) : Front(c)[i] = c[i]
      /\ \A i \in 1..(Len(d) - 1) : Front(d)[i] = d[i]
  BY ChildIs
<1>2. Len(c) = Len(d)
  BY <1>1
<1>3. ASSUME NEW i \in 1..Len(c) PROVE c[i] = d[i]
  <2>1. CASE i = Len(c)
    BY <1>1, <1>2, <2>1
  <2>2. CASE i # Len(c)
    <3>1. i \in 1..(Len(c) - 1)
      BY <1>1, <2>2
    <3> QED BY <1>1, <1>2, <3>1
  <2> QED BY <2>1, <2>2
<1> QED BY <1>2, <1>3, SameSeq

-----------------------------------------------------------------------------
(* The trie is a tree, whatever is registered                              *)

TrieOK(t) ==
  /\ t = [nodes |-> t.nodes, pattern |-> t.pattern]
  /\ t.nodes \in Seq(Seq(Parts))
  /\ t.pattern \in [ToSet(t.nodes) -> Patterns \cup {NoRoute}]
  /\ << >> \in DOMAIN t.pattern
  /\ \A n \in DOMAIN t.pattern : n # << >> => Front(n) \in DOMAIN t.pattern

LEMMA NodesAre ==
  ASSUME NEW t, TrieOK(t)
  PROVE  /\ DOMAIN t.nodes = 1..Len(t.nodes) /\ Len(t.nodes) \in Nat
         /\ DOMAIN t.pattern = ToSet(t.nodes) /\ DOMAIN t.pattern \subseteq Seq(Parts)
         /\ \A i \in DOMAIN t.nodes : t.nodes[i] \in DOMAIN t.pattern
         /\ \A n \in DOMAIN t.pattern : \E i \in DOMAIN t.nodes : t.nodes[i] = n
BY DEF TrieOK, ToSet

LEMMA FitIs ==
  ASSUME NEW t, TrieOK(t), NEW n, NEW part, matchChildren(t, n, part) # {}
  PROVE  /\ Min(matchChildren(t, n, part)) \in matchChildren(t, n, part)
         /\ \A i \in matchChildren(t, n, part) : Min(matchChildren(t, n, part)) <= i
<1> DEFINE T == matchChildren(t, n, part)
<1>1. T \subseteq Nat /\ T # {}
  BY NodesAre DEF matchChildren
<1> HIDE DEF T
<1>2. Min(T) \in T /\ \A i \in T : Min(T) <= i
  BY <1>1, MinIs
<1> QED BY <1>2 DEF T

(* Trie d is trie t with one node more *)
Grown(t, c, d) ==
  /\ DOMAIN d.pattern = DOMAIN t.pattern \cup {c}
  /\ d.pattern[c] = NoRoute
  /\ \A n \in DOMAIN t.pattern \ {c} : d.pattern[n] = t.pattern[n]
  /\ Len(d.nodes) = Len(t.nodes) + 1
  /\ \A i \in DOMAIN t.nodes : d.nodes[i] = t.nodes[i]
  /\ d.nodes[Len(t.nodes) + 1] = c

LEMMA NewChildIs ==
  ASSUME NEW t, TrieOK(t), NEW a \in DOMAIN t.pattern, NEW x \in Parts
  PROVE  /\ TrieOK(NewChild(t, Append(a, x)))
         /\ Grown(t, Append(a, x), NewChild(t, Append(a, x)))
<1> DEFINE c == Append(a, x)  d == NewChild(t, c)  m == Len(t.nodes)
<1>1. m \in Nat /\ DOMAIN t.nodes = 1..m /\ DOMAIN t.pattern = ToSet(t.nodes)
      /\ t.nodes \in Seq(Seq(Parts)) /\ a \in Seq(Parts)
  BY NodesAre DEF TrieOK
<1>2. c \in Seq(Parts) /\ c # << >> /\ Front(c) = a
  BY <1>1, AppendIs
<1> HIDE DEF c
<1>3. /\ d.nodes = Append(t.nodes, c)
      /\ d.pattern = [n \in DOMAIN t.pattern \cup {c} |-> IF n = c THEN NoRoute ELSE t.pattern[n]]
      /\ d = [nodes |-> d.nodes, pattern |-> d.pattern]
  BY DEF NewChild
<1>4. /\ d.nodes \in Seq(Seq(Parts)) /\ Len(d.nodes) = m + 1 /\ DOMAIN d.nodes = 1..(m + 1)
      /\ d.nodes[m + 1] = c
      /\ \A i \in 1..m : d.nodes[i] = t.nodes[i]
  BY <1>1, <1>2, <1>3
<1>5. ToSet(d.nodes) = ToSet(t.nodes) \cup {c}
  <2>1. \A i \in 1..(m + 1) : i \in 1..m \/ i = m + 1
    BY <1>1
  <2>2. m + 1 \in 1..(m + 1) /\ \A i \in 1..m : i \in 1..(m + 1)
    BY <1>1
  <2> HIDE DEF d, m
  <2> QED BY <1>1, <1>4, <2>1, <2>2 DEF ToSet
<1>6. /\ DOMAIN d.pattern = DOMAIN t.pattern \cup {c} /\ d.pattern[c] = NoRoute
      /\ \A n \in DOMAIN t.pattern \ {c} : d.pattern[n] = t.pattern[n]
  BY <1>3
<1>7. d.pattern \in [ToSet(d.nodes) -> Patterns \cup {NoRoute}]
  BY <1>1, <1>3, <1>5 DEF TrieOK
<1>8. << >> \in DOMAIN d.pattern
      /\ \A n \in DOMAIN d.pattern : n # << >> => Front(n) \in DOMAIN d.pattern
  BY <1>2, <1>6 DEF TrieOK
<1>9. TrieOK(d)
  <2> HIDE DEF d
  <2> QED BY <1>3, <1>4, <1>7, <1>8 DEF TrieOK
<1> HIDE DEF d, m
<1>10. Grown(t, c, d)
  BY <1>1, <1>4, <1>6 DEF Grown, m
<1> QED BY <1>9, <1>10 DEF c, d

LEMMA DescendOK ==
  ASSUME NEW w, TrieOK(w.trie), w.at \in DOMAIN w.trie.pattern, NEW x \in Parts
  PROVE  /\ TrieOK(Descend(w, x).trie)
         /\ Descend(w, x).at \in DOMAIN Descend(w, x).trie.pattern
<1> DEFINE F == matchChildren(w.trie, w.at, x)
<1>1. CASE F # {}
  <2>0. Min(F) \in F
    BY <1>1, FitIs
  <2>1. Min(F) \in DOMAIN w.trie.nodes
    BY <2>0 DEF matchChildren
  <2>2. w.trie.nodes[Min(F)] \in DOMAIN w.trie.pattern
    BY <2>1, NodesAre
  <2> QED BY <1>1, <2>2 DEF Descend
<1>2. CASE F = {}
  <2>1. Descend(w, x) = [at |-> Append(w.at, x), trie |-> NewChild(w.trie, Append(w.at, x))]
    BY <1>2 DEF Descend
  <2>2. /\ TrieOK(NewChild(w.trie, Append(w.at, x)))
        /\ Grown(w.trie, Append(w.at, x), NewChild(w.trie, Append(w.at, x)))
    BY NewChildIs
  <2>3. Append(w.at, x) \in DOMAIN NewChild(w.trie, Append(w.at, x)).pattern
    BY <2>2 DEF Grown
  <2> QED BY <2>1, <2>2, <2>3
<1> QED BY <1>1, <1>2

LEMMA WalkOK ==
  ASSUME NEW t, TrieOK(t), NEW p \in Seq(Parts)
  PROVE  \A h \in 0..Len(p) : /\ TrieOK(Walk(t, p)[h].trie)
                              /\ Walk(t, p)[h].at \in DOMAIN Walk(t, p)[h].trie.pattern
<1> DEFINE Fine(h) == /\ TrieOK(Walk(t, p)[h].trie)
                      /\ Walk(t, p)[h].at \in DOMAIN Walk(t, p)[h].trie.pattern
           T == {h \in 0..Len(p) : ~Fine(h)}
<1> SUFFICES ASSUME T # {} PROVE FALSE
  OBVIOUS
<1>1. Len(p) \in Nat /\ \A h \in 1..Len(p) : p[h] \in Parts
  OBVIOUS
<1>2. PICK h \in T : \A i \in T : h <= i
  <2>1. T \subseteq Nat
    BY <1>1
  <2> HIDE DEF T
  <2> QED BY <2>1, LeastNatural
<1>3. Walk(t, p)[0] = [at |-> << >>, trie |-> t]
      /\ \A i \in 1..Len(p) : Walk(t, p)[i] = Descend(Walk(t, p)[i - 1], p[i])
  BY <1>1, WalkIs
<1>4. Fine(0)
  BY <1>3 DEF TrieOK
<1> HIDE DEF Fine
<1>5. h \in 1..Len(p)
  BY <1>1, <1>2, <1>4
<1>6. Fine(h - 1)
  BY <1>1, <1>2, <1>5
<1>7. Fine(h)
  BY <1>1, <1>3, <1>5, <1>6, DescendOK DEF Fine
<1> QED BY <1>2, <1>7

LEMMA InsertOK ==
  ASSUME NEW t, TrieOK(t), NEW p \in Patterns, p \in Seq(Parts)
  PROVE  TrieOK(insert(t, p))
<1> DEFINE w == Walk(t, p)[Len(p)]
<1>1. TrieOK(w.trie) /\ w.at \in DOMAIN w.trie.pattern
  BY WalkOK, WholePrefix
<1>2. insert(t, p) = [nodes |-> w.trie.nodes, pattern |-> [w.trie.pattern EXCEPT ![w.at] = p]]
  BY DEF insert
<1> HIDE DEF w
<1> QED BY <1>1, <1>2 DEF TrieOK

RouterSpec == RouterInit /\ [][RouterNext]_routerVars

TreeInv == TrieOK(trie) /\ routes \in Seq(Patterns)

LEMMA TreeInductive ==
  ASSUME RouterAssumption
  PROVE  /\ RouterInit => TreeInv
         /\ TreeInv /\ [RouterNext]_routerVars => TreeInv'
<1>1. ASSUME RouterInit PROVE TreeInv
  <2>1. trie = [nodes |-> << << >> >>, pattern |-> [n \in {<< >>} |-> NoRoute]]
    BY <1>1 DEF RouterInit
  <2>2. << >> \in Seq(Parts)
    OBVIOUS
  <2>3. trie.nodes = << << >> >> /\ trie.pattern = [n \in {<< >>} |-> NoRoute]
    BY <2>1
  <2>4. trie.nodes \in Seq(Seq(Parts)) /\ ToSet(trie.nodes) = {<< >>}
    BY <2>2, <2>3 DEF ToSet
  <2>5. TrieOK(trie)
    BY <2>1, <2>3, <2>4 DEF TrieOK
  <2> QED BY <1>1, <2>5 DEF RouterInit, TreeInv
<1>2. ASSUME TreeInv, RouterNext PROVE TreeInv'
  <2>1. PICK p \in Patterns : addRoute(p)
    BY <1>2 DEF RouterNext
  <2>2. TrieOK(insert(trie, p))
    BY <1>2, InsertOK DEF TreeInv, RouterAssumption
  <2> QED BY <1>2, <2>1, <2>2 DEF TreeInv, addRoute
<1>3. ASSUME TreeInv, UNCHANGED routerVars PROVE TreeInv'
  BY <1>3 DEF TreeInv, routerVars
<1> QED BY <1>1, <1>2, <1>3

(* The trie stays a tree whose nodes have a pattern or none.               *)
THEOREM TrieTypes == RouterSpec => []RouterTypeOK
<1>1. TreeInv => RouterTypeOK
  BY DEF TreeInv, TrieOK, RouterTypeOK
<1> QED BY <1>1, TreeInductive, RouterAssumption, PTL DEF RouterSpec

-----------------------------------------------------------------------------
(* In an orderly table the nodes are the beginnings of the routes          *)

InTable(n, R)  == \E r \in R : \E i \in 0..Len(r) : n = SubSeq(r, 1, i)
OnWay(n, q, h) == \E i \in 0..h : n = SubSeq(q, 1, i)

Siblings(c, d) == c # << >> /\ d # << >> /\ Front(c) = Front(d)
WildLast(t) ==
  \A i, j \in DOMAIN t.nodes :
    i < j /\ Siblings(t.nodes[i], t.nodes[j]) => Last(t.nodes[i]) \notin Wild

(* The trie of the routes R, while insert is h levels deep on the way of q *)
Shape(t, R, q, h) ==
  /\ TrieOK(t)
  /\ \A n : n \in DOMAIN t.pattern <=> InTable(n, R) \/ OnWay(n, q, h)
  /\ \A n \in DOMAIN t.pattern : t.pattern[n] = IF n \in R THEN n ELSE NoRoute
  /\ WildLast(t)

(* No wildcard of a route in R stands where q has another part             *)
OneWay(R, q) ==
  \A r \in R : \A h \in 1..Len(r) :
    h <= Len(q) /\ r[h] \in Wild /\ SubSeq(r, 1, h - 1) = SubSeq(q, 1, h - 1) => q[h] = r[h]

LEMMA FitsAreNext ==
  ASSUME NEW t, NEW R, R \subseteq Seq(Parts), NEW q \in Seq(Parts), NEW h \in 1..Len(q),
         Shape(t, R, q, h - 1), OneWay(R, q),
         NEW i \in matchChildren(t, SubSeq(q, 1, h - 1), q[h])
  PROVE  t.nodes[i] = SubSeq(q, 1, h)
<1> DEFINE c == t.nodes[i]  f == SubSeq(q, 1, h - 1)  d == SubSeq(q, 1, h)
<1>1. c \in DOMAIN t.pattern /\ c \in Seq(Parts) /\ c # << >> /\ Front(c) = f
      /\ (Last(c) = q[h] \/ Last(c) \in Wild)
  BY NodesAre DEF Shape, matchChildren, Fits
<1>2. h \in 0..Len(q) /\ h - 1 \in 0..Len(q) /\ h \in Nat /\ Len(q) \in Nat
  OBVIOUS
<1>3. d \in Seq(Parts) /\ d # << >> /\ Front(d) = f /\ Last(d) = q[h] /\ Len(f) = h - 1
  BY <1>2, NextPrefix, PrefixIs
<1>4. Last(c) = q[h]
  <2> SUFFICES ASSUME Last(c) \in Wild PROVE Last(c) = q[h]
    BY <1>1
  <2>1. Len(Front(c)) = Len(c) - 1 /\ Len(c) \in Nat \ {0}
    BY <1>1, ChildIs
  <2>2. Len(c) = h
    <3> HIDE DEF c, d, f
    <3> QED BY <1>1, <1>2, <1>3, <2>1
  <2>3. ~OnWay(c, q, h - 1)
    <3> SUFFICES ASSUME NEW j \in 0..(h - 1), c = SubSeq(q, 1, j) PROVE FALSE
      BY DEF OnWay
    <3>1. j \in 0..Len(q)
      BY <1>2
    <3>2. Len(SubSeq(q, 1, j)) = j
      BY <3>1, PrefixIs
    <3> QED BY <2>2, <3>2
  <2>4. PICK r \in R : \E j \in 0..Len(r) : c = SubSeq(r, 1, j)
    BY <1>1, <2>3 DEF Shape, InTable
  <2>5. PICK j \in 0..Len(r) : c = SubSeq(r, 1, j)
    BY <2>4
  <2>6. r \in Seq(Parts) /\ Len(SubSeq(r, 1, j)) = j
    BY PrefixIs
  <2>7. j = h /\ h \in 1..Len(r)
    BY <1>2, <2>2, <2>5, <2>6
  <2>8. Front(c) = SubSeq(r, 1, h - 1) /\ Last(c) = r[h]
    BY <2>5, <2>6, <2>7, NextPrefix
  <2>9. q[h] = r[h]
    BY <1>1, <1>2, <2>7, <2>8 DEF OneWay
  <2> QED BY <2>8, <2>9
<1> HIDE DEF c, d, f
<1>5. c = d
  BY <1>1, <1>3, <1>4, SameChild
<1> QED BY <1>5 DEF c, d

LEMMA OnWayNext ==
  ASSUME NEW q, NEW h \in Nat \ {0}, NEW n
  PROVE  OnWay(n, q, h) <=> OnWay(n, q, h - 1) \/ n = SubSeq(q, 1, h)
<1>1. \A i : i \in 0..h <=> i \in 0..(h - 1) \/ i = h
  OBVIOUS
<1> QED BY <1>1 DEF OnWay

LEMMA DescendsAlong ==
  ASSUME RouterAssumption, NEW R, R \subseteq Seq(Parts), NEW q \in Seq(Parts), OneWay(R, q),
         NEW h \in 1..Len(q),
         NEW w, Shape(w.trie, R, q, h - 1), w.at = SubSeq(q, 1, h - 1)
  PROVE  /\ Descend(w, q[h]).at = SubSeq(q, 1, h)
         /\ Shape(Descend(w, q[h]).trie, R, q, h)
<1> DEFINE t == w.trie
           a == SubSeq(q, 1, h - 1)
           c == SubSeq(q, 1, h)
           F == matchChildren(t, a, q[h])
<1>1. h \in Nat \ {0} /\ h \in 0..Len(q) /\ h - 1 \in 0..Len(q)
  OBVIOUS
<1>2. a \in Seq(Parts) /\ c \in Seq(Parts) /\ c # << >> /\ Front(c) = a /\ Last(c) = q[h]
      /\ q[h] \in Parts
  BY <1>1, NextPrefix, PrefixIs
<1>3. ASSUME NEW i \in F PROVE t.nodes[i] = c
  <2>1. Shape(t, R, q, h - 1) /\ i \in matchChildren(t, SubSeq(q, 1, h - 1), q[h])
    BY <1>3
  <2> HIDE DEF t
  <2> QED BY <2>1, FitsAreNext
<1>4. TrieOK(t) /\ a \in DOMAIN t.pattern
  <2>1. OnWay(a, q, h - 1)
    BY <1>1 DEF OnWay
  <2> QED BY <2>1 DEF Shape
<1>5. \A n : OnWay(n, q, h) <=> OnWay(n, q, h - 1) \/ n = c
  BY <1>1, OnWayNext
<1>6. CASE F # {}
  <2>0. Min(F) \in F
    BY <1>4, <1>6, FitIs
  <2>1. F \subseteq DOMAIN t.nodes
    BY DEF matchChildren
  <2>2. t.nodes[Min(F)] = c /\ c \in DOMAIN t.pattern
    <3> HIDE DEF c, F, t
    <3> QED BY <1>3, <1>4, <2>0, <2>1, NodesAre
  <2>3. Descend(w, q[h]) = [at |-> t.nodes[Min(F)], trie |-> t]
    BY <1>6 DEF Descend
  <2> HIDE DEF c, a, F
  <2>4. Shape(t, R, q, h)
    BY <1>5, <2>2 DEF Shape
  <2> QED BY <2>2, <2>3, <2>4 DEF c
<1>7. CASE F = {}
  <2> DEFINE e == Append(a, q[h])  d == NewChild(t, e)  m == Len(t.nodes)
  <2>1. Descend(w, q[h]) = [at |-> e, trie |-> d]
    BY <1>7 DEF Descend
  <2>2. TrieOK(d) /\ Grown(t, e, d)
    BY <1>2, <1>4, NewChildIs
  <2>3. e = c
    <3>1. e \in Seq(Parts) /\ e # << >> /\ Front(e) = a /\ Last(e) = q[h]
      <4> HIDE DEF a, c
      <4> QED BY <1>2, AppendIs
    <3> HIDE DEF a, c, e
    <3> QED BY <1>2, <3>1, SameChild
  <2>4. \A i \in DOMAIN t.nodes :
          ~(t.nodes[i] # << >> /\ Front(t.nodes[i]) = a /\ Fits(Last(t.nodes[i]), q[h]))
    BY <1>7 DEF matchChildren
  <2> HIDE DEF a, c, e, d, F
  <2>5. c \notin DOMAIN t.pattern
    <3> SUFFICES ASSUME c \in DOMAIN t.pattern PROVE FALSE
      OBVIOUS
    <3>1. PICK i \in DOMAIN t.nodes : t.nodes[i] = c
      BY <1>4, NodesAre
    <3> QED BY <1>2, <2>4, <3>1 DEF Fits
  <2>6. \A n : n \in DOMAIN d.pattern <=> InTable(n, R) \/ OnWay(n, q, h)
    BY <1>5, <2>2, <2>3 DEF Shape, Grown
  <2>7. c \notin R
    <3> SUFFICES ASSUME c \in R PROVE FALSE
      OBVIOUS
    <3>1. c = SubSeq(c, 1, Len(c)) /\ Len(c) \in 0..Len(c)
      BY <1>2, WholePrefix
    <3>2. InTable(c, R)
      BY <3>1 DEF InTable
    <3> QED BY <2>5, <3>2 DEF Shape
  <2>8. ASSUME NEW n \in DOMAIN d.pattern
        PROVE  d.pattern[n] = IF n \in R THEN n ELSE NoRoute
    <3>1. CASE n = c
      BY <2>2, <2>3, <2>7, <3>1 DEF Grown
    <3>2. CASE n # c
      <4>1. n \in DOMAIN t.pattern \ {c} /\ d.pattern[n] = t.pattern[n]
        BY <2>2, <2>3, <2>8, <3>2 DEF Grown
      <4> QED BY <4>1 DEF Shape
    <3> QED BY <3>1, <3>2
  <2>9. WildLast(d)
    <3> SUFFICES ASSUME NEW i \in DOMAIN d.nodes, NEW j \in DOMAIN d.nodes, i < j,
                        Siblings(d.nodes[i], d.nodes[j])
                 PROVE  Last(d.nodes[i]) \notin Wild
      BY DEF WildLast
    <3>1. DOMAIN d.nodes = 1..(m + 1) /\ DOMAIN t.nodes = 1..m /\ m \in Nat
      BY <1>4, <2>2, NodesAre DEF Grown
    <3>2. i \in DOMAIN t.nodes /\ d.nodes[i] = t.nodes[i]
      BY <2>2, <3>1 DEF Grown
    <3>3. CASE j = m + 1
      <4>1. d.nodes[j] = c
        BY <2>2, <2>3, <3>3 DEF Grown
      <4>2. t.nodes[i] # << >> /\ Front(t.nodes[i]) = a
        BY <1>2, <3>2, <4>1 DEF Siblings
      <4> QED BY <2>4, <3>2, <4>2 DEF Fits
    <3>4. CASE j # m + 1
      <4>1. j \in DOMAIN t.nodes /\ d.nodes[j] = t.nodes[j]
        BY <2>2, <3>1, <3>4 DEF Grown
      <4> QED BY <3>2, <4>1 DEF Shape, WildLast
    <3> QED BY <3>3, <3>4
  <2> QED BY <2>1, <2>2, <2>3, <2>6, <2>8, <2>9 DEF Shape, c
<1> QED BY <1>6, <1>7

LEMMA WalksAlong ==
  ASSUME RouterAssumption, NEW R, R \subseteq Seq(Parts), NEW q \in Seq(Parts), OneWay(R, q),
         NEW t, Shape(t, R, q, 0)
  PROVE  /\ Walk(t, q)[Len(q)].at = q
         /\ Shape(Walk(t, q)[Len(q)].trie, R, q, Len(q))
<1> DEFINE Fine(h) == Walk(t, q)[h].at = SubSeq(q, 1, h) /\ Shape(Walk(t, q)[h].trie, R, q, h)
           T == {h \in 0..Len(q) : ~Fine(h)}
<1>1. Len(q) \in Nat /\ Len(q) \in 0..Len(q) /\ SubSeq(q, 1, 0) = << >> /\ SubSeq(q, 1, Len(q)) = q
  BY WholePrefix
<1>2. Walk(t, q)[0] = [at |-> << >>, trie |-> t]
      /\ \A i \in 1..Len(q) : Walk(t, q)[i] = Descend(Walk(t, q)[i - 1], q[i])
  BY <1>1, WalkIs
<1>3. Fine(0)
  BY <1>1, <1>2
<1>4. T = {}
  <2> SUFFICES ASSUME T # {} PROVE FALSE
    OBVIOUS
  <2>1. PICK h \in T : \A i \in T : h <= i
    <3>1. T \subseteq Nat
      BY <1>1
    <3> HIDE DEF T
    <3> QED BY <3>1, LeastNatural
  <2>2. h \in 1..Len(q)
    <3> HIDE DEF Fine
    <3> QED BY <1>1, <1>3, <2>1
  <2>3. Fine(h - 1)
    <3> HIDE DEF Fine
    <3> QED BY <1>1, <2>1, <2>2
  <2>4. Walk(t, q)[h] = Descend(Walk(t, q)[h - 1], q[h])
    BY <1>2, <2>2
  <2>5. /\ Descend(Walk(t, q)[h - 1], q[h]).at = SubSeq(q, 1, h)
        /\ Shape(Descend(Walk(t, q)[h - 1], q[h]).trie, R, q, h)
    BY <2>2, <2>3, DescendsAlong
  <2> QED BY <2>1, <2>4, <2>5
<1>5. Fine(Len(q))
  <2> HIDE DEF Fine
  <2> QED BY <1>1, <1>4
<1> QED BY <1>1, <1>5

LEMMA OnWayNone == ASSUME NEW q, SubSeq(q, 1, 0) = << >>, NEW n PROVE OnWay(n, q, 0) <=> n = << >>
<1>1. \A i : i \in 0..0 <=> i = 0
  OBVIOUS
<1> QED BY <1>1 DEF OnWay

LEMMA InsertShape ==
  ASSUME RouterAssumption, NEW R, R \subseteq Seq(Parts), NEW q \in Patterns, OneWay(R, q),
         NEW t, Shape(t, R, << >>, 0)
  PROVE  Shape(insert(t, q), R \cup {q}, << >>, 0)
<1> DEFINE w == Walk(t, q)[Len(q)]  u == insert(t, q)
<1>1. q \in Seq(Parts) /\ << >> \in Seq(Parts) /\ Len(q) \in Nat
  BY DEF RouterAssumption
<1>2. SubSeq(q, 1, 0) = << >> /\ SubSeq(<< >>, 1, 0) = << >> /\ SubSeq(q, 1, Len(q)) = q
      /\ Len(q) \in 0..Len(q)
  BY <1>1, WholePrefix
<1>3. \A n : OnWay(n, q, 0) <=> n = << >>
  BY <1>2, OnWayNone
<1>4. \A n : OnWay(n, << >>, 0) <=> n = << >>
  BY <1>2, OnWayNone
<1>5. Shape(t, R, q, 0)
  BY <1>3, <1>4 DEF Shape
<1>6. w.at = q /\ Shape(w.trie, R, q, Len(q))
  BY <1>1, <1>5, WalksAlong
<1>7. u = [nodes |-> w.trie.nodes, pattern |-> [w.trie.pattern EXCEPT ![w.at] = q]]
  BY DEF insert
<1>8. TrieOK(u)
  BY <1>1, <1>5, InsertOK DEF Shape
<1> HIDE DEF w, u
<1>9. /\ u.nodes = w.trie.nodes /\ DOMAIN u.pattern = DOMAIN w.trie.pattern
      /\ u.pattern = [w.trie.pattern EXCEPT ![q] = q]
  BY <1>6, <1>7
<1>10. ASSUME NEW n PROVE InTable(n, R \cup {q}) <=> InTable(n, R) \/ OnWay(n, q, Len(q))
  BY DEF InTable, OnWay
<1>11. OnWay(<< >>, q, Len(q))
  BY <1>1, <1>2 DEF OnWay
<1>12. ASSUME NEW n
       PROVE  n \in DOMAIN u.pattern <=> InTable(n, R \cup {q}) \/ OnWay(n, << >>, 0)
  <2>1. n \in DOMAIN u.pattern <=> InTable(n, R) \/ OnWay(n, q, Len(q))
    BY <1>6, <1>9 DEF Shape
  <2>2. InTable(n, R \cup {q}) <=> InTable(n, R) \/ OnWay(n, q, Len(q))
    BY <1>10
  <2>3. OnWay(n, << >>, 0) => OnWay(n, q, Len(q))
    BY <1>4, <1>11
  <2> QED BY <2>1, <2>2, <2>3
<1>13. ASSUME NEW n \in DOMAIN u.pattern
       PROVE  u.pattern[n] = IF n \in R \cup {q} THEN n ELSE NoRoute
  <2>1. n \in DOMAIN w.trie.pattern /\ w.trie.pattern[n] = IF n \in R THEN n ELSE NoRoute
    BY <1>6, <1>9, <1>13 DEF Shape
  <2>2. u.pattern[n] = IF n = q THEN q ELSE w.trie.pattern[n]
    BY <1>9, <2>1
  <2> QED BY <2>1, <2>2
<1>14. WildLast(u)
  BY <1>6, <1>9 DEF Shape, WildLast
<1> QED BY <1>8, <1>12, <1>13, <1>14 DEF Shape, u

RouterInv ==
  TreeInv /\ (Orderly => Shape(trie, ToSet(routes), << >>, 0))

LEMMA OrderlyAppend ==
  ASSUME RouterAssumption, NEW p \in Patterns, routes \in Seq(Patterns), addRoute(p), Orderly'
  PROVE  /\ Orderly /\ OneWay(ToSet(routes), p)
         /\ ToSet(routes)' = ToSet(routes) \cup {p}
<1> DEFINE m == Len(routes)
<1>1. /\ m \in Nat /\ DOMAIN routes = 1..m /\ DOMAIN routes' = 1..(m + 1)
      /\ routes'[m + 1] = p /\ \A i \in 1..m : routes'[i] = routes[i]
  BY DEF addRoute
<1>2. \A i \in 1..m : i \in 1..(m + 1) /\ i < m + 1
  BY <1>1
<1>3. m + 1 \in 1..(m + 1) /\ \A i \in 1..(m + 1) : i \in 1..m \/ i = m + 1
  BY <1>1
<1> HIDE DEF m
<1>4. ToSet(routes)' = ToSet(routes) \cup {p}
  BY <1>1, <1>2, <1>3 DEF ToSet
<1>5. Orderly
  <2>1. ASSUME NEW i \in 1..m, NEW j \in 1..m, NEW n \in DOMAIN routes[i],
               i < j /\ n <= Len(routes[j]) /\ routes[i][n] \in Wild
               /\ SubSeq(routes[i], 1, n - 1) = SubSeq(routes[j], 1, n - 1)
        PROVE  routes[j][n] = routes[i][n]
    <3>1. i \in DOMAIN routes' /\ j \in DOMAIN routes' /\ routes'[i] = routes[i] /\ routes'[j] = routes[j]
      BY <1>1, <1>2
    <3>2. n \in DOMAIN routes'[i] /\ i < j /\ n <= Len(routes'[j]) /\ routes'[i][n] \in Wild
          /\ SubSeq(routes'[i], 1, n - 1) = SubSeq(routes'[j], 1, n - 1)
      BY <2>1, <3>1
    <3>3. routes'[j][n] = routes'[i][n]
      BY <3>1, <3>2 DEF Orderly
    <3> QED BY <3>1, <3>3
  <2> QED BY <1>1, <2>1 DEF Orderly
<1>6. OneWay(ToSet(routes), p)
  <2> SUFFICES ASSUME NEW r \in ToSet(routes), NEW h \in 1..Len(r), h <= Len(p), r[h] \in Wild,
                      SubSeq(r, 1, h - 1) = SubSeq(p, 1, h - 1)
               PROVE  p[h] = r[h]
    BY DEF OneWay
  <2>1. PICK i \in 1..m : r = routes[i]
    BY <1>1 DEF ToSet
  <2>2. r \in Seq(Parts)
    BY <1>1, <2>1 DEF RouterAssumption
  <2>3. h \in DOMAIN routes'[i] /\ routes'[i] = r
    BY <1>1, <2>1, <2>2
  <2>4. i \in DOMAIN routes' /\ m + 1 \in DOMAIN routes' /\ i < m + 1
    BY <1>1, <1>2, <1>3, <2>1
  <2> QED BY <1>1, <2>3, <2>4 DEF Orderly
<1> QED BY <1>4, <1>5, <1>6

LEMMA RouterInductive ==
  ASSUME RouterAssumption
  PROVE  /\ RouterInit => RouterInv
         /\ RouterInv /\ [RouterNext]_routerVars => RouterInv'
<1>1. ASSUME RouterInit PROVE RouterInv
  <2>1. TreeInv
    BY <1>1, TreeInductive
  <2>2. trie.nodes = << << >> >> /\ trie.pattern = [n \in {<< >>} |-> NoRoute] /\ ToSet(routes) = {}
    BY <1>1 DEF RouterInit, ToSet
  <2>3. SubSeq(<< >>, 1, 0) = << >>
    BY WholePrefix, EmptySeq
  <2>4. \A n : OnWay(n, << >>, 0) <=> n = << >>
    BY <2>3, OnWayNone
  <2>5. WildLast(trie)
    BY <2>2 DEF WildLast
  <2>6. Shape(trie, {}, << >>, 0)
    BY <2>1, <2>2, <2>4, <2>5 DEF TreeInv, Shape, InTable
  <2> QED BY <2>1, <2>2, <2>6 DEF RouterInv
<1>2. ASSUME RouterInv, RouterNext PROVE RouterInv'
  <2>1. TreeInv'
    BY <1>2, TreeInductive DEF RouterInv
  <2>2. PICK p \in Patterns : addRoute(p)
    BY <1>2 DEF RouterNext
  <2>3. ASSUME Orderly' PROVE Shape(trie, ToSet(routes), << >>, 0)'
    <3>1. Orderly /\ OneWay(ToSet(routes), p) /\ ToSet(routes)' = ToSet(routes) \cup {p}
      BY <1>2, <2>2, <2>3, OrderlyAppend DEF RouterInv, TreeInv
    <3>2. ToSet(routes) \subseteq Seq(Parts)
      BY <1>2 DEF RouterInv, TreeInv, ToSet, RouterAssumption
    <3>3. Shape(insert(trie, p), ToSet(routes) \cup {p}, << >>, 0)
      BY <1>2, <3>1, <3>2, InsertShape DEF RouterInv
    <3>4. trie' = insert(trie, p)
      BY <2>2 DEF addRoute
    <3> QED BY <3>1, <3>3, <3>4 DEF Shape, TrieOK, WildLast, InTable, OnWay
  <2> QED BY <2>1, <2>3 DEF RouterInv
<1>3. ASSUME RouterInv, UNCHANGED routerVars PROVE RouterInv'
  <2>1. trie' = trie /\ routes' = routes
    BY <1>3 DEF routerVars
  <2>2. TreeInv' /\ (Orderly' <=> Orderly) /\ ToSet(routes)' = ToSet(routes)
    BY <1>3, <2>1 DEF RouterInv, TreeInv, TrieOK, Orderly, ToSet
  <2>3. Shape(trie, ToSet(routes), << >>, 0)' <=> Shape(trie, ToSet(routes), << >>, 0)
    BY <2>1, <2>2 DEF Shape, TrieOK, WildLast, InTable, OnWay
  <2> QED BY <1>3, <2>2, <2>3 DEF RouterInv
<1> QED BY <1>1, <1>2, <1>3

-----------------------------------------------------------------------------
(* What search finds below a node                                          *)

OnPath(n, path) == Len(n) <= Len(path) /\ \A i \in 1..Len(n) : Fits(n[i], path[i])

(* The routes below node n that match, and the one of them to be found     *)
Under(n, R, path) ==
  {p \in R : Matches(p, path) /\ Len(n) <= Len(p) /\ SubSeq(p, 1, Len(n)) = n}
Best(v, n, R, path) ==
  IF Under(n, R, path) = {} THEN v = NoRoute
  ELSE v \in Under(n, R, path) /\ \A q \in Under(n, R, path) \ {v} : Preferred(v, q)

(* Where search ends, at the end of the path or in a star.                 *)
LEMMA EndsHere ==
  ASSUME RouterAssumption, NEW R, R \subseteq Patterns, NEW t, Shape(t, R, << >>, 0),
         NEW path \in Seq(Parts), NEW n \in DOMAIN t.pattern, OnPath(n, path),
         Len(n) = Len(path) \/ (n # << >> /\ Last(n) \in Star)
  PROVE  Best(t.pattern[n], n, R, path)
<1>1. n \in Seq(Parts) /\ R \subseteq Seq(Parts) /\ Len(n) \in Nat /\ Len(path) \in Nat
  BY NodesAre DEF Shape, RouterAssumption
<1>2. SubSeq(n, 1, Len(n)) = n
  BY <1>1, WholePrefix
<1>3. ASSUME NEW p \in Under(n, R, path) PROVE p = n
  <2>1. /\ p \in Patterns /\ p \in Seq(Parts) /\ Len(p) \in Nat /\ Len(p) <= Len(path)
        /\ Len(n) <= Len(p) /\ SubSeq(p, 1, Len(n)) = n
    BY <1>1 DEF Under, Matches
  <2>2. CASE Len(n) = Len(path)
    <3>1. Len(p) = Len(n)
      BY <1>1, <2>1, <2>2
    <3> QED BY <2>1, <3>1, WholePrefix
  <2>3. CASE n # << >> /\ Last(n) \in Star
    <3>1. Len(n) \in Nat \ {0} /\ Last(n) = n[Len(n)]
      BY <1>1, <2>3, ChildIs
    <3>2. Len(n) \in 0..Len(p) /\ Len(n) \in 1..Len(n) /\ Len(n) \in DOMAIN p
      BY <2>1, <3>1
    <3>3. p[Len(n)] = n[Len(n)]
      BY <2>1, <3>2, PrefixIs
    <3>4. Len(n) = Len(p)
      BY <2>1, <2>3, <3>1, <3>2, <3>3 DEF RouterAssumption
    <3> QED BY <2>1, <3>4, WholePrefix
  <2> QED BY <2>2, <2>3
<1>4. ASSUME n \in R PROVE n \in Under(n, R, path)
  <2>1. Len(n) <= Len(n) /\ DOMAIN n = 1..Len(n)
    BY <1>1
  <2>2. Matches(n, path)
    BY <2>1 DEF Matches, OnPath
  <2> QED BY <1>2, <1>4, <2>1, <2>2 DEF Under
<1>5. t.pattern[n] = IF n \in R THEN n ELSE NoRoute
  BY DEF Shape
<1>6. CASE n \in R
  <2>1. Under(n, R, path) = {n}
    BY <1>3, <1>4, <1>6
  <2> QED BY <1>5, <1>6, <2>1 DEF Best
<1>7. CASE n \notin R
  <2>1. \A p \in Under(n, R, path) : p \in R
    BY DEF Under
  <2>2. Under(n, R, path) = {}
    BY <1>3, <1>7, <2>1
  <2> QED BY <1>5, <1>7, <2>2 DEF Best
<1> QED BY <1>6, <1>7

(* The children that search looks into.                                    *)
LEMMA KidIs ==
  ASSUME RouterAssumption, NEW R, R \subseteq Patterns, NEW t, Shape(t, R, << >>, 0),
         NEW path \in Seq(Parts), NEW n \in DOMAIN t.pattern, OnPath(n, path),
         Len(n) < Len(path), NEW i \in matchChildren(t, n, path[Len(n) + 1])
  PROVE  /\ i \in DOMAIN t.nodes /\ t.nodes[i] \in DOMAIN t.pattern /\ t.nodes[i] \in Seq(Parts)
         /\ t.nodes[i] # << >> /\ Front(t.nodes[i]) = n
         /\ Len(t.nodes[i]) = Len(n) + 1 /\ OnPath(t.nodes[i], path)
         /\ Under(t.nodes[i], R, path) \subseteq Under(n, R, path)
<1> DEFINE c == t.nodes[i]
<1>1. i \in DOMAIN t.nodes /\ c # << >> /\ Front(c) = n /\ Fits(Last(c), path[Len(n) + 1])
  BY DEF matchChildren
<1>2. c \in DOMAIN t.pattern /\ c \in Seq(Parts) /\ n \in Seq(Parts) /\ R \subseteq Seq(Parts)
      /\ Len(n) \in Nat /\ Len(path) \in Nat
  BY <1>1, NodesAre DEF Shape, RouterAssumption
<1> HIDE DEF c
<1>3. /\ Len(c) \in Nat \ {0} /\ Front(c) = SubSeq(c, 1, Len(c) - 1) /\ Last(c) = c[Len(c)]
      /\ Len(Front(c)) = Len(c) - 1 /\ \A j \in 1..(Len(c) - 1) : Front(c)[j] = c[j]
  BY <1>1, <1>2, ChildIs
<1>4. Len(c) = Len(n) + 1 /\ Len(c) - 1 = Len(n)
  BY <1>1, <1>2, <1>3
<1>5. OnPath(c, path)
  <2>1. ASSUME NEW j \in 1..Len(c) PROVE Fits(c[j], path[j])
    <3>1. CASE j = Len(c)
      BY <1>1, <1>3, <1>4, <3>1
    <3>2. CASE j # Len(c)
      <4>1. j \in 1..(Len(c) - 1) /\ j \in 1..Len(n)
        BY <1>2, <1>4, <3>2
      <4> QED BY <1>1, <1>3, <4>1 DEF OnPath
    <3> QED BY <3>1, <3>2
  <2>2. Len(c) <= Len(path)
    BY <1>2, <1>4
  <2> QED BY <2>1, <2>2 DEF OnPath
<1>6. ASSUME NEW p \in Under(c, R, path) PROVE p \in Under(n, R, path)
  <2>1. p \in R /\ p \in Seq(Parts) /\ Matches(p, path) /\ Len(c) <= Len(p) /\ SubSeq(p, 1, Len(c)) = c
        /\ Len(p) \in Nat
    BY <1>2 DEF Under
  <2>2. Len(c) \in 0..Len(p) /\ Len(n) \in 0..Len(c) /\ Len(n) <= Len(p)
    BY <1>2, <1>4, <2>1
  <2>3. SubSeq(SubSeq(p, 1, Len(c)), 1, Len(n)) = SubSeq(p, 1, Len(n))
    BY <2>1, <2>2, PrefixOfPrefix
  <2>4. SubSeq(c, 1, Len(n)) = n
    BY <1>1, <1>3, <1>4
  <2>5. SubSeq(p, 1, Len(n)) = n
    BY <2>1, <2>3, <2>4
  <2> QED BY <2>1, <2>2, <2>5 DEF Under
<1> QED BY <1>1, <1>2, <1>4, <1>5, <1>6 DEF c

LEMMA UnderKid ==
  ASSUME RouterAssumption, NEW R, R \subseteq Patterns, NEW t, Shape(t, R, << >>, 0),
         NEW path \in Seq(Parts), NEW n \in DOMAIN t.pattern,
         Len(n) < Len(path), ~(n # << >> /\ Last(n) \in Star), NEW p \in Under(n, R, path)
  PROVE  \E i \in matchChildren(t, n, path[Len(n) + 1]) :
           /\ p \in Under(t.nodes[i], R, path)
           /\ Len(n) + 1 \in 1..Len(p) /\ Last(t.nodes[i]) = p[Len(n) + 1]
<1> DEFINE h == Len(n) + 1  c == SubSeq(p, 1, h)
<1>1. /\ p \in R /\ p \in Seq(Parts) /\ Matches(p, path) /\ Len(n) <= Len(p)
      /\ SubSeq(p, 1, Len(n)) = n /\ Len(p) \in Nat /\ Len(n) \in Nat /\ Len(path) \in Nat
      /\ TrieOK(t)
  BY NodesAre DEF Under, RouterAssumption, Shape
<1>2. Len(p) # Len(n)
  <2> SUFFICES ASSUME Len(p) = Len(n) PROVE FALSE
    OBVIOUS
  <2>1. p = n
    BY <1>1, WholePrefix
  <2> QED BY <1>1, <2>1 DEF Matches
<1>3. h \in 1..Len(p) /\ h \in 0..Len(p) /\ h - 1 = Len(n) /\ h <= Len(p)
  BY <1>1, <1>2
<1>4. c # << >> /\ Front(c) = n /\ Last(c) = p[h] /\ Len(c) = h
  <2> HIDE DEF h
  <2>1. c # << >> /\ Front(c) = SubSeq(p, 1, h - 1) /\ Last(c) = p[h]
    BY <1>1, <1>3, NextPrefix
  <2>2. Len(c) = h
    BY <1>1, <1>3, PrefixIs
  <2> QED BY <1>1, <1>3, <2>1, <2>2
<1>5. c \in DOMAIN t.pattern
  <2>1. InTable(c, R)
    BY <1>1, <1>3 DEF InTable
  <2> QED BY <2>1 DEF Shape
<1>6. PICK i \in DOMAIN t.nodes : t.nodes[i] = c
  BY <1>1, <1>5, NodesAre
<1>7. Fits(p[h], path[h])
  <2>1. h \in DOMAIN p
    BY <1>1, <1>3
  <2> QED BY <1>1, <2>1 DEF Matches
<1>8. p \in Under(c, R, path)
  BY <1>1, <1>3, <1>4 DEF Under
<1> HIDE DEF c
<1>9. i \in matchChildren(t, n, path[h])
  BY <1>4, <1>6, <1>7 DEF matchChildren
<1> QED BY <1>3, <1>4, <1>6, <1>8, <1>9

(* The first child in which something is found has the best of all.        *)
LEMMA OneDeeper ==
  ASSUME RouterAssumption, NEW R, R \subseteq Patterns, NEW t, Shape(t, R, << >>, 0),
         NEW path \in Seq(Parts), NEW n \in DOMAIN t.pattern, OnPath(n, path),
         Len(n) < Len(path), ~(n # << >> /\ Last(n) \in Star),
         NEW deeper,
         \A c \in DOMAIN t.pattern :
           Len(c) = Len(n) + 1 /\ OnPath(c, path) => Best(deeper[c], c, R, path)
  PROVE  Best(FirstFound(t, deeper, matchChildren(t, n, path[Len(n) + 1])), n, R, path)
<1> DEFINE K == matchChildren(t, n, path[Len(n) + 1])
           hits == {i \in K : deeper[t.nodes[i]] # NoRoute}
           h == Len(n) + 1
           U == Under(n, R, path)
<1>1. ASSUME NEW i \in K
      PROVE  /\ i \in DOMAIN t.nodes /\ t.nodes[i] \in DOMAIN t.pattern /\ t.nodes[i] \in Seq(Parts)
             /\ t.nodes[i] # << >> /\ Front(t.nodes[i]) = n
             /\ Len(t.nodes[i]) = h /\ OnPath(t.nodes[i], path)
             /\ Under(t.nodes[i], R, path) \subseteq U
  BY KidIs
<1>2. ASSUME NEW p \in U
      PROVE  \E i \in K : /\ p \in Under(t.nodes[i], R, path)
                          /\ h \in 1..Len(p) /\ Last(t.nodes[i]) = p[h]
  BY UnderKid
<1>3. ASSUME NEW i \in K PROVE Best(deeper[t.nodes[i]], t.nodes[i], R, path)
  BY <1>1
<1>4. U \subseteq R /\ NoRoute \notin U
  BY DEF Under, RouterAssumption
<1>5. K \subseteq Nat /\ R \subseteq Seq(Parts) /\ n \in Seq(Parts) /\ Len(n) \in Nat
  BY NodesAre DEF matchChildren, Shape, RouterAssumption
<1>6. FirstFound(t, deeper, K) = IF hits = {} THEN NoRoute ELSE deeper[t.nodes[Min(hits)]]
  BY DEF FirstFound
<1> HIDE DEF K, h, U
<1>7. ASSUME NEW i \in K, Under(t.nodes[i], R, path) # {} PROVE i \in hits
  <2>1. deeper[t.nodes[i]] \in Under(t.nodes[i], R, path)
    BY <1>3, <1>7 DEF Best
  <2>2. deeper[t.nodes[i]] \in U
    BY <1>1, <2>1
  <2>3. deeper[t.nodes[i]] # NoRoute
    BY <1>4, <2>2
  <2> QED BY <2>3
<1>8. CASE hits = {}
  <2>1. U = {}
    <3> SUFFICES ASSUME NEW p \in U PROVE FALSE
      OBVIOUS
    <3>1. PICK i \in K : p \in Under(t.nodes[i], R, path)
      BY <1>2
    <3>2. i \in hits
      BY <1>7, <3>1
    <3> QED BY <1>8, <3>2
  <2>2. FirstFound(t, deeper, K) = NoRoute
    BY <1>6, <1>8
  <2> QED BY <2>1, <2>2 DEF Best, U, K
<1>9. CASE hits # {}
  <2> DEFINE f == Min(hits)  c == t.nodes[f]  v == deeper[c]
  <2>1. f \in hits /\ \A i \in hits : f <= i
    <3>1. hits \subseteq Nat
      BY <1>5
    <3> HIDE DEF hits
    <3> QED BY <1>9, <3>1, MinIs
  <2> HIDE DEF f
  <2>2. f \in K /\ v # NoRoute
    BY <2>1
  <2>3. Best(v, c, R, path)
    BY <1>3, <2>2
  <2>4. v \in Under(c, R, path) /\ \A q \in Under(c, R, path) \ {v} : Preferred(v, q)
    <3> HIDE DEF v, c
    <3> QED BY <2>2, <2>3 DEF Best
  <2>5. v \in U
    BY <1>1, <2>2, <2>4
  <2>6. ASSUME NEW q \in U, q # v PROVE Preferred(v, q)
    <3>1. PICK i \in K : /\ q \in Under(t.nodes[i], R, path)
                         /\ h \in 1..Len(q) /\ Last(t.nodes[i]) = q[h]
      BY <1>2
    <3>2. i \in hits /\ f <= i
      BY <1>7, <2>1, <3>1
    <3>3. CASE t.nodes[i] = c
      BY <2>4, <2>6, <3>1, <3>3
    <3>4. CASE t.nodes[i] # c
      <4>1. i # f /\ f < i
        BY <1>5, <2>2, <3>2, <3>4
      <4>2. Siblings(c, t.nodes[i])
        BY <1>1, <2>2 DEF Siblings
      <4>3. Last(c) \notin Wild
        BY <1>1, <2>2, <4>1, <4>2 DEF Shape, WildLast
      <4>4. Last(c) # Last(t.nodes[i])
        BY <1>1, <2>2, <3>4, SameChild
      <4>5. v \in Seq(Parts) /\ q \in Seq(Parts) /\ Len(v) \in Nat /\ Len(q) \in Nat
        BY <1>4, <1>5, <2>5
      <4>6. Len(c) = h /\ SubSeq(v, 1, h) = c /\ h <= Len(v)
        BY <1>1, <2>2, <2>4 DEF Under
      <4>7. h \in 1..Len(v) /\ h - 1 = Len(n) /\ h \in Nat
        BY <1>5, <4>5, <4>6 DEF h
      <4>8. Last(c) = v[h]
        <5> HIDE DEF v, c
        <5>1. Last(SubSeq(v, 1, h)) = v[h]
          BY <4>5, <4>7, NextPrefix
        <5> QED BY <4>6, <5>1
      <4>9. SubSeq(v, 1, h - 1) = n /\ SubSeq(q, 1, h - 1) = n
        BY <2>5, <4>7 DEF U, Under
      <4>10. v[h] # q[h] /\ v[h] \notin Wild /\ h \in DOMAIN v \cap DOMAIN q
        BY <3>1, <4>3, <4>4, <4>5, <4>7, <4>8
      <4> HIDE DEF v
      <4> QED BY <4>9, <4>10 DEF Preferred
    <3> QED BY <3>3, <3>4
  <2>7. FirstFound(t, deeper, K) = v
    BY <1>6, <1>9 DEF f
  <2> HIDE DEF v
  <2> QED BY <2>5, <2>6, <2>7 DEF Best, U, K
<1> QED BY <1>8, <1>9 DEF K

LEMMA FindsBest ==
  ASSUME RouterAssumption, NEW R, R \subseteq Patterns, NEW t, Shape(t, R, << >>, 0),
         NEW path \in Seq(Parts)
  PROVE  Best(search(t, path), << >>, R, path)
<1> DEFINE Fine(left) ==
             \A n \in DOMAIN t.pattern :
               Len(n) = Len(path) - left /\ OnPath(n, path)
               => Best(Found(t, path)[left][n], n, R, path)
           T == {left \in 0..Len(path) : ~Fine(left)}
<1>1. /\ Found(t, path)[0] = t.pattern
      /\ \A l \in 1..Len(path) :
           Found(t, path)[l] = SearchLevel(t, path[Len(path) - l + 1], Found(t, path)[l - 1])
  BY FoundIs
<1>2. Len(path) \in Nat /\ \A n \in DOMAIN t.pattern : Len(n) \in Nat
  BY NodesAre DEF Shape
<1>3. Fine(0)
  BY <1>1, <1>2, EndsHere
<1>4. T = {}
  <2> SUFFICES ASSUME T # {} PROVE FALSE
    OBVIOUS
  <2>1. PICK left \in T : \A i \in T : left <= i
    <3>1. T \subseteq Nat
      BY <1>2
    <3> HIDE DEF T
    <3> QED BY <3>1, LeastNatural
  <2>2. left \in 1..Len(path)
    <3> HIDE DEF Fine
    <3> QED BY <1>2, <1>3, <2>1
  <2>3. Fine(left - 1)
    <3> HIDE DEF Fine
    <3> QED BY <1>2, <2>1, <2>2
  <2> DEFINE deeper == Found(t, path)[left - 1]
  <2>4. ASSUME NEW n \in DOMAIN t.pattern, Len(n) = Len(path) - left, OnPath(n, path)
        PROVE  Best(Found(t, path)[left][n], n, R, path)
    <3>1. /\ Len(n) \in Nat /\ Len(n) < Len(path)
          /\ Len(path) - left + 1 = Len(n) + 1
          /\ Len(path) - (left - 1) = Len(n) + 1
      BY <1>2, <2>2, <2>4
    <3>2. Found(t, path)[left] = SearchLevel(t, path[Len(n) + 1], deeper)
      BY <1>1, <2>2, <3>1
    <3>3. Found(t, path)[left][n] =
            IF n # << >> /\ Last(n) \in Star THEN t.pattern[n]
            ELSE FirstFound(t, deeper, matchChildren(t, n, path[Len(n) + 1]))
      <4> HIDE DEF deeper
      <4> QED BY <3>2 DEF SearchLevel
    <3>4. \A c \in DOMAIN t.pattern :
            Len(c) = Len(n) + 1 /\ OnPath(c, path) => Best(deeper[c], c, R, path)
      BY <2>3, <3>1
    <3> HIDE DEF deeper
    <3>5. CASE n # << >> /\ Last(n) \in Star
      <4>1. Best(t.pattern[n], n, R, path)
        BY <2>4, <3>5, EndsHere
      <4> QED BY <3>3, <3>5, <4>1
    <3>6. CASE ~(n # << >> /\ Last(n) \in Star)
      <4>1. Best(FirstFound(t, deeper, matchChildren(t, n, path[Len(n) + 1])), n, R, path)
        BY <2>4, <3>1, <3>4, <3>6, OneDeeper
      <4> QED BY <3>3, <3>6, <4>1
    <3> QED BY <3>5, <3>6
  <2> QED BY <2>1, <2>4
<1>5. Fine(Len(path))
  <2> HIDE DEF Fine
  <2> QED BY <1>2, <1>4
<1>6. << >> \in DOMAIN t.pattern /\ Len(<< >>) = 0 /\ OnPath(<< >>, path)
  BY <1>2 DEF Shape, TrieOK, OnPath
<1>7. Len(<< >>) = Len(path) - Len(path)
  BY <1>2, <1>6
<1> QED BY <1>5, <1>6, <1>7 DEF search

(* In an orderly table every request reaches the most literal of the       *)
(* routes that match it, for any routes and any requests.                  *)
THEOREM RoutesWell == RouterSpec => []Routed
<1>1. RouterInv => Routed
  <2> SUFFICES ASSUME RouterInv, Orderly, NEW r \in Requests
               PROVE  LET fit == {p \in ToSet(routes) : Matches(p, r)}
                          n   == search(trie, r)
                      IN IF fit = {} THEN n = NoRoute
                         ELSE n \in fit /\ \A q \in fit \ {n} : Preferred(n, q)
    BY DEF Routed
  <2> DEFINE R == ToSet(routes)
  <2>1. R \subseteq Patterns /\ r \in Seq(Parts) /\ R \subseteq Seq(Parts)
    BY RouterAssumption DEF RouterInv, TreeInv, ToSet, RouterAssumption
  <2>2. Best(search(trie, r), << >>, R, r)
    BY <2>1, FindsBest, RouterAssumption DEF RouterInv
  <2> HIDE DEF R
  <2>3. Under(<< >>, R, r) = {p \in R : Matches(p, r)}
    <3>1. ASSUME NEW p \in R PROVE Len(<< >>) <= Len(p) /\ SubSeq(p, 1, Len(<< >>)) = << >>
      <4>1. p \in Seq(Parts) /\ Len(p) \in Nat /\ Len(<< >>) = 0
        BY <2>1
      <4>2. SubSeq(p, 1, 0) = << >>
        BY <4>1, WholePrefix
      <4> QED BY <4>1, <4>2
    <3> QED BY <3>1 DEF Under
  <2> QED BY <2>2, <2>3 DEF Best, R
<1> QED BY <1>1, RouterInductive, RouterAssumption, PTL DEF RouterSpec

-----------------------------------------------------------------------------
(* The libraries side by side *)

(* A behaviour of Libraries is one of each library: of all but one, one    *)
(* that stands still.                                                      *)
LEMMA EachLibrary ==
  Spec => LruSpec /\ SessionSpec /\ EngineSpec /\ RouterSpec /\ ContextSpec
<1>1. Init => LruInit /\ SessionInit /\ EngineInit /\ RouterInit /\ ContextInit
  BY DEF Init
<1>2. [Next]_vars => /\ [LruNext]_lruVars /\ [SessionNext]_sessionVars
                     /\ [EngineNext]_engineVars /\ [RouterNext]_routerVars
                     /\ [ContextNext]_contextVars
  BY DEF Next, vars
<1> QED
  BY <1>1, <1>2, PTL DEF Spec, LruSpec, SessionSpec, EngineSpec, RouterSpec, ContextSpec

(* The types of all the libraries' variables.                              *)
THEOREM TypeCorrect == Spec => []TypesOK
BY EachLibrary, LruTypes, SendsOwnConditions, EngineTypes, TrieTypes, ContextTypes, PTL
   DEF TypesOK
=============================================================================
