---------------------------- MODULE MigrationProofs ----------------------------
(***************************************************************************)
(* Theorems about Migration, for any rows, any number of crashes and every *)
(* instant at which they come.                                             *)
(*                                                                         *)
(* Each database, on disk or as the connection sees it, holds the original *)
(* rows and fits its revision (Sound).  What is left of the statements of  *)
(* an upgrade says how far work has come (Migrating): which tables have    *)
(* been copied, which copies may be dropped, which revision is recorded.   *)
(* What is committed at once and what at the end (CommitInv) decides which *)
(* files a crash leaves behind, and that a torn one stays torn.            *)
(***************************************************************************)
EXTENDS Migration, SequenceTheorems, TLAPS

-----------------------------------------------------------------------------
(* The inductive invariant. *)

VersionTables == {"schema_version", "alembic_version"}

KnownTables == DataTables \cup {Old[t] : t \in DataTables} \cup VersionTables

IsDatabase(db) ==
  /\ db = [tables |-> db.tables, index |-> db.index]
  /\ db.tables = [t \in Present(db) |-> db.tables[t]]
  /\ db.index \in BOOLEAN
  /\ Present(db) \subseteq KnownTables

\* The rows of a table are there, in its place or set aside, and no others; tables
\* are set aside only under the revision that 0002 starts from.
Sound(db) ==
  /\ IsDatabase(db)
  /\ \A t \in DataTables : RowsOf(db, t) \cup RowsOf(db, Old[t]) = original[t]
  /\ Revisions(db) \in {{}, {"0001"}, {"0002"}}
  /\ \A t \in DataTables : Old[t] \in Present(db) => Revisions(db) = {"0001"}

\* The statements from an empty file to head, by how many are left: an upgrade
\* executes the last ones.
Statement(left) ==
  IF left <= 20 THEN Upgrade0002[21 - left]
  ELSE IF left <= 28 THEN Upgrade0001[29 - left]
  ELSE Create("alembic_version", "version")
Statements == {Statement(left) : left \in 1 .. 29}

\* How many statements are left when 0002 has copied a table, and has dropped the
\* old one.
CopyLeaves == [sensor_instance |-> 13, field |-> 11, sample |-> 9, measurement |-> 7]
DropLeaves == [measurement |-> 6, sample |-> 5, field |-> 4, sensor_instance |-> 3]

Stamping ==
  \/ /\ script = <<>>
  \/ \E revision \in {"0001", "0002"} :
       \/ /\ script = << Insert("alembic_version", revision) >>
          /\ Revisions(work) = {}
       \/ /\ script = << Create("alembic_version", "version"),
                         Insert("alembic_version", revision) >>
          /\ "alembic_version" \notin Present(work)

\* s is the part of them before the last n.
Before(n, s) ==
  /\ s \in Seq(Statements) /\ Len(s) + n <= 29
  /\ \A i \in 1 .. Len(s) : s[i] = Statement(Len(s) + n + 1 - i)

Remainder(s) == Before(0, s)

\* How far db is when so many statements are left.
UpTo(db, left) ==
  /\ left > 20 => Revisions(db) = {}
  /\ left \in 1 .. 20 => Revisions(db) = {"0001"}
  /\ left = 0 => Revisions(db) = {"0002"}
  /\ \A t \in DataTables :
       /\ left <= CopyLeaves[t] => RowsOf(db, Old[t]) \subseteq RowsOf(db, t)
       /\ left <= DropLeaves[t] => Old[t] \notin Present(db)

Migrating == Remainder(script) /\ UpTo(work, Len(script))

Cleaning ==
  /\ Valid(work) /\ Revisions(work) = {"0002"}
  /\ \/ script = << Drop("schema_version") >>
     \/ script = <<>> /\ "schema_version" \notin Present(work)

ScriptInv ==
  /\ phase \in {"start", "stamp", "upgrade", "migrate", "validate", "clean", "done", "failed"}
  /\ phase \notin {"stamp", "migrate", "clean"} => script = <<>>
  /\ phase = "stamp" => Stamping
  /\ phase = "migrate" => Migrating
  /\ phase = "validate" => Revisions(work) = {"0002"}
  /\ phase = "clean" => Cleaning

MigrationInv == Sound(disk) /\ Sound(work) /\ ScriptInv /\ DoneMeansCurrent

-----------------------------------------------------------------------------
(* What the statements do to a database. *)

\* The names under which 0002 sets tables aside are new ones.
LEMMA OldNames ==
  ASSUME NEW t \in DataTables
  PROVE  /\ Old[t] \notin DataTables \cup VersionTables /\ t \notin VersionTables
         /\ \A u \in DataTables : Old[u] = Old[t] => u = t
BY DEF DataTables, Old, VersionTables

LEMMA WithEffect ==
  ASSUME NEW db, IsDatabase(db), NEW t \in KnownTables, NEW layout, NEW rows
  PROVE  LET new == With(db, t, layout, rows) IN
         /\ IsDatabase(new) /\ Present(new) = Present(db) \cup {t} /\ new.index = db.index
         /\ \A u : RowsOf(new, u) = IF u = t THEN rows ELSE RowsOf(db, u)
<1> DEFINE new == With(db, t, layout, rows)
<1>1. new = [tables |-> [u \in Present(db) \cup {t} |->
                           IF u = t THEN [layout |-> layout, rows |-> rows] ELSE db.tables[u]],
             index |-> db.index]
  BY DEF With, IsDatabase
<1>2. new.tables = [u \in Present(db) \cup {t} |->
                      IF u = t THEN [layout |-> layout, rows |-> rows] ELSE db.tables[u]]
  BY <1>1
<1>3. Present(new) = Present(db) \cup {t}
  BY <1>2 DEF Present
<1>4. IsDatabase(new)
  <2>1. new = [tables |-> new.tables, index |-> new.index] /\ new.index = db.index
    BY <1>1
  <2>2. new.tables = [u \in Present(new) |-> new.tables[u]]
    BY <1>2, <1>3
  <2>3. Present(new) \subseteq KnownTables
    BY <1>3 DEF IsDatabase
  <2> QED BY <2>1, <2>2, <2>3 DEF IsDatabase
<1>5. \A u : RowsOf(new, u) = IF u = t THEN rows ELSE RowsOf(db, u)
  BY <1>2, <1>3 DEF RowsOf
<1> QED BY <1>1, <1>3, <1>4, <1>5

LEMMA WithoutEffect ==
  ASSUME NEW db, IsDatabase(db), NEW t
  PROVE  LET new == Without(db, t) IN
         /\ IsDatabase(new) /\ Present(new) = Present(db) \ {t} /\ new.index = db.index
         /\ \A u : RowsOf(new, u) = IF u = t THEN {} ELSE RowsOf(db, u)
         /\ \A u \in Present(db) \ {t} : new.tables[u] = db.tables[u]
<1> DEFINE new == Without(db, t)
<1>1. new = [tables |-> [u \in Present(db) \ {t} |-> db.tables[u]], index |-> db.index]
  BY DEF Without, IsDatabase
<1>2. new.tables = [u \in Present(db) \ {t} |-> db.tables[u]]
  BY <1>1
<1>3. Present(new) = Present(db) \ {t}
  BY <1>2 DEF Present
<1>4. IsDatabase(new)
  BY <1>1, <1>2, <1>3 DEF IsDatabase
<1>5. \A u : RowsOf(new, u) = IF u = t THEN {} ELSE RowsOf(db, u)
  BY <1>2, <1>3 DEF RowsOf
<1> QED BY <1>1, <1>2, <1>3, <1>4, <1>5

\* db' differs from db at most in table t.
OnlyTable(db, new, t, rows) ==
  /\ IsDatabase(new)
  /\ \A u : u # t => (u \in Present(new) <=> u \in Present(db))
  /\ \A u : RowsOf(new, u) = IF u = t THEN rows ELSE RowsOf(db, u)

LEMMA CreateEffect ==
  ASSUME NEW db, IsDatabase(db), NEW t \in KnownTables, NEW layout,
         Executable(db, Create(t, layout))
  PROVE  OnlyTable(db, Effect(db, Create(t, layout)), t, {}) /\ t \notin Present(db)
<1>1. t \notin Present(db) /\ Effect(db, Create(t, layout)) = With(db, t, layout, {})
  BY DEF Create, Executable, Effect
<1> QED BY <1>1, WithEffect DEF OnlyTable

LEMMA InsertEffect ==
  ASSUME NEW db, IsDatabase(db), NEW t \in KnownTables, NEW row, Executable(db, Insert(t, row))
  PROVE  /\ OnlyTable(db, Effect(db, Insert(t, row)), t, RowsOf(db, t) \cup {row})
         /\ t \in Present(db)
<1>1. /\ t \in Present(db)
      /\ Effect(db, Insert(t, row))
           = With(db, t, db.tables[t].layout, RowsOf(db, t) \cup {row})
  BY DEF Insert, Executable, Effect
<1> QED BY <1>1, WithEffect DEF OnlyTable

LEMMA UpdateEffect ==
  ASSUME NEW db, IsDatabase(db), NEW t \in KnownTables, NEW row, Executable(db, Update(t, row))
  PROVE  OnlyTable(db, Effect(db, Update(t, row)), t, {row}) /\ t \in Present(db)
<1>1. /\ t \in Present(db)
      /\ Effect(db, Update(t, row)) = With(db, t, db.tables[t].layout, {row})
  BY DEF Update, Executable, Effect
<1> QED BY <1>1, WithEffect DEF OnlyTable

LEMMA CopyEffect ==
  ASSUME NEW db, IsDatabase(db), NEW t \in KnownTables, NEW from, Executable(db, Copy(t, from))
  PROVE  /\ OnlyTable(db, Effect(db, Copy(t, from)), t, RowsOf(db, t) \cup RowsOf(db, from))
         /\ t \in Present(db)
<1>1. /\ t \in Present(db)
      /\ Effect(db, Copy(t, from))
           = With(db, t, db.tables[t].layout, RowsOf(db, t) \cup RowsOf(db, from))
  BY DEF Copy, Executable, Effect
<1> QED BY <1>1, WithEffect DEF OnlyTable

LEMMA DropEffect ==
  ASSUME NEW db, IsDatabase(db), NEW t, Executable(db, Drop(t))
  PROVE  OnlyTable(db, Effect(db, Drop(t)), t, {}) /\ t \notin Present(Effect(db, Drop(t)))
<1>1. Effect(db, Drop(t)) = Without(db, t)
  BY DEF Drop, Executable, Effect
<1> QED BY <1>1, WithoutEffect DEF OnlyTable

LEMMA RenameEffect ==
  ASSUME NEW db, IsDatabase(db), NEW t, NEW to \in KnownTables, to # t,
         Executable(db, Rename(t, to))
  PROVE  LET new == Effect(db, Rename(t, to)) IN
         /\ IsDatabase(new) /\ to \notin Present(db)
         /\ Present(new) = (Present(db) \cup {to}) \ {t}
         /\ \A u : RowsOf(new, u) = IF u = t THEN {} ELSE IF u = to THEN RowsOf(db, t)
                                    ELSE RowsOf(db, u)
<1> DEFINE copy == With(db, to, db.tables[t].layout, RowsOf(db, t))
           new == Effect(db, Rename(t, to))
<1>1. to \notin Present(db) /\ new = Without(copy, t)
  BY DEF Rename, Executable, Effect
<1>2. /\ IsDatabase(copy) /\ Present(copy) = Present(db) \cup {to}
      /\ \A u : RowsOf(copy, u) = IF u = to THEN RowsOf(db, t) ELSE RowsOf(db, u)
  BY WithEffect
<1> HIDE DEF copy, new
<1>3. /\ IsDatabase(new) /\ Present(new) = Present(copy) \ {t}
      /\ \A u : RowsOf(new, u) = IF u = t THEN {} ELSE RowsOf(copy, u)
  BY <1>1, <1>2, WithoutEffect
<1> QED BY <1>1, <1>2, <1>3 DEF new

LEMMA IndexEffect ==
  ASSUME NEW db, IsDatabase(db), NEW st \in {CreateIndex, DropIndex}
  PROVE  LET new == Effect(db, st) IN
         IsDatabase(new) /\ Present(new) = Present(db) /\ \A u : RowsOf(new, u) = RowsOf(db, u)
<1> DEFINE new == Effect(db, st)
<1>1. \E b \in BOOLEAN : new = [db EXCEPT !.index = b]
  <2>1. CASE st = CreateIndex
    <3>1. new = [db EXCEPT !.index = TRUE]
      BY <2>1 DEF CreateIndex, Effect
    <3> QED BY <3>1
  <2>2. CASE st = DropIndex
    <3>1. new = [db EXCEPT !.index = FALSE]
      BY <2>2 DEF DropIndex, Effect
    <3> QED BY <3>1
  <2> QED BY <2>1, <2>2
<1>2. PICK b \in BOOLEAN : new = [tables |-> db.tables, index |-> b]
  BY <1>1 DEF IsDatabase
<1> HIDE DEF new
<1>3. new.tables = db.tables /\ new.index = b
  BY <1>2
<1>4. Present(new) = Present(db)
  BY <1>3 DEF Present
<1>5. \A u : RowsOf(new, u) = RowsOf(db, u)
  BY <1>3, <1>4 DEF RowsOf
<1>6. IsDatabase(new)
  BY <1>2, <1>3, <1>4 DEF IsDatabase
<1> QED BY <1>4, <1>5, <1>6 DEF new

\* More statements before the end of the script.
LEMMA Prepended ==
  ASSUME NEW n \in Nat, NEW s, Before(n, s), NEW u, Remainder(u), Len(u) = n
  PROVE  Remainder(s \o u) /\ Len(s \o u) = Len(s) + n
<1> DEFINE su == s \o u
           m == Len(s)
<1>1. s \in Seq(Statements) /\ u \in Seq(Statements) /\ m \in Nat /\ m + n <= 29
  BY LenProperties DEF Before, Remainder
<1>2. /\ su \in Seq(Statements) /\ Len(su) = m + n
      /\ \A i \in 1 .. m + n : su[i] = IF i <= m THEN s[i] ELSE u[i - m]
  BY <1>1, ConcatProperties
<1>3. /\ \A i \in 1 .. m : s[i] = Statement(m + n + 1 - i)
      /\ \A i \in 1 .. n : u[i] = Statement(n + 0 + 1 - i)
  BY DEF Before, Remainder
<1> HIDE DEF su, m
<1>4. ASSUME NEW i \in 1 .. m + n
      PROVE  su[i] = Statement(m + n + 0 + 1 - i)
  <2>1. CASE i <= m
    BY <1>1, <1>2, <1>3, <2>1
  <2>2. CASE ~(i <= m)
    <3>1. i - m \in 1 .. n /\ n + 0 + 1 - (i - m) = m + n + 0 + 1 - i
      BY <1>1, <2>2
    <3>2. su[i] = u[i - m]
      BY <1>2, <2>2
    <3> QED BY <1>3, <3>1, <3>2
  <2> QED BY <2>1, <2>2
<1> QED BY <1>1, <1>2, <1>4 DEF Before, Remainder, su, m

\* The two revisions as sequences.
LEMMA Revision0001 == Before(20, Upgrade0001) /\ Len(Upgrade0001) = 8
<1>1. Len(Upgrade0001) = 8 /\ Upgrade0001 = [i \in 1 .. 8 |-> Upgrade0001[i]]
  BY DEF Upgrade0001
<1>2. ASSUME NEW i \in 1 .. 8
      PROVE  Upgrade0001[i] = Statement(8 + 20 + 1 - i) /\ Upgrade0001[i] \in Statements
  <2>1. 29 - i \in 21 .. 28 /\ 29 - (29 - i) = i /\ 8 + 20 + 1 - i = 29 - i
    OBVIOUS
  <2>2. Statement(29 - i) = Upgrade0001[29 - (29 - i)]
    BY <2>1 DEF Statement
  <2> QED BY <2>1, <2>2 DEF Statements
<1>3. Upgrade0001 \in [1 .. 8 -> Statements]
  BY <1>1, <1>2
<1>4. Upgrade0001 \in Seq(Statements)
  BY <1>3, SeqDef
<1> QED BY <1>1, <1>2, <1>4 DEF Before

LEMMA Revision0002 == Remainder(Upgrade0002) /\ Len(Upgrade0002) = 20
<1>1. Len(Upgrade0002) = 20 /\ Upgrade0002 = [i \in 1 .. 20 |-> Upgrade0002[i]]
  BY DEF Upgrade0002
<1>2. ASSUME NEW i \in 1 .. 20
      PROVE  Upgrade0002[i] = Statement(20 + 0 + 1 - i) /\ Upgrade0002[i] \in Statements
  <2>1. 21 - i \in 1 .. 20 /\ 21 - (21 - i) = i /\ 20 + 0 + 1 - i = 21 - i
    OBVIOUS
  <2>2. Statement(21 - i) = Upgrade0002[21 - (21 - i)]
    BY <2>1 DEF Statement
  <2> QED BY <2>1, <2>2 DEF Statements
<1>3. Upgrade0002 \in [1 .. 20 -> Statements]
  BY <1>1, <1>2
<1>4. Upgrade0002 \in Seq(Statements)
  BY <1>3, SeqDef
<1> QED BY <1>1, <1>2, <1>4 DEF Before, Remainder

\* Every script that command.upgrade() plans is an end of the whole.
LEMMA PlansAreRemainders ==
  /\ Remainder(<<>>)
  /\ Remainder(Upgrade0002) /\ Len(Upgrade0002) = 20
  /\ Remainder(<<>> \o Upgrade0001 \o Upgrade0002) /\ Len(<<>> \o Upgrade0001 \o Upgrade0002) = 28
  /\ LET script0 == << Create("alembic_version", "version") >> \o Upgrade0001 \o Upgrade0002
     IN  Remainder(script0) /\ Len(script0) = 29
<1> DEFINE table == << Create("alembic_version", "version") >>
           both == Upgrade0001 \o Upgrade0002
<1>1. Remainder(<<>>)
  BY EmptySeq DEF Before, Remainder
<1>2. Remainder(both) /\ Len(both) = 28
  <2>1. Remainder(both) /\ Len(both) = Len(Upgrade0001) + 20
    BY Revision0001, Revision0002, Prepended, Zenon
  <2> QED BY <2>1, Revision0001
<1>3. Upgrade0001 \in Seq(Statements) /\ Upgrade0002 \in Seq(Statements)
  BY Revision0001, Revision0002 DEF Before, Remainder
<1>4. <<>> \o Upgrade0001 = Upgrade0001
  BY <1>3, ConcatEmptySeq
<1>5. Before(28, table) /\ Len(table) = 1
  <2>1. Statement(29) = Create("alembic_version", "version") /\ Statement(29) \in Statements
    BY DEF Statement, Statements
  <2>2. Len(table) = 1 /\ table[1] = Statement(29) /\ table \in Seq(Statements)
    BY <2>1
  <2> HIDE DEF table
  <2> QED BY <2>2 DEF Before
<1>6. table \o Upgrade0001 \o Upgrade0002 = table \o both
  <2>1. ASSUME NEW a \in Seq(Statements), NEW b \in Seq(Statements), NEW c \in Seq(Statements)
        PROVE  a \o b \o c = a \o (b \o c)
    BY ConcatAssociative
  <2>2. table \in Seq(Statements)
    BY <1>5 DEF Before
  <2> HIDE DEF table
  <2> QED BY <1>3, <2>1, <2>2
<1> HIDE DEF table, both
<1>7. Remainder(table \o both) /\ Len(table \o both) = 29
  <2>1. Remainder(table \o both) /\ Len(table \o both) = Len(table) + 28
    BY <1>2, <1>5, Prepended, Zenon
  <2> QED BY <1>5, <2>1
<1> QED BY <1>1, <1>2, <1>4, <1>6, <1>7, Revision0002 DEF table, both


\* The next statement of what is left, and what is left then.
LEMMA NextStatement ==
  ASSUME NEW s, Remainder(s), s # <<>>
  PROVE  /\ Len(s) \in 1 .. 29 /\ Head(s) = Statement(Len(s))
         /\ Remainder(Tail(s)) /\ Len(Tail(s)) = Len(s) - 1
<1>1. s \in Seq(Statements) /\ Len(s) \in 1 .. 29
  <2>1. s \in Seq(Statements)
    BY DEF Remainder, Before
  <2>2. Len(s) \in Nat /\ Len(s) # 0
    BY <2>1, LenProperties, EmptySeq
  <2>3. Len(s) <= 29
    BY <2>2 DEF Remainder, Before
  <2>4. \A n \in Nat : n # 0 /\ n <= 29 => n \in 1 .. 29
    OBVIOUS
  <2> QED BY <2>1, <2>2, <2>3, <2>4, Zenon
<1>2. \A i \in 1 .. Len(s) : s[i] = Statement(Len(s) + 0 + 1 - i)
  BY DEF Remainder, Before
<1>3. /\ Head(s) = s[1] /\ Tail(s) \in Seq(Statements) /\ Len(Tail(s)) = Len(s) - 1
      /\ \A i \in 1 .. Len(s) - 1 : Tail(s)[i] = s[i + 1]
  BY <1>1, HeadTailProperties
<1>4. Head(s) = Statement(Len(s))
  BY <1>1, <1>2, <1>3
<1>5. ASSUME NEW i \in 1 .. Len(s) - 1
      PROVE  Tail(s)[i] = Statement((Len(s) - 1) + 0 + 1 - i)
  <2>1. i + 1 \in 1 .. Len(s) /\ Len(s) + 0 + 1 - (i + 1) = (Len(s) - 1) + 0 + 1 - i
    BY <1>1
  <2> QED BY <1>2, <1>3, <2>1
<1>6. Remainder(Tail(s))
  <2> DEFINE rest == Tail(s)
  <2>1. rest \in Seq(Statements) /\ Len(rest) = Len(s) - 1
    BY <1>3
  <2>2. \A n \in 1 .. 29 : n - 1 + 0 <= 29
    OBVIOUS
  <2>3. \A i \in 1 .. Len(rest) : rest[i] = Statement(Len(rest) + 0 + 1 - i)
    BY <1>5, <2>1
  <2> HIDE DEF rest
  <2>4. Remainder(rest)
    BY <1>1, <2>1, <2>2, <2>3 DEF Remainder, Before
  <2> QED BY <2>4 DEF rest
<1> QED BY <1>1, <1>3, <1>4, <1>6

\* Which statement it is, by how many are left.
IsTheStatement(st, left) ==
  \/ \E t \in DataTables \cup VersionTables, layout \in {"v1", "v2", "version"} :
        st = Create(t, layout) /\ left \in {9, 11, 13, 15, 22, 24, 25, 26, 28, 29}
  \/ st \in {CreateIndex, DropIndex} /\ left \in {2, 16, 23}
  \/ st = Insert("schema_version", "1") /\ left = 27
  \/ st = Insert("alembic_version", "0001") /\ left = 21
  \/ \E t \in DataTables :
       \/ st = Rename(t, Old[t]) /\ left \in 17 .. 20
       \/ st = Copy(t, Old[t]) /\ left = CopyLeaves[t] + 1
       \/ st = Drop(Old[t]) /\ left = DropLeaves[t] + 1
  \/ st = Drop("schema_version") /\ left = 3
  \/ st = Update("alembic_version", "0002") /\ left = 1

LEMMA StatementsByCount ==
  ASSUME NEW left \in 1 .. 29
  PROVE  IsTheStatement(Statement(left), left)
<1> DEFINE st == Statement(left)
<1>1. /\ Statement(29) = Create("alembic_version", "version")
      /\ Statement(28) = Create("schema_version", "version")
      /\ Statement(26) = Create("sensor_instance", "v1") /\ Statement(25) = Create("field", "v1")
      /\ Statement(24) = Create("sample", "v1") /\ Statement(22) = Create("measurement", "v1")
      /\ Statement(15) = Create("sensor_instance", "v2") /\ Statement(13) = Create("field", "v2")
      /\ Statement(11) = Create("sample", "v2") /\ Statement(9) = Create("measurement", "v2")
  BY DEF Statement, Upgrade0001, Upgrade0002
<1>2. /\ Statement(27) = Insert("schema_version", "1")
      /\ Statement(21) = Insert("alembic_version", "0001")
      /\ Statement(23) = CreateIndex /\ Statement(16) = DropIndex /\ Statement(2) = CreateIndex
      /\ Statement(3) = Drop("schema_version") /\ Statement(1) = Update("alembic_version", "0002")
  BY DEF Statement, Upgrade0001, Upgrade0002
<1>3. /\ Statement(20) = Rename("measurement", Old["measurement"])
      /\ Statement(19) = Rename("field", Old["field"])
      /\ Statement(18) = Rename("sample", Old["sample"])
      /\ Statement(17) = Rename("sensor_instance", Old["sensor_instance"])
  BY DEF Statement, Upgrade0002
<1>4. /\ Statement(14) = Copy("sensor_instance", Old["sensor_instance"])
      /\ Statement(12) = Copy("field", Old["field"])
      /\ Statement(10) = Copy("sample", Old["sample"])
      /\ Statement(8) = Copy("measurement", Old["measurement"])
  BY DEF Statement, Upgrade0002
<1>5. /\ Statement(7) = Drop(Old["measurement"]) /\ Statement(6) = Drop(Old["sample"])
      /\ Statement(5) = Drop(Old["field"]) /\ Statement(4) = Drop(Old["sensor_instance"])
  BY DEF Statement, Upgrade0002
<1>6. /\ CopyLeaves["sensor_instance"] = 13 /\ CopyLeaves["field"] = 11
      /\ CopyLeaves["sample"] = 9 /\ CopyLeaves["measurement"] = 7
      /\ DropLeaves["measurement"] = 6 /\ DropLeaves["sample"] = 5
      /\ DropLeaves["field"] = 4 /\ DropLeaves["sensor_instance"] = 3
  BY DEF CopyLeaves, DropLeaves
<1>7. /\ "sensor_instance" \in DataTables /\ "field" \in DataTables /\ "sample" \in DataTables
      /\ "measurement" \in DataTables
      /\ "schema_version" \in VersionTables /\ "alembic_version" \in VersionTables
  BY DEF DataTables, VersionTables
<1>8. CASE left \in {9, 11, 13, 15, 22, 24, 25, 26, 28, 29}
  BY <1>1, <1>7, <1>8 DEF IsTheStatement
<1>9. CASE left \in {1, 2, 3, 16, 21, 23, 27}
  BY <1>2, <1>9 DEF IsTheStatement
<1>10. CASE left \in 17 .. 20
  BY <1>3, <1>7, <1>10 DEF IsTheStatement
<1>11. CASE left \in {8, 10, 12, 14}
  <2>1. \E t \in DataTables : Statement(left) = Copy(t, Old[t]) /\ left = CopyLeaves[t] + 1
    BY <1>4, <1>6, <1>7, <1>11
  <2> QED BY <2>1 DEF IsTheStatement
<1>12. CASE left \in {4, 5, 6, 7}
  <2>1. \E t \in DataTables : Statement(left) = Drop(Old[t]) /\ left = DropLeaves[t] + 1
    BY <1>5, <1>6, <1>7, <1>12
  <2> QED BY <2>1 DEF IsTheStatement
<1> QED BY <1>8, <1>9, <1>10, <1>11, <1>12


-----------------------------------------------------------------------------
(* What a statement does to the rows. *)

\* The rows of the data tables, in place and set aside, and the revisions are the
\* same, and no other table is set aside.
Alike(db, new) ==
  /\ IsDatabase(new)
  /\ \A t \in DataTables :
       /\ RowsOf(new, t) = RowsOf(db, t) /\ RowsOf(new, Old[t]) = RowsOf(db, Old[t])
       /\ Old[t] \in Present(new) <=> Old[t] \in Present(db)
  /\ Revisions(new) = Revisions(db)

LEMMA AlikeIsSound ==
  ASSUME NEW db, Sound(db), NEW new, Alike(db, new)
  PROVE  Sound(new)
BY DEF Sound, Alike

\* What is done to another table does not matter, and an empty table is as good as
\* none.
LEMMA OtherTable ==
  ASSUME NEW db, NEW new, NEW t \in DataTables \cup VersionTables, NEW rows,
         OnlyTable(db, new, t, rows),
         t = "schema_version" \/ rows = RowsOf(db, t)
  PROVE  Alike(db, new)
<1>1. ASSUME NEW u \in DataTables
      PROVE  /\ RowsOf(new, u) = RowsOf(db, u) /\ RowsOf(new, Old[u]) = RowsOf(db, Old[u])
             /\ Old[u] \in Present(new) <=> Old[u] \in Present(db)
  <2>1. Old[u] # t /\ u # "schema_version"
    BY OldNames DEF VersionTables
  <2> QED BY <2>1 DEF OnlyTable
<1>2. Revisions(new) = Revisions(db)
  BY DEF Revisions, OnlyTable
<1> QED BY <1>1, <1>2 DEF Alike, OnlyTable

\* Creating a table, the index and the old version table.
LEMMA NeutralStatement ==
  ASSUME NEW db, IsDatabase(db), NEW st, Executable(db, st),
         \/ \E t \in DataTables \cup VersionTables, layout \in {"v1", "v2", "version"} :
              st = Create(t, layout)
         \/ st \in {CreateIndex, DropIndex}
         \/ st = Insert("schema_version", "1")
         \/ st = Drop("schema_version")
  PROVE  Alike(db, Effect(db, st))
<1>1. ASSUME NEW t \in DataTables \cup VersionTables, NEW layout, st = Create(t, layout)
      PROVE  Alike(db, Effect(db, st))
  <2>1. OnlyTable(db, Effect(db, st), t, {}) /\ t \notin Present(db)
    BY <1>1, CreateEffect DEF KnownTables
  <2>2. RowsOf(db, t) = {}
    BY <2>1 DEF RowsOf
  <2> QED BY <2>1, <2>2, OtherTable
<1>2. CASE st \in {CreateIndex, DropIndex}
  BY <1>2, IndexEffect DEF Alike, Revisions
<1>3. "schema_version" \in KnownTables /\ "schema_version" \in DataTables \cup VersionTables
  BY DEF KnownTables, VersionTables
<1>4. CASE st = Insert("schema_version", "1")
  BY <1>3, <1>4, InsertEffect, OtherTable
<1>5. CASE st = Drop("schema_version")
  BY <1>3, <1>5, DropEffect, OtherTable
<1> QED BY <1>1, <1>2, <1>4, <1>5

\* Recording a revision: the data tables stay as they are.
LEMMA RevisionRecorded ==
  ASSUME NEW db, NEW new, NEW revisions, OnlyTable(db, new, "alembic_version", revisions)
  PROVE  /\ IsDatabase(new) /\ Revisions(new) = revisions
         /\ \A t \in DataTables :
              /\ RowsOf(new, t) = RowsOf(db, t) /\ RowsOf(new, Old[t]) = RowsOf(db, Old[t])
              /\ Old[t] \in Present(new) <=> Old[t] \in Present(db)
<1>1. \A t \in DataTables : t # "alembic_version" /\ Old[t] # "alembic_version"
  BY OldNames DEF VersionTables
<1> QED BY <1>1 DEF OnlyTable, Revisions


-----------------------------------------------------------------------------
(* The invariant holds at the beginning, and every step keeps it. *)

\* Each kind of file fits its revision.
LEMMA FilesAreSound ==
  ASSUME NEW rows \in [DataTables -> SUBSET Row], original = rows
  PROVE  /\ \A layout, version : Sound(LegacyDatabase(layout, version, rows))
         /\ Sound(CurrentDatabase(rows))
         /\ rows = NoRows => Sound(EmptyDatabase)
<1>1. /\ DataTables \cup VersionTables \subseteq KnownTables
      /\ "schema_version" \in VersionTables /\ "alembic_version" \in VersionTables
      /\ "schema_version" # "alembic_version"
  BY DEF KnownTables, VersionTables
<1>2. \A t \in DataTables : /\ Old[t] \notin DataTables \cup VersionTables
                            /\ t \notin VersionTables
  BY OldNames
<1>3. ASSUME NEW layout, NEW version
      PROVE  Sound(LegacyDatabase(layout, version, rows))
  <2> DEFINE db == LegacyDatabase(layout, version, rows)
             tables == [t \in DataTables \cup {"schema_version"} |->
                          IF t \in DataTables THEN Table(layout, rows[t])
                                              ELSE Table("version", {version})]
  <2>1. db = [tables |-> tables, index |-> TRUE]
    BY DEF LegacyDatabase
  <2>2. Present(db) = DataTables \cup {"schema_version"} /\ db.tables = tables
    BY <2>1 DEF Present
  <2>3. \A t \in DataTables : RowsOf(db, t) = rows[t] /\ RowsOf(db, Old[t]) = {}
    BY <1>1, <1>2, <2>2 DEF RowsOf, Table
  <2>4. Revisions(db) = {}
    BY <1>1, <1>2, <2>2 DEF RowsOf, Revisions, DataTables
  <2>5. IsDatabase(db)
    <3>1. tables = [t \in Present(db) |-> tables[t]] /\ Present(db) \subseteq KnownTables
      BY <1>1, <2>2
    <3> HIDE DEF tables
    <3>2. db.tables = tables /\ db.index = TRUE
      BY <2>1
    <3> HIDE DEF db
    <3> QED BY <2>1, <3>1, <3>2 DEF IsDatabase
  <2> HIDE DEF db
  <2>6. Sound(db)
    BY <1>1, <1>2, <2>2, <2>3, <2>4, <2>5 DEF Sound
  <2> QED BY <2>6 DEF db
<1>4. Sound(CurrentDatabase(rows))
  <2> DEFINE db == CurrentDatabase(rows)
             tables == [t \in DataTables \cup {"alembic_version"} |->
                          IF t \in DataTables THEN Table("v2", rows[t])
                                              ELSE Table("version", {"0002"})]
  <2>1. db = [tables |-> tables, index |-> TRUE]
    BY DEF CurrentDatabase
  <2>2. Present(db) = DataTables \cup {"alembic_version"} /\ db.tables = tables
    BY <2>1 DEF Present
  <2>3. \A t \in DataTables : RowsOf(db, t) = rows[t] /\ RowsOf(db, Old[t]) = {}
    BY <1>1, <1>2, <2>2 DEF RowsOf, Table
  <2>4. Revisions(db) = {"0002"}
    BY <1>1, <1>2, <2>2 DEF RowsOf, Revisions, DataTables, Table
  <2>5. IsDatabase(db)
    <3>1. tables = [t \in Present(db) |-> tables[t]] /\ Present(db) \subseteq KnownTables
      BY <1>1, <2>2
    <3> HIDE DEF tables
    <3>2. db.tables = tables /\ db.index = TRUE
      BY <2>1
    <3> HIDE DEF db
    <3> QED BY <2>1, <3>1, <3>2 DEF IsDatabase
  <2> HIDE DEF db
  <2>6. Sound(db)
    BY <1>1, <1>2, <2>2, <2>3, <2>4, <2>5 DEF Sound
  <2> QED BY <2>6 DEF db
<1>5. ASSUME rows = NoRows
      PROVE  Sound(EmptyDatabase)
  <2>1. Present(EmptyDatabase) = {} /\ IsDatabase(EmptyDatabase)
    BY DEF EmptyDatabase, Present, IsDatabase
  <2>2. \A t : RowsOf(EmptyDatabase, t) = {}
    BY <2>1 DEF RowsOf
  <2> QED BY <1>5, <2>1, <2>2 DEF Sound, NoRows, Revisions
<1> QED BY <1>3, <1>4, <1>5

\* A file without its index is as sound.
LEMMA IndexIsNoMatter ==
  ASSUME NEW db, Sound(db)
  PROVE  Sound([db EXCEPT !.index = FALSE])
<1>1. Effect(db, DropIndex) = [db EXCEPT !.index = FALSE]
  BY DEF Effect, DropIndex
<1>2. Alike(db, Effect(db, DropIndex))
  BY IndexEffect DEF Alike, Revisions, Sound
<1> QED BY <1>1, <1>2, AlikeIsSound

LEMMA MigrationStarts == MigrationInit => MigrationInv
<1> SUFFICES ASSUME MigrationInit PROVE MigrationInv
  OBVIOUS
<1>1. original \in [DataTables -> SUBSET Row]
  BY DEF MigrationInit
<1>2. Sound(disk)
  BY <1>1, FilesAreSound, IndexIsNoMatter DEF MigrationInit
<1>3. ScriptInv /\ DoneMeansCurrent
  BY DEF MigrationInit, ScriptInv, DoneMeansCurrent
<1> QED BY <1>2, <1>3 DEF MigrationInv, MigrationInit


\* The copies come after all renames and before all drops, each at a count of its own.
LEMMA Counts ==
  ASSUME NEW t \in DataTables
  PROVE  /\ CopyLeaves[t] \in {7, 9, 11, 13} /\ DropLeaves[t] \in 3 .. 6
         /\ \A u \in DataTables : CopyLeaves[u] = CopyLeaves[t] \/ DropLeaves[u] = DropLeaves[t] => u = t
BY DEF CopyLeaves, DropLeaves, DataTables

\* One statement of an upgrade brings a database one statement further.
LEMMA UpgradeStatement ==
  ASSUME NEW db, Sound(db), NEW left \in 1 .. 29, UpTo(db, left),
         NEW st, IsTheStatement(st, left), Executable(db, st)
  PROVE  Sound(Effect(db, st)) /\ UpTo(Effect(db, st), left - 1)
<1> DEFINE new == Effect(db, st)
<1> SUFFICES Sound(new) /\ UpTo(new, left - 1)
  OBVIOUS
<1>1. IsDatabase(db) /\ \A t \in DataTables : t \in KnownTables /\ Old[t] \in KnownTables
  BY DEF Sound, KnownTables
<1>2. "alembic_version" \in KnownTables
  BY DEF KnownTables, VersionTables
<1>3. ASSUME Alike(db, new), left \in {2, 3, 9, 11, 13, 15, 16, 22, 23, 24, 25, 26, 27, 28, 29}
      PROVE  Sound(new) /\ UpTo(new, left - 1)
  <2>1. Sound(new)
    BY <1>3, AlikeIsSound
  <2>2. /\ left - 1 > 20 => Revisions(new) = {}
        /\ left - 1 \in 1 .. 20 => Revisions(new) = {"0001"}
        /\ left - 1 # 0
    BY <1>3 DEF Alike, UpTo
  <2>3. ASSUME NEW t \in DataTables
        PROVE  /\ left - 1 <= CopyLeaves[t] => left <= CopyLeaves[t]
               /\ left - 1 <= DropLeaves[t] => left <= DropLeaves[t]
    BY <1>3, Counts
  <2>4. ASSUME NEW t \in DataTables
        PROVE  /\ left - 1 <= CopyLeaves[t] => RowsOf(new, Old[t]) \subseteq RowsOf(new, t)
               /\ left - 1 <= DropLeaves[t] => Old[t] \notin Present(new)
    BY <1>3, <2>3 DEF Alike, UpTo
  <2> QED BY <2>1, <2>2, <2>4 DEF UpTo
<1>4. CASE \/ /\ \E t \in DataTables \cup VersionTables, layout \in {"v1", "v2", "version"} :
                   st = Create(t, layout)
              /\ left \in {9, 11, 13, 15, 22, 24, 25, 26, 28, 29}
           \/ st \in {CreateIndex, DropIndex} /\ left \in {2, 16, 23}
           \/ st = Insert("schema_version", "1") /\ left = 27
           \/ st = Drop("schema_version") /\ left = 3
  BY <1>1, <1>3, <1>4, NeutralStatement
<1>5. CASE st = Insert("alembic_version", "0001") /\ left = 21
  <2>1. OnlyTable(db, new, "alembic_version", Revisions(db) \cup {"0001"})
    BY <1>1, <1>2, <1>5, InsertEffect DEF Revisions
  <2>2. /\ IsDatabase(new) /\ Revisions(new) = Revisions(db) \cup {"0001"}
        /\ \A t \in DataTables :
             RowsOf(new, t) = RowsOf(db, t) /\ RowsOf(new, Old[t]) = RowsOf(db, Old[t])
    BY <2>1, RevisionRecorded
  <2> HIDE DEF new
  <2>3. Revisions(new) = {"0001"}
    BY <1>5, <2>2 DEF UpTo
  <2>4. Sound(new)
    BY <2>2, <2>3 DEF Sound
  <2>5. \A t \in DataTables : ~(20 <= CopyLeaves[t]) /\ ~(20 <= DropLeaves[t])
    BY Counts
  <2> QED BY <1>5, <2>3, <2>4, <2>5 DEF UpTo
<1>6. ASSUME NEW t \in DataTables, st = Rename(t, Old[t]), left \in 17 .. 20
      PROVE  Sound(new) /\ UpTo(new, left - 1)
  <2>1. Old[t] # t /\ t # "alembic_version" /\ Old[t] # "alembic_version"
    BY OldNames DEF VersionTables
  <2>2. /\ IsDatabase(new) /\ Old[t] \notin Present(db)
        /\ \A u : RowsOf(new, u) = IF u = t THEN {} ELSE IF u = Old[t] THEN RowsOf(db, t)
                                   ELSE RowsOf(db, u)
    BY <1>1, <1>6, <2>1, RenameEffect
  <2>3. Revisions(new) = {"0001"}
    BY <1>6, <2>1, <2>2 DEF UpTo, Revisions
  <2>4. RowsOf(db, Old[t]) = {}
    BY <2>2 DEF RowsOf
  <2> HIDE DEF new
  <2>5. ASSUME NEW u \in DataTables
        PROVE  RowsOf(new, u) \cup RowsOf(new, Old[u]) = original[u]
    <3>1. RowsOf(db, u) \cup RowsOf(db, Old[u]) = original[u]
      BY DEF Sound
    <3>2. Old[u] # t /\ u # Old[t] /\ (Old[u] = Old[t] => u = t)
      BY OldNames
    <3> QED BY <2>1, <2>2, <2>4, <3>1, <3>2
  <2>6. Sound(new)
    BY <2>2, <2>3, <2>5 DEF Sound
  <2>7. \A u \in DataTables : ~(left - 1 <= CopyLeaves[u]) /\ ~(left - 1 <= DropLeaves[u])
    BY <1>6, Counts
  <2>8. left - 1 \in 1 .. 20 /\ ~(left - 1 > 20) /\ left - 1 # 0
    BY <1>6
  <2> QED BY <2>3, <2>6, <2>7, <2>8 DEF UpTo
<1>7. ASSUME NEW t \in DataTables, st = Copy(t, Old[t]), left = CopyLeaves[t] + 1
      PROVE  Sound(new) /\ UpTo(new, left - 1)
  <2>1. OnlyTable(db, new, t, RowsOf(db, t) \cup RowsOf(db, Old[t])) /\ t \in Present(db)
    BY <1>1, <1>7, CopyEffect
  <2>2. t # "alembic_version"
    BY OldNames DEF VersionTables
  <2> HIDE DEF new
  <2>3. left \in {8, 10, 12, 14}
    BY <1>7, Counts
  <2>4. Revisions(db) = {"0001"} /\ Revisions(new) = {"0001"}
    BY <2>1, <2>2, <2>3 DEF UpTo, Revisions, OnlyTable
  <2>5. ASSUME NEW u \in DataTables
        PROVE  /\ RowsOf(new, u) = IF u = t THEN RowsOf(db, u) \cup RowsOf(db, Old[u])
                                   ELSE RowsOf(db, u)
               /\ RowsOf(new, Old[u]) = RowsOf(db, Old[u])
    <3>1. Old[u] # t
      BY OldNames
    <3> QED BY <2>1, <3>1 DEF OnlyTable
  <2>6. Sound(new)
    <3>1. \A u \in DataTables : RowsOf(new, u) \cup RowsOf(new, Old[u]) = original[u]
      BY <2>5 DEF Sound
    <3> QED BY <2>1, <2>4, <3>1 DEF Sound, OnlyTable
  <2>7. ASSUME NEW u \in DataTables, left - 1 <= CopyLeaves[u]
        PROVE  RowsOf(new, Old[u]) \subseteq RowsOf(new, u)
    <3>1. u = t \/ left <= CopyLeaves[u]
      BY <1>7, <2>3, <2>7, Counts
    <3> QED BY <2>5, <3>1 DEF UpTo
  <2>8. \A u \in DataTables : ~(left - 1 <= DropLeaves[u])
    BY <2>3, Counts
  <2>9. left - 1 \in 1 .. 20 /\ ~(left - 1 > 20) /\ left - 1 # 0
    BY <2>3
  <2> QED BY <2>4, <2>6, <2>7, <2>8, <2>9 DEF UpTo
<1>8. ASSUME NEW t \in DataTables, st = Drop(Old[t]), left = DropLeaves[t] + 1
      PROVE  Sound(new) /\ UpTo(new, left - 1)
  <2>1. OnlyTable(db, new, Old[t], {}) /\ Old[t] \notin Present(new)
    BY <1>1, <1>8, DropEffect
  <2>2. Old[t] # "alembic_version"
    BY OldNames DEF VersionTables
  <2> HIDE DEF new
  <2>3. left \in 4 .. 7
    BY <1>8, Counts
  <2>4. Revisions(db) = {"0001"} /\ Revisions(new) = {"0001"}
    BY <2>1, <2>2, <2>3 DEF UpTo, Revisions, OnlyTable
  <2>5. ASSUME NEW u \in DataTables
        PROVE  /\ RowsOf(new, u) = RowsOf(db, u)
               /\ RowsOf(new, Old[u]) = IF u = t THEN {} ELSE RowsOf(db, Old[u])
               /\ u # t => (Old[u] \in Present(new) <=> Old[u] \in Present(db))
               /\ RowsOf(db, Old[u]) \subseteq RowsOf(db, u)
    <3>1. u # Old[t] /\ (Old[u] = Old[t] => u = t)
      BY OldNames
    <3>2. left <= CopyLeaves[u]
      BY <2>3, Counts
    <3> QED BY <2>1, <3>1, <3>2 DEF OnlyTable, UpTo
  <2>6. Sound(new)
    <3>1. \A u \in DataTables : RowsOf(new, u) \cup RowsOf(new, Old[u]) = original[u]
      BY <2>5 DEF Sound
    <3> QED BY <2>1, <2>4, <3>1 DEF Sound, OnlyTable
  <2>7. ASSUME NEW u \in DataTables, left - 1 <= DropLeaves[u]
        PROVE  Old[u] \notin Present(new)
    <3>1. u = t \/ left <= DropLeaves[u]
      BY <1>8, <2>3, <2>7, Counts
    <3> QED BY <2>1, <2>5, <3>1 DEF UpTo
  <2>8. \A u \in DataTables : RowsOf(new, Old[u]) \subseteq RowsOf(new, u)
    BY <2>5
  <2>9. left - 1 \in 1 .. 20 /\ ~(left - 1 > 20) /\ left - 1 # 0
    BY <2>3
  <2> QED BY <2>4, <2>6, <2>7, <2>8, <2>9 DEF UpTo
<1>9. CASE st = Update("alembic_version", "0002") /\ left = 1
  <2>1. OnlyTable(db, new, "alembic_version", {"0002"})
    BY <1>1, <1>2, <1>9, UpdateEffect
  <2>2. /\ IsDatabase(new) /\ Revisions(new) = {"0002"}
        /\ \A t \in DataTables :
             /\ RowsOf(new, t) = RowsOf(db, t) /\ RowsOf(new, Old[t]) = RowsOf(db, Old[t])
             /\ Old[t] \in Present(new) <=> Old[t] \in Present(db)
    BY <2>1, RevisionRecorded
  <2> HIDE DEF new
  <2>3. ASSUME NEW t \in DataTables
        PROVE  Old[t] \notin Present(new) /\ RowsOf(new, Old[t]) \subseteq RowsOf(new, t)
    <3>1. 1 <= DropLeaves[t] /\ 1 <= CopyLeaves[t]
      BY Counts
    <3> QED BY <1>9, <2>2, <3>1 DEF UpTo
  <2>4. Sound(new)
    BY <2>2, <2>3 DEF Sound
  <2>5. left - 1 = 0
    BY <1>9
  <2> QED BY <2>2, <2>3, <2>4, <2>5 DEF UpTo
<1> HIDE DEF new
<1> QED BY <1>4, <1>5, <1>6, <1>7, <1>8, <1>9 DEF IsTheStatement


\* The stamp of a legacy database: alembic's table, then the revision.
LEMMA StampStatement ==
  ASSUME Sound(work), Stamping, script # <<>>, Executable(work, Head(script)),
         work' = Effect(work, Head(script)), script' = Tail(script), original' = original
  PROVE  Sound(work)' /\ Stamping'
<1> DEFINE new == Effect(work, Head(script))
<1>1. IsDatabase(work)
  BY DEF Sound
<1>2. PICK revision \in {"0001", "0002"} :
        \/ /\ script = << Insert("alembic_version", revision) >> /\ Revisions(work) = {}
        \/ /\ script = << Create("alembic_version", "version"), Insert("alembic_version", revision) >>
           /\ "alembic_version" \notin Present(work)
  BY DEF Stamping
<1>3. "alembic_version" \in KnownTables /\ "alembic_version" \in DataTables \cup VersionTables
  BY DEF KnownTables, VersionTables
<1>4. CASE script = << Insert("alembic_version", revision) >> /\ Revisions(work) = {}
  <2>1. Head(script) = Insert("alembic_version", revision) /\ Tail(script) = <<>>
    BY <1>4
  <2>2. OnlyTable(work, new, "alembic_version", Revisions(work) \cup {revision})
    BY <1>1, <1>3, <2>1, InsertEffect DEF Revisions
  <2>3. /\ IsDatabase(new) /\ Revisions(new) = {revision}
        /\ \A t \in DataTables :
             /\ RowsOf(new, t) = RowsOf(work, t) /\ RowsOf(new, Old[t]) = RowsOf(work, Old[t])
             /\ Old[t] \in Present(new) <=> Old[t] \in Present(work)
    BY <1>4, <2>2, RevisionRecorded
  <2>4. \A t \in DataTables : Old[t] \notin Present(work)
    BY <1>4 DEF Sound
  <2> HIDE DEF new
  <2>5. Sound(new)
    BY <2>3, <2>4 DEF Sound
  <2>6. Sound(work)'
    BY <2>5 DEF Sound, new
  <2> QED BY <2>1, <2>6 DEF Stamping
<1>5. CASE /\ script = << Create("alembic_version", "version"), Insert("alembic_version", revision) >>
           /\ "alembic_version" \notin Present(work)
  <2>1. /\ Head(script) = Create("alembic_version", "version")
        /\ Tail(script) = << Insert("alembic_version", revision) >>
    BY <1>5
  <2>2. Alike(work, new)
    BY <1>1, <1>3, <2>1, NeutralStatement
  <2>3. Revisions(work) = {}
    BY <1>5 DEF Revisions, RowsOf
  <2> HIDE DEF new
  <2>4. Sound(new) /\ Revisions(new) = {}
    BY <2>2, <2>3, AlikeIsSound DEF Alike
  <2>5. Sound(work)' /\ Revisions(work)' = {}
    BY <2>4 DEF Sound, Revisions, new
  <2> QED BY <2>1, <2>5 DEF Stamping
<1> QED BY <1>2, <1>4, <1>5

\* The removal of the old version table after validation.
LEMMA CleanStatement ==
  ASSUME Sound(work), Cleaning, script # <<>>, Executable(work, Head(script)),
         work' = Effect(work, Head(script)), script' = Tail(script), original' = original
  PROVE  Sound(work)' /\ Cleaning'
<1> DEFINE new == Without(work, "schema_version")
<1>1. script = << Drop("schema_version") >>
  BY DEF Cleaning
<1>2. Head(script) = Drop("schema_version") /\ Tail(script) = <<>>
  BY <1>1
<1>3. work' = new
  BY <1>2 DEF Effect, Drop
<1>4. Alike(work, Effect(work, Head(script)))
  BY <1>2, NeutralStatement DEF Sound
<1>5. /\ Present(new) = Present(work) \ {"schema_version"} /\ new.index = work.index
      /\ \A u : RowsOf(new, u) = IF u = "schema_version" THEN {} ELSE RowsOf(work, u)
      /\ \A u \in Present(work) \ {"schema_version"} : new.tables[u] = work.tables[u]
  BY WithoutEffect DEF Sound
<1> HIDE DEF new
<1>6. Sound(new) /\ Revisions(new) = {"0002"}
  <2>1. new = Effect(work, Head(script))
    BY <1>3
  <2> QED BY <1>4, <2>1, AlikeIsSound DEF Alike, Cleaning
<1>7. Sound(work)' /\ Revisions(work)' = {"0002"}
  BY <1>3, <1>6 DEF Sound, Revisions
<1>8. \A t \in DataTables : t # "schema_version"
  BY OldNames DEF VersionTables
<1>9. HasLayout(new, "v2")
  <2>1. {"sensor_instance", "sample"} \subseteq DataTables
    BY DEF DataTables
  <2> QED BY <1>5, <1>8, <2>1 DEF Cleaning, Valid, HasLayout
<1>10. ForeignKeysHold(new)
  <2>1. \A key \in References : key[1] # "schema_version" /\ key[2] # "schema_version"
    BY DEF References
  <2> QED BY <1>5, <2>1 DEF Cleaning, Valid, ForeignKeysHold
<1>11. Valid(new) /\ "schema_version" \notin Present(new)
  BY <1>5, <1>9, <1>10 DEF Cleaning, Valid
<1> QED BY <1>2, <1>3, <1>7, <1>11 DEF Cleaning

\* A statement, whatever script it belongs to.
LEMMA ExecuteKeeps ==
  ASSUME MigrationInv, Execute
  PROVE  MigrationInv'
<1> DEFINE st == Head(script)
<1>1. /\ script # <<>> /\ Executable(work, st) /\ work' = Effect(work, st) /\ script' = Tail(script)
      /\ UNCHANGED <<phase, original>> /\ disk' \in {disk, work'}
  BY DEF Execute
<1>2. phase \in {"stamp", "migrate", "clean"}
  BY <1>1 DEF MigrationInv, ScriptInv
<1>3. Sound(work)' /\ ScriptInv'
  <2>1. CASE phase = "stamp"
    <3>1. Sound(work)' /\ Stamping'
      BY <1>1, <2>1, StampStatement DEF MigrationInv, ScriptInv
    <3> QED BY <1>1, <2>1, <3>1 DEF MigrationInv, ScriptInv
  <2>2. CASE phase = "migrate"
    <3>1. Remainder(script) /\ UpTo(work, Len(script))
      BY <2>2 DEF MigrationInv, ScriptInv, Migrating
    <3>2. /\ Len(script) \in 1 .. 29 /\ st = Statement(Len(script))
          /\ Remainder(script') /\ Len(script') = Len(script) - 1
      BY <1>1, <3>1, NextStatement
    <3>3. Sound(Effect(work, st)) /\ UpTo(Effect(work, st), Len(script) - 1)
      BY <1>1, <3>1, <3>2, StatementsByCount, UpgradeStatement DEF MigrationInv
    <3> HIDE DEF st
    <3>4. Sound(work)'
      BY <1>1, <3>3 DEF Sound
    <3>5. Migrating'
      BY <1>1, <3>2, <3>3 DEF Migrating
    <3> QED BY <1>1, <2>2, <3>4, <3>5 DEF MigrationInv, ScriptInv
  <2>3. CASE phase = "clean"
    <3>1. Sound(work)' /\ Cleaning'
      BY <1>1, <2>3, CleanStatement DEF MigrationInv, ScriptInv
    <3> QED BY <1>1, <2>3, <3>1 DEF MigrationInv, ScriptInv
  <2> QED BY <1>2, <2>1, <2>2, <2>3
<1>4. Sound(disk)'
  BY <1>1, <1>3 DEF MigrationInv, Sound
<1>5. DoneMeansCurrent'
  BY <1>1, <1>2 DEF DoneMeansCurrent
<1> QED BY <1>3, <1>4, <1>5 DEF MigrationInv

\* command.upgrade() plans what the recorded revision asks for.
LEMMA PlanKeeps ==
  ASSUME MigrationInv, Plan
  PROVE  MigrationInv'
<1>1. /\ UNCHANGED <<disk, work, original>> /\ phase' = "migrate"
      /\ script' = UpgradeScript(work)
  BY DEF Plan
<1>2. Sound(work)
  BY DEF MigrationInv
<1>3. ASSUME NEW t \in DataTables, NEW n \in {20, 28, 29}
      PROVE  ~(n <= CopyLeaves[t]) /\ ~(n <= DropLeaves[t])
  BY Counts
<1>4. Remainder(script') /\ UpTo(work, Len(script'))
  <2>1. CASE Revisions(work) = {}
    <3>1. Remainder(script') /\ Len(script') \in {28, 29}
      BY <1>1, <2>1, PlansAreRemainders DEF UpgradeScript, VersionTable
    <3>2. \A n \in {28, 29} : UpTo(work, n)
      BY <1>3, <2>1 DEF UpTo
    <3> QED BY <3>1, <3>2
  <2>2. CASE Revisions(work) = {"0001"}
    <3>1. Remainder(script') /\ Len(script') = 20
      BY <1>1, <2>2, PlansAreRemainders DEF UpgradeScript
    <3>2. UpTo(work, 20)
      BY <1>3, <2>2 DEF UpTo
    <3> QED BY <3>1, <3>2
  <2>3. CASE Revisions(work) = {"0002"}
    <3>1. script' = <<>> /\ Remainder(<<>>) /\ Len(<<>>) = 0
      BY <1>1, <2>3, PlansAreRemainders DEF UpgradeScript
    <3>2. \A t \in DataTables : Old[t] \notin Present(work) /\ RowsOf(work, Old[t]) = {}
      BY <1>2, <2>3 DEF Sound, RowsOf
    <3>3. UpTo(work, 0)
      BY <2>3, <3>2 DEF UpTo
    <3> QED BY <3>1, <3>3
  <2> QED BY <1>2, <2>1, <2>2, <2>3 DEF Sound
<1>5. ScriptInv'
  <2>1. Migrating'
    BY <1>1, <1>4 DEF Migrating
  <2> QED BY <1>1, <2>1 DEF ScriptInv
<1>6. Sound(disk)' /\ Sound(work)' /\ DoneMeansCurrent'
  BY <1>1 DEF MigrationInv, Sound, DoneMeansCurrent
<1> QED BY <1>5, <1>6 DEF MigrationInv

\* What is done is done: both databases hold what a sound one held.
LEMMA SoundStays ==
  ASSUME NEW db, Sound(db), original' = original
  PROVE  /\ disk' = db => Sound(disk)'
         /\ work' = db => Sound(work)'
BY DEF Sound

\* Two statements, one after the other.
LEMMA TwoStatements == ASSUME NEW a, NEW b PROVE << a >> \o << b >> = << a, b >>
<1> DEFINE S == {a, b}
           s == << a >>
           t == << b >>
           st == s \o t
<1>1. s \in Seq(S) /\ t \in Seq(S) /\ Len(s) = 1 /\ Len(t) = 1 /\ s[1] = a /\ t[1] = b
  OBVIOUS
<1> HIDE DEF s, t, S
<1>2. /\ st \in Seq(S) /\ Len(st) = 2
      /\ \A i \in 1 .. 2 : st[i] = IF i <= 1 THEN s[i] ELSE t[i - 1]
  BY <1>1, ConcatProperties
<1> HIDE DEF st
<1>3. st \in Seq(S) /\ Len(st) = 2 /\ st[1] = a /\ st[2] = b
  BY <1>1, <1>2
<1>4. st = << a, b >>
  BY <1>3
<1> QED BY <1>4 DEF st, s, t

\* A legacy database is stamped: none but one without alembic's table.
LEMMA InspectKeeps ==
  ASSUME MigrationInv, InspectLegacy
  PROVE  MigrationInv'
<1>1. /\ UNCHANGED <<disk, work, original>> /\ phase' = "stamp"
      /\ "alembic_version" \notin Present(work)
      /\ script' = VersionTable(work) \o << Insert("alembic_version", LegacyRevision(work)) >>
  BY DEF InspectLegacy, IsLegacy
<1>2. LegacyRevision(work) \in {"0001", "0002"}
  BY DEF LegacyRevision
<1>3. script' = << Create("alembic_version", "version"),
                   Insert("alembic_version", LegacyRevision(work)) >>
  BY <1>1, TwoStatements DEF VersionTable
<1>4. Stamping'
  BY <1>1, <1>2, <1>3 DEF Stamping
<1>5. ScriptInv'
  BY <1>1, <1>4 DEF ScriptInv
<1>6. Sound(disk)' /\ Sound(work)' /\ DoneMeansCurrent'
  BY <1>1 DEF MigrationInv, Sound, DoneMeansCurrent
<1> QED BY <1>5, <1>6 DEF MigrationInv

\* Whatever undoes the transaction leaves what is on disk, which is sound.
LEMMA UndoKeeps ==
  ASSUME MigrationInv, Raises \/ ValidationFails \/ Crash
  PROVE  MigrationInv'
<1>1. /\ disk' = disk /\ work' = disk /\ original' = original
      /\ phase' \in {"start", "failed"} /\ script' = <<>>
  BY DEF Raises, ValidationFails, Crash, MigrationInv, ScriptInv
<1>2. Sound(disk)' /\ Sound(work)'
  BY <1>1, SoundStays DEF MigrationInv
<1>3. ScriptInv' /\ DoneMeansCurrent'
  BY <1>1 DEF ScriptInv, DoneMeansCurrent
<1> QED BY <1>2, <1>3 DEF MigrationInv

\* The steps that commit what the connection sees, or leave the databases alone.
LEMMA OtherStepKeeps ==
  ASSUME MigrationInv,
         \/ RefuseLegacy \/ InspectOther \/ CommitStamp \/ EndUpgrade \/ Validate \/ Restart
  PROVE  MigrationInv'
<1>1. work' = work /\ original' = original /\ disk' \in {disk, work}
  BY DEF RefuseLegacy, InspectOther, CommitStamp, Commits, EndUpgrade, Validate, Restart
<1>2. Sound(disk)' /\ Sound(work)'
  BY <1>1, SoundStays DEF MigrationInv
<1>3. DoneMeansCurrent'
  BY DEF RefuseLegacy, InspectOther, CommitStamp, EndUpgrade, Validate, Restart, DoneMeansCurrent
<1>4. ScriptInv'
  <2>1. CASE EndUpgrade
    <3>1. phase = "migrate" /\ script = <<>> /\ script' = <<>> /\ phase' = "validate"
      BY <2>1 DEF EndUpgrade
    <3>2. Revisions(work) = {"0002"}
      <4>1. UpTo(work, Len(script)) /\ Len(script) = 0
        BY <3>1 DEF MigrationInv, ScriptInv, Migrating
      <4> QED BY <4>1 DEF UpTo
    <3> QED BY <1>1, <3>1, <3>2 DEF ScriptInv, Revisions
  <2>2. CASE Validate
    <3>1. /\ phase' = "clean" /\ Valid(work) /\ Revisions(work) = {"0002"}
          /\ \/ script' = << Drop("schema_version") >>
             \/ script' = <<>> /\ "schema_version" \notin Present(work)
      BY <2>2 DEF Validate, MigrationInv, ScriptInv
    <3>2. Cleaning'
      BY <1>1, <3>1 DEF Cleaning
    <3> QED BY <3>1, <3>2 DEF ScriptInv
  <2>3. CASE RefuseLegacy \/ InspectOther \/ CommitStamp \/ Restart
    BY <2>3 DEF RefuseLegacy, InspectOther, CommitStamp, Restart, MigrationInv, ScriptInv
  <2> QED BY <2>1, <2>2, <2>3
<1> QED BY <1>2, <1>3, <1>4 DEF MigrationInv

\* upgrade_database() returns: the revision says that nothing is set aside any more.
LEMMA CommitUpgradeKeeps ==
  ASSUME MigrationInv, CommitUpgrade
  PROVE  MigrationInv'
<1>1. /\ phase = "clean" /\ script = <<>> /\ disk' = work /\ work' = work /\ phase' = "done"
      /\ original' = original /\ script' = <<>>
  BY DEF CommitUpgrade, Commits
<1>2. Sound(work) /\ Valid(work) /\ Revisions(work) = {"0002"} /\ "schema_version" \notin Present(work)
  BY <1>1 DEF MigrationInv, ScriptInv, Cleaning
<1>3. \A t \in DataTables : Old[t] \notin Present(work) /\ RowsOf(work, t) = original[t]
  BY <1>2 DEF Sound, RowsOf
<1>4. Present(work) = DataTables \cup {"alembic_version"}
  <2>1. "alembic_version" \in Present(work)
    BY <1>2 DEF Revisions, RowsOf
  <2> QED BY <1>2, <1>3, <2>1 DEF Valid, HasLayout, Sound, IsDatabase, KnownTables, VersionTables
<1>5. DoneMeansCurrent'
  BY <1>1, <1>2, <1>3, <1>4 DEF DoneMeansCurrent
<1>6. Sound(disk)' /\ Sound(work)' /\ ScriptInv'
  BY <1>1, <1>2, SoundStays DEF ScriptInv
<1> QED BY <1>5, <1>6 DEF MigrationInv

LEMMA MigrationStep == MigrationInv /\ [MigrationNext]_migrationVars => MigrationInv'
<1> SUFFICES ASSUME MigrationInv, [MigrationNext]_migrationVars PROVE MigrationInv'
  OBVIOUS
<1>1. CASE Execute \/ Plan \/ InspectLegacy \/ CommitUpgrade
  BY <1>1, ExecuteKeeps, PlanKeeps, InspectKeeps, CommitUpgradeKeeps
<1>2. CASE Raises \/ ValidationFails \/ Crash
  BY <1>2, UndoKeeps
<1>3. CASE RefuseLegacy \/ InspectOther \/ CommitStamp \/ EndUpgrade \/ Validate \/ Restart
  BY <1>3, OtherStepKeeps
<1>4. CASE UNCHANGED migrationVars
  BY <1>4 DEF migrationVars, MigrationInv, Sound, ScriptInv, Stamping, Migrating, Cleaning,
              DoneMeansCurrent
<1> QED BY <1>1, <1>2, <1>3, <1>4 DEF MigrationNext, Progress

-----------------------------------------------------------------------------
(* What follows from it. *)

\* Both databases hold the original rows, in layouts that fit the revision they
\* record, whatever statement of upgrade_database() is next.
THEOREM MigrationCorrect == MigrationSpec => []MigrationInv
<1>1. MigrationInit => MigrationInv
  BY MigrationStarts
<1>2. MigrationInv /\ [MigrationNext]_migrationVars => MigrationInv'
  BY MigrationStep
<1> QED BY <1>1, <1>2, PTL DEF MigrationSpec

\* No crash and no error of the database, at any statement and any number of times,
\* takes a row from the disk.
THEOREM RowsAreKept == MigrationSpec => []RowsSurvive
<1>1. MigrationInv => RowsSurvive
  BY DEF MigrationInv, Sound, RowsSurvive
<1> QED BY <1>1, MigrationCorrect, PTL

\* When upgrade_database() returns, the file has the current tables, the revision
\* 0002 and exactly the rows it had.
THEOREM DoneIsCurrent == MigrationSpec => []DoneMeansCurrent
<1>1. MigrationInv => DoneMeansCurrent
  BY DEF MigrationInv
<1> QED BY <1>1, MigrationCorrect, PTL

-----------------------------------------------------------------------------
(* A file that a crash has torn stays torn. *)

\* When 0002 has begun, the first thing it did was to set measurement aside.
RenamedFirst(db) ==
  Revisions(db) = {"0001"} => HasLayout(db, "v1") \/ Old["measurement"] \in Present(db)

\* A database is stamped with the revision of its layout.
StampFits ==
  \/ HasLayout(work, "v1")
  \/ script = <<>> /\ Revisions(work) = {"0002"}
  \/ script # <<>> /\ script[Len(script)] = Insert("alembic_version", "0002")

\* What is committed, and when: the statements of a script up to the first that changes
\* rows are committed one at a time, the others with the end.
CommitInv ==
  /\ ~inTransaction => work = disk
  /\ inTransaction => phase \in {"stamp", "migrate", "validate", "clean"}
  /\ RenamedFirst(disk)
  /\ phase = "stamp" => StampFits
  /\ phase = "migrate" /\ ~inTransaction =>
       /\ Len(script) \in {0} \cup 14 .. 20 \cup 27 .. 29
       /\ Len(script) \in 14 .. 19 => Old["measurement"] \in Present(work)

\* The process works on a torn file, and has not got beyond the statement that
\* cannot be executed.
OnTornFile ==
  /\ Torn(disk) /\ work = disk /\ ~inTransaction
  /\ \/ phase \in {"start", "upgrade", "failed"}
     \/ phase = "migrate" /\ script = UpgradeScript(work)

\* The revisions that the files found in the field record.
LEMMA RevisionsAtFirst ==
  ASSUME MigrationInit
  PROVE  Revisions(disk) \in {{}, {"0002"}}
<1>1. \A t \in DataTables : t # "alembic_version"
  BY OldNames DEF VersionTables
<1>2. \A layout, version, rows : Revisions(LegacyDatabase(layout, version, rows)) = {}
  BY <1>1 DEF LegacyDatabase, Revisions, RowsOf, Present
<1>3. \A rows : Revisions(CurrentDatabase(rows)) = {"0002"}
  BY <1>1 DEF CurrentDatabase, Revisions, RowsOf, Present, Table
<1>4. Revisions(EmptyDatabase) = {}
  BY DEF EmptyDatabase, Revisions, RowsOf, Present
<1>5. \A layout, version, rows :
        Revisions([LegacyDatabase(layout, version, rows) EXCEPT !.index = FALSE]) = {}
  BY <1>1 DEF LegacyDatabase, Revisions, RowsOf, Present
<1>6. \A rows : Revisions([CurrentDatabase(rows) EXCEPT !.index = FALSE]) = {"0002"}
  BY <1>1 DEF CurrentDatabase, Revisions, RowsOf, Present, Table
<1> QED BY <1>2, <1>3, <1>4, <1>5, <1>6 DEF MigrationInit

\* What was renamed first on a database was so wherever it is copied.
LEMMA RenamedFirstStays ==
  ASSUME NEW db, RenamedFirst(db), disk' = db
  PROVE  RenamedFirst(disk)'
<1>1. RenamedFirst(disk')
  OBVIOUS
<1> QED BY <1>1 DEF RenamedFirst, Revisions, RowsOf, HasLayout, Present

LEMMA CommitStarts == MigrationInit => CommitInv
<1> SUFFICES ASSUME MigrationInit PROVE CommitInv
  OBVIOUS
<1>1. RenamedFirst(disk)
  BY RevisionsAtFirst DEF RenamedFirst
<1> QED BY <1>1 DEF CommitInv, MigrationInit

\* The statements that the invariant names.
LEMMA NamedStatements ==
  /\ Statement(28) = Create("schema_version", "version")
  /\ Statement(20) = Rename("measurement", Old["measurement"])
  /\ ChangesRows(Statement(27)) /\ ChangesRows(Statement(14))
BY DEF Statement, Upgrade0001, Upgrade0002, ChangesRows, Insert, Copy

\* Recording a revision leaves the layout of the data tables.
LEMMA LayoutIsKept ==
  ASSUME NEW db, IsDatabase(db), NEW l, HasLayout(db, l), NEW layout, NEW rows
  PROVE  HasLayout(With(db, "alembic_version", layout, rows), l)
<1> DEFINE new == With(db, "alembic_version", layout, rows)
<1>1. new.tables = [u \in Present(db) \cup {"alembic_version"} |->
                      IF u = "alembic_version" THEN [layout |-> layout, rows |-> rows]
                                               ELSE db.tables[u]]
  BY DEF With, IsDatabase
<1>2. Present(new) = Present(db) \cup {"alembic_version"}
  BY <1>1 DEF Present
<1>3. {"sensor_instance", "sample"} \subseteq Present(db)
  BY DEF HasLayout, DataTables
<1> HIDE DEF new
<1> QED BY <1>1, <1>2, <1>3 DEF HasLayout, new

\* Between the renames and the first copy, measurement stays set aside.
LEMMA SetAsideStays ==
  ASSUME NEW db, IsDatabase(db), NEW left \in 15 .. 20, NEW st, IsTheStatement(st, left),
         Executable(db, st),
         left = 20 => st = Rename("measurement", Old["measurement"]),
         left \in 15 .. 19 => Old["measurement"] \in Present(db)
  PROVE  Old["measurement"] \in Present(Effect(db, st))
<1>1. "measurement" \in DataTables
  BY DEF DataTables
<1>2. \A t \in DataTables : Old[t] \in KnownTables /\ Old[t] # t /\ Old["measurement"] # t
  BY <1>1, OldNames DEF KnownTables
<1>3. CASE left = 20
  BY <1>1, <1>2, <1>3, RenameEffect
<1>4. CASE left \in 15 .. 19
  <2>1. \/ \E t \in DataTables \cup VersionTables, layout \in {"v1", "v2", "version"} :
             st = Create(t, layout)
        \/ st \in {CreateIndex, DropIndex}
        \/ \E t \in DataTables : st = Rename(t, Old[t])
    BY <1>4, Counts DEF IsTheStatement
  <2>2. ASSUME NEW t \in DataTables \cup VersionTables, NEW layout, st = Create(t, layout)
        PROVE  Old["measurement"] \in Present(Effect(db, st))
    BY <1>1, <1>4, <2>2, CreateEffect, OldNames DEF KnownTables, OnlyTable
  <2>3. CASE st \in {CreateIndex, DropIndex}
    BY <1>4, <2>3, IndexEffect
  <2>4. ASSUME NEW t \in DataTables, st = Rename(t, Old[t])
        PROVE  Old["measurement"] \in Present(Effect(db, st))
    BY <1>2, <1>4, <2>4, RenameEffect
  <2> QED BY <2>1, <2>2, <2>3, <2>4
<1> QED BY <1>3, <1>4

\* A statement of an upgrade that is committed by itself.
LEMMA StatementCommitted ==
  ASSUME MigrationInv, CommitInv, phase = "migrate", Execute, ~inTransaction'
  PROVE  /\ RenamedFirst(work)'
         /\ Len(script') \in {0} \cup 14 .. 20 \cup 27 .. 29
         /\ Len(script') \in 14 .. 19 => Old["measurement"] \in Present(work')
<1> DEFINE st == Head(script)
           left == Len(script)
<1>1. /\ script # <<>> /\ Executable(work, st) /\ work' = Effect(work, st) /\ script' = Tail(script)
      /\ ~inTransaction /\ ~ChangesRows(st)
  BY DEF Execute
<1>2. Remainder(script) /\ UpTo(work, left) /\ Sound(work)
  BY DEF MigrationInv, ScriptInv, Migrating
<1>3. left \in 1 .. 29 /\ st = Statement(left) /\ Len(script') = left - 1
  BY <1>1, <1>2, NextStatement
<1>4. /\ left \in {0} \cup 14 .. 20 \cup 27 .. 29
      /\ left \in 14 .. 19 => Old["measurement"] \in Present(work)
  BY <1>1 DEF CommitInv
<1>5. left # 27 /\ left # 14
  BY <1>1, <1>3, NamedStatements
<1>6. IsTheStatement(st, left)
  BY <1>3, StatementsByCount
<1> HIDE DEF st, left
<1>7. UpTo(work', left - 1)
  BY <1>1, <1>2, <1>3, <1>6, UpgradeStatement
<1>8. CASE left \in {28, 29}
  <2>1. Revisions(work') = {}
    BY <1>7, <1>8 DEF UpTo
  <2> QED BY <1>3, <1>8, <2>1 DEF RenamedFirst, Revisions
<1>9. CASE left \in 15 .. 20
  <2>1. left = 20 => st = Rename("measurement", Old["measurement"])
    BY <1>3, NamedStatements
  <2>2. left \in 15 .. 19 => Old["measurement"] \in Present(work)
    BY <1>4
  <2>3. Old["measurement"] \in Present(work')
    BY <1>1, <1>2, <1>6, <1>9, <2>1, <2>2, SetAsideStays DEF Sound
  <2> QED BY <1>3, <1>9, <2>3 DEF RenamedFirst, Present
<1>10. left \in {28, 29} \cup 15 .. 20
  BY <1>3, <1>4, <1>5
<1> QED BY <1>8, <1>9, <1>10

\* A statement of the stamp.
LEMMA StampCommitted ==
  ASSUME MigrationInv, CommitInv, phase = "stamp", Execute
  PROVE  StampFits' /\ (~inTransaction' => RenamedFirst(work)')
<1>1. /\ script # <<>> /\ Executable(work, Head(script)) /\ work' = Effect(work, Head(script))
      /\ script' = Tail(script) /\ inTransaction' = (inTransaction \/ ChangesRows(Head(script)))
  BY DEF Execute
<1>2. IsDatabase(work) /\ StampFits
  BY DEF MigrationInv, Sound, CommitInv
<1>3. "alembic_version" \in KnownTables
  BY DEF KnownTables, VersionTables
<1>4. PICK revision \in {"0001", "0002"} :
        \/ /\ script = << Insert("alembic_version", revision) >> /\ Revisions(work) = {}
        \/ /\ script = << Create("alembic_version", "version"), Insert("alembic_version", revision) >>
           /\ "alembic_version" \notin Present(work)
  BY <1>1 DEF MigrationInv, ScriptInv, Stamping
<1>5. CASE script = << Insert("alembic_version", revision) >> /\ Revisions(work) = {}
  <2>1. /\ Head(script) = Insert("alembic_version", revision) /\ script' = <<>>
        /\ script[Len(script)] = Head(script)
    BY <1>1, <1>5
  <2>2. inTransaction'
    <3>1. ChangesRows(Insert("alembic_version", revision))
      BY DEF ChangesRows, Insert
    <3> QED BY <1>1, <2>1, <3>1
  <2>3. CASE HasLayout(work, "v1")
    <3>1. \E layout, rows : work' = With(work, "alembic_version", layout, rows)
      BY <1>1, <2>1 DEF Effect, Insert
    <3>2. HasLayout(work', "v1")
      BY <1>2, <2>3, <3>1, LayoutIsKept
    <3> QED BY <2>2, <3>2 DEF StampFits, HasLayout, Present
  <2>4. CASE Head(script) = Insert("alembic_version", "0002")
    <3>1. OnlyTable(work, work', "alembic_version", {"0002"})
      BY <1>1, <1>2, <1>3, <1>5, <2>4, InsertEffect DEF Revisions
    <3>2. Revisions(work') = {"0002"}
      BY <3>1, RevisionRecorded
    <3> QED BY <2>1, <2>2, <3>2 DEF StampFits, Revisions
  <2> QED BY <1>1, <1>2, <2>1, <2>3, <2>4 DEF StampFits
<1>6. CASE /\ script = << Create("alembic_version", "version"), Insert("alembic_version", revision) >>
           /\ "alembic_version" \notin Present(work)
  <2>1. /\ Head(script) = Create("alembic_version", "version")
        /\ script' = << Insert("alembic_version", revision) >>
        /\ script'[Len(script')] = script[Len(script)] /\ script' # <<>>
    BY <1>1, <1>6
  <2>2. work' = With(work, "alembic_version", "version", {})
    BY <1>1, <2>1 DEF Effect, Create
  <2>3. Revisions(work') = {}
    BY <1>2, <1>3, <2>2, WithEffect DEF Revisions
  <2>4. RenamedFirst(work)'
    BY <2>3 DEF RenamedFirst, Revisions
  <2>5. StampFits'
    <3>1. CASE HasLayout(work, "v1")
      <4>1. HasLayout(work', "v1")
        BY <1>2, <2>2, <3>1, LayoutIsKept
      <4> QED BY <4>1 DEF StampFits, HasLayout, Present
    <3>2. CASE script[Len(script)] = Insert("alembic_version", "0002")
      BY <2>1, <3>2 DEF StampFits
    <3> QED BY <1>1, <1>2, <3>1, <3>2 DEF StampFits
  <2> QED BY <2>4, <2>5
<1> QED BY <1>4, <1>5, <1>6

\* The scripts that command.upgrade() plans.
LEMMA ScriptLengths ==
  ASSUME NEW db, Sound(db)
  PROVE  /\ Remainder(UpgradeScript(db)) /\ Len(UpgradeScript(db)) \in {0, 20, 28, 29}
         /\ Revisions(db) = {"0001"} => Len(UpgradeScript(db)) = 20
         /\ Revisions(db) = {} /\ "alembic_version" \in Present(db) => Len(UpgradeScript(db)) = 28
<1>1. Len(<<>>) = 0
  OBVIOUS
<1>2. CASE Revisions(db) = {}
  BY <1>2, PlansAreRemainders DEF UpgradeScript, VersionTable
<1>3. CASE Revisions(db) = {"0001"}
  BY <1>3, PlansAreRemainders DEF UpgradeScript
<1>4. CASE Revisions(db) = {"0002"}
  BY <1>1, <1>4, PlansAreRemainders DEF UpgradeScript
<1> QED BY <1>2, <1>3, <1>4 DEF Sound

LEMMA CommitStep == MigrationInv /\ CommitInv /\ [MigrationNext]_migrationVars => CommitInv'
<1> SUFFICES ASSUME MigrationInv, CommitInv, [MigrationNext]_migrationVars PROVE CommitInv'
  OBVIOUS
<1>1. CASE Execute
  <2>1. /\ script # <<>> /\ phase' = phase /\ work' = Effect(work, Head(script))
        /\ inTransaction' = (inTransaction \/ ChangesRows(Head(script)))
        /\ disk' = IF inTransaction' THEN disk ELSE work'
    BY <1>1 DEF Execute
  <2>2. phase \in {"stamp", "migrate", "clean"}
    BY <2>1 DEF MigrationInv, ScriptInv
  <2>3. ~inTransaction' => RenamedFirst(work)'
    <3>1. CASE phase = "clean"
      <4>1. Revisions(work)' = {"0002"}
        BY <1>1, <2>1, <3>1, CleanStatement DEF MigrationInv, ScriptInv, Cleaning, Execute
      <4> QED BY <4>1 DEF RenamedFirst
    <3> QED BY <1>1, <2>2, <3>1, StampCommitted, StatementCommitted
  <2>4. RenamedFirst(disk)'
    <3>1. CASE inTransaction'
      BY <2>1, <3>1, RenamedFirstStays DEF CommitInv
    <3>2. CASE ~inTransaction'
      BY <2>1, <2>3, <3>2 DEF RenamedFirst, Revisions, RowsOf, HasLayout, Present
    <3> QED BY <3>1, <3>2
  <2>5. phase' = "stamp" => StampFits'
    BY <1>1, <2>1, StampCommitted
  <2>6. phase' = "migrate" /\ ~inTransaction' =>
          /\ Len(script') \in {0} \cup 14 .. 20 \cup 27 .. 29
          /\ Len(script') \in 14 .. 19 => Old["measurement"] \in Present(work')
    BY <1>1, <2>1, StatementCommitted
  <2> QED BY <2>1, <2>2, <2>4, <2>5, <2>6 DEF CommitInv, Present
<1>2. CASE InspectLegacy
  <2>1. /\ UNCHANGED <<disk, work, inTransaction>> /\ phase = "start" /\ phase' = "stamp"
        /\ "alembic_version" \notin Present(work) /\ ~LegacyRefused(work)
        /\ script' = VersionTable(work) \o << Insert("alembic_version", LegacyRevision(work)) >>
    BY <1>2 DEF InspectLegacy, IsLegacy
  <2>2. script' = << Create("alembic_version", "version"),
                     Insert("alembic_version", LegacyRevision(work)) >>
    BY <2>1, TwoStatements DEF VersionTable
  <2>3. LegacyRevision(work) = "0002" \/ HasLayout(work, "v1")
    BY <2>1 DEF LegacyRefused, LegacyRevision
  <2>4. StampFits'
    <3>1. CASE LegacyRevision(work) = "0002"
      <4>1. script' # <<>> /\ script'[Len(script')] = Insert("alembic_version", "0002")
        BY <2>2, <3>1
      <4> QED BY <4>1 DEF StampFits
    <3>2. CASE HasLayout(work, "v1")
      BY <2>1, <3>2 DEF StampFits, HasLayout, Present
    <3> QED BY <2>3, <3>1, <3>2
  <2>5. RenamedFirst(disk)'
    BY <2>1, RenamedFirstStays DEF CommitInv
  <2> QED BY <2>1, <2>4, <2>5 DEF CommitInv
<1>3. CASE Plan
  <2>1. /\ UNCHANGED <<disk, work, inTransaction>> /\ phase = "upgrade" /\ phase' = "migrate"
        /\ script' = UpgradeScript(work)
    BY <1>3 DEF Plan
  <2>2. Len(script') \in {0} \cup 14 .. 20 \cup 27 .. 29 /\ Len(script') \notin 14 .. 19
    <3>1. Len(script') \in {0, 20, 28, 29}
      BY <2>1, ScriptLengths DEF MigrationInv
    <3>2. \A n \in {0, 20, 28, 29} :
             n \in {0} \cup 14 .. 20 \cup 27 .. 29 /\ n \notin 14 .. 19
      OBVIOUS
    <3> QED BY <3>1, <3>2, Zenon
  <2>3. RenamedFirst(disk)'
    BY <2>1, RenamedFirstStays DEF CommitInv
  <2>4. ~inTransaction /\ work' = disk'
    BY <2>1 DEF CommitInv
  <2> QED BY <2>1, <2>2, <2>3, <2>4 DEF CommitInv
<1>4. CASE CommitStamp \/ EndUpgrade \/ CommitUpgrade
  <2>1. RenamedFirst(work)
    <3>1. CASE CommitStamp
      BY <3>1 DEF CommitStamp, CommitInv, StampFits, RenamedFirst
    <3>2. CASE EndUpgrade
      <4>1. UpTo(work, Len(script)) /\ Len(script) = 0
        BY <3>2 DEF EndUpgrade, MigrationInv, ScriptInv, Migrating
      <4> QED BY <4>1 DEF UpTo, RenamedFirst
    <3>3. CASE CommitUpgrade
      BY <3>3 DEF CommitUpgrade, MigrationInv, ScriptInv, Cleaning, RenamedFirst
    <3> QED BY <1>4, <3>1, <3>2, <3>3
  <2>2. /\ work' = work /\ phase' \in {"upgrade", "validate", "done"}
        /\ \/ disk' = work /\ inTransaction' = FALSE
           \/ UNCHANGED <<disk, inTransaction>> /\ phase' = "validate"
    BY <1>4 DEF CommitStamp, EndUpgrade, CommitUpgrade, Commits
  <2>3. RenamedFirst(disk)'
    BY <2>1, <2>2, RenamedFirstStays DEF CommitInv
  <2> QED BY <2>2, <2>3 DEF CommitInv
<1>5. CASE Raises \/ ValidationFails \/ Crash
  <2>1. disk' = disk /\ work' = disk /\ inTransaction' = FALSE /\ phase' \in {"start", "failed"}
    BY <1>5 DEF Raises, ValidationFails, Crash
  <2>2. RenamedFirst(disk)'
    BY <2>1, RenamedFirstStays DEF CommitInv
  <2> QED BY <2>1, <2>2 DEF CommitInv
<1>6. CASE RefuseLegacy \/ InspectOther \/ Validate \/ Restart
  <2>1. /\ UNCHANGED <<disk, work, inTransaction>>
        /\ phase' \in {"failed", "upgrade", "clean", "start"}
        /\ phase \in {"start", "failed"} \/ phase' = "clean"
    BY <1>6 DEF RefuseLegacy, InspectOther, Validate, Restart
  <2>2. RenamedFirst(disk)'
    BY <2>1, RenamedFirstStays DEF CommitInv
  <2> QED BY <2>1, <2>2 DEF CommitInv
<1>7. CASE UNCHANGED migrationVars
  BY <1>7 DEF migrationVars, CommitInv, StampFits, RenamedFirst, Revisions, RowsOf, HasLayout,
              Present
<1> QED BY <1>1, <1>2, <1>3, <1>4, <1>5, <1>6, <1>7 DEF MigrationNext, Progress

\* The first statement that is planned for a torn file cannot be executed.
LEMMA TornScript ==
  ASSUME NEW db, Sound(db), RenamedFirst(db), Torn(db)
  PROVE  /\ UpgradeScript(db) # <<>> /\ ~Executable(db, Head(UpgradeScript(db)))
         /\ ~IsLegacy(db)
<1> DEFINE plan == UpgradeScript(db)
<1>1. Remainder(plan) /\ Len(<<>>) = 0
  BY ScriptLengths
<1>2. CASE /\ "alembic_version" \in Present(db) /\ Revisions(db) = {}
           /\ "schema_version" \in Present(db)
  <2>1. Len(plan) = 28
    BY <1>2, ScriptLengths
  <2>2. plan # <<>>
    BY <1>1, <2>1
  <2> HIDE DEF plan
  <2>3. Head(plan) = Create("schema_version", "version")
    BY <1>1, <2>1, <2>2, NextStatement, NamedStatements
  <2>4. ~Executable(db, Head(plan))
    BY <1>2, <2>3 DEF Executable, Create
  <2> QED BY <1>2, <2>2, <2>4 DEF IsLegacy, plan
<1>3. CASE Revisions(db) = {"0001"} /\ ~HasLayout(db, "v1")
  <2>1. Len(plan) = 20
    BY <1>3, ScriptLengths
  <2>2. plan # <<>>
    BY <1>1, <2>1
  <2> HIDE DEF plan
  <2>3. Head(plan) = Rename("measurement", Old["measurement"])
    BY <1>1, <2>1, <2>2, NextStatement, NamedStatements
  <2>4. Old["measurement"] \in Present(db)
    BY <1>3 DEF RenamedFirst
  <2>5. ~Executable(db, Head(plan))
    BY <2>3, <2>4 DEF Executable, Rename
  <2>6. "alembic_version" \in Present(db)
    BY <1>3 DEF Revisions, RowsOf
  <2> QED BY <2>2, <2>5, <2>6 DEF IsLegacy, plan
<1> QED BY <1>2, <1>3 DEF Torn

LEMMA TornStays ==
  MigrationInv /\ CommitInv /\ OnTornFile /\ [MigrationNext]_migrationVars => OnTornFile'
<1> SUFFICES ASSUME MigrationInv, CommitInv, OnTornFile, [MigrationNext]_migrationVars
             PROVE  OnTornFile'
  OBVIOUS
<1>1. /\ phase = "migrate" => script # <<>> /\ ~Executable(work, Head(script))
      /\ ~IsLegacy(work)
  BY TornScript DEF OnTornFile, MigrationInv, CommitInv
<1>2. phase # "migrate" => script = <<>>
  BY DEF OnTornFile, MigrationInv, ScriptInv
<1>3. ASSUME UNCHANGED <<disk, work, inTransaction>>,
             \/ phase' \in {"start", "upgrade", "failed"}
             \/ phase' = "migrate" /\ script' = UpgradeScript(work)
      PROVE  OnTornFile'
  <2>1. Torn(disk)'
    BY <1>3 DEF OnTornFile, Torn, Revisions, RowsOf, HasLayout, Present
  <2>2. UpgradeScript(work)' = UpgradeScript(work)
    BY <1>3 DEF UpgradeScript, VersionTable, Revisions, RowsOf, Present
  <2> QED BY <1>3, <2>1, <2>2 DEF OnTornFile
<1>4. CASE Raises \/ Crash
  BY <1>3, <1>4 DEF Raises, Crash, OnTornFile
<1>5. CASE InspectOther \/ Plan \/ Restart
  BY <1>3, <1>5 DEF InspectOther, Plan, Restart, OnTornFile
<1>6. CASE \/ InspectLegacy \/ RefuseLegacy \/ Execute \/ CommitStamp \/ EndUpgrade
           \/ Validate \/ ValidationFails \/ CommitUpgrade
  BY <1>1, <1>2, <1>6
     DEF InspectLegacy, RefuseLegacy, Execute, CommitStamp, EndUpgrade, Validate,
         ValidationFails, CommitUpgrade, OnTornFile
<1>7. CASE UNCHANGED migrationVars
  BY <1>3, <1>7 DEF migrationVars, OnTornFile
<1> QED BY <1>4, <1>5, <1>6, <1>7 DEF MigrationNext, Progress

\* A start that finds a torn file is the first of many in vain: no start, no crash and no
\* further try gets upgrade_database() to its end (Torn, the exception of
\* MigratedOrTorn).
THEOREM TornIsForGood == MigrationSpec => [](Torn(disk) /\ phase = "start" => [](phase # "done"))
<1>1. MigrationInit => MigrationInv /\ CommitInv
  BY MigrationStarts, CommitStarts
<1>2. MigrationInv /\ CommitInv /\ [MigrationNext]_migrationVars => (MigrationInv /\ CommitInv)'
  BY MigrationStep, CommitStep
<1>3. CommitInv /\ Torn(disk) /\ phase = "start" => OnTornFile
  BY DEF CommitInv, OnTornFile
<1>4. MigrationInv /\ CommitInv /\ OnTornFile /\ [MigrationNext]_migrationVars => OnTornFile'
  BY TornStays
<1>5. OnTornFile => phase # "done"
  BY DEF OnTornFile
<1> QED BY <1>1, <1>2, <1>3, <1>4, <1>5, PTL DEF MigrationSpec

=============================================================================
