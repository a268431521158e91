------------------------------- MODULE Migration -------------------------------
(***************************************************************************)
(* upgrade_database() of storage/migration.py with the revisions 0001 and  *)
(* 0002 it runs, statement by statement, against a SQLite file that        *)
(* survives a crash at any point.                                          *)
(*                                                                         *)
(* A database is the set of tables it holds, each with the layout of its   *)
(* columns and its rows, and whether the index exists.  disk is what is    *)
(* committed, work what the connection sees.  The sqlite3 module opens a   *)
(* transaction before a statement that changes rows and before no other:   *)
(* until the first such statement each CREATE, ALTER and DROP is committed *)
(* as it is executed.  Alembic commits per migration (env.py) unless the   *)
(* connection it is given is already in a transaction, which it is when    *)
(* no legacy revision was stamped and committed before the upgrade.        *)
(*                                                                         *)
(* phase is where the process is in upgrade_database(), script what is     *)
(* left of the statements it is executing.  A crash stands for the end of  *)
(* the process and for an error of the database (a full disk, say): both   *)
(* leave what is on disk.  The service manager starts the process again.   *)
(***************************************************************************)
EXTENDS Integers, Sequences, FiniteSets

CONSTANTS Row,          \* what the tables may hold
          MaxCrashes    \* bound: crashes in a behaviour

ASSUME MigrationAssumption == MaxCrashes \in Nat

VARIABLES disk, work,
          inTransaction,  \* the connection has uncommitted rows
          external,       \* alembic was given a connection in a transaction
          phase, script,
          crashes,        \* bookkeeping of the bound
          original        \* history: the rows of the tables at the beginning

migrationVars == <<disk, work, inTransaction, external, phase, script, crashes, original>>

DataTables == {"sensor_instance", "field", "sample", "measurement"}

\* The name 0002 gives a table while it converts it.
Old == [sensor_instance |-> "sensor_instance_v1", field |-> "field_v1",
        sample |-> "sample_v1", measurement |-> "measurement_v1"]

Present(db) == DOMAIN db.tables

RowsOf(db, t) == IF t \in Present(db) THEN db.tables[t].rows ELSE {}

Revisions(db) == RowsOf(db, "alembic_version")

-----------------------------------------------------------------------------
(* Statements: whether one can be executed, and what it does.  A statement *)
(* that cannot be executed raises.                                         *)

\* The tables of db with t added, replaced or taken away.
With(db, t, layout, rows) ==
  [db EXCEPT !.tables = [u \in Present(db) \cup {t} |->
                           IF u = t THEN [layout |-> layout, rows |-> rows]
                                    ELSE db.tables[u]]]
Without(db, t) == [db EXCEPT !.tables = [u \in Present(db) \ {t} |-> db.tables[u]]]

\* Create and Insert name a table; Copy and Rename read one and name another.
Create(t, layout) == [do |-> "create", table |-> t, layout |-> layout]
Insert(t, row) == [do |-> "insert", table |-> t, row |-> row]
Update(t, row) == [do |-> "update", table |-> t, row |-> row]
Rename(t, to) == [do |-> "rename", table |-> t, to |-> to]
Copy(t, from) == [do |-> "copy", table |-> t, from |-> from]
Drop(t) == [do |-> "drop", table |-> t]
CreateIndex == [do |-> "createIndex", table |-> "sample"]
DropIndex == [do |-> "dropIndex", table |-> "sample"]

Executable(db, st) ==
  CASE st.do = "create"      -> st.table \notin Present(db)
    [] st.do = "rename"      -> st.table \in Present(db) /\ st.to \notin Present(db)
    [] st.do = "copy"        -> {st.table, st.from} \subseteq Present(db)
    [] st.do = "createIndex" -> st.table \in Present(db) /\ ~db.index
    [] st.do = "dropIndex"   -> db.index
    [] OTHER                 -> st.table \in Present(db)

Effect(db, st) ==
  CASE st.do = "create" -> With(db, st.table, st.layout, {})
    [] st.do = "insert" -> With(db, st.table, db.tables[st.table].layout,
                                RowsOf(db, st.table) \cup {st.row})
    [] st.do = "update" -> With(db, st.table, db.tables[st.table].layout, {st.row})
    [] st.do = "copy"   -> With(db, st.table, db.tables[st.table].layout,
                                RowsOf(db, st.table) \cup RowsOf(db, st.from))
    [] st.do = "rename" -> Without(With(db, st.to, db.tables[st.table].layout,
                                        RowsOf(db, st.table)), st.table)
    [] st.do = "drop"        -> Without(db, st.table)
    [] st.do = "createIndex" -> [db EXCEPT !.index = TRUE]
    [] st.do = "dropIndex"   -> [db EXCEPT !.index = FALSE]

\* The statements before which sqlite3 opens a transaction.
ChangesRows(st) == st.do \in {"insert", "update", "copy"}

-----------------------------------------------------------------------------
(* The two revisions and the version table. *)

Upgrade0001 ==
  << Create("schema_version", "version"),
     Insert("schema_version", "1"),
     Create("sensor_instance", "v1"), Create("field", "v1"), Create("sample", "v1"),
     CreateIndex, Create("measurement", "v1"),
     Insert("alembic_version", "0001") >>

\* Mutant: the old samples are not copied.
Upgrade0002WithoutSamples ==
  << Rename("measurement", Old["measurement"]), Rename("field", Old["field"]),
     Rename("sample", Old["sample"]),
     Rename("sensor_instance", Old["sensor_instance"]), DropIndex,
     Create("sensor_instance", "v2"), Copy("sensor_instance", Old["sensor_instance"]),
     Create("field", "v2"), Copy("field", Old["field"]),
     Create("sample", "v2"),
     Create("measurement", "v2"), Copy("measurement", Old["measurement"]),
     Drop(Old["measurement"]), Drop(Old["sample"]), Drop(Old["field"]),
     Drop(Old["sensor_instance"]), Drop("schema_version"), CreateIndex,
     Update("alembic_version", "0002") >>

Upgrade0002 ==
  << Rename("measurement", Old["measurement"]), Rename("field", Old["field"]),
     Rename("sample", Old["sample"]),
     Rename("sensor_instance", Old["sensor_instance"]), DropIndex,
     Create("sensor_instance", "v2"), Copy("sensor_instance", Old["sensor_instance"]),
     Create("field", "v2"), Copy("field", Old["field"]),
     Create("sample", "v2"), Copy("sample", Old["sample"]),
     Create("measurement", "v2"), Copy("measurement", Old["measurement"]),
     Drop(Old["measurement"]), Drop(Old["sample"]), Drop(Old["field"]),
     Drop(Old["sensor_instance"]), Drop("schema_version"), CreateIndex,
     Update("alembic_version", "0002") >>

\* Mutant: alembic's table is created without looking for it.
VersionTableAnyway(db) == << Create("alembic_version", "version") >>

\* Alembic creates its table when it finds no revision recorded.
VersionTable(db) ==
  IF "alembic_version" \in Present(db) THEN <<>>
  ELSE << Create("alembic_version", "version") >>

\* _legacy_revision(): what an old database is to be stamped with, if it is one.
IsLegacy(db) == "schema_version" \in Present(db) /\ "alembic_version" \notin Present(db)
LegacyRevision(db) == IF "1" \in RowsOf(db, "schema_version") THEN "0001" ELSE "0002"

\* The layout every data table has, by the columns that _legacy_revision() and
\* _validate_current_schema() look for; field and measurement never changed.
HasLayout(db, layout) ==
  /\ DataTables \subseteq Present(db)
  /\ \A t \in {"sensor_instance", "sample"} : db.tables[t].layout = layout

LegacyRefused(db) ==
  \/ RowsOf(db, "schema_version") \cap {"1", "2"} = {}
  \/ ~HasLayout(db, IF LegacyRevision(db) = "0001" THEN "v1" ELSE "v2")

\* command.upgrade(): the statements that lead from the revisions found in db
\* to head.
UpgradeScript(db) ==
  IF Revisions(db) = {} THEN VersionTable(db) \o Upgrade0001 \o Upgrade0002
  ELSE IF "0002" \in Revisions(db) THEN <<>>
  ELSE Upgrade0002

\* PRAGMA foreign_key_check: the tables a table refers to.  A row stands for
\* those that refer to each other.
References == { <<"field", "sensor_instance">>, <<"sample", "sensor_instance">>,
                <<"measurement", "sample">>, <<"measurement", "field">> }
ForeignKeysHold(db) == \A key \in References : RowsOf(db, key[1]) \subseteq RowsOf(db, key[2])

Valid(db) == HasLayout(db, "v2") /\ db.index /\ ForeignKeysHold(db)

-----------------------------------------------------------------------------
\* An empty file, the layouts the two former versions left and the current
\* one, with any rows; and files that somebody altered: a version nobody knows,
\* the index gone, rows deleted that others refer to.
Table(layout, rows) == [layout |-> layout, rows |-> rows]
EmptyDatabase == [tables |-> <<>>, index |-> FALSE]
LegacyDatabase(layout, version, rows) ==
  [tables |-> [t \in DataTables \cup {"schema_version"} |->
                 IF t \in DataTables THEN Table(layout, rows[t])
                                     ELSE Table("version", {version})],
   index  |-> TRUE]
CurrentDatabase(rows) ==
  [tables |-> [t \in DataTables \cup {"alembic_version"} |->
                 IF t \in DataTables THEN Table("v2", rows[t])
                                     ELSE Table("version", {"0002"})],
   index  |-> TRUE]

NoRows == [t \in DataTables |-> {}]

MigrationInit ==
  /\ \E rows \in [DataTables -> SUBSET Row] :
       /\ original = rows
       /\ disk \in { LegacyDatabase("v1", "1", rows), LegacyDatabase("v2", "2", rows),
                     CurrentDatabase(rows) }
                   \cup { LegacyDatabase("v2", "3", rows),
                           [LegacyDatabase("v2", "2", rows) EXCEPT !.index = FALSE],
                           [CurrentDatabase(rows) EXCEPT !.index = FALSE] }
                   \cup (IF rows = NoRows THEN {EmptyDatabase} ELSE {})
  /\ work = disk /\ inTransaction = FALSE /\ external = FALSE
  /\ phase = "start" /\ script = <<>> /\ crashes = 0

\* upgrade_database() reads what is there; a legacy database is stamped with
\* its revision first, one it does not recognise is refused.
InspectLegacy ==
  /\ phase = "start" /\ IsLegacy(work) /\ ~LegacyRefused(work)
  /\ phase' = "stamp" /\ external' = FALSE
  /\ script' = VersionTable(work) \o << Insert("alembic_version", LegacyRevision(work)) >>
  /\ UNCHANGED <<disk, work, inTransaction, crashes, original>>

RefuseLegacy ==
  /\ phase = "start" /\ IsLegacy(work) /\ LegacyRefused(work)
  /\ phase' = "failed"
  /\ UNCHANGED <<disk, work, inTransaction, external, script, crashes, original>>

InspectOther ==
  /\ phase = "start" /\ ~IsLegacy(work)
  /\ phase' = "upgrade" /\ external' = TRUE
  /\ UNCHANGED <<disk, work, inTransaction, script, crashes, original>>

\* One statement, and the transaction it runs in.
Execute ==
  /\ script # <<>> /\ Executable(work, Head(script))
  /\ work' = Effect(work, Head(script))
  /\ inTransaction' = (inTransaction \/ ChangesRows(Head(script)))
  /\ disk' = IF inTransaction' THEN disk ELSE work'
  /\ script' = Tail(script)
  /\ UNCHANGED <<external, phase, crashes, original>>

\* A statement raises: the connection is closed and its transaction undone.
Raises ==
  /\ script # <<>> /\ ~Executable(work, Head(script))
  /\ work' = disk /\ inTransaction' = FALSE
  /\ phase' = "failed" /\ script' = <<>>
  /\ UNCHANGED <<disk, external, crashes, original>>

Commits == disk' = work /\ inTransaction' = FALSE

\* connection.commit() after the stamp.
CommitStamp ==
  /\ phase = "stamp" /\ script = <<>>
  /\ Commits /\ phase' = "upgrade"
  /\ UNCHANGED <<work, external, script, crashes, original>>

\* command.upgrade() plans its statements from the revision it finds.
Plan ==
  /\ phase = "upgrade"
  /\ script' = UpgradeScript(work)
  /\ phase' = "migrate"
  /\ UNCHANGED <<disk, work, inTransaction, external, crashes, original>>

\* The end of the upgrade: alembic commits if the transaction is its own.
EndUpgrade ==
  /\ phase = "migrate" /\ script = <<>>
  /\ IF external THEN UNCHANGED <<disk, inTransaction>> ELSE Commits
  /\ phase' = "validate"
  /\ UNCHANGED <<work, external, script, crashes, original>>

\* Mutant: the schema is not validated.
ValidateNothing ==
  /\ phase = "validate"
  /\ phase' = "clean"
  /\ script' = IF "schema_version" \in Present(work) THEN << Drop("schema_version") >>
               ELSE <<>>
  /\ UNCHANGED <<disk, work, inTransaction, external, crashes, original>>

\* _validate_current_schema(), then _remove_legacy_version_table().
Validate ==
  /\ phase = "validate" /\ Valid(work)
  /\ phase' = "clean"
  /\ script' = IF "schema_version" \in Present(work) THEN << Drop("schema_version") >>
               ELSE <<>>
  /\ UNCHANGED <<disk, work, inTransaction, external, crashes, original>>

ValidationFails ==
  /\ phase = "validate" /\ ~Valid(work)
  /\ work' = disk /\ inTransaction' = FALSE
  /\ phase' = "failed"
  /\ UNCHANGED <<disk, external, script, crashes, original>>

\* connection.commit() at the end; upgrade_database() returns.
CommitUpgrade ==
  /\ phase = "clean" /\ script = <<>>
  /\ Commits /\ phase' = "done"
  /\ UNCHANGED <<work, external, script, crashes, original>>

\* The process ends with what is on disk.
Crash ==
  /\ phase \notin {"start", "failed"} /\ crashes < MaxCrashes
  /\ crashes' = crashes + 1
  /\ work' = disk /\ inTransaction' = FALSE
  /\ phase' = "start" /\ script' = <<>>
  /\ UNCHANGED <<disk, external, original>>

\* The service is started again after a failure.
Restart ==
  /\ phase = "failed"
  /\ phase' = "start"
  /\ UNCHANGED <<disk, work, inTransaction, external, script, crashes, original>>

Progress ==
  \/ InspectLegacy \/ RefuseLegacy \/ InspectOther \/ Execute \/ Raises \/ CommitStamp \/ Plan \/ EndUpgrade
  \/ Validate \/ ValidationFails \/ CommitUpgrade \/ Restart

MigrationNext == Progress \/ Crash

\* The process runs, and is started again whenever it ended with a failure
\* (systemd/sensorctl.service: Restart=on-failure).
MigrationSpec == MigrationInit /\ [][MigrationNext]_migrationVars /\ WF_migrationVars(Progress)

-----------------------------------------------------------------------------
\* Whatever the instant of a crash, every row the database had is on disk, in
\* its table or in the copy that 0002 sets aside: nothing is dropped before
\* what replaces it is committed with it.
RowsSurvive ==
  \A t \in DataTables : original[t] \subseteq RowsOf(disk, t) \cup RowsOf(disk, Old[t])

\* When upgrade_database() returns, the file holds the current schema, exactly
\* the rows it had, and nothing of the former versions: collection never
\* starts on a schema it does not know or on half of its data.
DoneMeansCurrent ==
  phase = "done" =>
    /\ Valid(disk) /\ Revisions(disk) = {"0002"}
    /\ Present(disk) = DataTables \cup {"alembic_version"}
    /\ \A t \in DataTables : RowsOf(disk, t) = original[t]

\* The states a crash can leave that no later start gets out of: alembic's
\* table without a revision beside a table that 0001 creates, and tables that
\* 0002 has renamed under the revision 0001.
Torn(db) ==
  \/ /\ "alembic_version" \in Present(db) /\ Revisions(db) = {}
     /\ "schema_version" \in Present(db)
  \/ Revisions(db) = {"0001"} /\ ~HasLayout(db, "v1")

\* The files that upgrade_database() means to refuse.
Altered(db) ==
  \/ IsLegacy(db) /\ LegacyRefused(db)
  \/ "0002" \in Revisions(db) /\ ~Valid(db)
  \/ HasLayout(db, "v1") /\ ~ForeignKeysHold(db)

\* If the process keeps being started, a file that nobody altered is migrated
\* or torn for good: there is no third way for the upgrade to get stuck.
MigratedOrTorn ==
  <>[](phase = "done") \/ <>[]Torn(disk) \/ <>[]Altered(disk)

\* README.md, Configuration: "Database schema migrations run automatically
\* before collection starts."  Violated: after a crash in one of the windows
\* in which statements are committed one by one, no start succeeds again.
MigrationCompletes == <>(phase = "done") \/ <>Altered(disk)

=============================================================================
