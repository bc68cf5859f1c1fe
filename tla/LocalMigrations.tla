--------------------------- MODULE LocalMigrations ---------------------------
(***************************************************************************)
(* The schema of the local database: the first start creates it            *)
(* (db/bootstrap.py), the migration command inspects and upgrades it       *)
(* (runtime/migration_contract.py) with a journal in the database itself   *)
(* (db/local_migrations.py) behind a snapshot (services/local_backup.py),  *)
(* and the shell puts the snapshot back when the command does not end      *)
(* CURRENT. The shell runs one command at a time.                          *)
(*                                                                         *)
(* Of the data, the schema is told apart: the migrations that were applied *)
(* to it, in order. A command may die between any two commits.             *)
(***************************************************************************)
EXTENDS Integers, Sequences, SequencesExt, FiniteSets

CONSTANTS
  LOCAL_SCHEMA_VERSION,
  Targets,      \* target versions a command is given
  Registries,   \* declared migrations, in order: sequences of <<from, to>>
  MaxAttempts,
  None

VARIABLES
  database,   \* version, schema and journal, or None before the first start
  command,    \* the command that runs
  result,     \* what the last command told the shell
  snapshots,  \* migration-safety: of each attempt, the database it found
  stopped     \* the shell has rolled back and starts no more

vars == <<database, command, result, snapshots, stopped>>

Row == [id : Nat, from : Nat, target : Nat, status : {"IN_PROGRESS", "INTERRUPTED", "FAILED", "COMPLETED"}]
Database == [version : Nat, schema : Seq(Nat \X Nat), journal : Seq(Row)]
MigrationAssumption ==
  /\ LOCAL_SCHEMA_VERSION \in Nat \ {0} /\ Targets \subseteq Nat \ {0} /\ MaxAttempts \in Nat
  /\ Registries \subseteq Seq(Nat \X Nat) /\ None \notin Nat \cup Database

LocalSchemaState ==
  {"CURRENT", "UPGRADE_REQUIRED", "MIGRATION_IN_PROGRESS", "FAILED_MIGRATION",
   "NEWER_VERSION_UNSUPPORTED", "UNKNOWN_OR_CORRUPT"}
NoCommand == [pc |-> "none"]
Attempt(id, from, target) == [id |-> id, from |-> from, target |-> target, status |-> "IN_PROGRESS"]
HasStatus(db, status) == \E i \in DOMAIN db.journal : db.journal[i].status = status
Marked(journal, is, becomes) ==
  [i \in DOMAIN journal |-> IF journal[i].status = is THEN [journal[i] EXCEPT !.status = becomes] ELSE journal[i]]

\* _ordered_migrations: in order of from_version, upgrades only.
IsOrdered(registry) ==
  /\ \A i, j \in DOMAIN registry : i < j => registry[i][1] <= registry[j][1]
  /\ \A i \in DOMAIN registry : registry[i][1] < registry[i][2]
\* build_migration_plan: the one chain of declared migrations between two versions.
Chains(registry, from, target) ==
  {chain \in UNION {[1..n -> Range(registry)] : n \in 1..Len(registry)} :
     /\ chain[1][1] = from /\ chain[Len(chain)][2] = target
     /\ \A i \in 1..(Len(chain) - 1) : chain[i][2] = chain[i + 1][1]}
Forks(registry, version) == Cardinality({i \in DOMAIN registry : registry[i][1] = version}) # 1
build_migration_plan(registry, from, target) ==
  IF ~ IsOrdered(registry) \/ Chains(registry, from, target) = {} THEN <<>>
  ELSE LET chain == CHOOSE c \in Chains(registry, from, target) : TRUE
       IN IF \E i \in DOMAIN chain : Forks(registry, chain[i][1]) THEN <<>> ELSE chain

\* What the version alone says
OfVersion(db, registry, target) ==
  CASE db.version > target -> "NEWER_VERSION_UNSUPPORTED"
    [] db.version = target -> "CURRENT"
    [] OTHER -> IF build_migration_plan(registry, db.version, target) = <<>>
                  THEN "UNKNOWN_OR_CORRUPT" ELSE "UPGRADE_REQUIRED"
\* mutant: a failed attempt may be tried again
inspect_schemaAgain(db, registry, target) ==
  IF HasStatus(db, "IN_PROGRESS") THEN "MIGRATION_IN_PROGRESS" ELSE OfVersion(db, registry, target)
\* inspect_schema: an attempt in progress, then a failed one, then the version
inspect_schema(db, registry, target) ==
  IF HasStatus(db, "IN_PROGRESS") THEN "MIGRATION_IN_PROGRESS"
  ELSE IF HasStatus(db, "FAILED") THEN "FAILED_MIGRATION"
  ELSE OfVersion(db, registry, target)

Init ==
  /\ database = None /\ command = NoCommand /\ result = None
  /\ snapshots = <<>> /\ stopped = FALSE
-----------------------------------------------------------------------------
\* initialize_database of the first start: all tables at the supported version
InitializeDatabase ==
  /\ database = None
  /\ database' = [version |-> LOCAL_SCHEMA_VERSION, schema |-> <<>>, journal |-> <<>>]
  /\ UNCHANGED <<command, result, snapshots, stopped>>

\* execute, up to its guard: what preflight would say is what it answers.
Execute ==
  /\ command = NoCommand /\ result = None /\ ~ stopped /\ database # None
  /\ \E target \in Targets, registry \in Registries :
       LET state == inspect_schema(database, registry, target) IN
       IF state = "UPGRADE_REQUIRED"
         THEN /\ Len(snapshots) < MaxAttempts
              /\ command' = [pc |-> "backup", id |-> Len(snapshots) + 1, target |-> target, registry |-> registry]
              /\ UNCHANGED result
         ELSE /\ result' = [state |-> state, id |-> None]
              /\ UNCHANGED command
  /\ UNCHANGED <<database, snapshots, stopped>>

\* create_migration_safety_backup checks the copy for the supported version, not
\* for the one it found; the error is no MigrationError and ends the command.
SnapshotAccepted(db) == db.version = LOCAL_SCHEMA_VERSION
Backup ==
  /\ command.pc = "backup"
  /\ IF SnapshotAccepted(database)
       THEN snapshots' = Append(snapshots, database) /\ command' = [command EXCEPT !.pc = "open"]
       ELSE command' = NoCommand /\ UNCHANGED snapshots
  /\ UNCHANGED <<database, result, stopped>>

\* run_migrations: what an earlier attempt left in progress is marked ...
MarkInterrupted ==
  /\ command.pc = "open"
  /\ database' = [database EXCEPT !.journal = Marked(@, "IN_PROGRESS", "INTERRUPTED")]
  /\ command' = [command EXCEPT !.pc = "begin"]
  /\ UNCHANGED <<result, snapshots, stopped>>

\* ... and after a second look the attempt is recorded.
BeginAttempt ==
  /\ command.pc = "begin"
  /\ inspect_schema(database, command.registry, command.target) = "UPGRADE_REQUIRED"
  /\ database' = [database EXCEPT !.journal = Append(@, Attempt(command.id, database.version, command.target))]
  /\ command' = [command EXCEPT !.pc = "apply"]
  /\ UNCHANGED <<result, snapshots, stopped>>

\* The migrations of the plan, the validation and the new version are one transaction.
Applied(db, plan) == [db EXCEPT !.schema = @ \o plan, !.version = plan[Len(plan)][2]]
ApplyMigrations ==
  /\ command.pc = "apply"
  /\ database' = Applied(database, build_migration_plan(command.registry, database.version, command.target))
  /\ command' = [command EXCEPT !.pc = "complete"]
  /\ UNCHANGED <<result, snapshots, stopped>>

RecordCompleted ==
  /\ command.pc = "complete"
  /\ database' = [database EXCEPT !.journal[Len(database.journal)].status = "COMPLETED"]
  /\ command' = NoCommand
  /\ result' = [state |-> "CURRENT", id |-> command.id]
  /\ UNCHANGED <<snapshots, stopped>>

\* A migration, the validation or a statement of the journal raises: the open
\* transaction is rolled back and the attempt recorded as FAILED.
RecordFailed ==
  /\ command.pc \in {"apply", "complete"}
  /\ database' = [database EXCEPT !.journal[Len(database.journal)].status = "FAILED"]
  /\ command' = NoCommand
  /\ result' = [state |-> "FAILED_MIGRATION", id |-> command.id]
  /\ UNCHANGED <<snapshots, stopped>>

\* The command dies, or raises outside of its try: the shell learns of no attempt.
Die ==
  /\ command # NoCommand
  /\ command' = NoCommand
  /\ UNCHANGED <<database, result, snapshots, stopped>>

\* The shell: a command that names its snapshot and is not CURRENT is rolled
\* back, and one that is CURRENT as well when the API does not become ready.
RollBack ==
  /\ result # None /\ result.id # None
  /\ database' = snapshots[result.id]
  /\ stopped' = TRUE /\ result' = None
  /\ UNCHANGED <<command, snapshots>>
\* No attempt was made, the API was ready, or the shell died before it wrote a marker.
Settle ==
  /\ result # None
  /\ result' = None
  /\ UNCHANGED <<database, command, snapshots, stopped>>

Next ==
  \/ InitializeDatabase \/ Execute \/ Backup \/ MarkInterrupted \/ BeginAttempt
  \/ ApplyMigrations \/ RecordCompleted \/ RecordFailed \/ Die
  \/ RollBack \/ Settle
Spec == Init /\ [][Next]_vars
-----------------------------------------------------------------------------
\* The schema is the chain of whole upgrades that leads to the version on record.
SchemaIsWhole(db) ==
  /\ \A i \in 1..(Len(db.schema) - 1) : db.schema[i][2] = db.schema[i + 1][1]
  /\ db.version = IF db.schema = <<>> THEN LOCAL_SCHEMA_VERSION ELSE db.schema[Len(db.schema)][2]

\* Whatever dies or fails, and whatever is rolled back: the database is one that a
\* whole upgrade left, only the last attempt may be without its COMPLETED because
\* nothing is applied after it, and each attempt has the snapshot of what it found.
UpgradesAreWhole ==
  database # None =>
    /\ SchemaIsWhole(database)
    /\ \A i \in 1..(Len(database.journal) - 1) : database.journal[i].status = "COMPLETED"
    /\ \A i \in DOMAIN database.journal :
         LET row == database.journal[i]  found == snapshots[row.id] IN
         /\ SchemaIsWhole(found) /\ found.version = row.from
         /\ IsPrefix(found.schema, database.schema)
         /\ row.status = "COMPLETED" => row.target <= database.version
=============================================================================
