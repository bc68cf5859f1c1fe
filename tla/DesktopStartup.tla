--------------------------- MODULE DesktopStartup ---------------------------
(***************************************************************************)
(* The start of the desktop shell (desktop-shell/src-tauri/src/main.rs):   *)
(* apply a pending restore, run the schema migration, spawn the API, wait  *)
(* for its readiness, and roll back what was replaced when it never comes. *)
(* The state is the application-data directory; one step is one effect on  *)
(* it, so that a crash falls between any two of them and a file operation  *)
(* can fail.  The API side (services/local_backup.py, db/bootstrap.py,     *)
(* db/local_migrations.py) stages and confirms restores, converts the      *)
(* schema and commits the user's edits.                                    *)
(*                                                                         *)
(* The shell holds startup.lock throughout, so one shell is enough.        *)
(* A file that can be the database is a record:                            *)
(*   id    the physical file it was born as (owner of a journal sidecar)   *)
(*   lin   whose data it holds: "user", "backup" (an archive) or "empty"   *)
(*   rev   the stamp of the last edit committed to it                      *)
(*   ver   its schema version                                              *)
(*   jr    the last status in its local_migration_journal                  *)
(*   page  "clean", "torn" (an open write: the sidecar is needed to read   *)
(*         it) or "damaged" (read without it, or with another file's)      *)
(***************************************************************************)
EXTENDS Integers, FiniteSets

CONSTANTS
  Sessions,     \* ids of restore sessions (staged candidates)
  Requests,     \* ids of confirmed restore requests
  Attempts,     \* ids of migration attempts
  NoFile,       \* the value of a path with no file
  FirstInstall, \* TRUE: no database exists yet
  MaxBuild,     \* 2 if the application may be upgraded to schema 2, else 1
  MaxClock,     \* bound: commits of the API in a behaviour
  MaxCrashes,   \* bound: crashes in a behaviour
  MaxFaults     \* bound: failing file operations in a behaviour

ASSUME BoundsAssumption ==
  /\ MaxBuild \in {1, 2} /\ FirstInstall \in BOOLEAN
  /\ MaxClock \in Nat /\ MaxCrashes \in Nat /\ MaxFaults \in Nat
ASSUME IdsAssumption ==
  /\ NoFile \notin Sessions \cup Requests \cup Attempts
  /\ Sessions \cap Requests = {} /\ Sessions \cap Attempts = {}
  /\ Requests \cap Attempts = {}

VARIABLES
  disk,      \* path -> database file or NoFile
  sidecar,   \* owner of the journal beside the active database, or NoFile
  kept,      \* request -> owner of the sidecar moved to its safety directory
  sessions,  \* sessions whose restore-staging/<id>.json exists
  pending,   \* pending-restore.json: NoFile or a marker
  restoreStatus, \* restore-status.json
  marker,    \* migration-attempt.json: NoFile or a marker
  build,     \* LOCAL_SCHEMA_VERSION of the installed application
  pc,        \* next effect of the shell, "down" when it is not running
  app,       \* what `start` holds in memory: RestoreApplication, MigrationApplication
  api,       \* the API child: "off", "opening" or "up"
  spent,     \* request and attempt ids already drawn (uuid4)
  clock,     \* stamp of the last commit
  crashes, faults,
  start      \* history of this start: the database and the faults when it
             \* began, the replacements and conversions of the database since

files == <<disk, sidecar, kept>>
restoreFiles == <<sessions, pending, restoreStatus>>
bounds == <<clock, crashes, faults>>
vars == <<files, restoreFiles, marker, build, pc, app, api, spent, bounds, start>>
-----------------------------------------------------------------------------
Db == <<"db", "active">>
Staged(s) == <<"staged", s>>         \* restore-staging/<session>.sqlite
Safety(q) == <<"safety", q>>         \* restore-safety/<request>/sapsos.db
FailedOverOriginal(q) == <<"safety", q>>   \* mutant: the failed candidate replaces the original
Failed(q) == <<"failed", q>>         \* restore-safety/<request>/failed-restored.sqlite
Snapshot(a) == <<"snapshot", a>>     \* migration-safety/<attempt>/database.sqlite
Evidence(a) == <<"evidence", a>>     \* migration-safety/<attempt>/failed-database.sqlite
Path == ({"db"} \X {"active"}) \cup ({"staged"} \X Sessions)
          \cup ({"safety", "failed"} \X Requests)
          \cup ({"snapshot", "evidence"} \X Attempts)

FileId == {"first", "bootstrap"} \cup Sessions \cup Attempts
Journal == {"none", "IN_PROGRESS", "FAILED", "COMPLETED"}
File == [id : FileId, lin : {"user", "backup", "empty"}, rev : 0..MaxClock,
         ver : 1..MaxBuild, jr : Journal, page : {"clean", "torn", "damaged"}]
NewFile(id, lin, rev) == [id |-> id, lin |-> lin, rev |-> rev, ver |-> build,
                          jr |-> "none", page |-> "clean"]

PendingMarker == [request : Requests, session : Sessions, schema : 1..MaxBuild]
MigrationMarker == [status : {"MIGRATION_FAILED", "MIGRATED_BEFORE_READINESS",
                              "ROLLED_BACK"}, attempt : Attempts]
Memory == [restore : PendingMarker \cup {NoFile}, sidecars : BOOLEAN,
           attempt : Attempts \cup {NoFile}, waited : BOOLEAN]
\* A path with no file is told apart from every file and every marker.
ASSUME NoFileAssumption == NoFile \notin File \cup PendingMarker \cup MigrationMarker

NoMemory == [restore |-> NoFile, sidecars |-> FALSE, attempt |-> NoFile, waited |-> FALSE]

ApplyStates == {"apply", "validate", "consume", "status", "sidecars", "database",
                "install", "undoDatabase", "undoSidecars"}
MigrateStates == {"prepare", "snapshot", "journal", "convert", "complete", "marker"}
ServeStates == {"spawn", "wait", "finalize", "unmark", "running", "exiting"}
RollbackStates == {"evidence", "evidenceSidecars", "copyBack", "recordRollback",
                   "quarantine", "original", "restoreSidecars", "recordRestore"}
ShellState == {"down"} \cup ApplyStates \cup MigrateStates \cup ServeStates \cup RollbackStates

Rename(from, to) == disk' = [disk EXCEPT ![to] = disk[from], ![from] = NoFile]
Update(path, file) == disk' = [disk EXCEPT ![path] = file]
Goto(state) == pc' = state

\* A file operation that returns an error.
Fault == faults < MaxFaults /\ faults' = faults + 1 /\ UNCHANGED <<clock, crashes>>

\* `start` returns Err: its locals, and startup.lock with them, are dropped.
ReturnErr == Goto("down") /\ app' = NoMemory

\* SQLite opens a database: a hot journal of its own is rolled back; a torn
\* file without it, or the journal of another file, leaves damaged pages.
Opened(file) ==
  [file EXCEPT !.page = IF file.page = "damaged" \/ sidecar \notin {NoFile, file.id}
                             \/ (file.page = "torn" /\ sidecar = NoFile)
                        THEN "damaged" ELSE "clean"]
-----------------------------------------------------------------------------
Init ==
  /\ build = 1
  /\ clock = 0 /\ crashes = 0 /\ faults = 0
  /\ disk = [p \in Path |-> IF p = Db /\ ~FirstInstall
                            THEN [id |-> "first", lin |-> "user", rev |-> 0, ver |-> 1,
                                  jr |-> "none", page |-> "clean"]
                            ELSE NoFile]
  /\ sidecar = NoFile /\ kept = [q \in Requests |-> NoFile]
  /\ sessions = {} /\ pending = NoFile /\ restoreStatus = "none" /\ marker = NoFile
  /\ pc = "down" /\ app = NoMemory /\ api = "off" /\ spent = {}
  /\ start = [db |-> disk[Db], faults |-> 0, ops |-> 0]

\* main -> DesktopProcesses::start up to apply_pending_restore, under StartupLock.
Start ==
  /\ pc = "down"
  /\ Goto("apply") /\ start' = [db |-> disk[Db], faults |-> faults, ops |-> 0]
  /\ UNCHANGED <<files, restoreFiles, marker, build, app, api, spent, bounds>>

\* A newer application, with schema 2, is installed while the shell is down.
UpgradeApplication ==
  /\ pc = "down" /\ build < MaxBuild /\ build' = build + 1
  /\ UNCHANGED <<files, restoreFiles, marker, pc, app, api, spent, bounds, start>>
-----------------------------------------------------------------------------
(* apply_pending_restore *)

NoPendingRestore ==
  /\ pc = "apply" /\ pending = NoFile /\ Goto("prepare")
  /\ UNCHANGED <<files, restoreFiles, marker, build, app, api, spent, bounds, start>>

\* Mutant: the marker is copied to the quarantine instead of renamed.
TakeMarkerByCopy ==
  /\ pc = "apply" /\ pending # NoFile /\ Goto("validate")
  /\ app' = [app EXCEPT !.restore = pending]
  /\ UNCHANGED <<files, restoreFiles, marker, build, api, spent, bounds, start>>

\* The marker is renamed away before it is even read: it is never replayed.
TakeMarker ==
  /\ pc = "apply" /\ pending # NoFile
  /\ \/ /\ Goto("validate") /\ app' = [app EXCEPT !.restore = pending] /\ pending' = NoFile
        /\ UNCHANGED bounds
     \/ Fault /\ ReturnErr /\ UNCHANGED pending
  /\ UNCHANGED <<files, sessions, restoreStatus, marker, build, api, spent, start>>

\* Schema 1 is a literal of the shell; the candidate is compared with its
\* checksum, which fails when it was cancelled or already installed.
ValidateCandidate ==
  /\ pc = "validate"
  /\ IF app.restore.schema = 1 /\ disk[Staged(app.restore.session)] # NoFile
     THEN Goto("consume") /\ UNCHANGED app
     ELSE ReturnErr
  /\ UNCHANGED <<files, restoreFiles, marker, build, api, spent, bounds, start>>

ConsumeMarker ==
  /\ pc = "consume"
  /\ \/ Goto("status") /\ UNCHANGED <<app, bounds>>
     \/ Fault /\ ReturnErr
  /\ UNCHANGED <<files, restoreFiles, marker, build, api, spent, start>>

WriteApplying ==
  /\ pc = "status"
  /\ \/ Goto("sidecars") /\ restoreStatus' = "applying" /\ UNCHANGED <<app, bounds>>
     \/ Fault /\ ReturnErr /\ UNCHANGED restoreStatus
  /\ UNCHANGED <<files, sessions, pending, marker, build, api, spent, start>>

MoveSidecars ==
  /\ pc = "sidecars"
  /\ \/ /\ sidecar # NoFile
        /\ \/ /\ kept' = [kept EXCEPT ![app.restore.request] = sidecar] /\ sidecar' = NoFile
              /\ Goto("database") /\ app' = [app EXCEPT !.sidecars = TRUE]
              /\ UNCHANGED bounds
           \/ Fault /\ ReturnErr /\ UNCHANGED <<sidecar, kept>>
     \/ sidecar = NoFile /\ Goto("database") /\ UNCHANGED <<sidecar, kept, app, bounds>>
  /\ UNCHANGED <<disk, restoreFiles, marker, build, api, spent, start>>

MoveDatabase ==
  /\ pc = "database"
  /\ \/ disk[Db] = NoFile /\ Goto("install") /\ UNCHANGED <<disk, bounds>>
     \/ /\ disk[Db] # NoFile
        /\ \/ Rename(Db, Safety(app.restore.request)) /\ Goto("install") /\ UNCHANGED bounds
           \/ Fault /\ Goto("undoSidecars") /\ UNCHANGED disk
  /\ UNCHANGED <<sidecar, kept, restoreFiles, marker, build, app, api, spent, start>>

InstallCandidate ==
  /\ pc = "install"
  /\ \/ /\ Rename(Staged(app.restore.session), Db) /\ Goto("prepare") /\ start' = [start EXCEPT !.ops = @ + 1]
        /\ UNCHANGED bounds
     \/ Fault /\ Goto("undoDatabase") /\ UNCHANGED <<disk, start>>
  /\ UNCHANGED <<sidecar, kept, restoreFiles, marker, build, app, api, spent>>

\* Errors of the undo renames are ignored (`let _ =`).
UndoDatabase ==
  /\ pc = "undoDatabase" /\ Goto("undoSidecars")
  /\ \/ /\ disk[Safety(app.restore.request)] # NoFile
        /\ Rename(Safety(app.restore.request), Db) /\ UNCHANGED bounds
     \/ disk[Safety(app.restore.request)] = NoFile /\ UNCHANGED <<disk, bounds>>
     \/ Fault /\ UNCHANGED disk
  /\ UNCHANGED <<sidecar, kept, restoreFiles, marker, build, app, api, spent, start>>

ReturnSidecar(request) ==
  sidecar' = kept[request] /\ kept' = [kept EXCEPT ![request] = NoFile]

UndoSidecars ==
  /\ pc = "undoSidecars" /\ ReturnErr
  /\ \/ app.sidecars /\ ReturnSidecar(app.restore.request) /\ UNCHANGED bounds
     \/ ~app.sidecars /\ UNCHANGED <<sidecar, kept, bounds>>
     \/ Fault /\ UNCHANGED <<sidecar, kept>>
  /\ UNCHANGED <<disk, restoreFiles, marker, build, api, spent, start>>
-----------------------------------------------------------------------------
(* prepare_migration and the contract's preflight and execute *)

\* prepare_migration returned Err: `start` rolls an applied restore back.
PrepareErr == IF app.restore # NoFile THEN Goto("quarantine") /\ UNCHANGED app ELSE ReturnErr

\* Mutant: the refusal clears the marker.
RefuseRolledBackOnce ==
  /\ pc = "prepare" /\ marker # NoFile /\ marker.status = "ROLLED_BACK" /\ PrepareErr
  /\ marker' = NoFile
  /\ UNCHANGED <<files, restoreFiles, build, api, spent, bounds, start>>

RefuseRolledBack ==
  /\ pc = "prepare" /\ marker # NoFile /\ marker.status = "ROLLED_BACK" /\ PrepareErr
  /\ UNCHANGED <<files, restoreFiles, marker, build, api, spent, bounds, start>>

RecoverInterrupted ==
  /\ pc = "prepare" /\ marker # NoFile /\ marker.status # "ROLLED_BACK"
  /\ Goto("evidence") /\ app' = [app EXCEPT !.attempt = marker.attempt]
  /\ UNCHANGED <<files, restoreFiles, marker, build, api, spent, bounds, start>>

FirstRunBootstrap ==
  /\ pc = "prepare" /\ marker = NoFile /\ disk[Db] = NoFile /\ Goto("spawn")
  /\ UNCHANGED <<files, restoreFiles, marker, build, app, api, spent, bounds, start>>

\* Mutant: the version is compared before the journal is looked at.
SchemaStatusVersionFirst(file) ==
  CASE file.ver > build -> "NEWER_VERSION_UNSUPPORTED"
    [] file.ver = build -> "CURRENT"
    [] file.ver < build /\ file.jr = "IN_PROGRESS" -> "MIGRATION_IN_PROGRESS"
    [] file.ver < build /\ file.jr = "FAILED" -> "FAILED_MIGRATION"
    [] OTHER -> "UPGRADE_REQUIRED"

\* inspect_schema: an attempt left in the journal is reported before the version.
SchemaStatus(file) ==
  CASE file.jr = "IN_PROGRESS" -> "MIGRATION_IN_PROGRESS"
    [] file.jr = "FAILED" -> "FAILED_MIGRATION"
    [] file.jr \notin {"IN_PROGRESS", "FAILED"} /\ file.ver > build -> "NEWER_VERSION_UNSUPPORTED"
    [] file.jr \notin {"IN_PROGRESS", "FAILED"} /\ file.ver = build -> "CURRENT"
    [] OTHER -> "UPGRADE_REQUIRED"

\* Every query of the contract opens the database, which replays its journal.
Preflight ==
  /\ pc = "prepare" /\ marker = NoFile /\ disk[Db] # NoFile
  /\ Update(Db, Opened(disk[Db])) /\ sidecar' = NoFile
  /\ LET status == SchemaStatus(disk[Db]) IN
     \/ status = "CURRENT" /\ Goto("spawn") /\ UNCHANGED <<app, bounds>>
     \/ status = "UPGRADE_REQUIRED" /\ Goto("snapshot") /\ UNCHANGED <<app, bounds>>
     \/ status \notin {"CURRENT", "UPGRADE_REQUIRED"} /\ PrepareErr /\ UNCHANGED bounds
     \/ Fault /\ PrepareErr
  /\ UNCHANGED <<kept, restoreFiles, marker, build, api, spent, start>>

\* create_migration_safety_backup; a failure leaves no marker and no journal.
\* Running out of attempt ids, a bound of the model, counts as one.
TakeSnapshot ==
  /\ pc = "snapshot"
  /\ \/ \E a \in Attempts \ spent :
          /\ Update(Snapshot(a), [disk[Db] EXCEPT !.id = a])
          /\ spent' = spent \cup {a} /\ app' = [app EXCEPT !.attempt = a]
          /\ Goto("journal") /\ UNCHANGED bounds
     \/ /\ Fault \/ (Attempts \subseteq spent /\ UNCHANGED bounds)
        /\ PrepareErr /\ UNCHANGED <<disk, spent>>
  /\ UNCHANGED <<sidecar, kept, restoreFiles, marker, build, api, start>>

\* An error before the attempt is committed leaves no marker and no journal.
RecordAttempt ==
  /\ pc = "journal"
  /\ \/ /\ Update(Db, [disk[Db] EXCEPT !.jr = "IN_PROGRESS"])
        /\ Goto("convert") /\ UNCHANGED <<app, bounds>>
     \/ Fault /\ PrepareErr /\ UNCHANGED disk
  /\ UNCHANGED <<sidecar, kept, restoreFiles, marker, build, api, spent, start>>

\* The conversion and the new version commit together; an error rolls them
\* back and the journal records it, before the shell hears of it.
Convert ==
  /\ pc = "convert"
  /\ \/ /\ Update(Db, [disk[Db] EXCEPT !.ver = build]) /\ start' = [start EXCEPT !.ops = @ + 1]
        /\ Goto("complete") /\ UNCHANGED bounds
     \/ /\ Update(Db, [disk[Db] EXCEPT !.jr = "FAILED"]) /\ Goto("marker")
        /\ Fault /\ UNCHANGED start
  /\ UNCHANGED <<sidecar, kept, restoreFiles, marker, build, app, api, spent>>

\* An error here is recorded as a failed attempt, although the version is new.
CompleteAttempt ==
  /\ pc = "complete" /\ Goto("marker")
  /\ \/ Update(Db, [disk[Db] EXCEPT !.jr = "COMPLETED"]) /\ UNCHANGED bounds
     \/ Update(Db, [disk[Db] EXCEPT !.jr = "FAILED"]) /\ Fault
  /\ UNCHANGED <<sidecar, kept, restoreFiles, marker, build, app, api, spent, start>>

\* A fault stands for every error between the end of `execute` and the
\* marker: unreadable output, a foreign database identity, a failing write.
WriteMarker ==
  /\ pc = "marker"
  /\ \/ /\ disk[Db].jr = "COMPLETED" /\ Goto("spawn") /\ UNCHANGED <<app, bounds>>
        /\ marker' = [status |-> "MIGRATED_BEFORE_READINESS", attempt |-> app.attempt]
     \/ /\ disk[Db].jr = "FAILED" /\ Goto("evidence") /\ UNCHANGED <<app, bounds>>
        /\ marker' = [status |-> "MIGRATION_FAILED", attempt |-> app.attempt]
     \/ Fault /\ PrepareErr /\ UNCHANGED marker
  /\ UNCHANGED <<files, restoreFiles, build, api, spent, start>>
-----------------------------------------------------------------------------
(* The API child: spawn, first use of the database, readiness, service *)

\* An error here returns through `?`: nothing is rolled back.
SpawnApi ==
  /\ pc = "spawn"
  /\ \/ Goto("wait") /\ api' = "opening" /\ UNCHANGED <<app, bounds>>
     \/ Fault /\ ReturnErr /\ UNCHANGED api
  /\ UNCHANGED <<files, restoreFiles, marker, build, spent, start>>

\* initialize_database: creates a missing database, refuses another version.
OpenDatabase ==
  /\ api = "opening" /\ sidecar' = NoFile
  /\ IF disk[Db] = NoFile
     THEN Update(Db, NewFile("bootstrap", "empty", 0)) /\ api' = "up"
     ELSE /\ Update(Db, Opened(disk[Db]))
          /\ api' = IF disk[Db].ver = build THEN "up" ELSE "off"
  /\ UNCHANGED <<kept, restoreFiles, marker, build, pc, app, spent, bounds, start>>

BeginWrite ==
  /\ api = "up" /\ clock < MaxClock /\ disk[Db].page = "clean"
  /\ Update(Db, [disk[Db] EXCEPT !.page = "torn"]) /\ sidecar' = disk[Db].id
  /\ UNCHANGED <<kept, restoreFiles, marker, build, pc, app, api, spent, bounds, start>>

CommitWrite ==
  /\ api = "up" /\ clock < MaxClock /\ disk[Db].page = "torn"
  /\ Update(Db, [disk[Db] EXCEPT !.page = "clean", !.rev = clock + 1,
                                 !.lin = IF @ = "empty" THEN "user" ELSE @])
  /\ sidecar' = NoFile /\ clock' = clock + 1
  /\ UNCHANGED <<kept, restoreFiles, marker, build, pc, app, api, spent, crashes, faults,
                 start>>

ApiReady ==
  /\ pc = "wait" /\ api = "up" /\ Goto("finalize")
  /\ UNCHANGED <<files, restoreFiles, marker, build, app, api, spent, bounds, start>>

\* finalize_restore; when the status cannot be written `start` returns Err
\* with the API still running, and the application exits.
FinalizeRestore ==
  /\ pc = "finalize"
  /\ \/ app.restore = NoFile /\ Goto("unmark")
        /\ UNCHANGED <<disk, pending, restoreStatus, app, bounds>>
     \/ /\ app.restore # NoFile
        /\ pending' = NoFile /\ Update(Staged(app.restore.session), NoFile)
        /\ \/ Goto("unmark") /\ restoreStatus' = "succeeded" /\ UNCHANGED <<app, bounds>>
           \/ Fault /\ Goto("exiting") /\ app' = NoMemory /\ UNCHANGED restoreStatus
  /\ UNCHANGED <<sidecar, kept, sessions, marker, build, api, spent, start>>

\* `let _ = fs::remove_file(marker_path)`: a failure goes unnoticed.
RemoveMarker ==
  /\ pc = "unmark" /\ Goto("running")
  /\ \/ app.attempt = NoFile /\ UNCHANGED <<marker, bounds>>
     \/ app.attempt # NoFile /\ marker' = NoFile /\ UNCHANGED bounds
     \/ app.attempt # NoFile /\ Fault /\ UNCHANGED marker
  /\ UNCHANGED <<files, restoreFiles, build, app, api, spent, start>>

\* Mutant: the wait ends only when the child has exited.
ReadinessTimeoutOnExit ==
  /\ pc = "wait" /\ api = "off" /\ ReturnErr
  /\ UNCHANGED <<files, restoreFiles, marker, build, api, spent, bounds, start>>

\* wait_for_api gave up: stop kills the child, then both rollbacks follow.
ReadinessTimeout ==
  /\ pc = "wait" /\ api' = "off"
  /\ IF app.attempt = NoFile /\ app.restore = NoFile
     THEN ReturnErr
     ELSE /\ Goto(IF app.attempt # NoFile THEN "evidence" ELSE "quarantine")
          /\ app' = [app EXCEPT !.waited = TRUE]
  /\ UNCHANGED <<files, restoreFiles, marker, build, spent, bounds, start>>

Stop ==
  /\ pc \in {"running", "exiting"} /\ ReturnErr /\ api' = "off"
  /\ UNCHANGED <<files, restoreFiles, marker, build, spent, bounds, start>>

Crash ==
  /\ pc # "down" /\ crashes < MaxCrashes /\ crashes' = crashes + 1
  /\ ReturnErr /\ api' = "off"
  /\ UNCHANGED <<files, restoreFiles, marker, build, spent, clock, faults, start>>
-----------------------------------------------------------------------------
(* rollback_migration *)

\* Err from rollback_migration: after the readiness wait it returns through
\* `?` and skips rollback_restore; inside prepare_migration it does not.
RollbackErr == IF app.waited THEN ReturnErr ELSE PrepareErr

PreserveEvidence ==
  /\ pc = "evidence"
  /\ \/ disk[Snapshot(app.attempt)] = NoFile /\ RollbackErr /\ UNCHANGED <<disk, bounds>>
     \/ /\ disk[Snapshot(app.attempt)] # NoFile
        /\ \/ disk[Db] = NoFile /\ Goto("evidenceSidecars") /\ UNCHANGED <<disk, app, bounds>>
           \/ /\ disk[Db] # NoFile /\ Rename(Db, Evidence(app.attempt))
              /\ Goto("evidenceSidecars") /\ UNCHANGED <<app, bounds>>
           \/ disk[Db] # NoFile /\ Fault /\ RollbackErr /\ UNCHANGED disk
  /\ UNCHANGED <<sidecar, kept, restoreFiles, marker, build, api, spent, start>>

PreserveEvidenceSidecars ==
  /\ pc = "evidenceSidecars"
  /\ \/ sidecar' = NoFile /\ Goto("copyBack") /\ UNCHANGED <<app, bounds>>
     \/ sidecar # NoFile /\ Fault /\ RollbackErr /\ UNCHANGED sidecar
  /\ UNCHANGED <<disk, kept, restoreFiles, marker, build, api, spent, start>>

\* Copied to rollback.tmp first, so the rename publishes a whole file.
CopySnapshotBack ==
  /\ pc = "copyBack"
  /\ \/ /\ Update(Db, disk[Snapshot(app.attempt)]) /\ Goto("recordRollback")
        /\ UNCHANGED <<app, bounds>>
     \/ Fault /\ RollbackErr /\ UNCHANGED disk
  /\ UNCHANGED <<sidecar, kept, restoreFiles, marker, build, api, spent, start>>

\* Mutant: the migration rollback ends the start, an applied restore stays.
RecordRollbackAndReturn ==
  /\ pc = "recordRollback" /\ ReturnErr
  /\ marker' = [status |-> "ROLLED_BACK", attempt |-> app.attempt]
  /\ UNCHANGED <<files, restoreFiles, build, api, spent, bounds, start>>

RecordRollback ==
  /\ pc = "recordRollback"
  /\ \/ /\ marker' = [status |-> "ROLLED_BACK", attempt |-> app.attempt]
        /\ PrepareErr /\ UNCHANGED bounds
     \/ Fault /\ RollbackErr /\ UNCHANGED marker
  /\ UNCHANGED <<files, restoreFiles, build, api, spent, start>>
-----------------------------------------------------------------------------
(* rollback_restore *)

QuarantineRestored ==
  /\ pc = "quarantine"
  /\ \/ disk[Db] = NoFile /\ Goto("original") /\ UNCHANGED <<disk, app, bounds>>
     \/ /\ disk[Db] # NoFile /\ Rename(Db, Failed(app.restore.request))
        /\ Goto("original") /\ UNCHANGED <<app, bounds>>
     \/ disk[Db] # NoFile /\ Fault /\ ReturnErr /\ UNCHANGED disk
  /\ UNCHANGED <<sidecar, kept, restoreFiles, marker, build, api, spent, start>>

ReturnOriginal ==
  /\ pc = "original"
  /\ LET original == Safety(app.restore.request) IN
     \/ disk[original] = NoFile /\ Goto("restoreSidecars") /\ UNCHANGED <<disk, app, bounds>>
     \/ /\ disk[original] # NoFile /\ Rename(original, Db)
        /\ Goto("restoreSidecars") /\ UNCHANGED <<app, bounds>>
     \/ disk[original] # NoFile /\ Fault /\ ReturnErr /\ UNCHANGED disk
  /\ UNCHANGED <<sidecar, kept, restoreFiles, marker, build, api, spent, start>>

\* Only the sidecars moved at apply time are returned; one that the failed
\* candidate left beside the database is not removed.
ReturnSidecars ==
  /\ pc = "restoreSidecars"
  /\ \/ /\ app.sidecars /\ kept[app.restore.request] # NoFile
        /\ \/ ReturnSidecar(app.restore.request) /\ Goto("recordRestore")
              /\ UNCHANGED <<app, bounds>>
           \/ Fault /\ ReturnErr /\ UNCHANGED <<sidecar, kept>>
     \/ /\ ~(app.sidecars /\ kept[app.restore.request] # NoFile)
        /\ Goto("recordRestore") /\ UNCHANGED <<sidecar, kept, app, bounds>>
  /\ UNCHANGED <<disk, restoreFiles, marker, build, api, spent, start>>

RecordRestoreRollback ==
  /\ pc = "recordRestore" /\ ReturnErr /\ pending' = NoFile
  /\ \/ restoreStatus' = "rolled_back" /\ UNCHANGED bounds
     \/ Fault /\ UNCHANGED restoreStatus
  /\ UNCHANGED <<files, sessions, marker, build, api, spent, start>>
-----------------------------------------------------------------------------
(* The restore endpoints of the running API (services/local_backup.py) *)

Stage(s) ==
  /\ pc = "running" /\ api = "up" /\ pending = NoFile /\ s \notin spent
  /\ spent' = spent \cup {s} /\ sessions' = sessions \cup {s}
  /\ Update(Staged(s), NewFile(s, "backup", 0))
  /\ UNCHANGED <<sidecar, kept, pending, restoreStatus, marker, build, pc, app, api, bounds,
                 start>>

\* The session file is not removed: the same candidate may be confirmed again.
Confirm(s, q) ==
  /\ pc = "running" /\ api = "up" /\ pending = NoFile /\ s \in sessions
  /\ disk[Staged(s)] # NoFile /\ q \notin spent /\ spent' = spent \cup {q}
  /\ pending' = [request |-> q, session |-> s, schema |-> build]
  /\ restoreStatus' = "restart_required"
  /\ UNCHANGED <<files, sessions, marker, build, pc, app, api, bounds, start>>

\* Nothing looks at pending-restore.json: a confirmed candidate goes too.
Cancel(s) ==
  /\ pc = "running" /\ api = "up" /\ s \in sessions
  /\ sessions' = sessions \ {s} /\ Update(Staged(s), NoFile)
  /\ UNCHANGED <<sidecar, kept, pending, restoreStatus, marker, build, pc, app, api, spent,
                 bounds, start>>
-----------------------------------------------------------------------------
ApplyStep ==
  \/ NoPendingRestore \/ TakeMarker \/ ValidateCandidate \/ ConsumeMarker \/ WriteApplying
  \/ MoveSidecars \/ MoveDatabase \/ InstallCandidate \/ UndoDatabase \/ UndoSidecars
MigrateStep ==
  \/ RefuseRolledBack \/ RecoverInterrupted \/ FirstRunBootstrap \/ Preflight \/ TakeSnapshot
  \/ RecordAttempt \/ Convert \/ CompleteAttempt \/ WriteMarker
ServeStep == SpawnApi \/ ApiReady \/ FinalizeRestore \/ RemoveMarker \/ ReadinessTimeout
RollbackStep ==
  \/ PreserveEvidence \/ PreserveEvidenceSidecars \/ CopySnapshotBack \/ RecordRollback
  \/ QuarantineRestored \/ ReturnOriginal \/ ReturnSidecars \/ RecordRestoreRollback
ApiStep == OpenDatabase \/ BeginWrite \/ CommitWrite
UserStep ==
  \/ Start \/ UpgradeApplication \/ Stop
  \/ \E s \in Sessions : Stage(s) \/ Cancel(s) \/ \E q \in Requests : Confirm(s, q)

Next == ApplyStep \/ MigrateStep \/ ServeStep \/ RollbackStep \/ ApiStep \/ UserStep \/ Crash

Spec == Init /\ [][Next]_vars

\* A start is straight-line code; wait_for_api has a deadline, and the two
\* runs of the migration contract are assumed to terminate (their `output()`
\* has none).  After an error of finalize_restore the application exits.
StartFairness ==
  /\ WF_vars(ApplyStep \/ MigrateStep \/ ServeStep \/ RollbackStep)
  /\ WF_vars(Stop /\ pc = "exiting")
FairSpec == Spec /\ StartFairness
-----------------------------------------------------------------------------
\* The types of the data directory and of what the shell and the API hold.
TypeOK ==
  /\ disk \in [Path -> File \cup {NoFile}]
  /\ sidecar \in FileId \cup {NoFile} /\ kept \in [Requests -> FileId \cup {NoFile}]
  /\ sessions \subseteq Sessions /\ pending \in PendingMarker \cup {NoFile}
  /\ restoreStatus \in {"none", "restart_required", "applying", "succeeded", "rolled_back"}
  /\ marker \in MigrationMarker \cup {NoFile} /\ build \in 1..MaxBuild
  /\ pc \in ShellState /\ app \in Memory /\ api \in {"off", "opening", "up"}
  /\ spent \subseteq Sessions \cup Requests \cup Attempts
  /\ clock \in 0..MaxClock /\ crashes \in 0..MaxCrashes /\ faults \in 0..MaxFaults
  /\ start \in [db : File \cup {NoFile}, faults : 0..MaxFaults, ops : Nat]

\* What each state of the shell relies on: its locals are bound, and a database
\* is there while it is converted or served.
Prepared ==
  /\ pc \in (ApplyStates \ {"apply"}) \cup
            {"quarantine", "original", "restoreSidecars", "recordRestore"}
       => app.restore \in PendingMarker
  /\ pc \in {"journal", "convert", "complete", "marker", "evidence", "evidenceSidecars",
             "copyBack", "recordRollback"}
       => app.attempt \in Attempts
  /\ pc \in {"snapshot", "journal", "convert", "complete", "marker"} => disk[Db] \in File
  /\ pc \in {"down", "apply"} => app = NoMemory
  /\ api = "up" => disk[Db] \in File
  /\ api # "off" => pc \in {"wait", "finalize", "unmark", "running", "exiting"}

\* Whatever crashes or fails in a start, the data that was the database when
\* it began is still in some file of the data directory.
PreStartDataSurvives ==
  start.db # NoFile /\ start.db.lin # "empty" =>
    \E p \in Path : disk[p] # NoFile /\ disk[p].lin = start.db.lin
                      /\ disk[p].rev >= start.db.rev

\* RollbackIsFinal: a ROLLED_BACK marker is never rewritten or removed by the
\* program and no API child runs while it is there, so a rolled-back migration
\* is not retried (prepare_migration).
RollbackIsFinal ==
  [][marker # NoFile /\ marker.status = "ROLLED_BACK" => marker' = marker /\ api' = "off"]_vars

SameData(f, g) ==
  IF f = NoFile \/ g = NoFile THEN f = g
  ELSE f.lin = g.lin /\ f.rev = g.rev /\ f.ver = g.ver

\* A start that replaced or converted the database and returns Err, without a
\* crash or a failing file operation in it, leaves as the active database the
\* data it found there, through whichever of the two rollbacks it took.
FailedStartReturnsData ==
  [][pc \notin {"down", "running", "exiting"} /\ pc' = "down" /\ crashes' = crashes
       /\ faults' = start.faults /\ start.ops > 0
     => SameData(disk'[Db], start.db)]_vars

\* The window opens only on a database of the application's own schema whose
\* journal shows no unfinished or failed attempt, after any sequence of crashes,
\* upgrades, restores and rollbacks.
ServedSchemaIsCurrent ==
  pc = "running" => disk[Db].ver = build /\ disk[Db].jr \in {"none", "COMPLETED"}

\* Every start ends: it opens the window or returns Err, also when the API
\* hangs and when the previous run crashed anywhere.
EveryStartSettles == pc = "apply" ~> pc \in {"down", "running"}

\* A confirmed request is attempted once, one at a time (RestoreOnce).
RequestPhase(q) ==
  CASE q \notin spent -> "unused"
    [] q \in spent /\ pending # NoFile /\ pending.request = q -> "pending"
    [] app.restore # NoFile /\ app.restore.request = q /\ pc # "running"
         -> IF pc \in ApplyStates THEN "taken" ELSE "installed"
    [] OTHER -> "settled"
Once == INSTANCE RestoreOnce WITH phase <- [q \in Requests |-> RequestPhase(q)]
RestoreAttemptedOnce == Once!Spec
-----------------------------------------------------------------------------
(* Statements of the documentation that the program does not keep. *)

\* "It does not ... silently rebuild or delete a user database": a new, empty
\* database is never created while the user's lies in restore-safety.
NoSilentRebuild ==
  disk[Db] # NoFile /\ disk[Db].id = "bootstrap" =>
    \A q \in Requests : disk[Safety(q)] = NoFile \/ disk[Safety(q)].id = "bootstrap"

\* "restores the original database/sidecars after failed startup": after the
\* rollback the journal beside the database is the database's own.
RolledBackSidecarIsOwn ==
  pc = "down" /\ restoreStatus = "rolled_back" /\ disk[Db] # NoFile =>
    sidecar \in {NoFile, disk[Db].id}
=============================================================================
