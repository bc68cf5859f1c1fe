------------------------ MODULE DesktopStartupProofs ------------------------
(***************************************************************************)
(* Theorems of DesktopStartup, for every number of sessions, requests and  *)
(* attempts and every bound on commits, crashes and failing operations.    *)
(***************************************************************************)
EXTENDS DesktopStartup, TLAPS

Inv == TypeOK /\ Prepared

LEMMA PathsOfIds ==
  /\ Db \in Path
  /\ \A s \in Sessions : Staged(s) \in Path
  /\ \A q \in Requests : Safety(q) \in Path /\ Failed(q) \in Path
  /\ \A a \in Attempts : Snapshot(a) \in Path /\ Evidence(a) \in Path
BY DEF Path, Db, Staged, Safety, Failed, Snapshot, Evidence

LEMMA DistinctPaths ==
  /\ \A s \in Sessions : Staged(s) # Db
  /\ \A q \in Requests : Safety(q) # Db /\ Failed(q) # Db
  /\ \A a \in Attempts : Snapshot(a) # Db /\ Evidence(a) # Db
BY DEF Db, Staged, Safety, Failed, Snapshot, Evidence

\* What the updates of the shell's locals return.
LEMMA MemoryUpdates ==
  /\ NoMemory \in Memory
  /\ \A m \in Memory, p \in PendingMarker :
       [m EXCEPT !.restore = p] \in Memory /\ [m EXCEPT !.restore = p].restore = p
  /\ \A m \in Memory : [m EXCEPT !.sidecars = TRUE] \in Memory
                         /\ [m EXCEPT !.sidecars = TRUE].restore = m.restore
  /\ \A m \in Memory, a \in Attempts :
       [m EXCEPT !.attempt = a] \in Memory /\ [m EXCEPT !.attempt = a].attempt = a
         /\ [m EXCEPT !.attempt = a].restore = m.restore
  /\ \A m \in Memory : [m EXCEPT !.waited = TRUE] \in Memory
                         /\ [m EXCEPT !.waited = TRUE].restore = m.restore
                         /\ [m EXCEPT !.waited = TRUE].attempt = m.attempt
  /\ \A m \in Memory : m.restore \in PendingMarker \cup {NoFile}
                         /\ m.attempt \in Attempts \cup {NoFile}
BY DEF Memory, NoMemory

LEMMA PendingFields ==
  \A p \in PendingMarker : p.request \in Requests /\ p.session \in Sessions
BY DEF PendingMarker

LEMMA InvInit == Init => Inv
<1> SUFFICES ASSUME Init PROVE Inv
  OBVIOUS
<1>1. disk \in [Path -> File \cup {NoFile}] /\ disk[Db] \in File \cup {NoFile}
  BY BoundsAssumption, PathsOfIds DEF Init, File, FileId, Journal
<1>2. TypeOK
  BY <1>1, MemoryUpdates, BoundsAssumption DEF Init, TypeOK, ShellState
<1>3. Prepared
  BY DEF Init, Prepared, NoMemory, ApplyStates
<1>4. QED BY <1>2, <1>3 DEF Inv

LEMMA InvApply == Inv /\ ApplyStep => Inv'
<1> SUFFICES ASSUME Inv, ApplyStep PROVE Inv'
  OBVIOUS
<1> USE PathsOfIds, DistinctPaths, MemoryUpdates, PendingFields, BoundsAssumption
    DEF Inv, TypeOK, Prepared, ShellState, ApplyStates, MigrateStates, ServeStates,
        RollbackStates, files, restoreFiles, bounds,
        Goto, Fault, ReturnErr, Rename, Update, ReturnSidecar
<1>1. CASE NoPendingRestore BY <1>1 DEF NoPendingRestore
<1>2. CASE TakeMarker
  <2>1. CASE app' = [app EXCEPT !.restore = pending] /\ Goto("validate")
    <3>1. pending \in PendingMarker
      BY <1>2 DEF TakeMarker
    <3>2. app' \in Memory /\ app'.restore = pending
      BY <2>1, <3>1
    <3>3. QED BY <1>2, <2>1, <3>1, <3>2 DEF TakeMarker
  <2>2. CASE Fault /\ ReturnErr /\ UNCHANGED pending
    BY <1>2, <2>2 DEF TakeMarker
  <2>3. QED BY <1>2, <2>1, <2>2 DEF TakeMarker
<1>3. CASE ValidateCandidate BY <1>3 DEF ValidateCandidate
<1>4. CASE ConsumeMarker BY <1>4 DEF ConsumeMarker
<1>5. CASE WriteApplying BY <1>5 DEF WriteApplying
<1>6. CASE MoveSidecars
  <2>1. CASE app' = [app EXCEPT !.sidecars = TRUE] /\ Goto("database")
    <3>1. app' \in Memory /\ app'.restore = app.restore
      BY <2>1
    <3>2. QED BY <1>6, <2>1, <3>1 DEF MoveSidecars
  <2>2. CASE UNCHANGED app
    BY <1>6, <2>2 DEF MoveSidecars
  <2>3. CASE ReturnErr
    BY <1>6, <2>3 DEF MoveSidecars
  <2>4. QED BY <1>6, <2>1, <2>2, <2>3 DEF MoveSidecars
<1>7. CASE MoveDatabase BY <1>7 DEF MoveDatabase
<1>8. CASE InstallCandidate BY <1>8 DEF InstallCandidate
<1>9. CASE UndoDatabase BY <1>9 DEF UndoDatabase
<1>10. CASE UndoSidecars BY <1>10 DEF UndoSidecars
<1>11. QED BY <1>1, <1>2, <1>3, <1>4, <1>5, <1>6, <1>7, <1>8, <1>9, <1>10 DEF ApplyStep

LEMMA FileUpdates ==
  ASSUME NEW f \in File
  PROVE  /\ Opened(f) \in File
         /\ \A a \in Attempts : [f EXCEPT !.id = a] \in File
         /\ \A j \in Journal : [f EXCEPT !.jr = j] \in File
         /\ \A v \in 1..MaxBuild : [f EXCEPT !.ver = v] \in File
         /\ [f EXCEPT !.page = "torn"] \in File
         /\ f.id \in FileId
BY DEF File, FileId, Opened

LEMMA InvMigrate == Inv /\ MigrateStep => Inv'
<1> SUFFICES ASSUME Inv, MigrateStep PROVE Inv'
  OBVIOUS
<1> USE PathsOfIds, DistinctPaths, MemoryUpdates, PendingFields, BoundsAssumption
    DEF Inv, TypeOK, Prepared, ShellState, ApplyStates, MigrateStates, ServeStates,
        RollbackStates, files, restoreFiles, bounds,
        Goto, Fault, ReturnErr, PrepareErr, Update
<1>1. CASE RefuseRolledBack BY <1>1 DEF RefuseRolledBack
<1>2. CASE RecoverInterrupted
  <2>1. marker.attempt \in Attempts
    BY <1>2 DEF RecoverInterrupted, MigrationMarker
  <2>2. app' \in Memory /\ app'.attempt = marker.attempt
    BY <1>2, <2>1 DEF RecoverInterrupted
  <2>3. QED BY <1>2, <2>1, <2>2 DEF RecoverInterrupted
<1>3. CASE FirstRunBootstrap BY <1>3 DEF FirstRunBootstrap
<1>4. CASE Preflight
  <2>1. Opened(disk[Db]) \in File
    <3>1. disk[Db] \in File
      BY <1>4 DEF Preflight
    <3>2. QED BY ONLY <3>1, FileUpdates
  <2>2. QED BY <1>4, <2>1 DEF Preflight
<1>5. CASE TakeSnapshot
  <2>1. CASE \E a \in Attempts : /\ Update(Snapshot(a), [disk[Db] EXCEPT !.id = a])
                                 /\ spent' = spent \cup {a}
                                 /\ app' = [app EXCEPT !.attempt = a]
                                 /\ Goto("journal") /\ UNCHANGED bounds
    <3>1. PICK a \in Attempts : /\ Update(Snapshot(a), [disk[Db] EXCEPT !.id = a])
                                /\ spent' = spent \cup {a}
                                /\ app' = [app EXCEPT !.attempt = a]
                                /\ Goto("journal") /\ UNCHANGED bounds
      BY <2>1
    <3>2. [disk[Db] EXCEPT !.id = a] \in File
      BY <1>5, FileUpdates DEF TakeSnapshot
    <3>3. app' \in Memory /\ app'.attempt = a
      BY <3>1
    <3>4. QED BY <1>5, <3>1, <3>2, <3>3 DEF TakeSnapshot
  <2>2. CASE PrepareErr /\ UNCHANGED <<disk, spent>>
    BY <1>5, <2>2 DEF TakeSnapshot
  <2>3. QED BY <1>5, <2>1, <2>2 DEF TakeSnapshot
<1>6. CASE RecordAttempt
  <2>1. [disk[Db] EXCEPT !.jr = "IN_PROGRESS"] \in File
    BY <1>6, FileUpdates DEF RecordAttempt, Journal
  <2>2. QED BY <1>6, <2>1 DEF RecordAttempt
<1>7. CASE Convert
  <2>1. /\ [disk[Db] EXCEPT !.ver = build] \in File
        /\ [disk[Db] EXCEPT !.jr = "FAILED"] \in File
    BY <1>7, FileUpdates DEF Convert, Journal
  <2>2. start' \in [db : File \cup {NoFile}, faults : 0..MaxFaults, ops : Nat]
    BY <1>7 DEF Convert
  <2>3. disk' \in [Path -> File \cup {NoFile}] /\ disk'[Db] \in File
    BY <1>7, <2>1 DEF Convert
  <2>4. QED BY <1>7, <2>2, <2>3 DEF Convert
<1>8. CASE CompleteAttempt
  <2>1. /\ [disk[Db] EXCEPT !.jr = "COMPLETED"] \in File
        /\ [disk[Db] EXCEPT !.jr = "FAILED"] \in File
    BY <1>8, FileUpdates DEF CompleteAttempt, Journal
  <2>2. disk' \in [Path -> File \cup {NoFile}] /\ disk'[Db] \in File
    BY <1>8, <2>1 DEF CompleteAttempt
  <2>3. QED BY <1>8, <2>2 DEF CompleteAttempt
<1>9. CASE WriteMarker BY <1>9 DEF WriteMarker, MigrationMarker
<1>10. QED BY <1>1, <1>2, <1>3, <1>4, <1>5, <1>6, <1>7, <1>8, <1>9 DEF MigrateStep

LEMMA InvServe == Inv /\ (ServeStep \/ Stop \/ Crash) => Inv'
<1> SUFFICES ASSUME Inv, ServeStep \/ Stop \/ Crash PROVE Inv'
  OBVIOUS
<1> USE PathsOfIds, DistinctPaths, MemoryUpdates, PendingFields, BoundsAssumption
    DEF Inv, TypeOK, Prepared, ShellState, ApplyStates, MigrateStates, ServeStates,
        RollbackStates, files, restoreFiles, bounds, Goto, Fault, ReturnErr, Update
<1>1. CASE SpawnApi BY <1>1 DEF SpawnApi
<1>2. CASE ApiReady BY <1>2 DEF ApiReady
<1>3. CASE FinalizeRestore BY <1>3 DEF FinalizeRestore
<1>4. CASE RemoveMarker BY <1>4 DEF RemoveMarker
<1>5. CASE ReadinessTimeout
  <2>1. CASE ReturnErr
    BY <1>5, <2>1 DEF ReadinessTimeout
  <2>2. CASE /\ ~(app.attempt = NoFile /\ app.restore = NoFile)
             /\ Goto(IF app.attempt # NoFile THEN "evidence" ELSE "quarantine")
             /\ app' = [app EXCEPT !.waited = TRUE]
    <3>1. app' \in Memory /\ app'.restore = app.restore /\ app'.attempt = app.attempt
      BY <2>2
    <3>2. QED BY <1>5, <2>2, <3>1 DEF ReadinessTimeout
  <2>3. QED BY <1>5, <2>1, <2>2 DEF ReadinessTimeout
<1>6. CASE Stop BY <1>6 DEF Stop
<1>7. CASE Crash BY <1>7 DEF Crash
<1>8. QED BY <1>1, <1>2, <1>3, <1>4, <1>5, <1>6, <1>7 DEF ServeStep

LEMMA InvRollback == Inv /\ RollbackStep => Inv'
<1> SUFFICES ASSUME Inv, RollbackStep PROVE Inv'
  OBVIOUS
<1> USE PathsOfIds, DistinctPaths, MemoryUpdates, PendingFields, BoundsAssumption
    DEF Inv, TypeOK, Prepared, ShellState, ApplyStates, MigrateStates, ServeStates,
        RollbackStates, files, restoreFiles, bounds,
        Goto, Fault, ReturnErr, PrepareErr, RollbackErr, Rename, Update, ReturnSidecar
<1>1. CASE PreserveEvidence BY <1>1 DEF PreserveEvidence
<1>2. CASE PreserveEvidenceSidecars BY <1>2 DEF PreserveEvidenceSidecars
<1>3. CASE CopySnapshotBack BY <1>3 DEF CopySnapshotBack
<1>4. CASE RecordRollback BY <1>4 DEF RecordRollback, MigrationMarker
<1>5. CASE QuarantineRestored BY <1>5 DEF QuarantineRestored
<1>6. CASE ReturnOriginal BY <1>6 DEF ReturnOriginal
<1>7. CASE ReturnSidecars BY <1>7 DEF ReturnSidecars
<1>8. CASE RecordRestoreRollback BY <1>8 DEF RecordRestoreRollback
<1>9. QED BY <1>1, <1>2, <1>3, <1>4, <1>5, <1>6, <1>7, <1>8 DEF RollbackStep

LEMMA InvApi == Inv /\ ApiStep => Inv'
<1> SUFFICES ASSUME Inv, ApiStep PROVE Inv'
  OBVIOUS
<1> USE PathsOfIds, BoundsAssumption
    DEF Inv, TypeOK, Prepared, ShellState, ApplyStates, MigrateStates, ServeStates,
        RollbackStates, files, restoreFiles, bounds, Update
<1>1. CASE OpenDatabase
  <2>1. NewFile("bootstrap", "empty", 0) \in File
    BY DEF NewFile, File, FileId, Journal
  <2>2. disk[Db] # NoFile => Opened(disk[Db]) \in File
    BY FileUpdates
  <2>3. QED BY <1>1, <2>1, <2>2 DEF OpenDatabase
<1>2. CASE BeginWrite
  <2>1. [disk[Db] EXCEPT !.page = "torn"] \in File /\ disk[Db].id \in FileId
    BY <1>2, FileUpdates DEF BeginWrite
  <2>2. QED BY <1>2, <2>1 DEF BeginWrite
<1>3. CASE CommitWrite
  <2>1. [disk[Db] EXCEPT !.page = "clean", !.rev = clock + 1,
                         !.lin = IF @ = "empty" THEN "user" ELSE @] \in File
    <3>1. disk[Db] \in File /\ clock + 1 \in 0..MaxClock
      BY <1>3 DEF CommitWrite
    <3>2. QED BY ONLY <3>1 DEF File
  <2>2. QED BY <1>3, <2>1 DEF CommitWrite
<1>4. QED BY <1>1, <1>2, <1>3 DEF ApiStep

LEMMA InvUser == Inv /\ UserStep => Inv'
<1> SUFFICES ASSUME Inv, UserStep PROVE Inv'
  OBVIOUS
<1> USE PathsOfIds, DistinctPaths, BoundsAssumption
    DEF Inv, TypeOK, Prepared, ShellState, ApplyStates, MigrateStates, ServeStates,
        RollbackStates, files, restoreFiles, bounds, Goto, Update
<1>1. CASE Start BY <1>1 DEF Start
<1>2. CASE UpgradeApplication BY <1>2 DEF UpgradeApplication
<1>3. CASE Stop BY <1>3, InvServe
<1>4. ASSUME NEW s \in Sessions, Stage(s) PROVE Inv'
  <2>1. NewFile(s, "backup", 0) \in File
    BY DEF NewFile, File, FileId, Journal
  <2>2. QED BY <1>4, <2>1 DEF Stage
<1>5. ASSUME NEW s \in Sessions, Cancel(s) PROVE Inv'
  BY <1>5 DEF Cancel
<1>6. ASSUME NEW s \in Sessions, NEW q \in Requests, Confirm(s, q) PROVE Inv'
  BY <1>6 DEF Confirm, PendingMarker
<1>7. QED BY <1>1, <1>2, <1>3, <1>4, <1>5, <1>6 DEF UserStep

LEMMA InvStep == Inv /\ [Next]_vars => Inv'
<1> SUFFICES ASSUME Inv, [Next]_vars PROVE Inv'
  OBVIOUS
<1>1. CASE Next
  BY <1>1, InvApply, InvMigrate, InvServe, InvRollback, InvApi, InvUser DEF Next
<1>2. CASE UNCHANGED vars
  BY <1>2 DEF vars, files, restoreFiles, bounds, Inv, TypeOK, Prepared
<1>3. QED BY <1>1, <1>2

\* The type invariant, for every value of the constants.
THEOREM TypeCorrect == Spec => []TypeOK
<1>1. Spec => []Inv
  BY InvInit, InvStep, PTL DEF Spec
<1>2. Inv => TypeOK
  BY DEF Inv
<1>3. QED BY <1>1, <1>2, PTL
-----------------------------------------------------------------------------
(* A rolled-back migration is final.  The marker stops every start in        *)
(* `prepare_migration`, after a pending restore was applied: the shell is    *)
(* then down, on its way there, or returning the restore.                    *)

RolledBack == marker # NoFile /\ marker.status = "ROLLED_BACK"

StoppedStates == {"down", "prepare", "quarantine", "original", "restoreSidecars",
                  "recordRestore"} \cup ApplyStates

Stopped == RolledBack => api = "off" /\ pc \in StoppedStates

LEMMA StoppedInit == Init => Stopped
BY DEF Init, Stopped, RolledBack

LEMMA StoppedApply == Stopped /\ ApplyStep => Stopped' /\ (RolledBack => marker' = marker /\ api' = "off")
BY DEF Stopped, RolledBack, StoppedStates, ApplyStates, ApplyStep, NoPendingRestore, TakeMarker,
       ValidateCandidate, ConsumeMarker, WriteApplying, MoveSidecars, MoveDatabase,
       InstallCandidate, UndoDatabase, UndoSidecars, Goto, ReturnErr, files, restoreFiles

LEMMA StoppedMigrate ==
  Stopped /\ MigrateStep => Stopped' /\ (RolledBack => marker' = marker /\ api' = "off")
<1> SUFFICES ASSUME Stopped, MigrateStep
             PROVE Stopped' /\ (RolledBack => marker' = marker /\ api' = "off")
  OBVIOUS
<1> USE DEF Stopped, RolledBack, StoppedStates, ApplyStates, Goto, ReturnErr, PrepareErr
<1>1. CASE RefuseRolledBack BY <1>1 DEF RefuseRolledBack
<1>2. CASE RecoverInterrupted BY <1>2 DEF RecoverInterrupted
<1>3. CASE FirstRunBootstrap BY <1>3 DEF FirstRunBootstrap
<1>4. CASE Preflight BY <1>4 DEF Preflight
<1>5. CASE TakeSnapshot BY <1>5 DEF TakeSnapshot
<1>6. CASE RecordAttempt BY <1>6 DEF RecordAttempt
<1>7. CASE Convert BY <1>7 DEF Convert
<1>8. CASE CompleteAttempt BY <1>8 DEF CompleteAttempt
<1>9. CASE WriteMarker BY <1>9 DEF WriteMarker
<1>10. QED BY <1>1, <1>2, <1>3, <1>4, <1>5, <1>6, <1>7, <1>8, <1>9 DEF MigrateStep

\* The rollback of a migration runs only under a marker that is not final yet,
\* and no API child runs while it does (Prepared).
LEMMA StoppedRollback ==
  Inv /\ Stopped /\ RollbackStep
    => Stopped' /\ (RolledBack => marker' = marker /\ api' = "off")
<1> SUFFICES ASSUME Inv, Stopped, RollbackStep
             PROVE Stopped' /\ (RolledBack => marker' = marker /\ api' = "off")
  OBVIOUS
<1>1. api = "off" \/ pc \in {"wait", "finalize", "unmark", "running", "exiting"}
  BY DEF Inv, Prepared, TypeOK
<1> USE DEF Stopped, RolledBack, StoppedStates, ApplyStates, Goto, ReturnErr, PrepareErr,
            RollbackErr
<1>2. CASE PreserveEvidence BY <1>2 DEF PreserveEvidence
<1>3. CASE PreserveEvidenceSidecars BY <1>3 DEF PreserveEvidenceSidecars
<1>4. CASE CopySnapshotBack BY <1>4 DEF CopySnapshotBack
<1>5. CASE RecordRollback BY <1>1, <1>5 DEF RecordRollback
<1>6. CASE QuarantineRestored BY <1>6 DEF QuarantineRestored
<1>7. CASE ReturnOriginal BY <1>7 DEF ReturnOriginal
<1>8. CASE ReturnSidecars BY <1>8 DEF ReturnSidecars
<1>9. CASE RecordRestoreRollback BY <1>9 DEF RecordRestoreRollback
<1>10. QED BY <1>2, <1>3, <1>4, <1>5, <1>6, <1>7, <1>8, <1>9 DEF RollbackStep

LEMMA StoppedOther ==
  Stopped /\ (ServeStep \/ ApiStep \/ UserStep \/ Crash)
    => Stopped' /\ (RolledBack => marker' = marker /\ api' = "off")
<1> SUFFICES ASSUME Stopped, ServeStep \/ ApiStep \/ UserStep \/ Crash
             PROVE Stopped' /\ (RolledBack => marker' = marker /\ api' = "off")
  OBVIOUS
<1> USE DEF Stopped, RolledBack, StoppedStates, ApplyStates, Goto, ReturnErr, files, restoreFiles
<1>1. CASE ServeStep
  BY <1>1 DEF ServeStep, SpawnApi, ApiReady, FinalizeRestore, RemoveMarker, ReadinessTimeout
<1>2. CASE ApiStep
  BY <1>2 DEF ApiStep, OpenDatabase, BeginWrite, CommitWrite
<1>3. CASE Start \/ UpgradeApplication \/ Stop \/ Crash
  BY <1>3 DEF Start, UpgradeApplication, Stop, Crash
<1>4. CASE \E s \in Sessions : Stage(s) \/ Cancel(s) \/ \E q \in Requests : Confirm(s, q)
  BY <1>4 DEF Stage, Cancel, Confirm
<1>5. QED BY <1>1, <1>2, <1>3, <1>4 DEF UserStep

LEMMA StoppedStep ==
  Inv /\ Stopped /\ [Next]_vars
    => Stopped' /\ [RolledBack => marker' = marker /\ api' = "off"]_vars
<1>1. Inv /\ Stopped /\ Next => Stopped' /\ (RolledBack => marker' = marker /\ api' = "off")
  BY StoppedApply, StoppedMigrate, StoppedRollback, StoppedOther DEF Next
<1>2. Stopped /\ UNCHANGED vars => Stopped'
  BY DEF vars, Stopped, RolledBack, StoppedStates
<1>3. QED BY <1>1, <1>2

\* For every value of the constants: once `rollback_migration` has recorded
\* ROLLED_BACK, no later start rewrites the marker or runs an API child.
THEOREM RolledBackStaysStopped == Spec => RollbackIsFinal
<1>1. Spec => []Inv
  BY InvInit, InvStep, PTL DEF Spec
<1>2. Spec => [](Inv /\ Stopped)
  BY <1>1, StoppedInit, StoppedStep, PTL DEF Spec
<1>3. Inv /\ Stopped /\ [Next]_vars => [RolledBack => marker' = marker /\ api' = "off"]_vars
  BY StoppedStep
<1>4. Spec => [][RolledBack => marker' = marker /\ api' = "off"]_vars
  BY <1>2, <1>3, PTL DEF Spec
<1>5. QED BY <1>4 DEF RollbackIsFinal, RolledBack
-----------------------------------------------------------------------------
(* The data of the start's database survives.  The inductive invariant names *)
(* the file that holds it in each state of the shell: the database itself    *)
(* until it is moved, the safety copy of an applied restore, or the evidence *)
(* of a migration rollback.  A staged candidate never counts.                *)

HasData(d, file) == /\ file \in File /\ file.lin = d.lin /\ file.rev >= d.rev

Kept == Path \ {Staged(s) : s \in Sessions}

Holder ==
  CASE pc \in {"apply", "validate", "consume", "status", "sidecars", "database",
               "restoreSidecars", "recordRestore"} -> Db
    [] pc \in {"install", "undoDatabase", "quarantine", "original"}
         -> Safety(app.restore.request)
    [] pc \in {"evidenceSidecars", "copyBack", "recordRollback"}
         -> IF app.restore = NoFile THEN Evidence(app.attempt) ELSE Safety(app.restore.request)
    [] OTHER -> IF app.restore = NoFile THEN Db ELSE Safety(app.restore.request)

Unheld == {"down", "exiting", "undoSidecars"}

HeldIn(d) ==
  IF pc \in Unheld THEN \E p \in Kept : HasData(d, disk[p]) ELSE HasData(d, disk[Holder])

DataHeld == start.db # NoFile /\ start.db.lin # "empty" => HeldIn(start.db)

FilesStamped == \A p \in Path : disk[p] # NoFile => disk[p].rev <= clock

RevBound ==
  /\ FilesStamped
  /\ start.db # NoFile => start.db.rev <= clock

\* What a file keeps when SQLite opens it or the contract records in it.
LEMMA SameFileData ==
  ASSUME NEW d, NEW f \in File, HasData(d, f)
  PROVE  /\ HasData(d, Opened(f))
         /\ \A a \in Attempts : HasData(d, [f EXCEPT !.id = a])
         /\ \A j \in Journal : HasData(d, [f EXCEPT !.jr = j])
         /\ \A v \in 1..MaxBuild : HasData(d, [f EXCEPT !.ver = v])
         /\ HasData(d, [f EXCEPT !.page = "torn"])
BY DEF File, FileId, Opened, HasData

LEMMA KeptPaths ==
  /\ Db \in Kept
  /\ \A q \in Requests : Safety(q) \in Kept /\ Failed(q) \in Kept
  /\ \A a \in Attempts : Snapshot(a) \in Kept /\ Evidence(a) \in Kept
  /\ \A s \in Sessions : Staged(s) \notin Kept
  /\ Kept \subseteq Path
BY DEF Kept, Path, Db, Staged, Safety, Failed, Snapshot, Evidence

LEMMA SafetyIsApart ==
  \A q \in Requests : /\ Safety(q) # Db
                      /\ \A r \in Requests : Failed(r) # Safety(q)
                      /\ \A a \in Attempts : Snapshot(a) # Safety(q) /\ Evidence(a) # Safety(q)
                      /\ \A s \in Sessions : Staged(s) # Safety(q)
BY DEF Db, Staged, Safety, Failed, Snapshot, Evidence

\* The invariant in a state that has a holder implies what the property says.
LEMMA HolderKept == Inv /\ pc \notin Unheld => Holder \in Kept
BY KeptPaths, MemoryUpdates, PendingFields, SMTT(60)
   DEF Inv, TypeOK, Prepared, Holder, Unheld, ShellState, ApplyStates, MigrateStates,
       ServeStates, RollbackStates
LEMMA HeldByApply ==
  ASSUME NEW d, Inv, HeldIn(d), ApplyStep
  PROVE  HeldIn(d)'
<1> USE NoFileAssumption, KeptPaths, SafetyIsApart, DistinctPaths, PathsOfIds, MemoryUpdates, PendingFields
    DEF Inv, TypeOK, Prepared, ShellState, ApplyStates, MigrateStates, ServeStates,
        RollbackStates, files, restoreFiles, bounds, HeldIn, Holder, Unheld, HasData,
        Goto, Fault, ReturnErr, PrepareErr, RollbackErr, Rename, Update, ReturnSidecar
<1>1. CASE NoPendingRestore
  BY <1>1 DEF NoPendingRestore, NoMemory
<1>2. CASE TakeMarker BY <1>2 DEF TakeMarker
<1>3. CASE ValidateCandidate BY <1>3 DEF ValidateCandidate
<1>4. CASE ConsumeMarker BY <1>4 DEF ConsumeMarker
<1>5. CASE WriteApplying BY <1>5, SMTT(60) DEF WriteApplying
<1>6. CASE MoveSidecars BY <1>6 DEF MoveSidecars
<1>7. CASE MoveDatabase
  <2>1. disk[Db] \in File /\ app.restore.request \in Requests
    BY <1>7 DEF MoveDatabase
  <2>2. CASE Rename(Db, Safety(app.restore.request)) /\ Goto("install")
    <3>1. disk'[Safety(app.restore.request)] = disk[Db] /\ app' = app
      BY <1>7, <2>1, <2>2 DEF MoveDatabase
    <3>2. QED BY <1>7, <2>1, <2>2, <3>1 DEF MoveDatabase
  <2>3. CASE UNCHANGED disk
    BY <1>7, <2>1, <2>3 DEF MoveDatabase
  <2>4. QED BY <1>7, <2>1, <2>2, <2>3 DEF MoveDatabase
<1>8. CASE InstallCandidate
  <2>1. app.restore.request \in Requests /\ app.restore.session \in Sessions
    BY <1>8 DEF InstallCandidate
  <2>2. disk'[Safety(app.restore.request)] = disk[Safety(app.restore.request)]
    BY <1>8, <2>1 DEF InstallCandidate
  <2>3. app' = app /\ app.restore # NoFile /\ pc' \in {"prepare", "undoDatabase"}
    BY <1>8, <2>1, SMTT(60) DEF InstallCandidate
  <2>4. QED BY <1>8, <2>1, <2>2, <2>3 DEF InstallCandidate
<1>9. CASE UndoDatabase BY <1>9, SMTT(60) DEF UndoDatabase
<1>10. CASE UndoSidecars BY <1>10, SMTT(60) DEF UndoSidecars
<1>11. QED BY <1>1, <1>2, <1>3, <1>4, <1>5, <1>6, <1>7, <1>8, <1>9, <1>10 DEF ApplyStep

LEMMA HeldByMigrate ==
  ASSUME NEW d, Inv, HeldIn(d), MigrateStep
  PROVE  HeldIn(d)'
<1> USE NoFileAssumption, KeptPaths, SafetyIsApart, DistinctPaths, PathsOfIds, MemoryUpdates, PendingFields
    DEF Inv, TypeOK, Prepared, ShellState, ApplyStates, MigrateStates, ServeStates,
        RollbackStates, files, restoreFiles, bounds, HeldIn, Holder, Unheld, HasData,
        Goto, Fault, ReturnErr, PrepareErr, RollbackErr, Rename, Update, ReturnSidecar
<1>1. CASE RefuseRolledBack BY <1>1 DEF RefuseRolledBack
<1>2. CASE RecoverInterrupted BY <1>2 DEF RecoverInterrupted
<1>3. CASE FirstRunBootstrap BY <1>3 DEF FirstRunBootstrap
<1>4. CASE Preflight
  <2>1. disk[Db] \in File /\ build \in 1..MaxBuild
    BY <1>4 DEF Preflight
  <2>2. HasData(d, disk[Db]) => HasData(d, Opened(disk[Db]))
    BY ONLY <2>1, SameFileData DEF Journal
  <2>3. app' = app \/ pc' \in Unheld
    BY <1>4 DEF Preflight
  <2>4. \A q \in Requests : disk'[Safety(q)] = disk[Safety(q)]
    BY <1>4 DEF Preflight
  <2>5. HasData(d, disk[Db]) => HasData(d, disk'[Db])
    BY <1>4, <2>1, <2>2 DEF Preflight
  <2>6. QED BY <1>4, <2>1, <2>3, <2>4, <2>5 DEF Preflight
<1>5. CASE TakeSnapshot
  <2>1. /\ disk'[Db] = disk[Db] /\ \A q \in Requests : disk'[Safety(q)] = disk[Safety(q)]
        /\ pc' \notin Unheld => app'.restore = app.restore
    <3>1. CASE \E a \in Attempts : /\ Update(Snapshot(a), [disk[Db] EXCEPT !.id = a])
                                   /\ app' = [app EXCEPT !.attempt = a]
                                   /\ Goto("journal") /\ UNCHANGED bounds
      BY <3>1
    <3>2. CASE PrepareErr /\ UNCHANGED <<disk, spent>>
      BY <3>2
    <3>3. QED BY <1>5, <3>1, <3>2 DEF TakeSnapshot
  <2>2. pc' \in {"down", "journal", "quarantine"} /\ (pc' = "quarantine" => app.restore # NoFile)
    BY <1>5 DEF TakeSnapshot
  <2>3. QED BY <1>5, <2>1, <2>2 DEF TakeSnapshot
<1>6. CASE RecordAttempt
  <2>1. disk[Db] \in File /\ build \in 1..MaxBuild
    BY <1>6 DEF RecordAttempt
  <2>2. HasData(d, disk[Db]) => HasData(d, [disk[Db] EXCEPT !.jr = "IN_PROGRESS"])
    BY ONLY <2>1, SameFileData DEF Journal
  <2>3. app' = app \/ pc' \in Unheld
    BY <1>6 DEF RecordAttempt
  <2>4. \A q \in Requests : disk'[Safety(q)] = disk[Safety(q)]
    BY <1>6 DEF RecordAttempt
  <2>5. HasData(d, disk[Db]) => HasData(d, disk'[Db])
    BY <1>6, <2>1, <2>2 DEF RecordAttempt
  <2>6. QED BY <1>6, <2>1, <2>3, <2>4, <2>5 DEF RecordAttempt
<1>7. CASE Convert
  <2>1. disk[Db] \in File /\ build \in 1..MaxBuild
    BY <1>7 DEF Convert
  <2>2. HasData(d, disk[Db]) => /\ HasData(d, [disk[Db] EXCEPT !.ver = build])
                             /\ HasData(d, [disk[Db] EXCEPT !.jr = "FAILED"])
    BY ONLY <2>1, SameFileData, ZenonT(60) DEF Journal
  <2>3. app' = app \/ pc' \in Unheld
    BY <1>7 DEF Convert
  <2>4. \A q \in Requests : disk'[Safety(q)] = disk[Safety(q)]
    BY <1>7 DEF Convert
  <2>5. HasData(d, disk[Db]) => HasData(d, disk'[Db])
    BY <1>7, <2>1, <2>2, ZenonT(60) DEF Convert
  <2>6. QED BY <1>7, <2>1, <2>3, <2>4, <2>5 DEF Convert
<1>8. CASE CompleteAttempt
  <2>1. disk[Db] \in File /\ build \in 1..MaxBuild
    BY <1>8 DEF CompleteAttempt
  <2>2. HasData(d, disk[Db]) => /\ HasData(d, [disk[Db] EXCEPT !.jr = "COMPLETED"])
                             /\ HasData(d, [disk[Db] EXCEPT !.jr = "FAILED"])
    BY ONLY <2>1, SameFileData, ZenonT(60) DEF Journal
  <2>3. app' = app \/ pc' \in Unheld
    BY <1>8 DEF CompleteAttempt
  <2>4. \A q \in Requests : disk'[Safety(q)] = disk[Safety(q)]
    BY <1>8 DEF CompleteAttempt
  <2>5. HasData(d, disk[Db]) => HasData(d, disk'[Db])
    BY <1>8, <2>1, <2>2, ZenonT(60) DEF CompleteAttempt
  <2>6. QED BY <1>8, <2>1, <2>3, <2>4, <2>5 DEF CompleteAttempt
<1>9. CASE WriteMarker BY <1>9, SMTT(60) DEF WriteMarker
<1>10. QED BY <1>1, <1>2, <1>3, <1>4, <1>5, <1>6, <1>7, <1>8, <1>9 DEF MigrateStep

LEMMA HeldByServe ==
  ASSUME NEW d, Inv, HeldIn(d), ServeStep
  PROVE  HeldIn(d)'
<1> USE NoFileAssumption, KeptPaths, SafetyIsApart, DistinctPaths, PathsOfIds, MemoryUpdates, PendingFields
    DEF Inv, TypeOK, Prepared, ShellState, ApplyStates, MigrateStates, ServeStates,
        RollbackStates, files, restoreFiles, bounds, HeldIn, Holder, Unheld, HasData,
        Goto, Fault, ReturnErr, PrepareErr, RollbackErr, Rename, Update, ReturnSidecar
<1>1. CASE SpawnApi BY <1>1 DEF SpawnApi
<1>2. CASE ApiReady BY <1>2 DEF ApiReady
<1>3. CASE FinalizeRestore BY <1>3 DEF FinalizeRestore
<1>4. CASE RemoveMarker BY <1>4 DEF RemoveMarker
<1>5. CASE ReadinessTimeout BY <1>5, ZenonT(60) DEF ReadinessTimeout
<1>6. QED BY <1>1, <1>2, <1>3, <1>4, <1>5 DEF ServeStep

LEMMA HeldByRollback ==
  ASSUME NEW d, Inv, HeldIn(d), RollbackStep
  PROVE  HeldIn(d)'
<1> USE NoFileAssumption, KeptPaths, SafetyIsApart, DistinctPaths, PathsOfIds, MemoryUpdates, PendingFields
    DEF Inv, TypeOK, Prepared, ShellState, ApplyStates, MigrateStates, ServeStates,
        RollbackStates, files, restoreFiles, bounds, HeldIn, Holder, Unheld, HasData,
        Goto, Fault, ReturnErr, PrepareErr, RollbackErr, Rename, Update, ReturnSidecar
<1>1. CASE PreserveEvidence
  <2>1. app.attempt \in Attempts /\ (app.restore # NoFile => app.restore.request \in Requests)
    BY <1>1 DEF PreserveEvidence
  <2>2. CASE disk[Db] # NoFile /\ Rename(Db, Evidence(app.attempt)) /\ app' = app
             /\ Goto("evidenceSidecars")
    <3>1. disk'[Evidence(app.attempt)] = disk[Db]
      BY <2>1, <2>2
    <3>2. app.restore # NoFile => disk'[Safety(app.restore.request)]
                                    = disk[Safety(app.restore.request)]
      BY <2>1, <2>2
    <3>3. QED BY <1>1, <2>1, <2>2, <3>1, <3>2 DEF PreserveEvidence
  <2>3. CASE UNCHANGED disk
    BY <1>1, <2>1, <2>3 DEF PreserveEvidence
  <2>4. QED BY <1>1, <2>1, <2>2, <2>3 DEF PreserveEvidence
<1>2. CASE PreserveEvidenceSidecars BY <1>2 DEF PreserveEvidenceSidecars
<1>3. CASE CopySnapshotBack BY <1>3 DEF CopySnapshotBack
<1>4. CASE RecordRollback BY <1>4, SMTT(60) DEF RecordRollback
<1>5. CASE QuarantineRestored BY <1>5, SMTT(60) DEF QuarantineRestored
<1>6. CASE ReturnOriginal
  <2>1. app.restore.request \in Requests
    BY <1>6 DEF ReturnOriginal
  <2>2. CASE Rename(Safety(app.restore.request), Db) /\ Goto("restoreSidecars")
    <3>1. disk'[Db] = disk[Safety(app.restore.request)]
      BY <2>1, <2>2
    <3>2. QED BY <1>6, <2>1, <2>2, <3>1 DEF ReturnOriginal
  <2>3. CASE UNCHANGED disk
    BY <1>6, <2>1, <2>3 DEF ReturnOriginal
  <2>4. QED BY <1>6, <2>1, <2>2, <2>3 DEF ReturnOriginal
<1>7. CASE ReturnSidecars BY <1>7 DEF ReturnSidecars
<1>8. CASE RecordRestoreRollback BY <1>8 DEF RecordRestoreRollback
<1>9. QED BY <1>1, <1>2, <1>3, <1>4, <1>5, <1>6, <1>7, <1>8, ZenonT(60) DEF RollbackStep

LEMMA HeldByApi ==
  ASSUME NEW d, Inv, HeldIn(d), d.rev \in Nat, d.rev <= clock, d.lin # "empty", ApiStep
  PROVE  HeldIn(d)'
<1> USE NoFileAssumption, BoundsAssumption, KeptPaths, SafetyIsApart, PathsOfIds, PendingFields
    DEF Inv, TypeOK, Prepared, files, restoreFiles, bounds, Update
<1>1. /\ disk' = [disk EXCEPT ![Db] = disk'[Db]] /\ UNCHANGED <<pc, app>>
      /\ pc \in {"wait", "finalize", "unmark", "running", "exiting"}
  BY DEF ApiStep, OpenDatabase, BeginWrite, CommitWrite
<1>2. HasData(d, disk[Db]) => HasData(d, disk'[Db])
  <2>1. CASE OpenDatabase
    <3>1. HasData(d, disk[Db]) => disk[Db] # NoFile /\ HasData(d, Opened(disk[Db]))
      BY ONLY NoFileAssumption, SameFileData DEF HasData
    <3>2. QED BY <2>1, <3>1 DEF OpenDatabase
  <2>2. CASE BeginWrite
    BY <2>2, SameFileData DEF BeginWrite
  <2>3. CASE CommitWrite
    <3>1. disk[Db] \in File /\ clock + 1 \in 0..MaxClock
      BY <2>3 DEF CommitWrite
    <3>2. d.rev <= clock + 1 /\ clock \in Nat
      BY <3>1
    <3>3. HasData(d, disk[Db]) =>
            HasData(d, [disk[Db] EXCEPT !.page = "clean", !.rev = clock + 1,
                                        !.lin = IF @ = "empty" THEN "user" ELSE @])
      BY ONLY <3>1, <3>2, d.rev \in Nat, d.lin # "empty" DEF HasData, File
    <3>4. QED BY <2>3, <3>3 DEF CommitWrite
  <2>4. QED BY <2>1, <2>2, <2>3 DEF ApiStep
<1>3. \A p \in Kept : HasData(d, disk[p]) => HasData(d, disk'[p])
  BY <1>1, <1>2
<1>4. CASE pc = "exiting"
  BY <1>1, <1>3, <1>4 DEF HeldIn, Unheld
<1>5. CASE pc # "exiting"
  <2>1. Holder \in Kept /\ Holder' = Holder
    BY <1>1, <1>5, HolderKept DEF Holder, Unheld
  <2>2. HasData(d, disk[Holder])
    BY <1>1, <1>5 DEF HeldIn, Unheld
  <2>3. HasData(d, disk'[Holder])
    BY <1>3, <2>1, <2>2
  <2>4. QED BY <1>1, <1>5, <2>1, <2>3 DEF HeldIn, Unheld
<1>6. QED BY <1>4, <1>5

\* A shell that stops, or whose process dies, keeps what it held; so do the
\* restore endpoints, which touch staged candidates only.
LEMMA HeldByUser ==
  ASSUME NEW d, Inv, HeldIn(d), Stop \/ Crash \/ UserStep, ~Start
  PROVE  HeldIn(d)'
<1> USE KeptPaths, PathsOfIds
    DEF Inv, TypeOK, Prepared, files, restoreFiles, bounds, Goto, ReturnErr, Update
<1>1. CASE Stop \/ Crash
  <2>1. pc' = "down" /\ UNCHANGED disk
    BY <1>1 DEF Stop, Crash
  <2>2. \E p \in Kept : HasData(d, disk[p])
    BY HolderKept DEF HeldIn
  <2>3. QED BY <2>1, <2>2 DEF HeldIn, Unheld
<1>2. CASE UpgradeApplication
  BY <1>2 DEF UpgradeApplication, HeldIn, Holder, HasData
<1>3. CASE \E s \in Sessions : Stage(s) \/ Cancel(s) \/ \E q \in Requests : Confirm(s, q)
  <2>1. pc = "running" /\ UNCHANGED <<pc, app>>
    BY <1>3 DEF Stage, Cancel, Confirm
  <2>2. \A p \in Kept : disk'[p] = disk[p]
    BY <1>3 DEF Stage, Cancel, Confirm
  <2>3. Holder \in Kept /\ Holder' = Holder
    BY <2>1, HolderKept DEF Holder, Unheld
  <2>4. QED BY <2>1, <2>2, <2>3 DEF HeldIn, Unheld
<1>4. QED BY <1>1, <1>2, <1>3 DEF UserStep

\* No file is stamped later than the last commit.
LEMMA RevUpdates ==
  ASSUME NEW f \in File
  PROVE  /\ Opened(f).rev = f.rev
         /\ \A a \in Attempts : [f EXCEPT !.id = a].rev = f.rev
         /\ \A j \in Journal : [f EXCEPT !.jr = j].rev = f.rev
         /\ \A v \in 1..MaxBuild : [f EXCEPT !.ver = v].rev = f.rev
         /\ [f EXCEPT !.page = "torn"].rev = f.rev
BY DEF File, FileId, Opened

LEMMA StampedByApply == Inv /\ FilesStamped /\ ApplyStep => FilesStamped'
<1> SUFFICES ASSUME Inv, FilesStamped, ApplyStep PROVE FilesStamped'
  OBVIOUS
<1> USE NoFileAssumption, BoundsAssumption, PathsOfIds, PendingFields
    DEF Inv, TypeOK, Prepared, FilesStamped, files, restoreFiles, bounds, Fault, Rename, Update
<1>1. CASE UNCHANGED <<disk, clock>>
  BY <1>1
<1>2. CASE MoveDatabase \/ InstallCandidate \/ UndoDatabase
  <2>1. app.restore.request \in Requests /\ app.restore.session \in Sessions
    BY <1>2 DEF MoveDatabase, InstallCandidate, UndoDatabase, ApplyStates
  <2>2. QED BY <1>2, <2>1 DEF MoveDatabase, InstallCandidate, UndoDatabase
<1>3. QED
  BY <1>1, <1>2
     DEF ApplyStep, NoPendingRestore, TakeMarker, ValidateCandidate, ConsumeMarker,
         WriteApplying, MoveSidecars, UndoSidecars

LEMMA StampedByMigrate == Inv /\ FilesStamped /\ MigrateStep => FilesStamped'
<1> SUFFICES ASSUME Inv, FilesStamped, MigrateStep PROVE FilesStamped'
  OBVIOUS
<1> USE NoFileAssumption, BoundsAssumption, PathsOfIds, PendingFields
    DEF Inv, TypeOK, Prepared, FilesStamped, files, restoreFiles, bounds, Fault, Rename, Update
<1>1. CASE UNCHANGED <<disk, clock>>
  BY <1>1
<1>2. CASE disk[Db] \in File /\ build \in 1..MaxBuild
  <2>1. /\ Opened(disk[Db]).rev = disk[Db].rev
        /\ \A a \in Attempts : [disk[Db] EXCEPT !.id = a].rev = disk[Db].rev
        /\ [disk[Db] EXCEPT !.ver = build].rev = disk[Db].rev
        /\ \A j \in Journal : [disk[Db] EXCEPT !.jr = j].rev = disk[Db].rev
    BY ONLY <1>2, RevUpdates
  <2>2. CASE Preflight BY <1>2, <2>1, <2>2 DEF Preflight
  <2>3. CASE TakeSnapshot
    <3>1. CASE UNCHANGED disk
      BY <2>3, <3>1 DEF TakeSnapshot
    <3>2. ASSUME NEW a \in Attempts, Update(Snapshot(a), [disk[Db] EXCEPT !.id = a]),
                 UNCHANGED bounds
          PROVE FilesStamped'
      BY <1>2, <2>1, <3>2
    <3>3. QED BY <2>3, <3>1, <3>2 DEF TakeSnapshot
  <2>4. CASE RecordAttempt
    <3>1. clock' = clock /\ (\/ Update(Db, [disk[Db] EXCEPT !.jr = "IN_PROGRESS"])
                            \/ UNCHANGED disk)
      BY <2>4 DEF RecordAttempt
    <3>2. QED BY <1>2, <2>1, <3>1 DEF Journal
  <2>5. CASE Convert
    <3>1. clock' = clock /\ (\/ Update(Db, [disk[Db] EXCEPT !.ver = build])
                            \/ Update(Db, [disk[Db] EXCEPT !.jr = "FAILED"]))
      BY <2>5 DEF Convert
    <3>2. QED BY <1>2, <2>1, <3>1 DEF Journal
  <2>6. CASE CompleteAttempt
    <3>1. clock' = clock /\ (\/ Update(Db, [disk[Db] EXCEPT !.jr = "COMPLETED"])
                            \/ Update(Db, [disk[Db] EXCEPT !.jr = "FAILED"]))
      BY <2>6 DEF CompleteAttempt
    <3>2. QED BY <1>2, <2>1, <3>1 DEF Journal
  <2>7. QED
    BY <1>1, <2>2, <2>3, <2>4, <2>5, <2>6
       DEF MigrateStep, RefuseRolledBack, RecoverInterrupted, FirstRunBootstrap, WriteMarker
<1>3. CASE disk[Db] = NoFile
  BY <1>1, <1>3
     DEF MigrateStep, RefuseRolledBack, RecoverInterrupted, FirstRunBootstrap, WriteMarker,
         Preflight, TakeSnapshot, RecordAttempt, Convert, CompleteAttempt
<1>4. QED BY <1>2, <1>3

LEMMA StampedByRollback == Inv /\ FilesStamped /\ RollbackStep => FilesStamped'
<1> SUFFICES ASSUME Inv, FilesStamped, RollbackStep PROVE FilesStamped'
  OBVIOUS
<1> USE NoFileAssumption, BoundsAssumption, PathsOfIds, PendingFields
    DEF Inv, TypeOK, Prepared, FilesStamped, files, restoreFiles, bounds, Fault, Rename, Update
<1>1. CASE UNCHANGED <<disk, clock>>
  BY <1>1
<1>2. CASE PreserveEvidence \/ CopySnapshotBack
  <2>1. app.attempt \in Attempts
    BY <1>2 DEF PreserveEvidence, CopySnapshotBack
  <2>2. QED BY <1>2, <2>1 DEF PreserveEvidence, CopySnapshotBack
<1>3. CASE QuarantineRestored \/ ReturnOriginal
  <2>1. app.restore.request \in Requests
    BY <1>3 DEF QuarantineRestored, ReturnOriginal
  <2>2. QED BY <1>3, <2>1 DEF QuarantineRestored, ReturnOriginal
<1>4. QED
  BY <1>1, <1>2, <1>3
     DEF RollbackStep, PreserveEvidenceSidecars, RecordRollback, ReturnSidecars,
         RecordRestoreRollback

LEMMA StampedByOther ==
  Inv /\ FilesStamped /\ (ServeStep \/ ApiStep \/ UserStep \/ Crash) => FilesStamped'
<1> SUFFICES ASSUME Inv, FilesStamped, ServeStep \/ ApiStep \/ UserStep \/ Crash
             PROVE FilesStamped'
  OBVIOUS
<1> USE NoFileAssumption, BoundsAssumption, PathsOfIds, PendingFields
    DEF Inv, TypeOK, Prepared, FilesStamped, files, restoreFiles, bounds, Fault, Rename, Update
<1>1. CASE UNCHANGED <<disk, clock>>
  BY <1>1
<1>2. CASE FinalizeRestore
  BY <1>2 DEF FinalizeRestore
<1>3. CASE OpenDatabase
  <2>1. NewFile("bootstrap", "empty", 0).rev = 0 /\ clock \in Nat
    BY DEF NewFile
  <2>2. disk[Db] # NoFile => Opened(disk[Db]).rev = disk[Db].rev
    BY RevUpdates
  <2>3. QED BY <1>3, <2>1, <2>2 DEF OpenDatabase
<1>4. CASE BeginWrite
  <2>1. [disk[Db] EXCEPT !.page = "torn"].rev = disk[Db].rev
    BY <1>4, RevUpdates DEF BeginWrite
  <2>2. QED BY <1>4, <2>1 DEF BeginWrite
<1>5. CASE CommitWrite
  <2>1. disk[Db] \in File /\ clock \in Nat
    BY <1>5 DEF CommitWrite
  <2>2. [disk[Db] EXCEPT !.page = "clean", !.rev = clock + 1,
                         !.lin = IF @ = "empty" THEN "user" ELSE @].rev = clock + 1
    BY ONLY <2>1 DEF File
  <2>3. \A p \in Path : disk[p] # NoFile => disk[p].rev \in Nat
    BY DEF File
  <2>4. QED BY <1>5, <2>1, <2>2, <2>3 DEF CommitWrite
<1>6. ASSUME NEW s \in Sessions, Stage(s) \/ Cancel(s) \/ \E q \in Requests : Confirm(s, q)
      PROVE FilesStamped'
  <2>1. NewFile(s, "backup", 0).rev = 0 /\ clock \in Nat
    BY DEF NewFile
  <2>2. QED BY <1>6, <2>1 DEF Stage, Cancel, Confirm
<1>7. QED
  BY <1>1, <1>2, <1>3, <1>4, <1>5, <1>6
     DEF ServeStep, ApiStep, UserStep, Crash, SpawnApi, ApiReady, RemoveMarker,
         ReadinessTimeout, Start, UpgradeApplication, Stop

DataInv == Inv /\ RevBound /\ DataHeld

LEMMA DataInit == Init => DataInv
<1> SUFFICES ASSUME Init PROVE DataInv
  OBVIOUS
<1>1. Inv
  BY InvInit
<1>2. start.db = disk[Db] /\ pc = "down" /\ Db \in Kept
  BY KeptPaths DEF Init
<1>3. \A p \in Path : disk[p] = NoFile \/ disk[p].rev = 0
  BY DEF Init
<1>4. disk[Db] # NoFile => disk[Db] \in File /\ disk[Db].rev = 0
  BY <1>1, <1>3, PathsOfIds DEF Inv, TypeOK
<1>5. RevBound
  BY <1>2, <1>3, <1>4 DEF RevBound, FilesStamped, Init
<1>6. DataHeld
  BY <1>2, <1>4 DEF DataHeld, HeldIn, Unheld, HasData
<1>7. QED BY <1>1, <1>5, <1>6 DEF DataInv

\* Only `start` takes a new database to hold on to: the one it finds.
LEMMA StartKeepsDb == Inv /\ [Next]_vars => Start \/ start'.db = start.db
<1> SUFFICES ASSUME Inv, [Next]_vars PROVE Start \/ start'.db = start.db
  OBVIOUS
<1>1. [start EXCEPT !.ops = @ + 1].db = start.db
  BY DEF Inv, TypeOK
<1>2. CASE InstallCandidate \/ Convert
  BY <1>1, <1>2 DEF InstallCandidate, Convert
<1>3. QED
  BY <1>2
     DEF vars, Next, ApplyStep, MigrateStep, ServeStep, RollbackStep, ApiStep, UserStep, Crash,
         NoPendingRestore, TakeMarker, ValidateCandidate, ConsumeMarker, WriteApplying,
         MoveSidecars, MoveDatabase, UndoDatabase, UndoSidecars, RefuseRolledBack,
         RecoverInterrupted, FirstRunBootstrap, Preflight, TakeSnapshot, RecordAttempt,
         CompleteAttempt, WriteMarker, SpawnApi, ApiReady, FinalizeRestore, RemoveMarker,
         ReadinessTimeout, PreserveEvidence, PreserveEvidenceSidecars, CopySnapshotBack,
         RecordRollback, QuarantineRestored, ReturnOriginal, ReturnSidecars,
         RecordRestoreRollback, OpenDatabase, BeginWrite, CommitWrite, UpgradeApplication,
         Stop, Stage, Cancel, Confirm

LEMMA ClockGrows == Inv /\ [Next]_vars => clock \in Nat /\ clock' \in Nat /\ clock' >= clock
<1> SUFFICES ASSUME Inv, [Next]_vars PROVE clock \in Nat /\ clock' \in Nat /\ clock' >= clock
  OBVIOUS
<1>1. clock \in Nat
  BY DEF Inv, TypeOK
<1>2. clock' = clock \/ clock' = clock + 1
  BY DEF vars, bounds, Fault, Next, ApplyStep, MigrateStep, ServeStep, RollbackStep, ApiStep,
         UserStep, Crash, NoPendingRestore, TakeMarker, ValidateCandidate, ConsumeMarker,
         WriteApplying, MoveSidecars, MoveDatabase, InstallCandidate, UndoDatabase,
         UndoSidecars, RefuseRolledBack, RecoverInterrupted, FirstRunBootstrap, Preflight,
         TakeSnapshot, RecordAttempt, Convert, CompleteAttempt, WriteMarker, SpawnApi, ApiReady,
         FinalizeRestore, RemoveMarker, ReadinessTimeout, PreserveEvidence,
         PreserveEvidenceSidecars, CopySnapshotBack, RecordRollback, QuarantineRestored,
         ReturnOriginal, ReturnSidecars, RecordRestoreRollback, OpenDatabase, BeginWrite,
         CommitWrite, Start, UpgradeApplication, Stop, Stage, Cancel, Confirm
<1>3. QED BY <1>1, <1>2

LEMMA RevBoundStep == Inv /\ RevBound /\ [Next]_vars => RevBound'
<1> SUFFICES ASSUME Inv, RevBound, [Next]_vars PROVE RevBound'
  OBVIOUS
<1>1. FilesStamped'
  <2>1. CASE Next
    BY <2>1, StampedByApply, StampedByMigrate, StampedByRollback, StampedByOther
       DEF Next, RevBound
  <2>2. CASE UNCHANGED vars
    BY <2>2 DEF vars, files, bounds, RevBound, FilesStamped
  <2>3. QED BY <2>1, <2>2
<1>2. clock \in Nat /\ clock' \in Nat /\ clock' >= clock
  BY ClockGrows
<1>3. CASE Start
  BY <1>1, <1>3, PathsOfIds DEF RevBound, FilesStamped, Start, files, bounds
<1>4. CASE start'.db = start.db
  <2>1. start.db # NoFile => start.db.rev \in Nat
    BY DEF Inv, TypeOK, File
  <2>2. start.db # NoFile => start.db.rev <= clock'
    BY <1>2, <2>1 DEF RevBound
  <2>3. QED BY <1>1, <1>4, <2>2 DEF RevBound
<1>5. QED BY <1>3, <1>4, StartKeepsDb

LEMMA DataHeldStep == DataInv /\ [Next]_vars => DataHeld'
<1> SUFFICES ASSUME DataInv, [Next]_vars PROVE DataHeld'
  OBVIOUS
<1>1. Inv /\ RevBound /\ DataHeld
  BY DEF DataInv
<1>2. CASE Start
  <2>1. start'.db = disk[Db] /\ disk' = disk /\ pc' = "apply"
    BY <1>2 DEF Start, files, Goto
  <2>2. disk[Db] # NoFile => HasData(disk[Db], disk[Db])
    BY <1>1, PathsOfIds DEF Inv, TypeOK, HasData, File
  <2>3. QED BY <2>1, <2>2 DEF DataHeld, HeldIn, Holder, Unheld, HasData
<1>3. CASE start'.db = start.db /\ ~Start
  <2> SUFFICES ASSUME start.db # NoFile, start.db.lin # "empty"
               PROVE  HeldIn(start.db)'
    BY <1>3 DEF DataHeld
  <2>1. PICK d : d = start.db
    OBVIOUS
  <2>2. HeldIn(d) /\ d.rev \in Nat /\ d.rev <= clock /\ d.lin # "empty"
    BY <1>1, <2>1 DEF DataHeld, RevBound, Inv, TypeOK, File
  <2>3. HeldIn(d)'
    <3>1. CASE UNCHANGED vars
      BY <2>2, <3>1 DEF vars, files, HeldIn, Holder, HasData
    <3>2. CASE Next
      BY ONLY <1>1, <1>3, <2>2, <3>2, HeldByApply, HeldByMigrate, HeldByServe,
              HeldByRollback, HeldByApi, HeldByUser
         DEF Next, UserStep
    <3>3. QED BY <3>1, <3>2
  <2>4. QED BY <1>3, <2>1, <2>3 DEF HeldIn, HasData
<1>4. QED BY <1>1, <1>2, <1>3, StartKeepsDb

LEMMA DataInvHolds == Spec => []DataInv
<1>1. DataInv /\ [Next]_vars => DataInv'
  BY InvStep, RevBoundStep, DataHeldStep DEF DataInv
<1>2. QED BY <1>1, DataInit, PTL DEF Spec

\* For every value of the constants: at no point of a start, whatever crashed
\* or failed in it or before it, has the data it found been destroyed.
THEOREM NoStartLosesData == Spec => []PreStartDataSurvives
<1>1. DataInv => PreStartDataSurvives
  <2> SUFFICES ASSUME DataInv, start.db # NoFile, start.db.lin # "empty"
               PROVE  \E p \in Path : disk[p] # NoFile /\ disk[p].lin = start.db.lin
                                        /\ disk[p].rev >= start.db.rev
    BY DEF PreStartDataSurvives
  <2>1. \E p \in Kept : HasData(start.db, disk[p])
    BY HolderKept DEF DataInv, DataHeld, HeldIn
  <2>2. QED BY <2>1, KeptPaths, NoFileAssumption DEF HasData
<1>2. QED BY <1>1, DataInvHolds, PTL
-----------------------------------------------------------------------------
(* The window opens on a database of the application's own schema.  What the *)
(* API is given to open shows no attempt that has not ended, and only the    *)
(* version decides whether it comes up; nothing converts the database while  *)
(* it is up.                                                                 *)

AttemptEnded(file) == file.jr \in {"none", "COMPLETED"}
AfterReady == {"finalize", "unmark", "running"}
SchemaServed ==
  /\ pc \in {"spawn", "wait"} => disk[Db] = NoFile \/ AttemptEnded(disk[Db])
  /\ pc \in AfterReady => api = "up"
  /\ pc \in AfterReady \/ (pc = "wait" /\ api = "up") => disk[Db].ver = build /\ AttemptEnded(disk[Db])

LEMMA SchemaInit == Init => SchemaServed
BY DEF Init, SchemaServed, AfterReady

\* What SQLite and the API's commits leave of a file as it was.
LEMMA SchemaUpdates ==
  ASSUME NEW f \in File
  PROVE  /\ Opened(f).ver = f.ver /\ Opened(f).jr = f.jr
         /\ [f EXCEPT !.page = "torn"].ver = f.ver /\ [f EXCEPT !.page = "torn"].jr = f.jr
         /\ \A rev : LET g == [f EXCEPT !.page = "clean", !.rev = rev, !.lin = IF @ = "empty" THEN "user" ELSE @]
                     IN g.ver = f.ver /\ g.jr = f.jr
BY DEF File, Opened

LEMMA SchemaByStart == SchemaServed /\ (ApplyStep \/ RollbackStep \/ Crash) => SchemaServed'
<1> SUFFICES ASSUME SchemaServed, ApplyStep \/ RollbackStep \/ Crash PROVE SchemaServed'
  OBVIOUS
<1>1. pc' \notin {"spawn", "wait"} \cup AfterReady
  <2> USE DEF Goto, ReturnErr, PrepareErr, RollbackErr, AfterReady
  <2>1. CASE ApplyStep
    BY <2>1 DEF ApplyStep, NoPendingRestore, TakeMarker, ValidateCandidate, ConsumeMarker, WriteApplying,
                MoveSidecars, MoveDatabase, InstallCandidate, UndoDatabase, UndoSidecars
  <2>2. CASE RollbackStep
    BY <2>2 DEF RollbackStep, PreserveEvidence, PreserveEvidenceSidecars, CopySnapshotBack, RecordRollback,
                QuarantineRestored, ReturnOriginal, ReturnSidecars, RecordRestoreRollback
  <2>3. CASE Crash
    BY <2>3 DEF Crash
  <2> QED
    BY <2>1, <2>2, <2>3
<1> QED
  BY <1>1 DEF SchemaServed, AfterReady

LEMMA SchemaByMigrate == Inv /\ SchemaServed /\ MigrateStep => SchemaServed'
<1> SUFFICES ASSUME Inv, SchemaServed, MigrateStep PROVE SchemaServed'
  OBVIOUS
<1>1. ASSUME pc' \notin {"spawn", "wait"} \cup AfterReady PROVE SchemaServed'
  BY <1>1 DEF SchemaServed, AfterReady
<1>2. ASSUME pc' = "spawn", disk'[Db] = NoFile \/ AttemptEnded(disk'[Db]) PROVE SchemaServed'
  BY <1>2 DEF SchemaServed, AfterReady, AttemptEnded
<1> USE DEF Goto, ReturnErr, PrepareErr, AfterReady
<1>3. CASE Preflight
  <2>1. disk[Db] \in File /\ disk'[Db] = Opened(disk[Db])
    BY <1>3, PathsOfIds DEF Preflight, Inv, TypeOK, Update
  <2>2. CASE SchemaStatus(disk[Db]) = "CURRENT" /\ pc' = "spawn"
    <3>1. disk[Db].jr \in Journal \ {"IN_PROGRESS", "FAILED"}
      BY <2>1, <2>2 DEF SchemaStatus, File
    <3>2. disk'[Db].jr = disk[Db].jr
      BY <2>1, SchemaUpdates
    <3> QED
      BY <1>2, <2>2, <3>1, <3>2 DEF AttemptEnded, Journal
  <2>3. CASE pc' \notin {"spawn", "wait"} \cup AfterReady
    BY <1>1, <2>3
  <2> QED
    BY <1>3, <2>2, <2>3 DEF Preflight
<1>4. CASE WriteMarker
  <2>1. CASE disk[Db].jr = "COMPLETED" /\ pc' = "spawn"
    BY <1>2, <1>4, <2>1 DEF WriteMarker, AttemptEnded, files
  <2>2. CASE pc' \notin {"spawn", "wait"} \cup AfterReady
    BY <1>1, <2>2
  <2> QED
    BY <1>4, <2>1, <2>2 DEF WriteMarker
<1>5. CASE FirstRunBootstrap
  BY <1>2, <1>5 DEF FirstRunBootstrap, files
<1>6. CASE TakeSnapshot
  BY <1>1, <1>6 DEF TakeSnapshot
<1>7. CASE RefuseRolledBack \/ RecoverInterrupted \/ RecordAttempt \/ Convert \/ CompleteAttempt
  BY <1>1, <1>7 DEF RefuseRolledBack, RecoverInterrupted, RecordAttempt, Convert, CompleteAttempt
<1> QED
  BY <1>3, <1>4, <1>5, <1>6, <1>7 DEF MigrateStep

LEMMA SchemaByServe == Inv /\ SchemaServed /\ (ServeStep \/ UserStep) => SchemaServed'
<1> SUFFICES ASSUME Inv, SchemaServed, ServeStep \/ UserStep PROVE SchemaServed'
  OBVIOUS
<1> USE DistinctPaths, PendingFields, PathsOfIds
    DEF SchemaServed, AttemptEnded, AfterReady, Goto, ReturnErr, files, restoreFiles, bounds, Update
<1>1. CASE SpawnApi BY <1>1 DEF SpawnApi
<1>2. CASE ApiReady BY <1>2 DEF ApiReady
<1>3. CASE FinalizeRestore BY <1>3 DEF FinalizeRestore, Inv, TypeOK, Memory
<1>4. CASE RemoveMarker BY <1>4 DEF RemoveMarker
<1>5. CASE ReadinessTimeout BY <1>5 DEF ReadinessTimeout
<1>6. CASE Start \/ UpgradeApplication \/ Stop BY <1>6 DEF Start, UpgradeApplication, Stop
<1>7. ASSUME NEW s \in Sessions, Stage(s) \/ Cancel(s) \/ \E q \in Requests : Confirm(s, q) PROVE SchemaServed'
  <2>1. UNCHANGED <<pc, api, build>>
    BY <1>7 DEF Stage, Cancel, Confirm
  <2>2. disk'[Db] = disk[Db]
    BY <1>7 DEF Stage, Cancel, Confirm, Inv, TypeOK
  <2> QED
    BY <2>1, <2>2
<1> QED
  BY <1>1, <1>2, <1>3, <1>4, <1>5, <1>6, <1>7 DEF ServeStep, UserStep

LEMMA SchemaByApi == Inv /\ SchemaServed /\ ApiStep => SchemaServed'
<1> SUFFICES ASSUME Inv, SchemaServed, ApiStep PROVE SchemaServed'
  OBVIOUS
<1>0. disk[Db] \in File \cup {NoFile} /\ disk \in [Path -> File \cup {NoFile}]
  BY PathsOfIds DEF Inv, TypeOK
<1> USE PathsOfIds DEF SchemaServed, AttemptEnded, AfterReady, Update
<1>1. CASE OpenDatabase
  <2>1. CASE disk[Db] = NoFile
    <3>1. disk'[Db].ver = build /\ disk'[Db].jr = "none" /\ api' = "up"
      BY <1>0, <1>1, <2>1 DEF OpenDatabase, NewFile
    <3> QED
      BY <1>1, <3>1 DEF OpenDatabase
  <2>2. CASE disk[Db] # NoFile
    <3>1. /\ disk'[Db].ver = disk[Db].ver /\ disk'[Db].jr = disk[Db].jr
          /\ api' = IF disk[Db].ver = build THEN "up" ELSE "off"
      BY <1>0, <1>1, <2>2, SchemaUpdates DEF OpenDatabase
    <3> QED
      BY <1>1, <2>2, <3>1 DEF OpenDatabase
  <2> QED
    BY <2>1, <2>2
<1>2. CASE BeginWrite \/ CommitWrite
  <2>1. disk[Db] \in File
    BY <1>2 DEF BeginWrite, CommitWrite, Inv, Prepared
  <2>2. disk'[Db].ver = disk[Db].ver /\ disk'[Db].jr = disk[Db].jr
    <3>1. CASE BeginWrite
      BY <1>0, <2>1, <3>1, SchemaUpdates DEF BeginWrite
    <3>2. CASE CommitWrite
      <4>1. disk'[Db] = [disk[Db] EXCEPT !.page = "clean", !.rev = clock + 1,
                                         !.lin = IF @ = "empty" THEN "user" ELSE @]
        BY <1>0, <3>2 DEF CommitWrite
      <4> QED
        BY <2>1, <4>1, SchemaUpdates
    <3> QED
      BY <1>2, <3>1, <3>2
  <2>3. UNCHANGED <<pc, api, build>> /\ api = "up" /\ disk[Db] # NoFile
    BY <1>2, <2>1, NoFileAssumption DEF BeginWrite, CommitWrite
  <2> QED
    BY <2>2, <2>3
<1> QED
  BY <1>1, <1>2 DEF ApiStep

\* For every value of the constants: after any sequence of crashes, upgrades, restores
\* and rollbacks the window opens only on a database of the application's own schema
\* whose journal shows no unfinished or failed attempt.
THEOREM WindowShowsCurrentSchema == Spec => []ServedSchemaIsCurrent
<1>1. Inv /\ SchemaServed /\ [Next]_vars => SchemaServed'
  <2>1. UNCHANGED vars /\ SchemaServed => SchemaServed'
    BY DEF vars, files, SchemaServed, AttemptEnded, AfterReady
  <2> QED
    BY <2>1, SchemaByStart, SchemaByMigrate, SchemaByServe, SchemaByApi DEF Next
<1>2. SchemaServed => ServedSchemaIsCurrent
  BY DEF SchemaServed, ServedSchemaIsCurrent, AttemptEnded, AfterReady
<1>3. QED
  BY InvInit, InvStep, SchemaInit, <1>1, <1>2, PTL DEF Spec
-----------------------------------------------------------------------------
(* RestoreOnce is implemented.  A request is pending, or it is the one the   *)
(* running start holds, or its attempt is over: the marker is renamed away   *)
(* before the shell keeps it, and a new one is written only while the window *)
(* is open.                                                                  *)

PendingStates == {"down", "apply", "running"}
RequestsDrawn ==
  /\ pending # NoFile => pending.request \in spent
  /\ app.restore # NoFile => app.restore.request \in spent
  /\ pc \notin PendingStates => pending = NoFile

\* The steps a request does not notice, and those that end its attempt.
SameRequests ==
  /\ spent' \cap Requests = spent \cap Requests /\ pending' = pending /\ app'.restore = app.restore
  /\ app.restore # NoFile => /\ pc \in ApplyStates <=> pc' \in ApplyStates
                             /\ pc = "running" <=> pc' = "running"
AttemptEnds ==
  /\ spent' = spent /\ pending' = pending
  /\ app'.restore = NoFile \/ (app'.restore = app.restore /\ pc' = "running")
TakesMarker ==
  /\ pc = "apply" /\ pc' = "validate" /\ pending # NoFile /\ pending' = NoFile
  /\ app'.restore = pending /\ spent' = spent
InstallsCandidate ==
  /\ pc = "install" /\ pc' = "prepare" /\ UNCHANGED <<app, pending, spent>>

Phases == [q \in Requests |-> RequestPhase(q)]

LEMMA PhasesSame == SameRequests => Phases' = Phases
BY DEF SameRequests, Phases, RequestPhase

LEMMA PhasesAtEnd ==
  ASSUME Inv, RequestsDrawn, AttemptEnds
  PROVE  Phases' = Phases \/ \E q \in Requests : Once!Settle(q)
<1>1. CASE app.restore = NoFile \/ pc = "running"
  <2>1. app'.restore = NoFile \/ pc' = "running"
    BY DEF AttemptEnds
  <2> QED
    BY <1>1, <2>1 DEF AttemptEnds, Phases, RequestPhase
<1>2. CASE app.restore # NoFile /\ pc # "running"
  <2> DEFINE q == app.restore.request
  <2>1. q \in Requests /\ q \in spent /\ pending = NoFile
    <3>1. app.restore \in PendingMarker /\ pc \notin PendingStates
      BY <1>2, MemoryUpdates DEF Inv, TypeOK, Prepared, PendingStates, NoMemory
    <3> QED
      BY <1>2, <3>1, PendingFields DEF RequestsDrawn
  <2>2. RequestPhase(q) \in {"taken", "installed"}
    BY <1>2, <2>1 DEF RequestPhase
  <2>3. \A r \in Requests : RequestPhase(r)' = IF r = q THEN "settled" ELSE RequestPhase(r)
    BY <1>2, <2>1 DEF AttemptEnds, RequestPhase
  <2>4. Phases' = [Phases EXCEPT ![q] = "settled"] /\ Phases[q] = RequestPhase(q)
    BY <2>1, <2>3 DEF Phases
  <2> QED
    BY <2>1, <2>2, <2>4 DEF Once!Settle, Once!Become, Phases
<1> QED
  BY <1>1, <1>2

LEMMA PhasesAtTake ==
  ASSUME Inv, RequestsDrawn, TakesMarker
  PROVE  \E q \in Requests : Once!Take(q)
<1> DEFINE q == pending.request
<1>1. q \in Requests /\ q \in spent /\ app.restore = NoFile
  BY PendingFields DEF Inv, TypeOK, Prepared, NoMemory, RequestsDrawn, TakesMarker
<1>2. RequestPhase(q) = "pending"
  BY <1>1 DEF RequestPhase, TakesMarker
<1>3. \A r \in Requests : RequestPhase(r)' = IF r = q THEN "taken" ELSE RequestPhase(r)
  BY <1>1 DEF RequestPhase, TakesMarker, ApplyStates
<1>4. Phases' = [Phases EXCEPT ![q] = "taken"] /\ Phases[q] = "pending"
  BY <1>1, <1>2, <1>3 DEF Phases
<1> QED
  BY <1>1, <1>4 DEF Once!Take, Once!Become, Phases

LEMMA PhasesAtInstall ==
  ASSUME Inv, RequestsDrawn, InstallsCandidate
  PROVE  \E q \in Requests : Once!Install(q)
<1> DEFINE q == app.restore.request
<1>1. q \in Requests /\ q \in spent /\ app.restore # NoFile /\ pending = NoFile
  <2>1. app.restore \in PendingMarker
    BY DEF Inv, Prepared, InstallsCandidate, ApplyStates
  <2> QED
    BY <2>1, PendingFields, NoFileAssumption DEF RequestsDrawn, InstallsCandidate, PendingStates
<1>2. RequestPhase(q) = "taken"
  BY <1>1 DEF RequestPhase, InstallsCandidate, ApplyStates
<1>3. \A r \in Requests : RequestPhase(r)' = IF r = q THEN "installed" ELSE RequestPhase(r)
  BY <1>1 DEF RequestPhase, InstallsCandidate, ApplyStates
<1>4. Phases' = [Phases EXCEPT ![q] = "installed"] /\ Phases[q] = "taken"
  BY <1>1, <1>2, <1>3 DEF Phases
<1> QED
  BY <1>1, <1>4 DEF Once!Install, Once!Become, Phases

LEMMA PhasesAtConfirm ==
  ASSUME Inv, RequestsDrawn, NEW s \in Sessions, NEW q \in Requests, Confirm(s, q)
  PROVE  Once!ConfirmRequest(q)
<1>1. /\ pc = "running" /\ pending = NoFile /\ q \notin spent /\ spent' = spent \cup {q}
      /\ pending' # NoFile /\ pending'.request = q /\ UNCHANGED <<pc, app>>
  <2>1. pending' = [request |-> q, session |-> s, schema |-> build] /\ pending' \in PendingMarker
    BY DEF Confirm, Inv, TypeOK, PendingMarker
  <2> QED
    BY <2>1, NoFileAssumption DEF Confirm
<1>2. \A r \in Requests : RequestPhase(r) \in {"unused", "settled"}
  BY <1>1 DEF RequestPhase
<1>3. RequestPhase(q) = "unused"
  BY <1>1 DEF RequestPhase
<1>4. \A r \in Requests : RequestPhase(r)' = IF r = q THEN "pending" ELSE RequestPhase(r)
  BY <1>1 DEF RequestPhase
<1>5. Phases' = [Phases EXCEPT ![q] = "pending"] /\ \A r \in Requests : Phases[r] = RequestPhase(r)
  BY <1>4 DEF Phases
<1> QED
  BY <1>2, <1>3, <1>5 DEF Once!ConfirmRequest, Once!Become, Once!Active, Phases

\* What a step is to the requests.
RequestStep ==
  \/ SameRequests \/ AttemptEnds \/ TakesMarker \/ InstallsCandidate
  \/ \E s \in Sessions, q \in Requests : Confirm(s, q)

LEMMA EmptyMemory == NoMemory.restore = NoFile
BY DEF NoMemory

\* `start` returns Err, or goes on with what it holds.
LEMMA RequestEnds ==
  RequestsDrawn /\ ReturnErr /\ spent' = spent /\ pending' = pending => RequestStep /\ RequestsDrawn'
<1> SUFFICES ASSUME RequestsDrawn, ReturnErr, spent' = spent, pending' = pending
             PROVE  RequestStep /\ RequestsDrawn'
  OBVIOUS
<1>1. app'.restore = NoFile /\ pc' = "down"
  BY EmptyMemory DEF ReturnErr, Goto
<1>2. AttemptEnds
  BY <1>1 DEF AttemptEnds
<1>3. RequestsDrawn'
  BY <1>1 DEF RequestsDrawn, PendingStates
<1> QED
  BY <1>2, <1>3 DEF RequestStep

LEMMA RequestGoes ==
  (/\ RequestsDrawn /\ spent' = spent /\ pending' = pending /\ app'.restore = app.restore
   /\ {pc, pc'} \cap PendingStates = {} /\ (pc \in ApplyStates <=> pc' \in ApplyStates))
    => RequestStep /\ RequestsDrawn'
<1> SUFFICES ASSUME RequestsDrawn, spent' = spent, pending' = pending, app'.restore = app.restore,
                    {pc, pc'} \cap PendingStates = {}, pc \in ApplyStates <=> pc' \in ApplyStates
             PROVE  RequestStep /\ RequestsDrawn'
  OBVIOUS
<1>1. SameRequests
  BY DEF SameRequests, PendingStates
<1>2. RequestsDrawn'
  BY DEF RequestsDrawn, PendingStates
<1> QED
  BY <1>1, <1>2 DEF RequestStep

LEMMA RequestByApply == Inv /\ RequestsDrawn /\ ApplyStep => RequestStep /\ RequestsDrawn'
<1> SUFFICES ASSUME Inv, RequestsDrawn, ApplyStep PROVE RequestStep /\ RequestsDrawn'
  OBVIOUS
<1> USE RequestEnds, RequestGoes, MemoryUpdates, PendingFields
    DEF Inv, TypeOK, Prepared, ApplyStates, restoreFiles, bounds, Goto, PendingStates
<1>1. CASE NoPendingRestore BY <1>1, EmptyMemory DEF NoPendingRestore, RequestStep, SameRequests, RequestsDrawn
<1>2. CASE TakeMarker
  <2>1. CASE Goto("validate") /\ app' = [app EXCEPT !.restore = pending] /\ pending' = NoFile
    <3>1. app'.restore = pending /\ pending \in PendingMarker
      BY <1>2, <2>1 DEF TakeMarker
    <3> QED
      BY <1>2, <2>1, <3>1 DEF TakeMarker, TakesMarker, RequestStep, RequestsDrawn
  <2>2. CASE ReturnErr /\ UNCHANGED pending
    BY <1>2, <2>2 DEF TakeMarker
  <2> QED
    BY <1>2, <2>1, <2>2 DEF TakeMarker
<1>3. CASE ValidateCandidate BY <1>3 DEF ValidateCandidate
<1>4. CASE ConsumeMarker BY <1>4 DEF ConsumeMarker
<1>5. CASE WriteApplying BY <1>5 DEF WriteApplying
<1>6. CASE MoveSidecars
  <2>1. app'.restore = app.restore \/ ReturnErr
    BY <1>6 DEF MoveSidecars
  <2> QED
    BY <1>6, <2>1 DEF MoveSidecars
<1>7. CASE MoveDatabase BY <1>7 DEF MoveDatabase
<1>8. CASE InstallCandidate BY <1>8 DEF InstallCandidate, InstallsCandidate, RequestStep, RequestsDrawn
<1>9. CASE UndoDatabase BY <1>9 DEF UndoDatabase
<1>10. CASE UndoSidecars BY <1>10 DEF UndoSidecars
<1> QED
  BY <1>1, <1>2, <1>3, <1>4, <1>5, <1>6, <1>7, <1>8, <1>9, <1>10 DEF ApplyStep

LEMMA RequestByMigrate == Inv /\ RequestsDrawn /\ MigrateStep => RequestStep /\ RequestsDrawn'
<1> SUFFICES ASSUME Inv, RequestsDrawn, MigrateStep PROVE RequestStep /\ RequestsDrawn'
  OBVIOUS
<1> USE RequestEnds, RequestGoes, MemoryUpdates, PendingFields
    DEF Inv, TypeOK, Prepared, ApplyStates, restoreFiles, bounds, Goto, PrepareErr, PendingStates
<1>1. CASE RefuseRolledBack BY <1>1 DEF RefuseRolledBack
<1>2. CASE RecoverInterrupted
  <2>1. app'.restore = app.restore
    BY <1>2 DEF RecoverInterrupted, MigrationMarker
  <2> QED
    BY <1>2, <2>1 DEF RecoverInterrupted
<1>3. CASE FirstRunBootstrap BY <1>3 DEF FirstRunBootstrap
<1>4. CASE Preflight BY <1>4 DEF Preflight
<1>5. CASE TakeSnapshot
  <2>1. CASE PrepareErr /\ UNCHANGED spent
    BY <1>5, <2>1 DEF TakeSnapshot
  <2>2. CASE \E a \in Attempts : spent' = spent \cup {a} /\ app' = [app EXCEPT !.attempt = a] /\ Goto("journal")
    <3>1. PICK a \in Attempts : spent' = spent \cup {a} /\ app' = [app EXCEPT !.attempt = a] /\ Goto("journal")
      BY <2>2
    <3>2. app'.restore = app.restore /\ spent' \cap Requests = spent \cap Requests
      BY <3>1, IdsAssumption
    <3> QED
      BY <1>5, <3>1, <3>2 DEF TakeSnapshot, RequestStep, SameRequests, RequestsDrawn
  <2> QED
    BY <1>5, <2>1, <2>2 DEF TakeSnapshot
<1>6. CASE RecordAttempt BY <1>6 DEF RecordAttempt
<1>7. CASE Convert BY <1>7 DEF Convert
<1>8. CASE CompleteAttempt BY <1>8 DEF CompleteAttempt
<1>9. CASE WriteMarker BY <1>9 DEF WriteMarker
<1> QED
  BY <1>1, <1>2, <1>3, <1>4, <1>5, <1>6, <1>7, <1>8, <1>9 DEF MigrateStep

LEMMA RequestByServe ==
  Inv /\ RequestsDrawn /\ (ServeStep \/ ApiStep \/ Crash) => RequestStep /\ RequestsDrawn'
<1> SUFFICES ASSUME Inv, RequestsDrawn, ServeStep \/ ApiStep \/ Crash PROVE RequestStep /\ RequestsDrawn'
  OBVIOUS
<1> USE RequestEnds, RequestGoes, MemoryUpdates, PendingFields
    DEF Inv, TypeOK, Prepared, ApplyStates, restoreFiles, bounds, Goto, PendingStates
<1>1. CASE SpawnApi BY <1>1 DEF SpawnApi
<1>2. CASE ApiReady BY <1>2 DEF ApiReady
<1>3. CASE FinalizeRestore
  <2>1. pending' = pending
    BY <1>3 DEF FinalizeRestore, RequestsDrawn
  <2>2. \/ /\ app'.restore = app.restore /\ pc' = "unmark"
        \/ /\ app'.restore = NoFile /\ pc' = "exiting"
    BY <1>3, EmptyMemory DEF FinalizeRestore
  <2> QED
    BY <1>3, <2>1, <2>2 DEF FinalizeRestore, RequestStep, AttemptEnds, RequestsDrawn
<1>4. CASE RemoveMarker BY <1>4 DEF RemoveMarker, RequestStep, AttemptEnds, RequestsDrawn
<1>5. CASE ReadinessTimeout
  <2>1. app'.restore = app.restore \/ ReturnErr
    BY <1>5 DEF ReadinessTimeout
  <2> QED
    BY <1>5, <2>1 DEF ReadinessTimeout
<1>6. CASE ApiStep BY <1>6 DEF ApiStep, OpenDatabase, BeginWrite, CommitWrite
<1>7. CASE Crash BY <1>7 DEF Crash
<1> QED
  BY <1>1, <1>2, <1>3, <1>4, <1>5, <1>6, <1>7 DEF ServeStep

LEMMA RequestByRollback == Inv /\ RequestsDrawn /\ RollbackStep => RequestStep /\ RequestsDrawn'
<1> SUFFICES ASSUME Inv, RequestsDrawn, RollbackStep PROVE RequestStep /\ RequestsDrawn'
  OBVIOUS
<1> USE RequestEnds, RequestGoes, MemoryUpdates, PendingFields
    DEF Inv, TypeOK, Prepared, ApplyStates, restoreFiles, bounds, Goto, PrepareErr, RollbackErr, PendingStates
<1>1. CASE PreserveEvidence BY <1>1 DEF PreserveEvidence
<1>2. CASE PreserveEvidenceSidecars BY <1>2 DEF PreserveEvidenceSidecars
<1>3. CASE CopySnapshotBack BY <1>3 DEF CopySnapshotBack
<1>4. CASE RecordRollback BY <1>4 DEF RecordRollback
<1>5. CASE QuarantineRestored BY <1>5 DEF QuarantineRestored
<1>6. CASE ReturnOriginal BY <1>6 DEF ReturnOriginal
<1>7. CASE ReturnSidecars BY <1>7 DEF ReturnSidecars
<1>8. CASE RecordRestoreRollback
  <2>1. pending' = pending
    BY <1>8 DEF RecordRestoreRollback, RequestsDrawn
  <2> QED
    BY <1>8, <2>1 DEF RecordRestoreRollback
<1> QED
  BY <1>1, <1>2, <1>3, <1>4, <1>5, <1>6, <1>7, <1>8 DEF RollbackStep

LEMMA RequestByUser == Inv /\ RequestsDrawn /\ UserStep => RequestStep /\ RequestsDrawn'
<1> SUFFICES ASSUME Inv, RequestsDrawn, UserStep PROVE RequestStep /\ RequestsDrawn'
  OBVIOUS
<1> USE RequestEnds, RequestGoes, MemoryUpdates, PendingFields
    DEF Inv, TypeOK, Prepared, ApplyStates, restoreFiles, bounds, Goto, PendingStates
<1>1. CASE Start BY <1>1, EmptyMemory DEF Start, RequestStep, SameRequests, RequestsDrawn
<1>2. CASE UpgradeApplication BY <1>2 DEF UpgradeApplication, RequestStep, SameRequests, RequestsDrawn
<1>3. CASE Stop BY <1>3 DEF Stop
<1>4. ASSUME NEW s \in Sessions, Stage(s) \/ Cancel(s) PROVE RequestStep /\ RequestsDrawn'
  <2>1. spent' \cap Requests = spent \cap Requests /\ spent \subseteq spent'
    BY <1>4, IdsAssumption DEF Stage, Cancel
  <2> QED
    BY <1>4, <2>1 DEF Stage, Cancel, RequestStep, SameRequests, RequestsDrawn
<1>5. ASSUME NEW s \in Sessions, NEW q \in Requests, Confirm(s, q) PROVE RequestStep /\ RequestsDrawn'
  <2>1. pending'.request = q /\ spent' = spent \cup {q} /\ UNCHANGED <<pc, app>> /\ pc = "running"
    BY <1>5 DEF Confirm
  <2> QED
    BY <1>5, <2>1 DEF RequestStep, RequestsDrawn
<1> QED
  BY <1>1, <1>2, <1>3, <1>4, <1>5 DEF UserStep

LEMMA RequestSteps == Inv /\ RequestsDrawn /\ [Next]_vars => RequestStep /\ RequestsDrawn'
<1>1. RequestsDrawn /\ UNCHANGED vars => RequestStep /\ RequestsDrawn'
  BY DEF vars, restoreFiles, RequestsDrawn, PendingStates, RequestStep, SameRequests
<1> QED
  BY <1>1, RequestByApply, RequestByMigrate, RequestByServe, RequestByRollback, RequestByUser DEF Next

\* For every value of the constants the start implements RestoreOnce: a confirmed request
\* is attempted by one start at most, one request at a time, and a candidate reaches the
\* active database only from a request that was confirmed and taken.
THEOREM RequestsAreAttemptedOnce == Spec => RestoreAttemptedOnce
<1>1. Init => RequestsDrawn /\ Once!Init
  BY DEF Init, RequestsDrawn, PendingStates, NoMemory, Once!Init, RequestPhase
<1>2. Inv /\ RequestsDrawn /\ [Next]_vars => [Once!Next]_Phases
  <2>1. ASSUME Inv, RequestsDrawn, [Next]_vars PROVE Once!Next \/ Phases' = Phases
    <3>1. RequestStep
      BY <2>1, RequestSteps
    <3> QED
      BY <2>1, <3>1, PhasesSame, PhasesAtEnd, PhasesAtTake, PhasesAtInstall, PhasesAtConfirm
         DEF RequestStep, Once!Next
  <2> QED
    BY <2>1
<1>3. Inv /\ RequestsDrawn /\ [Next]_vars => RequestsDrawn'
  BY RequestSteps
<1>4. QED
  BY InvInit, InvStep, <1>1, <1>2, <1>3, PTL DEF Spec, RestoreAttemptedOnce, Once!Spec, Phases
-----------------------------------------------------------------------------
(* A start that fails on its own returns the data it found.  Until the       *)
(* database is converted or replaced it is the active database; from then on *)
(* it is the snapshot of this start's attempt or, under a restore, the       *)
(* safety copy of its request, whose directory nobody has used before.       *)

LEMMA SnapshotIsApart ==
  \A a \in Attempts : /\ Snapshot(a) # Db /\ Snapshot(a) \in Path
                      /\ \A b \in Attempts : Evidence(b) # Snapshot(a) /\ (Snapshot(b) = Snapshot(a) => a = b)
                      /\ \A q \in Requests : Safety(q) # Snapshot(a) /\ Failed(q) # Snapshot(a)
                      /\ \A s \in Sessions : Staged(s) # Snapshot(a)
BY DEF Path, Db, Staged, Safety, Failed, Snapshot, Evidence

LEMMA SafetyPaths ==
  \A q \in Requests : Safety(q) \in Path /\ \A r \in Requests : Safety(r) = Safety(q) => r = q
BY DEF Path, Safety

LEMMA MemoryKeeps ==
  /\ NoMemory.attempt = NoFile /\ ~NoMemory.waited /\ NoMemory.restore = NoFile
  /\ \A m \in Memory : \A p \in PendingMarker :
       [m EXCEPT !.restore = p].attempt = m.attempt /\ [m EXCEPT !.restore = p].waited = m.waited
  /\ \A m \in Memory : [m EXCEPT !.sidecars = TRUE].attempt = m.attempt
                         /\ [m EXCEPT !.sidecars = TRUE].waited = m.waited
  /\ \A m \in Memory : \A a \in Attempts : [m EXCEPT !.attempt = a].waited = m.waited
BY DEF Memory, NoMemory

\* No step but the three that move it touches a safety copy, and only a new attempt
\* writes its snapshot.
CopiesStay ==
  /\ \A q \in Requests : disk'[Safety(q)] = disk[Safety(q)]
  /\ \A a \in Attempts : disk'[Snapshot(a)] = disk[Snapshot(a)]

LEMMA CopiesByUpdate ==
  ASSUME Inv, NEW p \in Path, NEW file, disk' = [disk EXCEPT ![p] = file],
         \A q \in Requests : Safety(q) # p, \A a \in Attempts : Snapshot(a) # p
  PROVE  CopiesStay
BY SafetyPaths, SnapshotIsApart DEF CopiesStay, Inv, TypeOK

LEMMA CopiesByRename ==
  ASSUME Inv, NEW p \in Path, NEW r \in Path, Rename(p, r),
         \A q \in Requests : Safety(q) \notin {p, r}, \A a \in Attempts : Snapshot(a) \notin {p, r}
  PROVE  CopiesStay
BY SafetyPaths, SnapshotIsApart DEF CopiesStay, Rename, Inv, TypeOK

LEMMA CopiesByApply ==
  ASSUME Inv, ApplyStep, ~MoveDatabase, ~UndoDatabase PROVE CopiesStay
<1>1. CASE UNCHANGED disk
  BY <1>1 DEF CopiesStay
<1>2. CASE InstallCandidate
  <2>1. app.restore.session \in Sessions
    BY <1>2, PendingFields DEF InstallCandidate, Inv, Prepared, ApplyStates
  <2>2. UNCHANGED disk \/ Rename(Staged(app.restore.session), Db)
    BY <1>2 DEF InstallCandidate
  <2> QED
    BY <1>1, <2>1, <2>2, CopiesByRename, PathsOfIds, SafetyIsApart, SnapshotIsApart
<1> QED
  BY <1>1, <1>2 DEF ApplyStep, NoPendingRestore, TakeMarker, ValidateCandidate, ConsumeMarker, WriteApplying,
                    MoveSidecars, UndoSidecars, files

\* Steps that write the active database only.
LEMMA CopiesByDatabase ==
  ASSUME Inv, Preflight \/ RecordAttempt \/ Convert \/ CompleteAttempt \/ ApiStep \/ CopySnapshotBack
  PROVE  CopiesStay
<1>1. disk' = disk \/ \E file : disk' = [disk EXCEPT ![Db] = file]
  BY DEF Preflight, RecordAttempt, Convert, CompleteAttempt, ApiStep, OpenDatabase, BeginWrite, CommitWrite,
         CopySnapshotBack, Update
<1>2. CASE disk' = disk
  BY <1>2 DEF CopiesStay
<1>3. ASSUME NEW file, disk' = [disk EXCEPT ![Db] = file] PROVE CopiesStay
  BY <1>3, CopiesByUpdate, PathsOfIds, SafetyIsApart, SnapshotIsApart
<1> QED
  BY <1>1, <1>2, <1>3

LEMMA CopiesByServe ==
  ASSUME Inv, ServeStep \/ Crash \/ UserStep PROVE CopiesStay
<1>1. CASE UNCHANGED disk
  BY <1>1 DEF CopiesStay
<1>2. ASSUME NEW s \in Sessions, NEW file, disk' = [disk EXCEPT ![Staged(s)] = file] PROVE CopiesStay
  <2>1. Staged(s) \in Path /\ \A q \in Requests : Safety(q) # Staged(s)
    BY PathsOfIds, SafetyIsApart
  <2>2. \A a \in Attempts : Snapshot(a) # Staged(s)
    BY SnapshotIsApart
  <2> QED
    BY <1>2, <2>1, <2>2, CopiesByUpdate
<1>3. CASE FinalizeRestore
  <2>1. app.restore # NoFile => app.restore.session \in Sessions
    BY PendingFields, MemoryUpdates DEF Inv, TypeOK
  <2> QED
    BY <1>1, <1>2, <1>3, <2>1 DEF FinalizeRestore, Update
<1>4. ASSUME NEW s \in Sessions, Stage(s) \/ Cancel(s) \/ \E q \in Requests : Confirm(s, q) PROVE CopiesStay
  BY <1>1, <1>2, <1>4 DEF Stage, Cancel, Confirm, Update, files
<1> QED
  BY <1>1, <1>3, <1>4
     DEF ServeStep, UserStep, SpawnApi, ApiReady, RemoveMarker, ReadinessTimeout, Crash, Start,
         UpgradeApplication, Stop, files

LEMMA CopiesByRollback ==
  ASSUME Inv, RollbackStep, ~ReturnOriginal PROVE CopiesStay
<1>1. CASE UNCHANGED disk
  BY <1>1 DEF CopiesStay
<1>2. CASE PreserveEvidence
  <2>1. app.attempt \in Attempts
    BY <1>2 DEF PreserveEvidence, Inv, Prepared
  <2>2. UNCHANGED disk \/ Rename(Db, Evidence(app.attempt))
    BY <1>2 DEF PreserveEvidence
  <2> QED
    BY <1>1, <2>1, <2>2, CopiesByRename, PathsOfIds, SafetyIsApart, SnapshotIsApart
<1>3. CASE QuarantineRestored
  <2>1. app.restore.request \in Requests
    BY <1>3, PendingFields DEF QuarantineRestored, Inv, Prepared
  <2>2. UNCHANGED disk \/ Rename(Db, Failed(app.restore.request))
    BY <1>3 DEF QuarantineRestored
  <2> QED
    BY <1>1, <2>1, <2>2, CopiesByRename, PathsOfIds, SafetyIsApart, SnapshotIsApart
<1>4. CASE CopySnapshotBack
  BY <1>4, CopiesByDatabase
<1> QED
  BY <1>1, <1>2, <1>3, <1>4 DEF RollbackStep, PreserveEvidenceSidecars, RecordRollback, ReturnSidecars,
                                RecordRestoreRollback, files

\* The three steps that move a safety copy, and the one that writes a snapshot.
LEMMA SafetyMoves ==
  ASSUME Inv, MoveDatabase \/ UndoDatabase \/ ReturnOriginal
  PROVE  /\ app.restore.request \in Requests
         /\ \A q \in Requests \ {app.restore.request} : disk'[Safety(q)] = disk[Safety(q)]
         /\ \A a \in Attempts : disk'[Snapshot(a)] = disk[Snapshot(a)]
<1>1. app.restore.request \in Requests
  BY PendingFields DEF MoveDatabase, UndoDatabase, ReturnOriginal, Inv, Prepared, ApplyStates
<1>2. UNCHANGED disk \/ Rename(Db, Safety(app.restore.request)) \/ Rename(Safety(app.restore.request), Db)
  BY DEF MoveDatabase, UndoDatabase, ReturnOriginal
<1> QED
  BY <1>1, <1>2, SafetyPaths, SafetyIsApart, SnapshotIsApart, PathsOfIds, DistinctPaths
     DEF Rename, Inv, TypeOK

LEMMA SnapshotWritten ==
  ASSUME Inv, TakeSnapshot
  PROVE  /\ \A q \in Requests : disk'[Safety(q)] = disk[Safety(q)]
         /\ \/ UNCHANGED disk /\ PrepareErr
            \/ \E a \in Attempts : /\ disk' = [disk EXCEPT ![Snapshot(a)] = [disk[Db] EXCEPT !.id = a]]
                                   /\ app' = [app EXCEPT !.attempt = a] /\ pc' = "journal"
<1>1. UNCHANGED disk \/ \E a \in Attempts : \E file : disk' = [disk EXCEPT ![Snapshot(a)] = file]
  BY DEF TakeSnapshot, Update
<1> QED
  BY <1>1, SafetyPaths, SafetyIsApart, SnapshotIsApart, PathsOfIds
     DEF TakeSnapshot, Update, Goto, Inv, TypeOK

LEMMA CopiesByMigrate ==
  ASSUME Inv, MigrateStep, ~TakeSnapshot PROVE CopiesStay
<1>1. CASE UNCHANGED disk
  BY <1>1 DEF CopiesStay
<1> QED
  BY <1>1, CopiesByDatabase
     DEF MigrateStep, RefuseRolledBack, RecoverInterrupted, FirstRunBootstrap, WriteMarker, files
-----------------------------------------------------------------------------
\* Nobody has used the safety directory of a request that is not taken up yet.
Unmoved == {"validate", "consume", "status", "sidecars", "database"}
SafetyCopy == disk[Safety(app.restore.request)]
SafetyUnused ==
  /\ \A q \in Requests \ spent : disk[Safety(q)] = NoFile
  /\ pending # NoFile => disk[Safety(pending.request)] = NoFile
  /\ pc \in Unmoved => SafetyCopy = NoFile

\* A step that leaves the safety copies alone.
SafetyStays ==
  /\ \A q \in Requests : disk'[Safety(q)] = disk[Safety(q)]
  /\ spent \subseteq spent'
  /\ pending' \in {pending, NoFile}
  /\ pc' \in Unmoved => pc \in Unmoved /\ app'.restore = app.restore

LEMMA UnusedStays ==
  ASSUME Inv, SafetyUnused, SafetyStays PROVE SafetyUnused'
<1>1. \A q \in Requests \ spent' : disk'[Safety(q)] = NoFile
  BY DEF SafetyUnused, SafetyStays
<1>2. ASSUME pending' # NoFile PROVE disk'[Safety(pending'.request)] = NoFile
  <2>1. pending' = pending /\ pending.request \in Requests
    BY <1>2, PendingFields DEF SafetyStays, Inv, TypeOK
  <2> QED
    BY <1>2, <2>1 DEF SafetyUnused, SafetyStays
<1>3. ASSUME pc' \in Unmoved PROVE disk'[Safety(app'.restore.request)] = NoFile
  <2>1. pc \in Unmoved /\ app'.restore = app.restore
    BY <1>3 DEF SafetyStays
  <2>2. app.restore.request \in Requests
    BY <2>1, PendingFields DEF Inv, Prepared, Unmoved, ApplyStates
  <2> QED
    BY <2>1, <2>2 DEF SafetyUnused, SafetyStays, SafetyCopy
<1> QED
  BY <1>1, <1>2, <1>3 DEF SafetyUnused, SafetyCopy

LEMMA UnusedMoved ==
  ASSUME Inv, RequestsDrawn, SafetyUnused, MoveDatabase \/ UndoDatabase \/ ReturnOriginal
  PROVE  SafetyUnused'
<1>1. app.restore \in PendingMarker /\ pc \notin PendingStates
  BY DEF MoveDatabase, UndoDatabase, ReturnOriginal, Inv, Prepared, ApplyStates, PendingStates
<1>2. app.restore.request \in spent /\ pending = NoFile
  BY <1>1, NoFileAssumption DEF RequestsDrawn
<1>3. pending' = pending /\ spent' = spent /\ pc' \notin Unmoved
  BY DEF MoveDatabase, UndoDatabase, ReturnOriginal, restoreFiles, Goto, ReturnErr, Unmoved
<1> QED
  BY <1>2, <1>3, SafetyMoves DEF SafetyUnused

LEMMA UnusedByApply == Inv /\ RequestsDrawn /\ SafetyUnused /\ ApplyStep => SafetyUnused'
<1> SUFFICES ASSUME Inv, RequestsDrawn, SafetyUnused, ApplyStep PROVE SafetyUnused'
  OBVIOUS
<1>1. CASE TakeMarker
  <2>1. CASE Goto("validate") /\ app' = [app EXCEPT !.restore = pending] /\ pending' = NoFile
    <3>1. app'.restore = pending /\ pending \in PendingMarker
      BY <1>1, <2>1, MemoryUpdates DEF TakeMarker, Inv, TypeOK
    <3> QED
      BY <1>1, <2>1, <3>1 DEF TakeMarker, SafetyUnused, SafetyCopy, files
  <2>2. CASE ReturnErr /\ UNCHANGED pending
    BY <1>1, <2>2 DEF TakeMarker, SafetyUnused, ReturnErr, Goto, Unmoved, files
  <2> QED
    BY <1>1, <2>1, <2>2 DEF TakeMarker
<1>2. CASE ~TakeMarker /\ ~MoveDatabase /\ ~UndoDatabase
  <2>1. CopiesStay
    BY <1>2, CopiesByApply
  <2>2. spent' = spent /\ pending' = pending
    BY <1>2 DEF ApplyStep, NoPendingRestore, ValidateCandidate, ConsumeMarker, WriteApplying,
                MoveSidecars, InstallCandidate, UndoSidecars, restoreFiles
  <2>3. pc' \in Unmoved => pc \in Unmoved /\ app'.restore = app.restore
    BY <1>2, MemoryUpdates
       DEF ApplyStep, NoPendingRestore, ValidateCandidate, ConsumeMarker, WriteApplying,
           MoveSidecars, InstallCandidate, UndoSidecars, Goto, ReturnErr, Unmoved, Inv, TypeOK
  <2> QED
    BY <2>1, <2>2, <2>3, UnusedStays DEF SafetyStays, CopiesStay
<1> QED
  BY <1>1, <1>2, UnusedMoved

LEMMA UnusedByMigrate == Inv /\ SafetyUnused /\ MigrateStep => SafetyUnused'
<1> SUFFICES ASSUME Inv, SafetyUnused, MigrateStep PROVE SafetyUnused'
  OBVIOUS
<1>1. \A q \in Requests : disk'[Safety(q)] = disk[Safety(q)]
  BY SnapshotWritten, CopiesByMigrate DEF CopiesStay
<1>2. spent \subseteq spent' /\ pending' = pending
  BY DEF MigrateStep, RefuseRolledBack, RecoverInterrupted, FirstRunBootstrap, Preflight, TakeSnapshot,
         RecordAttempt, Convert, CompleteAttempt, WriteMarker, restoreFiles
<1>3. pc' \notin Unmoved
  BY DEF MigrateStep, RefuseRolledBack, RecoverInterrupted, FirstRunBootstrap, Preflight, TakeSnapshot,
         RecordAttempt, Convert, CompleteAttempt, WriteMarker, PrepareErr, ReturnErr, Goto, Unmoved
<1> QED
  BY <1>1, <1>2, <1>3, UnusedStays DEF SafetyStays

LEMMA UnusedByRest ==
  Inv /\ RequestsDrawn /\ SafetyUnused /\ (ServeStep \/ RollbackStep \/ ApiStep \/ Crash) => SafetyUnused'
<1> SUFFICES ASSUME Inv, RequestsDrawn, SafetyUnused, ServeStep \/ RollbackStep \/ ApiStep \/ Crash
             PROVE  SafetyUnused'
  OBVIOUS
<1>1. CASE ~ReturnOriginal
  <2>1. CopiesStay
    BY <1>1, CopiesByServe, CopiesByRollback, CopiesByDatabase
  <2>2. spent' = spent /\ pending' \in {pending, NoFile}
    BY DEF ServeStep, RollbackStep, ApiStep, Crash, SpawnApi, ApiReady, FinalizeRestore, RemoveMarker,
           ReadinessTimeout, PreserveEvidence, PreserveEvidenceSidecars, CopySnapshotBack,
           RecordRollback, QuarantineRestored, ReturnOriginal, ReturnSidecars, RecordRestoreRollback,
           OpenDatabase, BeginWrite, CommitWrite, restoreFiles
  <2>3. pc' \in Unmoved => pc' = pc /\ app' = app
    BY DEF ServeStep, RollbackStep, ApiStep, Crash, SpawnApi, ApiReady, FinalizeRestore, RemoveMarker,
           ReadinessTimeout, PreserveEvidence, PreserveEvidenceSidecars, CopySnapshotBack,
           RecordRollback, QuarantineRestored, ReturnOriginal, ReturnSidecars, RecordRestoreRollback,
           OpenDatabase, BeginWrite, CommitWrite, RollbackErr, PrepareErr, ReturnErr, Goto, Unmoved
  <2> QED
    BY <2>1, <2>2, <2>3, UnusedStays DEF SafetyStays, CopiesStay
<1> QED
  BY <1>1, UnusedMoved

LEMMA UnusedByUser == Inv /\ SafetyUnused /\ UserStep => SafetyUnused'
<1> SUFFICES ASSUME Inv, SafetyUnused, UserStep PROVE SafetyUnused'
  OBVIOUS
<1>1. CopiesStay
  BY CopiesByServe
<1>2. ASSUME NEW s \in Sessions, NEW q \in Requests, Confirm(s, q) PROVE SafetyUnused'
  <2>1. /\ pending'.request = q /\ q \notin spent /\ spent' = spent \cup {q} /\ disk' = disk
        /\ pc' = "running"
    BY <1>2 DEF Confirm, files
  <2> QED
    BY <2>1 DEF SafetyUnused, Unmoved
<1>3. CASE Start \/ UpgradeApplication \/ Stop \/ \E s \in Sessions : Stage(s) \/ Cancel(s)
  <2>1. spent \subseteq spent' /\ pending' = pending
    BY <1>3 DEF Start, UpgradeApplication, Stop, Stage, Cancel, restoreFiles
  <2>2. pc' \notin Unmoved
    BY <1>3 DEF Start, UpgradeApplication, Stop, Stage, Cancel, ReturnErr, Goto, Unmoved
  <2> QED
    BY <1>1, <2>1, <2>2, UnusedStays DEF SafetyStays, CopiesStay
<1> QED
  BY <1>2, <1>3 DEF UserStep
-----------------------------------------------------------------------------
\* The shell holds an attempt from its snapshot on, and rolls one back after the
\* readiness wait only when it took that snapshot itself.
Converting == {"journal", "convert", "complete", "marker", "spawn", "wait"}
SnapshotCopy == disk[Snapshot(app.attempt)]
AttemptKnown ==
  /\ pc \in ApplyStates \cup {"prepare", "snapshot"} => app.attempt = NoFile
  /\ pc \in ApplyStates \cup MigrateStates \cup {"spawn", "wait"} => ~app.waited
  /\ app.attempt # NoFile /\ (pc \in Converting \/ (pc = "evidence" /\ app.waited))
       => SnapshotCopy # NoFile

\* The steps within `start` that leave the attempt alone, and its end.
AttemptStays ==
  /\ \A a \in Attempts : disk'[Snapshot(a)] = disk[Snapshot(a)]
  /\ app'.attempt = app.attempt /\ app'.waited = app.waited
  /\ pc' \in ApplyStates \cup {"prepare", "snapshot"} => pc \in ApplyStates \cup {"prepare", "snapshot"}
  /\ pc' \in Converting => pc \in Converting \cup {"prepare"}
  /\ pc' = "evidence" => pc \in Converting

LEMMA KnownStays ==
  ASSUME Inv, AttemptKnown, AttemptStays PROVE AttemptKnown'
<1>1. app.attempt \in Attempts \cup {NoFile}
  BY MemoryUpdates DEF Inv, TypeOK
<1>2. pc' \in ApplyStates \cup {"prepare", "snapshot"} => app'.attempt = NoFile
  BY DEF AttemptKnown, AttemptStays
<1>3. pc' \in ApplyStates \cup MigrateStates \cup {"spawn", "wait"} => ~app'.waited
  BY DEF AttemptKnown, AttemptStays, ApplyStates, MigrateStates, Converting
<1>4. ASSUME app'.attempt # NoFile, pc' \in Converting \/ pc' = "evidence" PROVE SnapshotCopy' # NoFile
  <2>1. app'.attempt = app.attempt /\ app.attempt \in Attempts
    BY <1>1, <1>4 DEF AttemptStays
  <2>2. pc \in Converting
    BY <1>4, <2>1 DEF AttemptKnown, AttemptStays
  <2> QED
    BY <1>4, <2>1, <2>2 DEF AttemptKnown, AttemptStays, SnapshotCopy
<1> QED
  BY <1>2, <1>3, <1>4 DEF AttemptKnown

LEMMA KnownEnds ==
  ASSUME pc' \in {"down", "exiting", "running", "quarantine"} PROVE AttemptKnown'
BY DEF AttemptKnown, ApplyStates, MigrateStates, Converting

LEMMA KnownByApply == Inv /\ AttemptKnown /\ ApplyStep => AttemptKnown'
<1> SUFFICES ASSUME Inv, AttemptKnown, ApplyStep PROVE AttemptKnown'
  OBVIOUS
<1>1. \A a \in Attempts : disk'[Snapshot(a)] = disk[Snapshot(a)]
  BY CopiesByApply, SafetyMoves DEF CopiesStay
<1>2. pc' = "down" \/ (app'.attempt = app.attempt /\ app'.waited = app.waited)
  <2>1. \/ app' = app
        \/ pending \in PendingMarker /\ app' = [app EXCEPT !.restore = pending]
        \/ app' = [app EXCEPT !.sidecars = TRUE]
        \/ pc' = "down"
    BY DEF ApplyStep, NoPendingRestore, TakeMarker, ValidateCandidate, ConsumeMarker, WriteApplying,
           MoveSidecars, MoveDatabase, InstallCandidate, UndoDatabase, UndoSidecars, Goto, ReturnErr,
           Inv, TypeOK
  <2>2. app \in Memory
    BY DEF Inv, TypeOK
  <2>3. CASE pending \in PendingMarker /\ app' = [app EXCEPT !.restore = pending]
    BY <2>2, <2>3, MemoryKeeps
  <2>4. CASE app' = [app EXCEPT !.sidecars = TRUE]
    BY <2>2, <2>4, MemoryKeeps
  <2> QED
    BY <2>1, <2>3, <2>4
<1>3. pc \in ApplyStates /\ pc' \in ApplyStates \cup {"prepare", "down"}
  BY DEF ApplyStep, NoPendingRestore, TakeMarker, ValidateCandidate, ConsumeMarker, WriteApplying,
         MoveSidecars, MoveDatabase, InstallCandidate, UndoDatabase, UndoSidecars, Goto, ReturnErr,
         ApplyStates
<1>4. CASE pc' = "down"
  BY <1>4, KnownEnds
<1>5. CASE pc' # "down"
  <2>1. pc' \notin Converting \cup {"evidence"}
    BY <1>3, <1>5 DEF ApplyStates, Converting
  <2> QED
    BY <1>1, <1>2, <1>3, <1>5, <2>1, KnownStays DEF AttemptStays
<1> QED
  BY <1>4, <1>5

LEMMA KnownByMigrate == Inv /\ AttemptKnown /\ MigrateStep => AttemptKnown'
<1> SUFFICES ASSUME Inv, AttemptKnown, MigrateStep PROVE AttemptKnown'
  OBVIOUS
<1>1. CASE RecoverInterrupted
  <2>1. pc' = "evidence" /\ app'.waited = app.waited /\ ~app.waited
    <3>1. marker.attempt \in Attempts
      BY <1>1 DEF RecoverInterrupted, MigrationMarker, Inv, TypeOK
    <3> QED
      BY <1>1, <3>1, MemoryKeeps DEF RecoverInterrupted, Goto, AttemptKnown, MigrateStates, Inv, TypeOK
  <2> QED
    BY <2>1 DEF AttemptKnown, ApplyStates, MigrateStates, Converting
<1>2. CASE TakeSnapshot
  <2>1. CASE PrepareErr
    BY <2>1, KnownEnds DEF PrepareErr, ReturnErr, Goto
  <2>2. CASE \E a \in Attempts : /\ disk' = [disk EXCEPT ![Snapshot(a)] = [disk[Db] EXCEPT !.id = a]]
                                 /\ app' = [app EXCEPT !.attempt = a] /\ pc' = "journal"
    <3>1. PICK a \in Attempts : /\ disk' = [disk EXCEPT ![Snapshot(a)] = [disk[Db] EXCEPT !.id = a]]
                                /\ app' = [app EXCEPT !.attempt = a] /\ pc' = "journal"
      BY <2>2
    <3>2. app'.attempt = a /\ app'.waited = app.waited /\ ~app.waited
      BY <1>2, <3>1, MemoryUpdates, MemoryKeeps DEF TakeSnapshot, AttemptKnown, MigrateStates, Inv, TypeOK
    <3>3. disk[Db] \in File
      BY <1>2 DEF TakeSnapshot, Inv, Prepared
    <3>4. [disk[Db] EXCEPT !.id = a] # NoFile
      BY <3>3, FileUpdates, NoFileAssumption
    <3>5. SnapshotCopy' # NoFile
      BY <3>1, <3>2, <3>4, SnapshotIsApart DEF SnapshotCopy, Inv, TypeOK
    <3> QED
      BY <3>1, <3>2, <3>5 DEF AttemptKnown, ApplyStates
  <2> QED
    BY <1>2, <2>1, <2>2, SnapshotWritten
<1>3. CASE ~RecoverInterrupted /\ ~TakeSnapshot
  <2>1. CASE PrepareErr
    BY <2>1, KnownEnds DEF PrepareErr, ReturnErr, Goto
  <2>2. CASE ~PrepareErr
    <3>1. app' = app /\ pc \in MigrateStates
      BY <1>3, <2>2
         DEF MigrateStep, RefuseRolledBack, FirstRunBootstrap, Preflight, RecordAttempt, Convert,
             CompleteAttempt, WriteMarker, MigrateStates
    <3>2. \/ pc \in Converting /\ pc' \in Converting \cup {"evidence"}
          \/ pc = "prepare" /\ pc' \in {"spawn", "snapshot"}
      BY <1>3, <2>2
         DEF MigrateStep, RefuseRolledBack, FirstRunBootstrap, Preflight, RecordAttempt, Convert,
             CompleteAttempt, WriteMarker, Goto, Converting
    <3> QED
      BY <1>3, <3>1, <3>2, CopiesByMigrate, KnownStays
         DEF CopiesStay, AttemptStays, ApplyStates, Converting
  <2> QED
    BY <2>1, <2>2
<1> QED
  BY <1>1, <1>2, <1>3

LEMMA KnownByServe == Inv /\ AttemptKnown /\ (ServeStep \/ Stop \/ Crash) => AttemptKnown'
<1> SUFFICES ASSUME Inv, AttemptKnown, ServeStep \/ Stop \/ Crash PROVE AttemptKnown'
  OBVIOUS
<1>1. CASE SpawnApi
  BY <1>1, KnownStays, KnownEnds
     DEF SpawnApi, AttemptStays, ReturnErr, Goto, files, ApplyStates, Converting
<1>2. CASE ReadinessTimeout
  <2>1. CASE ReturnErr
    BY <2>1, KnownEnds DEF ReturnErr, Goto
  <2>2. CASE ~ReturnErr
    <3>1. app'.attempt = app.attempt /\ disk' = disk /\ pc = "wait"
      BY <1>2, <2>2, MemoryUpdates DEF ReadinessTimeout, files, Inv, TypeOK
    <3>2. pc' = "quarantine" \/ (pc' = "evidence" /\ app.attempt # NoFile)
      BY <1>2, <2>2 DEF ReadinessTimeout, Goto
    <3> QED
      BY <3>1, <3>2, KnownEnds
         DEF AttemptKnown, SnapshotCopy, ApplyStates, MigrateStates, Converting
  <2> QED
    BY <2>1, <2>2
<1>3. CASE ApiReady \/ FinalizeRestore \/ RemoveMarker \/ Stop \/ Crash
  BY <1>3
     DEF ApiReady, FinalizeRestore, RemoveMarker, Stop, Crash, ReturnErr, Goto,
         AttemptKnown, ApplyStates, MigrateStates, Converting
<1> QED
  BY <1>1, <1>2, <1>3 DEF ServeStep

LEMMA KnownByRollback == AttemptKnown /\ RollbackStep => AttemptKnown'
<1>1. RollbackStep => pc' \in {"down", "evidenceSidecars", "copyBack", "recordRollback", "quarantine",
                               "original", "restoreSidecars", "recordRestore"}
  BY DEF RollbackStep, PreserveEvidence, PreserveEvidenceSidecars, CopySnapshotBack, RecordRollback,
         QuarantineRestored, ReturnOriginal, ReturnSidecars, RecordRestoreRollback, RollbackErr,
         PrepareErr, ReturnErr, Goto
<1> QED
  BY <1>1 DEF AttemptKnown, ApplyStates, MigrateStates, Converting

LEMMA KnownByOther == Inv /\ AttemptKnown /\ (ApiStep \/ (UserStep /\ ~Stop)) => AttemptKnown'
<1> SUFFICES ASSUME Inv, AttemptKnown, ApiStep \/ (UserStep /\ ~Stop) PROVE AttemptKnown'
  OBVIOUS
<1>1. CopiesStay
  BY CopiesByDatabase, CopiesByServe
<1>2. CASE Start
  <2>1. app' = NoMemory
    BY <1>2 DEF Start, Inv, Prepared
  <2> QED
    BY <1>2, <2>1, MemoryKeeps DEF Start, Goto, AttemptKnown, ApplyStates, Converting
<1>3. CASE ~Start
  <2>1. UNCHANGED <<pc, app>> /\ (pc \in {"down", "running"} \/ ApiStep)
    BY <1>3 DEF UserStep, ApiStep, OpenDatabase, BeginWrite, CommitWrite, UpgradeApplication, Stage,
                Cancel, Confirm
  <2>2. pc \notin {"evidence"}
    BY <2>1 DEF ApiStep, OpenDatabase, BeginWrite, CommitWrite, Inv, Prepared
  <2> QED
    BY <1>1, <2>1, <2>2, KnownStays DEF CopiesStay, AttemptStays
<1> QED
  BY <1>2, <1>3
-----------------------------------------------------------------------------
\* Where the data that this start found is, while nothing in it has failed.
Quiet == faults = start.faults
Intact(file) == SameData(file, start.db)
Replaceable == MigrateStates \cup {"spawn", "wait", "evidence", "evidenceSidecars", "copyBack",
                                   "recordRollback", "quarantine"}
DataReturnable ==
  /\ pc \in {"apply"} \cup Unmoved => start.ops = 0 /\ Intact(disk[Db])
  /\ pc = "install" => start.ops = 0 /\ Intact(SafetyCopy)
  /\ pc \notin {"undoDatabase", "undoSidecars"}
  /\ pc \in Replaceable /\ app.restore # NoFile => Intact(SafetyCopy)
  /\ pc \in {"prepare", "snapshot"} /\ app.restore = NoFile => start.ops = 0 /\ Intact(disk[Db])
  /\ pc \in Replaceable /\ app.restore = NoFile /\ (pc \in {"journal", "convert"} \/ start.ops > 0)
       => app.attempt # NoFile /\ SnapshotCopy # NoFile /\ Intact(SnapshotCopy)
  /\ pc = "recordRollback" /\ app.restore = NoFile /\ start.ops > 0 => Intact(disk[Db])
  /\ pc = "original" => disk[Db] = NoFile /\ Intact(SafetyCopy)
  /\ pc \in {"restoreSidecars", "recordRestore"} => Intact(disk[Db])

\* What a step that ends the start of itself leaves behind.
Settles ==
  pc' = "down" => \/ crashes' # crashes \/ pc \in {"down", "running", "exiting"}
                  \/ start.ops = 0 \/ Intact(disk'[Db])
Returns == DataReturnable' /\ Settles

LEMMA SameDataOf ==
  /\ \A f \in File \cup {NoFile} : SameData(f, f)
  /\ \A f \in File, g \in File \cup {NoFile} : SameData(f, g) =>
       /\ SameData(Opened(f), g)
       /\ \A a \in Attempts : SameData([f EXCEPT !.id = a], g)
<1>1. \A f \in File : f # NoFile /\ Opened(f) # NoFile /\ \A a \in Attempts : [f EXCEPT !.id = a] # NoFile
  BY NoFileAssumption, FileUpdates
<1>2. \A f \in File : /\ Opened(f).lin = f.lin /\ Opened(f).rev = f.rev /\ Opened(f).ver = f.ver
                      /\ \A a \in Attempts : LET g == [f EXCEPT !.id = a] IN
                           g.lin = f.lin /\ g.rev = f.rev /\ g.ver = f.ver
  BY DEF File, Opened
<1> QED
  BY <1>1, <1>2 DEF SameData

LEMMA ReturnsAtRest ==
  ASSUME pc' \in {"down", "running", "exiting", "finalize", "unmark"} PROVE DataReturnable'
BY DEF DataReturnable, Unmoved, Replaceable, MigrateStates

\* Steps from one state of the migration or its rollback to another.
LEMMA ReturnsStay ==
  ASSUME Inv, DataReturnable, CopiesStay, pc \in Replaceable,
         pc' \in Replaceable \ {"prepare", "snapshot", "journal", "recordRollback"},
         app'.restore = app.restore, app'.attempt = app.attempt, start'.db = start.db,
         pc' = "convert" \/ start'.ops > 0 => pc \in {"journal", "convert"} \/ start.ops > 0
  PROVE  Returns
<1>1. app.restore # NoFile => app.restore.request \in Requests
  BY MemoryUpdates, PendingFields DEF Inv, TypeOK
<1>2. app.attempt # NoFile => app.attempt \in Attempts
  BY MemoryUpdates DEF Inv, TypeOK
<1>3. app'.restore # NoFile => Intact(SafetyCopy)'
  BY <1>1 DEF DataReturnable, CopiesStay, SafetyCopy, Intact
<1>4. ASSUME app'.restore = NoFile, pc' \in {"journal", "convert"} \/ start'.ops > 0
      PROVE  app'.attempt # NoFile /\ SnapshotCopy' # NoFile /\ Intact(SnapshotCopy)'
  BY <1>2, <1>4 DEF DataReturnable, CopiesStay, SnapshotCopy, Intact
<1>5. pc' \notin {"down", "apply", "install", "undoDatabase", "undoSidecars", "prepare", "snapshot",
                  "recordRollback", "original", "restoreSidecars", "recordRestore"} \cup Unmoved
  BY DEF Replaceable, MigrateStates, Unmoved
<1> QED
  BY <1>3, <1>4, <1>5 DEF Returns, Settles, DataReturnable

\* `start` gives up before the readiness wait.
LEMMA ReturnsByErr ==
  ASSUME Inv, DataReturnable, PrepareErr, pc \in Replaceable, start' = start,
         \A q \in Requests : disk'[Safety(q)] = disk[Safety(q)],
         app.restore = NoFile => start.ops = 0 \/ Intact(disk'[Db])
  PROVE  Returns
<1>1. CASE app.restore = NoFile
  BY <1>1, ReturnsAtRest DEF PrepareErr, ReturnErr, Goto, Returns, Settles
<1>2. CASE app.restore # NoFile
  <2>1. app' = app /\ pc' = "quarantine"
    BY <1>2 DEF PrepareErr, Goto
  <2>2. app.restore.request \in Requests
    BY <1>2, MemoryUpdates, PendingFields DEF Inv, TypeOK
  <2>3. Intact(SafetyCopy)'
    BY <1>2, <2>1, <2>2 DEF DataReturnable, SafetyCopy, Intact
  <2> QED
    BY <1>2, <2>1, <2>3 DEF Returns, Settles, DataReturnable, Unmoved
<1> QED
  BY <1>1, <1>2

LEMMA ReturnsByApply ==
  ASSUME Inv, SafetyUnused, DataReturnable, ApplyStep, faults' = faults PROVE Returns
<1>1. ~Fault
  BY DEF Fault, Inv, TypeOK
<1>2. ASSUME pc' = "down", start.ops = 0 PROVE Returns
  BY <1>2, ReturnsAtRest DEF Returns, Settles
<1>3. ASSUME UNCHANGED <<disk, start>>, pc \in {"apply"} \cup Unmoved, pc' \in Unmoved PROVE Returns
  BY <1>3 DEF Returns, Settles, DataReturnable, Unmoved, Replaceable, MigrateStates, Intact
<1>4. CASE NoPendingRestore
  <2>1. app.restore = NoFile
    BY <1>4, MemoryKeeps DEF NoPendingRestore, Inv, Prepared
  <2>2. start.ops = 0 /\ Intact(disk[Db])
    BY <1>4 DEF NoPendingRestore, DataReturnable
  <2>3. UNCHANGED <<disk, app, start>> /\ pc' = "prepare"
    BY <1>4 DEF NoPendingRestore, files, Goto
  <2> QED
    BY <2>1, <2>2, <2>3 DEF Returns, Settles, DataReturnable, Unmoved, Intact
<1>5. CASE TakeMarker \/ ValidateCandidate \/ ConsumeMarker \/ WriteApplying \/ MoveSidecars
  <2>1. pc \in {"apply"} \cup Unmoved /\ UNCHANGED <<disk, start>> /\ pc' \in Unmoved \cup {"down"}
    BY <1>5 DEF TakeMarker, ValidateCandidate, ConsumeMarker, WriteApplying, MoveSidecars, ReturnErr,
                Goto, Unmoved, files
  <2> QED
    BY <1>2, <1>3, <2>1 DEF DataReturnable
<1>6. CASE MoveDatabase
  <2>1. /\ start.ops = 0 /\ Intact(disk[Db]) /\ SafetyCopy = NoFile
        /\ app.restore.request \in Requests
    BY <1>6, SafetyMoves DEF MoveDatabase, DataReturnable, SafetyUnused, Unmoved
  <2>2. UNCHANGED <<app, start>> /\ pc' = "install"
    BY <1>1, <1>6 DEF MoveDatabase, Goto
  <2>3. disk'[Safety(app.restore.request)] = disk[Db]
    BY <1>1, <1>6, <2>1, PathsOfIds, SafetyIsApart
       DEF MoveDatabase, Rename, SafetyCopy, Inv, TypeOK
  <2>4. Intact(SafetyCopy)'
    BY <2>1, <2>2, <2>3 DEF Intact, SafetyCopy
  <2> QED
    BY <2>1, <2>2, <2>4 DEF Returns, Settles, DataReturnable, Unmoved, Replaceable, MigrateStates
<1>7. CASE InstallCandidate
  <2>1. pc' = "prepare" /\ app' = app /\ start'.db = start.db
    BY <1>1, <1>7 DEF InstallCandidate, Goto, Inv, TypeOK
  <2>2. app.restore \in PendingMarker /\ app.restore # NoFile /\ app.restore.request \in Requests
    BY <1>7, PendingFields, NoFileAssumption DEF InstallCandidate, Inv, Prepared, ApplyStates
  <2>3. CopiesStay
    BY <1>7, CopiesByApply DEF InstallCandidate, MoveDatabase, UndoDatabase
  <2>4. Intact(SafetyCopy)'
    BY <1>7, <2>1, <2>2, <2>3 DEF InstallCandidate, DataReturnable, SafetyCopy, Intact, CopiesStay
  <2> QED
    BY <2>1, <2>2, <2>4 DEF Returns, Settles, DataReturnable, Unmoved
<1>8. CASE UndoDatabase \/ UndoSidecars
  BY <1>8 DEF UndoDatabase, UndoSidecars, DataReturnable
<1> QED
  BY <1>4, <1>5, <1>6, <1>7, <1>8 DEF ApplyStep

LEMMA ReturnsByMigrate ==
  ASSUME Inv, AttemptKnown', DataReturnable, MigrateStep, faults' = faults PROVE Returns
<1>1. ~Fault
  BY DEF Fault, Inv, TypeOK
<1>2. pc \in MigrateStates /\ MigrateStates \subseteq Replaceable
  BY DEF MigrateStep, RefuseRolledBack, RecoverInterrupted, FirstRunBootstrap, Preflight, TakeSnapshot,
         RecordAttempt, Convert, CompleteAttempt, WriteMarker, MigrateStates, Replaceable
<1>3. \A q \in Requests : disk'[Safety(q)] = disk[Safety(q)]
  BY SnapshotWritten, CopiesByMigrate DEF CopiesStay
<1>4. CASE PrepareErr
  <2>1. pc \in {"prepare", "snapshot"} /\ start' = start
    BY <1>1, <1>4
       DEF MigrateStep, RefuseRolledBack, RecoverInterrupted, FirstRunBootstrap, Preflight,
           TakeSnapshot, RecordAttempt, Convert, CompleteAttempt, WriteMarker, PrepareErr, ReturnErr, Goto
  <2> QED
    BY <1>2, <1>3, <1>4, <2>1, ReturnsByErr DEF DataReturnable
<1>5. CASE RecoverInterrupted
  <2>1. app'.restore = app.restore /\ UNCHANGED <<disk, start>> /\ pc = "prepare" /\ pc' = "evidence"
    <3>1. marker.attempt \in Attempts
      BY <1>5 DEF RecoverInterrupted, MigrationMarker, Inv, TypeOK
    <3> QED
      BY <1>5, <3>1, MemoryUpdates DEF RecoverInterrupted, files, Goto, Inv, TypeOK
  <2>2. app.restore # NoFile => Intact(SafetyCopy)'
    BY <1>2, <2>1 DEF DataReturnable, SafetyCopy, Intact
  <2>3. app.restore = NoFile => ~(start.ops > 0)
    BY <2>1 DEF DataReturnable
  <2> QED
    BY <2>1, <2>2, <2>3 DEF Returns, Settles, DataReturnable, Unmoved
<1>6. CASE Preflight /\ ~PrepareErr
  <2>1. disk[Db] \in File /\ disk'[Db] = Opened(disk[Db])
    BY <1>6, PathsOfIds DEF Preflight, Update, Inv, TypeOK
  <2>2. UNCHANGED <<app, start>> /\ pc = "prepare" /\ pc' \in {"spawn", "snapshot"} /\ CopiesStay
    BY <1>6, CopiesByDatabase DEF Preflight, Goto
  <2>3. CASE pc' = "spawn"
    BY <1>2, <2>2, <2>3, ReturnsStay DEF Replaceable
  <2>4. CASE pc' = "snapshot"
    <3>1. app.restore # NoFile => Intact(SafetyCopy)'
      <4>1. app.restore # NoFile => app.restore.request \in Requests
        BY MemoryUpdates, PendingFields DEF Inv, TypeOK
      <4> QED
        BY <1>2, <1>3, <2>2, <4>1 DEF DataReturnable, SafetyCopy, Intact
    <3>2. app.restore = NoFile => start.ops = 0 /\ Intact(disk[Db])
      BY <2>2 DEF DataReturnable
    <3>3. start.db \in File \cup {NoFile}
      BY DEF Inv, TypeOK
    <3>4. app.restore = NoFile => start.ops = 0 /\ Intact(disk[Db])'
      BY <2>1, <2>2, <3>2, <3>3, SameDataOf DEF Intact
    <3> QED
      BY <2>2, <2>4, <3>1, <3>4 DEF Returns, Settles, DataReturnable, Unmoved
  <2> QED
    BY <2>2, <2>3, <2>4
<1>7. CASE TakeSnapshot /\ ~PrepareErr
  <2>1. PICK a \in Attempts : /\ disk' = [disk EXCEPT ![Snapshot(a)] = [disk[Db] EXCEPT !.id = a]]
                              /\ app' = [app EXCEPT !.attempt = a] /\ pc' = "journal"
    BY <1>7, SnapshotWritten
  <2>2. app'.attempt = a /\ app'.restore = app.restore /\ start' = start /\ pc = "snapshot"
    BY <1>7, <2>1, MemoryUpdates DEF TakeSnapshot, Inv, TypeOK
  <2>3. app.restore # NoFile => Intact(SafetyCopy)'
    <3>1. app.restore # NoFile => app.restore.request \in Requests
      BY MemoryUpdates, PendingFields DEF Inv, TypeOK
    <3> QED
      BY <1>2, <1>3, <2>2, <3>1 DEF DataReturnable, SafetyCopy, Intact
  <2>4. SnapshotCopy' = [disk[Db] EXCEPT !.id = a]
    BY <2>1, <2>2, SnapshotIsApart DEF SnapshotCopy, Inv, TypeOK
  <2>5. a # NoFile /\ SnapshotCopy' # NoFile
    BY <2>1, <2>2, IdsAssumption DEF AttemptKnown, Converting
  <2>6. app.restore = NoFile => Intact(SnapshotCopy)'
    <3>1. disk[Db] \in File /\ start.db \in File \cup {NoFile}
      BY <2>2 DEF Inv, Prepared, TypeOK
    <3>2. app.restore = NoFile => SameData(disk[Db], start.db)
      BY <2>2 DEF DataReturnable, Intact
    <3> QED
      BY <2>1, <2>2, <2>4, <3>1, <3>2, SameDataOf DEF Intact
  <2> QED
    BY <2>1, <2>2, <2>3, <2>5, <2>6 DEF Returns, Settles, DataReturnable, Unmoved
<1>8. CASE (FirstRunBootstrap \/ RecordAttempt \/ Convert \/ CompleteAttempt \/ WriteMarker) /\ ~PrepareErr
  <2>1. CopiesStay
    BY <1>8, CopiesByMigrate
       DEF FirstRunBootstrap, RecordAttempt, Convert, CompleteAttempt, WriteMarker, TakeSnapshot, MigrateStep
  <2>2. app' = app /\ start'.db = start.db /\ pc' \in {"spawn", "convert", "complete", "marker", "evidence"}
    BY <1>1, <1>8 DEF FirstRunBootstrap, RecordAttempt, Convert, CompleteAttempt, WriteMarker, Goto, Inv, TypeOK
  <2>3. pc' = "convert" \/ start'.ops > 0 => pc \in {"journal", "convert"} \/ start.ops > 0
    BY <1>1, <1>8 DEF FirstRunBootstrap, RecordAttempt, Convert, CompleteAttempt, WriteMarker, Goto, Inv, TypeOK
  <2> QED
    BY <1>2, <2>1, <2>2, <2>3, ReturnsStay DEF Replaceable, MigrateStates
<1>9. CASE RefuseRolledBack
  BY <1>4, <1>9 DEF RefuseRolledBack
<1> QED
  BY <1>4, <1>5, <1>6, <1>7, <1>8, <1>9 DEF MigrateStep

LEMMA ReturnsByServe ==
  ASSUME Inv, DataReturnable, ServeStep \/ ApiStep \/ Stop \/ Crash, faults' = faults PROVE Returns
<1>1. ~Fault
  BY DEF Fault, Inv, TypeOK
<1>2. CopiesStay
  BY CopiesByServe, CopiesByDatabase DEF UserStep
<1>3. CASE SpawnApi \/ (ReadinessTimeout /\ ~ReturnErr) \/ (ApiStep /\ pc = "wait")
  <2>1. pc \in {"spawn", "wait"} /\ pc' \in {"wait", "evidence", "quarantine"} /\ start' = start
    BY <1>1, <1>3 DEF SpawnApi, ReadinessTimeout, ApiStep, OpenDatabase, BeginWrite, CommitWrite, Goto
  <2>2. app'.restore = app.restore /\ app'.attempt = app.attempt
    BY <1>1, <1>3, MemoryUpdates
       DEF SpawnApi, ReadinessTimeout, ApiStep, OpenDatabase, BeginWrite, CommitWrite, Inv, TypeOK
  <2> QED
    BY <1>2, <2>1, <2>2, ReturnsStay DEF Replaceable
<1>4. CASE ReadinessTimeout /\ ReturnErr
  <2>1. pc = "wait" /\ pc' = "down"
    BY <1>4 DEF ReadinessTimeout, ReturnErr, Goto
  <2>2. app.restore = NoFile /\ app.attempt = NoFile
    BY <1>4, <2>1 DEF ReadinessTimeout, Goto
  <2>3. start.ops = 0
    BY <2>1, <2>2 DEF DataReturnable, Replaceable, Inv, TypeOK
  <2> QED
    BY <2>1, <2>3, ReturnsAtRest DEF Returns, Settles
<1>5. CASE ApiReady \/ FinalizeRestore \/ RemoveMarker \/ Stop \/ Crash \/ (ApiStep /\ pc # "wait")
  <2>1. pc' \in {"down", "running", "exiting", "finalize", "unmark"}
    BY <1>5 DEF ApiReady, FinalizeRestore, RemoveMarker, Stop, Crash, ApiStep, OpenDatabase, BeginWrite,
                CommitWrite, ReturnErr, Goto, Inv, Prepared
  <2>2. pc' = "down" => pc \in {"running", "exiting"} \/ crashes' # crashes
    BY <1>5 DEF ApiReady, FinalizeRestore, RemoveMarker, Stop, Crash, ApiStep, OpenDatabase, BeginWrite,
                CommitWrite, ReturnErr, Goto, Inv, Prepared, TypeOK
  <2> QED
    BY <2>1, <2>2, ReturnsAtRest DEF Returns, Settles
<1> QED
  BY <1>3, <1>4, <1>5 DEF ServeStep

LEMMA ReturnsByRollback ==
  ASSUME Inv, AttemptKnown, DataReturnable, RollbackStep, faults' = faults PROVE Returns
<1>1. ~Fault
  BY DEF Fault, Inv, TypeOK
<1>2. start' = start /\ start.ops \in Nat
  BY DEF RollbackStep, PreserveEvidence, PreserveEvidenceSidecars, CopySnapshotBack, RecordRollback,
         QuarantineRestored, ReturnOriginal, ReturnSidecars, RecordRestoreRollback, Inv, TypeOK
<1>3. ~ReturnOriginal => CopiesStay
  BY CopiesByRollback
<1>4. app.restore # NoFile => app.restore.request \in Requests
  BY MemoryUpdates, PendingFields DEF Inv, TypeOK
<1>5. CASE PreserveEvidence
  <2>1. pc = "evidence" /\ app.attempt # NoFile
    BY <1>5, IdsAssumption DEF PreserveEvidence, Inv, Prepared
  <2>2. CASE RollbackErr /\ disk' = disk /\ SnapshotCopy = NoFile
    <3>1. PrepareErr
      BY <2>1, <2>2 DEF AttemptKnown, RollbackErr
    <3>2. app.restore = NoFile => start.ops = 0
      BY <1>2, <2>1, <2>2 DEF DataReturnable, Replaceable
    <3> QED
      BY <1>2, <2>1, <2>2, <3>1, <3>2, ReturnsByErr DEF Replaceable
  <2>3. CASE pc' = "evidenceSidecars" /\ app' = app
    BY <1>2, <1>3, <1>5, <2>1, <2>3, ReturnsStay DEF ReturnOriginal, Replaceable
  <2> QED
    BY <1>1, <1>5, <2>2, <2>3 DEF PreserveEvidence, SnapshotCopy, Goto
<1>6. CASE PreserveEvidenceSidecars
  <2>1. pc = "evidenceSidecars" /\ pc' = "copyBack" /\ app' = app
    BY <1>1, <1>6 DEF PreserveEvidenceSidecars, Goto
  <2> QED
    BY <1>2, <1>3, <2>1, ReturnsStay DEF ReturnOriginal, Replaceable
<1>7. CASE CopySnapshotBack
  <2>1. /\ pc = "copyBack" /\ pc' = "recordRollback" /\ app' = app
        /\ disk'[Db] = SnapshotCopy /\ CopiesStay
    BY <1>1, <1>3, <1>7, PathsOfIds
       DEF CopySnapshotBack, Update, Goto, ReturnOriginal, SnapshotCopy, Inv, TypeOK
  <2>2. app.attempt \in Attempts
    BY <2>1 DEF Inv, Prepared
  <2>3. app.restore # NoFile => Intact(SafetyCopy)'
    BY <1>2, <1>4, <2>1 DEF DataReturnable, Replaceable, SafetyCopy, Intact, CopiesStay
  <2>4. ASSUME app.restore = NoFile, start.ops > 0
        PROVE  app.attempt # NoFile /\ SnapshotCopy # NoFile /\ Intact(SnapshotCopy)
    BY <2>1, <2>4 DEF DataReturnable, Replaceable
  <2>5. SnapshotCopy' = SnapshotCopy
    BY <2>1, <2>2 DEF SnapshotCopy, CopiesStay
  <2> QED
    BY <1>2, <2>1, <2>3, <2>4, <2>5 DEF Returns, Settles, DataReturnable, Unmoved, Intact
<1>8. CASE RecordRollback
  <2>1. pc = "recordRollback" /\ PrepareErr /\ disk' = disk
    BY <1>1, <1>8 DEF RecordRollback, files
  <2>2. app.restore = NoFile => start.ops = 0 \/ Intact(disk'[Db])
    BY <1>2, <2>1 DEF DataReturnable
  <2> QED
    BY <1>2, <2>1, <2>2, ReturnsByErr DEF Replaceable
<1>9. CASE QuarantineRestored
  <2>1. pc = "quarantine" /\ pc' = "original" /\ app' = app
    BY <1>1, <1>9 DEF QuarantineRestored, Goto
  <2>2. app.restore # NoFile /\ app.restore.request \in Requests
    BY <1>4, <2>1, NoFileAssumption DEF Inv, Prepared
  <2>3. disk'[Db] = NoFile
    BY <1>1, <1>9, <2>2, PathsOfIds, DistinctPaths DEF QuarantineRestored, Rename, Inv, TypeOK
  <2>4. Intact(SafetyCopy)'
    BY <1>2, <1>3, <2>1, <2>2 DEF DataReturnable, Replaceable, SafetyCopy, Intact, CopiesStay, ReturnOriginal
  <2> QED
    BY <2>1, <2>3, <2>4 DEF Returns, Settles, DataReturnable, Unmoved, Replaceable, MigrateStates
<1>10. CASE ReturnOriginal
  <2>1. pc = "original" /\ pc' = "restoreSidecars"
    BY <1>1, <1>10 DEF ReturnOriginal, Goto
  <2>2. disk[Db] = NoFile /\ Intact(SafetyCopy)
    BY <2>1 DEF DataReturnable
  <2>3. disk'[Db] = SafetyCopy
    BY <1>1, <1>10, <2>2, SafetyMoves, PathsOfIds, DistinctPaths
       DEF ReturnOriginal, Rename, SafetyCopy, Inv, TypeOK
  <2> QED
    BY <1>2, <2>1, <2>2, <2>3 DEF Returns, Settles, DataReturnable, Unmoved, Replaceable, MigrateStates, Intact
<1>11. CASE ReturnSidecars
  <2>1. pc = "restoreSidecars" /\ pc' = "recordRestore" /\ disk' = disk
    BY <1>1, <1>11 DEF ReturnSidecars, Goto
  <2> QED
    BY <1>2, <2>1 DEF Returns, Settles, DataReturnable, Unmoved, Replaceable, MigrateStates, Intact
<1>12. CASE RecordRestoreRollback
  <2>1. pc = "recordRestore" /\ pc' = "down" /\ disk' = disk
    BY <1>12 DEF RecordRestoreRollback, ReturnErr, Goto, files
  <2> QED
    BY <2>1, ReturnsAtRest DEF Returns, Settles, DataReturnable, Intact
<1> QED
  BY <1>5, <1>6, <1>7, <1>8, <1>9, <1>10, <1>11, <1>12 DEF RollbackStep

LEMMA ReturnsByUser ==
  ASSUME Inv, UserStep PROVE Returns
<1>1. CASE Start
  <2>1. pc' = "apply" /\ disk' = disk /\ start'.db = disk[Db] /\ start'.ops = 0
    BY <1>1 DEF Start, files, Goto
  <2>2. disk[Db] \in File \cup {NoFile}
    BY PathsOfIds DEF Inv, TypeOK
  <2>3. Intact(disk[Db])'
    BY <2>1, <2>2, SameDataOf DEF Intact
  <2> QED
    BY <2>1, <2>3 DEF Returns, Settles, DataReturnable, Unmoved, Replaceable, MigrateStates
<1>2. CASE ~Start
  <2>1. pc \in {"down", "running", "exiting"} /\ pc' \in {"down", "running"}
    BY <1>2 DEF UserStep, UpgradeApplication, Stop, Stage, Cancel, Confirm, ReturnErr, Goto
  <2> QED
    BY <2>1, ReturnsAtRest DEF Returns, Settles
<1> QED
  BY <1>1, <1>2
-----------------------------------------------------------------------------
FaultsCounted == start.faults <= faults
ReturnInv ==
  Inv /\ RequestsDrawn /\ SafetyUnused /\ AttemptKnown /\ FaultsCounted /\ (Quiet => DataReturnable)

LEMMA ReturnInit == Init => ReturnInv
<1> SUFFICES ASSUME Init PROVE ReturnInv
  OBVIOUS
<1>1. RequestsDrawn
  BY DEF Init, RequestsDrawn, PendingStates, NoMemory
<1>2. \A q \in Requests : disk[Safety(q)] = NoFile
  BY SafetyPaths, SafetyIsApart DEF Init
<1>3. SafetyUnused /\ AttemptKnown /\ DataReturnable
  BY <1>2 DEF Init, SafetyUnused, Unmoved, AttemptKnown, ApplyStates, MigrateStates, Converting,
              DataReturnable, Replaceable
<1>4. FaultsCounted
  BY DEF Init, FaultsCounted
<1> QED
  BY <1>1, <1>3, <1>4, InvInit DEF ReturnInv

\* Within a start the failing operations are only counted up.
LEMMA FaultsGrow ==
  ASSUME Inv, FaultsCounted, Next
  PROVE  /\ FaultsCounted'
         /\ Start \/ start'.faults = start.faults
         /\ Quiet' => Start \/ (Quiet /\ faults' = faults)
<1>1. faults \in Nat /\ start.faults \in Nat /\ (faults' = faults \/ faults' = faults + 1)
  <2>1. faults \in Nat /\ start.faults \in Nat
    BY BoundsAssumption DEF Inv, TypeOK
  <2>2. faults' = faults \/ faults' = faults + 1
    BY DEF bounds, Fault, Next, ApplyStep, MigrateStep, ServeStep, RollbackStep, ApiStep,
           UserStep, Crash, NoPendingRestore, TakeMarker, ValidateCandidate, ConsumeMarker,
           WriteApplying, MoveSidecars, MoveDatabase, InstallCandidate, UndoDatabase,
           UndoSidecars, RefuseRolledBack, RecoverInterrupted, FirstRunBootstrap, Preflight,
           TakeSnapshot, RecordAttempt, Convert, CompleteAttempt, WriteMarker, SpawnApi, ApiReady,
           FinalizeRestore, RemoveMarker, ReadinessTimeout, PreserveEvidence,
           PreserveEvidenceSidecars, CopySnapshotBack, RecordRollback, QuarantineRestored,
           ReturnOriginal, ReturnSidecars, RecordRestoreRollback, OpenDatabase, BeginWrite,
           CommitWrite, Start, UpgradeApplication, Stop, Stage, Cancel, Confirm
  <2> QED
    BY <2>1, <2>2, SMTT(60)
<1>2. Start \/ start'.faults = start.faults
  <2>1. start' = start \/ start' = [start EXCEPT !.ops = @ + 1] \/ Start
    BY DEF Next, ApplyStep, MigrateStep, ServeStep, RollbackStep, ApiStep, UserStep, Crash,
           NoPendingRestore, TakeMarker, ValidateCandidate, ConsumeMarker, WriteApplying,
           MoveSidecars, MoveDatabase, InstallCandidate, UndoDatabase, UndoSidecars,
           RefuseRolledBack, RecoverInterrupted, FirstRunBootstrap, Preflight, TakeSnapshot,
           RecordAttempt, Convert, CompleteAttempt, WriteMarker,
           SpawnApi, ApiReady, FinalizeRestore, RemoveMarker, ReadinessTimeout,
           PreserveEvidence, PreserveEvidenceSidecars, CopySnapshotBack, RecordRollback,
           QuarantineRestored, ReturnOriginal, ReturnSidecars, RecordRestoreRollback,
           OpenDatabase, BeginWrite, CommitWrite, UpgradeApplication, Stop, Stage, Cancel, Confirm
  <2> QED
    BY <2>1 DEF Inv, TypeOK
<1>3. Start => start'.faults = faults /\ faults' = faults
  BY DEF Start, bounds
<1> QED
  BY <1>1, <1>2, <1>3, SMTT(60) DEF FaultsCounted, Quiet

LEMMA ReturnStep == ReturnInv /\ [Next]_vars => ReturnInv'
<1> SUFFICES ASSUME ReturnInv, [Next]_vars PROVE ReturnInv'
  OBVIOUS
<1> USE DEF ReturnInv
<1>1. CASE UNCHANGED vars
  BY <1>1 DEF vars, files, restoreFiles, bounds, Inv, TypeOK, Prepared, RequestsDrawn, SafetyUnused,
              SafetyCopy, AttemptKnown, SnapshotCopy, FaultsCounted, Quiet, DataReturnable, Intact
<1>2. CASE Next
  <2>1. Inv' /\ RequestsDrawn'
    BY InvStep, RequestSteps
  <2>2. SafetyUnused'
    BY <1>2, UnusedByApply, UnusedByMigrate, UnusedByRest, UnusedByUser DEF Next
  <2>3. AttemptKnown'
    BY <1>2, KnownByApply, KnownByMigrate, KnownByServe, KnownByRollback, KnownByOther DEF Next
  <2>4. ASSUME Quiet' PROVE DataReturnable'
    <3>1. Start \/ (Quiet /\ faults' = faults)
      BY <1>2, <2>4, FaultsGrow
    <3> QED
      BY <1>2, <2>3, <3>1, ReturnsByApply, ReturnsByMigrate, ReturnsByServe, ReturnsByRollback,
         ReturnsByUser DEF Next, Returns, UserStep
  <2> QED
    BY <1>2, <2>1, <2>2, <2>3, <2>4, FaultsGrow
<1> QED
  BY <1>1, <1>2

\* FailedStartReturnsData, for every value of the constants: a start of the shell that
\* replaced or converted the database and ends of itself, without a crash and without a
\* failing file operation, leaves the data it found, whichever rollback it took and
\* whatever crashed, failed or was left behind in the starts before it.
THEOREM FailedStartsReturnTheData == Spec => FailedStartReturnsData
<1>1. ReturnInv /\ [Next]_vars =>
        [pc \notin {"down", "running", "exiting"} /\ pc' = "down" /\ crashes' = crashes
           /\ faults' = start.faults /\ start.ops > 0
         => SameData(disk'[Db], start.db)]_vars
  <2> SUFFICES ASSUME ReturnInv, Next, pc \notin {"down", "running", "exiting"}, pc' = "down",
                      crashes' = crashes, faults' = start.faults, start.ops > 0
               PROVE  SameData(disk'[Db], start.db)
    OBVIOUS
  <2>1. ~Start
    BY DEF Start
  <2>2. Quiet /\ faults' = faults
    <3>1. Quiet'
      BY <2>1, FaultsGrow DEF ReturnInv, Quiet
    <3> QED
      BY <2>1, <3>1, FaultsGrow DEF ReturnInv
  <2>3. AttemptKnown'
    BY ReturnStep DEF ReturnInv
  <2>4. Returns
    BY <2>2, <2>3, ReturnsByApply, ReturnsByMigrate, ReturnsByServe, ReturnsByRollback, ReturnsByUser
       DEF ReturnInv, Next
  <2> QED
    BY <2>4 DEF Returns, Settles, Intact
<1> QED
  BY <1>1, ReturnInit, ReturnStep, PTL DEF Spec, FailedStartReturnsData
=============================================================================
