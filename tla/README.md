# Verification of the Smart Academic Planning and Schedule Optimization System

TLA+ models of the program in `src/`, TLC configurations that check them on
small instances, and proofs that TLAPS checks for every value of the constants.
Every definition is translated from the code; `PROJECT.json` names the lines.
Paths below are short: `main.rs` is `desktop-shell/src-tauri/src/main.rs`, and
`services/`, `api/`, `runtime/`, `security/`, `db/` are under `apps/api/app/`.

1. [The system](#1-the-system) · 2. [Modules](#2-modules-and-how-they-correspond-to-the-code) ·
3. [Runs](#3-runs-and-bounds) · 4. [Divergences](#4-what-the-code-does-and-the-documents-deny) ·
5. [Fairness](#5-fairness) · 6. [Proofs](#6-proofs) ·
7. [Not modelled](#7-what-is-not-modelled) · 8. [Further hazards](#8-further-hazards) · 9. [Plan](#9-plan)

## 1. The system

SAPSOS runs on a student's Windows machine. A Tauri shell starts a FastAPI
process over one SQLite file in the application-data directory and loads the
static web client, which calls the API on the loopback interface. A browser
extension captures registrar pages and posts them to the same API. There is one
student and one database, but the API answers requests in a thread pool, the
shell can be killed at any point, and a cleanup helper may run while both are up.

| component | state it keeps | operations | what is hard | what makes it correct |
|---|---|---|---|---|
| **Desktop start** (`main.rs`) | files of the data directory, markers of a pending restore and of a migration attempt, the API child | start, restore, migrate, wait for readiness, two rollbacks, stop | crash between any two file operations; a failing rename; API killed while it writes; rollback of a restore and of a migration in one start | the student's data is always in some file; a failed start gives back what it found; a request is attempted once; a rolled-back migration stays stopped; only a current schema is served |
| **Data review** (`services/data_review`) | review sessions, one decision per imported row, what was applied | create a session, decide, apply | worker threads that load before they lock; a second session of the same import; an application that fails half way | a row is applied once; rows that conflict do not count; nothing moves a row but an application |
| **Course state** (`services/course_state`) | one snapshot per MyProgress import, a state per row, course attempts, planner readiness | build, add rows, withdraw conflicting attempts, activate | rows in any order and in several applications; attempt numbers after deletions | one active snapshot, never lost; attempts and states linked; readiness follows the exceptions |
| **Academic scenarios** (`services/academic_scenarios`) | a scenario with audits, allocations, a comparison and warnings | evaluate | bounded search, sharing limits over several courses, ties, failure after partial inserts | the stored allocation is lawful, the best one unless the limit is reported, and stored whole |
| **Schedule optimizer** (`services/schedule_optimizer`) | an optimization run with options, conflicts and warnings | create a schedule | bounds on courses, sections and combinations; overlaps of any two sections; two ranking modes | hard constraints hold; FEASIBLE means full; the best options come first unless a limit is reported |
| **Local data removal** (`services/local_data_removal.py`, helper in `run.py`) | plan file, nonce ledger, backup receipts | prepare, status (expires), cancel, execute | two processes write one plan file; deletion dies half way | a plan deletes in its time and behind a backup, and once unless two helpers had validated it together |
| **Runtime manifest, supervision** (`runtime/discovery.py`, `supervisor.py`) | manifest, its lock | publish, withdraw, discover, restart | stale locks taken over, removal by name, a second publication | the manifest names the process that serves |
| **Process ownership** (`main.rs`) | the processes of the machine, the manifest, what the shell trusts | spawn, trust, stop | process ids used again between a comparison and a kill | a stop ends the API of its own start and nothing else |
| **Pairing, request guard** (`security/`) | pairing file, nonce window, failure counts | begin, complete, rotate, revoke, admit a request | one store (and lock) per request; lost answers; a full window | a credential is given for a code of this run and in time; no request is admitted twice inside its window |
| **Section monitoring** (`services/section_monitoring`) | targets, snapshots, alerts | store a snapshot | repeated and late snapshots | a snapshot has exactly the alerts of the changes since the one before |
| **Academic planner** (`services/academic_planner`) | a plan with terms and courses | generate | greedy placement, recursion into prerequisites | no term above the maximum, no course twice; prerequisites in earlier terms, corequisites together |
| **Degree audit** (`services/degree_audit`) | a requirement tree's results, allocation of sources | audit | the order in which requirements claim sources | a source is counted once where overlap is not allowed |
| **Course eligibility** (`services/course_eligibility`) | checks with their evaluations | evaluate a rule tree | results between yes and no; rows that arrive after a check | a verdict is final exactly when no open question can change it; a retake takes nothing away |
| **Reviewed rules** (`services/reviewed_rules`, `api/v1/academic.py`) | rule sets and their lifecycle | stage, review, activate, resolve | activation of two versions side by side, review of an active set | an active set was reviewed; one active set of an identity |
| **Local migrations** (`db/local_migrations.py`) | the journal table | inspect, run | crash between commit and journal | the schema is that of whole upgrades, nothing is applied after a failure |
| **Backup, restore staging** (`services/local_backup.py`) | staged candidates, the pending marker | stage, confirm, cancel | cancel after confirm, two confirmations | the marker names a candidate that is there |
| **Data imports, imported sections** (`services/data_imports`, `services/data_review`) | import runs, rows, sections with meetings | stage, apply section rows | partial and complete rows in any order of application | an imported section meets as the rows applied to it say; official sections stay |
| Diagnostics (`services/diagnostics`) | none | report | none | changes nothing |
| HTTP API, authentication (`api/`, `security/auth.py`) | none | handlers | order of commits, part of the services above | roles and tokens |
| Data model, seeds (`models/`, `schemas/`) | tables | none | constraints the services rely on | taken into the modules that rely on them |
| Extension (`apps/extension`) | captured pages, credential | capture, submit, pair | several imports sent one after the other; an answer that never comes | a submission ends |
| Web client (`apps/web`) | state of one page | calls the API | late answers | the page shows what was selected last |
| Shared contracts (`packages/shared`) | none | types, validators | none | agreement of shapes |
| Windows packaging (`scripts/windows`, installer) | none | build, install | outside the program | outside the program |

How they interact:

- The API **stages** and confirms a restore (a candidate and `pending-restore.json`);
  the shell **applies** it at the next start, migrates the schema, spawns the API,
  waits for readiness and only then removes what it would need for a rollback.
- The extension and the web client create **imports**; a **review session** decides
  its rows; an **application** turns them into course attempts and a **snapshot**.
- **Degree audits** read the attempts of the active snapshot; a **scenario** reads the
  audits of several programs and allocates courses among them; the **planner** reads
  the snapshot's readiness; the **optimizer** reads the plan, the sections and the
  **eligibility** rules, which come from the **reviewed rules**.
- The **shell** finds the API through the **runtime manifest**, and stops it before the
  **removal** helper runs; extension requests pass the **request guard**, which asks the
  **pairing** store.
- Within the API they share nothing but the database: every request has its own
  session, and SQLite has one write lock.

## 2. Modules and how they correspond to the code

| family | modules | abstract specification or reference |
|---|---|---|
| desktop start | `DesktopStartup`, `MCDesktopStartup`, `DesktopStartupProofs` | `RestoreOnce` |
| review and course state | `DataReview`, `MCDataReview`, `DataReviewProofs` | `CourseLedger` |
| searches, sums and folds | `ChoiceTree`, `SearchProofs` | |
| scenarios | `ScenarioRules`, `AcademicScenario`, `MCAcademicScenario` (requests), `AcademicScenarioProofs` | `Lawful` and `Beats` |
| schedules | `ScheduleRules`, `ScheduleOptimizer`, `MCScheduleOptimizer`, `ScheduleOptimizerProofs` | `Legal` and `Outranks` |
| services beside the tables | `LocalDataRemoval`, `RuntimeManifest`, `ExtensionPairing`, `LocalRequest`, `LocalMigrations`, `RestoreStaging`, `ApiOwnership`; composed in `LocalServices`; `MCLocalServices`, `LocalServicesProofs` | `SchemaIsWhole` |
| services that advise | `CourseEligibility`, `DegreeAudit` (both on `GradePolicy`), `AcademicPlanner`, `SectionMonitoring`, `SectionImports`, `ReviewedRules`; composed with the scenarios in `Advising`; `MCAdvising`, `EvaluationProofs`, `AdvisingProofs` | `Answers` of `CourseEligibility` |

**Composition.** The seven services of `LocalServices` keep files of their own, and
none of their models reads a variable of another; the same holds of the services of
`Advising`, whose requests are transactions over rows that the others only read. So
no behaviour of one depends on a step of another. `service` names the one that a
behaviour is about, the others stand still: all behaviours of each are checked, and
their interleavings, which could show nothing new, are not. Where components do
interact they are in one module: the shell with the markers, the schema and the API
child (`DesktopStartup`), the API with the helper and the shell (`LocalDataRemoval`),
processes with the manifest (`RuntimeManifest`, `ApiOwnership`), review with the
course state (`DataReview`), new attempts with checks (`CourseEligibility`), and the
planner calls the definitions of `CourseEligibility` for the verdict of each course.

### DesktopStartup

`disk` maps each path that can hold the database (the database itself, staged
candidates, safety copies, migration snapshots and evidence) to a file: whose
data it holds (`lin`), the stamp of its last edit (`rev`), its schema (`ver`),
its journal's last status (`jr`) and whether its pages are whole (`page`).
`sidecar` is the owner of the SQLite journal beside the active database: a
journal beside the wrong file damages it when SQLite opens it (`Opened`).
`pending`, `marker` and `restoreStatus` are the JSON files of these names.

`pc` is the next effect of `DesktopProcesses::start`, `app` what its locals hold
(lost by a crash), `api` the child. One action is one effect on the directory:
`TakeMarker`, `ValidateCandidate`, `ConsumeMarker`, `WriteApplying`,
`MoveSidecars`, `MoveDatabase`, `InstallCandidate` and the two `Undo` actions are
`apply_pending_restore`; `Preflight` to `WriteMarker` are `prepare_migration` with
`execute_controlled_migration`; `SpawnApi`, `ApiReady`, `FinalizeRestore`,
`RemoveMarker`, `ReadinessTimeout` are the rest of `start`; `PreserveEvidence` to
`RecordRollback` are `rollback_migration`, `QuarantineRestored` to
`RecordRestoreRollback` are `rollback_restore`. `Crash` may fall before any of them. An action
with a fallible file operation has a disjunct guarded by `Fault` that takes the
code's error path, `?` and ignored results included; errors inside the migration
command end as the command reports them (`RecordAttempt` without a journal, `Convert` and
`CompleteAttempt` with a FAILED one). `OpenDatabase`,
`BeginWrite`, `CommitWrite` are the API child at work, so `Stop` can kill it in a
transaction. `Stage`, `Confirm`, `Cancel` and `UpgradeApplication` are what the
user can do between starts or while the window is open. The variable `start`
remembers what the start found and counts what it replaced; no guard reads it.

`RestoreOnce` has one phase per request. `RequestPhase` maps the markers and
locals to it.

### DataReview

A request of the thread pool is three facts of SQLAlchemy and SQLite: it reads
without a lock; its first write takes the only write lock; what it loaded before
is not read again. So `LoadUpdate` and `LoadApply` copy what they read into
`request[r].seen`, `LockApply` takes the lock and keeps the course history in
`undo`, each `Apply...` action handles one row under the lock in import order
(`Turn`), `FinishApply` commits, `Abort` restores `undo`. `CheckCreate` and
`CommitCreate` are the check-then-insert of a session. A decision is one `Entry`
per row; `CommitUpdate` writes only the columns that differ from what was loaded
(`Written`), as the ORM does, so two overlapping updates can mix.

A row's payload has the fields the service branches on. `ApplyConflict`,
`ApplyException`, `ApplyDuplicate`, `ApplyEvidence` and `ApplyHistory` are the
outcomes of `apply_record`, with the deletion of the attempts that a conflict
withdraws; `ApplyTranscript` is the transcript path. `Finalized` is
`finalize_snapshot`: planner readiness and activation.

`CourseLedger` is what the documents promise of a row. `StandingOf` maps the
committed rows to it, `undo` while a writer is at work.

### ChoiceTree, ScenarioRules, AcademicScenario

The allocator of the scenarios (`visit`) and the search of the optimizer
(`backtrack`) are the same recursion: a list of groups, the members of each tried
in order, a leaf when every group has a member. `NextPath` gives the leaf after a
leaf, so a search is a state machine that visits one leaf per step and can be
proved about without recursion.

`ScenarioRules` is pure: the choices of a source (`Choices`: none, one
application, two that may share), the validity of a selection, the objective and
the tie-breaking, the last two as tuples compared by `Earlier`. `AcademicScenario`
is `evaluate`: the session row, the audits, the policies with their warnings,
`VisitLeaf` for each leaf, `StopAtLimit`, the classification and comparison,
commit, and the two failure actions: `RollBack` with `RecordFailure` in a
transaction of its own, and `Crash` anywhere. `session` is the open transaction,
`db` what is committed. `Lawful` states the domain rules in terms of pairs of
applications and does not refer to `Choices` or `IsValidSelection`; the run and the
theorem compare the two.

### ScheduleRules, ScheduleOptimizer

`ScheduleRules` has the validations of a request in the code's order (`Rejection`), the
tests of a section (`Refusal`), the groups (`Menu`, cut at `MaxCourses` and `MaxSections`), a combination's validity
(`IsDraft`, `Clashes`, `Status`) and the ranking key. `ScheduleOptimizer` is
`create_schedule`: `RejectRequest`, or the run's row and `CollectSections` with its warnings and conflicts,
`CompleteCombination` for each leaf up to the limit, `BuildDrafts`, `RankOption`
once per option in standard or high-diversity mode, `PersistRun` with the
placeholder option when there is none and the `RepairSuggestions`, commit and the failure actions as above.
The score of a combination is an input, so the ranking is checked, not the
weights. `Legal` states the hard constraints independently of `Menu`.

### LocalDataRemoval

`plan` is the one plan file (`Torn` while a kill left half of it), `ledger` the
consumed nonces, bounded by `LedgerSize`, `receipts` the validated backups, `root`
the entries that are left. Requests of the API read the plan and write it back
later, without a lock: a status request that saw a stale plan fills the temporary file
that all threads share (`expired`) and moves it over whatever came since
(`WriteExpired`, `ReplaceExpired`). A helper is a process: it validates, looks into the
ledger, merges and writes it, marks, deletes entry by entry, completes or fails, in
steps between which anything else may come. `Stop` starts one and the shell waits for
it (`waiting`), 30 s at most; when the shell is killed meanwhile (`ShellKilled`) the helper
goes on, the next shell starts the API, and its stop starts another helper beside the
first. Windows refuses to replace or remove a file that another process has open;
`Filling` is that refusal. `history` remembers of each nonce when it was backed and
prepared, how often it was executed, and whether one helper validated its plan
while another had and had not marked it (`shared`); no guard reads it.

### RuntimeManifest and ApiOwnership

`RuntimeManifest` is the file's side: `acquire` with the removal of a lock that is
`LockAge` old, publication, the lifespan's second publication, which copies the
manifest that it finds, serving, and the removal by name at the end, beside a
supervisor with restarts. A process here is a name. `raced` records that an owner
was overtaken, which the lock cannot prevent: what follows is not claimed.

`ApiOwnership` is the shell's side, with process ids that are used again.
`process` maps an id to what runs under it, the number of starts serves as its creation time,
`shell` is the memory of the shell, `discovery` the manifest. `Trust` follows the
lineage as `trusted_runtime_from_graph` does; stopping is `Close`, `KillChild`,
`Compare`, `Terminate`, `WaitUntilGone`, `RemoveManifest`, with other processes
ending and starting in between. Ending the id of another process sets `wronged`.
`astray` marks that an id was passed on where the code compares no creation time:
above the candidate, or between the comparison and the end.

### ExtensionPairing and LocalRequest

Every request makes a `PairingStore` of its own, so the lock in it protects nothing
and its limit of attempts is never reached. A request reads the file, fills the
temporary file, whose name all share, and renames it. `LocalRequest` has the
boundary's refusals in their order (`Refusal`), the window of nonces (`Pruned`) and
the failures counted per client. One instance's identity is modelled; preflight
requests are not.

### LocalMigrations and RestoreStaging

`LocalMigrations` is the migration command from inspection to its journal entry, with a
death between any two commits, and the shell's rollback to the snapshot. The
production registry is empty and `LOCAL_SCHEMA_VERSION` is 1, so the registries are
given, as the tests give them. One command runs at a time: the shell starts it under
its `startup.lock`. `RestoreStaging` has staging, confirmation and cancellation with
the file steps between which other requests come, the start that takes the marker,
and its last step, which runs while the API already serves. They refine what
`DesktopStartup` takes as single steps, in the sense that they show what those steps
assume of their files; no refinement mapping is stated.

### CourseEligibility, DegreeAudit, AcademicPlanner

`CourseEligibility` evaluates stored expression trees and reviewed rules as
`create_check` does and stores the result; `apply_course_attempt` adds an attempt
that a review applied, so that a check can be repeated. A rule's tree is the sequence of its expressions
in the order in which the code evaluates them: a child before its parent, the root last. So the recursion of
`_evaluate_expression_tree` is a recursive function on positions. `Answers` is the reference:
the set of truth values that a rule has when every conditional, permission and
manual leaf is replaced by either value. `DegreeAudit` makes the calls of
`evaluate_node` one by one: `todo` is their stack, which at first asks for the roots and then for
every node; `descend` puts the open children of a composite before it, as its evaluator
does, `known_node` is the look into `evaluated`, and `evaluate_node` runs the evaluator of the
type with the allocator's `used` keys. Only composites ask for children. A composite that is its
own ancestor has no result: the code recurses until Python stops it, and no request has such
a tree. `persist_success` and `fail` end the audit. `AcademicPlanner` places one candidate
per step: the terms are tried in order (`TryTerm`), with the missing prerequisites put into
earlier terms (`place_prerequisites`) or the corequisites beside the course
(`WithCorequisites`), and what was placed for a term that then fails stays, as in the code.
The rows are inserted by the commit, so `finish` needs `OncePerTerm`, the unique key of
`academic_plan_courses`; without it `fail` rolls the plan back.

### SectionMonitoring, SectionImports, ReviewedRules

`SectionMonitoring`: a batch of captured sections is one transaction that stores a
snapshot for every content whose hash is new in its section, finds the target and
raises the alerts. Snapshots of one time are ordered by a random id: any order.
`SectionImports`: `Stage` is `create_import` of a schedule with its row states and
counts, `Load` and `Apply` the application of reviewed rows to sections and
meetings. One thread is enough: applications are serialised by the write lock, and a
stale decision arises between `Load` and `Apply` of one thread; the races of
sessions are those of `DataReview`. `wanted` remembers what the applied rows asked for.
`ReviewedRules`: a request reads a rule set, decides, and commits the columns it
changed. `overtaken` marks identities whose last activation committed over one that
it had not seen.

## 3. Runs and bounds

A `.cfg` gives constants their values; `MC` modules hold the definitions it needs.

| run | question | bounds, and why they are enough |
|---|---|---|
| `startup` | Is data ever lost, a wrong database served, a request attempted twice? Does every start end? | one restore session and two requests (confirmed, cancelled, confirmed again), two migration attempts, an upgrade from schema 1 to 2, one edit after the first, two crashes, one failing file operation anywhere. A second crash hits the recovery from the first; with a second attempt a backup of schema 1 can be restored, and migrated, after the database was. It starts with an existing database; a first install is reached by a crash that leaves none |
| `review_concurrent` | Is a row applied once, by two threads and two sessions of one import? | two threads, two rows of one code that conflict until one is edited, two decisions. The load and lock of one thread fall anywhere in the other. The threads are symmetric |
| `review_turns` | Do rows count correctly in whatever order they are applied, and do several imports of one course stay consistent? | one thread, four decisions, a seeded attempt; either two MyProgress pages and a transcript in turn, five rows, or one page whose three rows are edited into each outcome of `apply_record` (`InTurns`: a state where both uses mix is not continued) |
| `schedule` | Are the options legal, the best ones, and complete? | about 500 requests, some refused by each validation, over four courses of which three are kept and eight sections of which one group holds three and keeps two; overlaps, back-to-back meetings, unknown times; limits 1, 3, 7, 8, 9 around the eight combinations; lists of 1, 3, 9 |
| `local_services` | What of the seven services beside the tables survives threads, kills and restarts? | below |
| `pairing_reuse` | Is a pairing code used once, as the documents say? | section 4; two threads and one code are enough |
| `advising` | Are the answers of the seven advising services lawful, complete, and stored as computed? | below |

`local_services`, by service (2.3 million states together, the threads and the helpers being symmetric):

| service | property | bounds |
|---|---|---|
| removal | `ExecutedOnceAndBackedUp` | two threads, two helpers, of which any two are at work at one time (`TwoAtOnce`): two helpers, two requests, or one of each. Two nonces, a ledger of one (so a nonce drops out of it), times 0 to 2 with a life of 1: a plan can expire, be replaced, and its successor expire. One entry to delete, so PARTIALLY_COMPLETED, which nothing tells apart from FAILED, is not reached; one receipt at a time. States in which every nonce was given out and no plan can be executed any more are not continued (`StillExecutable`) |
| runtime | `ServedIsPublished` | three processes, one lock age, one restart: a slow owner, one that breaks its lock, one that comes after. States after `raced` are checked and not continued (`NotOvertaken`): it is never taken back |
| pairing | `PairedInTime` | two threads, two codes, two runs of the app, times 0 to 1 with a life of 1 |
| boundary | `ReplayWindow` | twelve requests that differ in one field each, skew 1, nonce life 2, a window of one nonce, three accepted requests; hosts, ports, nonces and timestamps that are malformed |
| migration | `UpgradesAreWhole` | four registries (a chain, a fork, a gap, one out of order), targets 1 to 3, three attempts |
| staging | `PendingCanBeApplied` | two threads, two sessions |
| ownership | `StopIsExact` | three ids, four process starts, two starts of the shell. Nothing is followed after the last stop (`Over`) |

`advising`, by service (317,000 states together):

| service | property | bounds |
|---|---|---|
| scenario | `NothingCountedTwice`, `ResultIsBest`, `CreditsCountedOnce`, `SnapshotWhole`, `NothingUnsaid` | a major, a minor and a certificate; three courses, eight applications, of which course 1 can be shared with either secondary program; every rule field on both sides of its boundary; limits below, at and above the number of leaves (0, 1, 7, 8, 20, 4096) |
| eligibility | `VerdictIsSound`, `EligibleStays` | eight sets of rules that use every operator and leaf, three histories whose rows arrive in any order beside the checks, with and without an imported snapshot, both modes, three reviewed rule sets |
| audit | `ExclusiveUseKept` | three programs that use every node type, three histories, transfers, waivers, a substitution and an equivalency |
| plan | `PlanKeepsLimits` | ten courses with prerequisites, corequisites, one of them named twice by a reviewed rule, a repeat restriction and a restriction, three sets of open requirements, limits around one and two courses, zero to three terms |
| monitor | `AlertsTellTheChange` | two sections, eight captures, batches of two, four snapshots |
| rules | `ActiveIsReviewed`, `OneActiveUnlessOvertaken` | two requests, two rule sets of one identity |
| imports | `SectionsFollowTheirRows` | five uploads that repeat sections as partial and complete, an official section, one imported before, another institution's term, four steps |

`RowsAccepted` holds of all of them: what a service stores satisfies the constraints of
its tables. It is the type invariant of the run, and more: a row that a constraint
refuses loses the whole transaction, as the plan with a repeated course shows. The mutant shows it: the obvious repair of the
section that goes from open to closed and back (storing a snapshot when it differs
from the last one) breaks the unique hash of `section_monitor_snapshots`.

What each property says stands above its definition. The mutants in `PROJECT.json` are edits of
the modelled code (a dropped guard, a missing reset, a swapped order) that
falsify each property under the bounds of its run: they show that the bounds let
the interesting case happen.

Deadlock is checked in all runs: the desktop can always be started again, a thread
can always take a request, and what is finished stutters in `Done` or `Ended`, where it is
named.

## 4. What the code does and the documents deny

Six runs expect a violation:

- `silent_rebuild`: a crash between moving the database to `restore-safety`
  (`main.rs:1572`) and installing the candidate (1579) makes the next start a first
  run with an empty database. The student's data is still in the safety copy
  (`PreStartDataSurvives` holds), but docs/LOCAL_DESKTOP_EXECUTION_PLAN.md:1180-1182
  says the shell does not "silently rebuild or delete a user database".
- `stale_sidecar`: `rollback_restore` (1624) puts the original database back and
  leaves the journal of the killed candidate beside it; SQLite will replay it into
  a file it does not belong to. The same document, 1071-1072: "restores the original
  database/sidecars after failed startup".
- `planner_not_blocked`: a snapshot is finalized only when it is new
  (`data_review/engine.py:331`), so exceptions from a later application leave the
  planner ready. docs/DOMAIN_RULES.md:477: "A bounded/truncated source or critical
  exception blocks the long-term planner."
- `plan_prerequisite_order`: a prerequisite that is planned already is taken as fine
  wherever it stands (`academic_planner/engine.py:818`), so the course can come before
  it. docs/DOMAIN_RULES.md:174: "Place missing prerequisite courses in an earlier term".
- `audit_double_count`: `ChooseNEvaluator` takes candidates apart by course
  (`degree_audit/engine.py:308`), so one attempt counts as A and, through an
  equivalency, as B. docs/DOMAIN_RULES.md:56: "Do not count the same course twice for
  distinct-course requirements."

- `pairing_reuse`: `complete` reads the pairing file, issues a credential and writes the
  file without the code (`security/pairing.py:119`), in a store and a lock of its own per
  request, so two exchanges of one code both succeed. docs/LOCAL_EXTENSION_PAIRING.md:13-14:
  the code is consumed before a credential is issued. The second credential replaces
  the first, so one is left that works; `PairedInTime` says that both came in time.

Further disagreements found while modelling; the models contain the behaviour, no
run states the document's side:

| code | document |
|---|---|
| the safety snapshot is checked for the version the app supports, so every real upgrade is refused by an error nothing catches (`services/local_backup.py:151`) | docs/LOCAL_DESKTOP_EXECUTION_PLAN.md:1155 |
| a migration rollback that is run again overwrites `failed-database.sqlite` (`main.rs:909`) | docs/DECISIONS.md:593-594 |
| a restore is followed by a migration in the same start (`main.rs:1157`) | docs/LOCAL_DESKTOP_EXECUTION_PLAN.md:1170-1172 |
| the session of a confirmed restore stays and can be confirmed again | docs/LOCAL_DESKTOP_EXECUTION_PLAN.md:1062 |
| a stop without a trusted runtime ends only the child it spawned (`main.rs:1704`) | docs/CONTROLLED_STUDENT_BETA_CHECKLIST.md:82 |
| a snapshot without an attempt at its first application is never activated (`data_review/engine.py:331`) | docs/DECISIONS.md:484-485 |
| a reused snapshot is rewritten (`course_state/engine.py:131`) | docs/DECISIONS.md:483-484 |
| a MyProgress row repeats an attempt a transcript already brought (`course_state/engine.py:304`; only `data_review/engine.py:562` compares) | docs/DOMAIN_RULES.md:334 |
| two sessions of one import can be active (`data_review/engine.py:103`, no index) | docs/DATA_MODEL.md:228 |
| a ninth section of a course is dropped without a warning (`schedule_optimizer/engine.py:1094`) | docs/DECISIONS.md:275 |
| a required section is silently missing from an option called FEASIBLE when its course is no candidate, when the data mode of the request does not admit it, or when another section of its course is required too (`schedule_optimizer/engine.py:1052`). `HardConstraintsHold` asks for the others (`Binding`) | docs/DOMAIN_RULES.md:222 |
| synchronous online meetings are never in conflict (`schedule_optimizer/engine.py:1586`); `HardConstraintsHold` compares meetings at a place (`Fixed`) | docs/DOMAIN_RULES.md:218-219 |
| two helpers can execute one removal plan: both pass the receipt check before either writes (`services/local_data_removal.py:463-475`), after the shell was killed while it waited (`main.rs:1386-1411`). `ExecutedOnceAndBackedUp` says of a plan executed twice that it happened so (`shared`) | docs/DECISIONS.md:738, 750-751, 755-756 |
| a section row that repeats one already applied is applied again, which changes nothing, instead of being recognised (`data_review/engine.py:791`) | docs/DOMAIN_RULES.md:334, 347 |
| a credit pool counts credits it could not reserve (`degree_audit/engine.py:917`) | docs/DOMAIN_RULES.md:38 |
| a repeat restriction says that its own course has not been taken; the leaf under the NOT is reported as a missing course, so the planner puts the course in as its own prerequisite and then a second time (`academic_planner/engine.py:697`). `PlanKeepsLimits` leaves such courses out (`NamesItself`) | docs/DOMAIN_RULES.md:174 |
| reviewed rules are evaluated without the mode and without the status of an imported attempt (`reviewed_rules/eligibility.py:193-208`) | docs/DOMAIN_RULES.md:135, 471-472 |

Worth knowing, and denied by no document:

- Scenarios and schedules: the COMPLETED status is unreachable, because a warning is
  always added; `minimum_unique_courses` is read by nothing; the allocator accepts
  three applications of one course that are shared pairwise, but never generates them;
  the schedule's limit warning is also given when the search ended exactly at its limit
  (1440); an exception between the creation of a schedule run and its `try` block
  leaves no FAILED row; a
  scenario's completion percentage is not cut at 100 and the table refuses more
  (`academic_scenarios/engine.py:603-608`, `CompletionFits`), so a student who has completed more
  credits than the programs require gets a FAILED scenario.
- Eligibility: the credits of a course are those of its latest completed attempt, so a retake that
  brings fewer of them can take away what a minimum of credits had allowed (`EligibleStays` leaves such
  courses out, `SameCredits`); a retake in progress counts again as potential; a reason "completed course missing" is
  given for leaves under a satisfied OR or a NOT; a program restriction is satisfied
  only by a rule of type REGISTRATION_RESTRICTION.
- Audit: `ANY_OF` evaluates, and reserves for, all its branches; an attempt in progress
  of an earlier option hides a completed one of a later option; of two completed
  attempts the first by id is taken, not the better; a substitution has a key of its
  own, so it is no double use of the attempt behind it; whether a source is marked as
  shared depends on which requirement came first.
- Planner: all options of a choice are candidates; a prerequisite placed for a course
  that then does not fit stays; a prerequisite in progress by import is planned
  again; a course with a missing prerequisite is placed without its corequisites; a corequisite planned in
  another term is not moved; a reviewed rule may name one corequisite twice, the second row
  breaks the unique key of the plan and the whole plan is FAILED (`PairedTwice`).
- Sections: an older import applied later wins; a room is not part of a meeting's
  identity; the decision applied is the one on the course the import had selected.
- Shell: `finalize_restore` that fails after readiness returns an error with the API
  running; it removes `pending-restore.json` by name while the API serves.
- Migrations: an attempt left IN_PROGRESS ends the next command in its inspection
  (`runtime/migration_contract.py:130`), so the code that would mark it INTERRUPTED is
  not reached.

## 5. Fairness

Only `EveryStartSettles` needs it; the run `startup` uses `FairSpec`. `StartFairness` is weak
fairness of the shell's own steps, and of `Stop` once the application exits. The code
justifies it: `start` is straight-line code on one thread, `wait_for_api` has a
deadline, and after an error the application exits. One assumption is not the
code's: the two runs of the migration command end (their `output()` has no time
limit). The API child and the user are under no fairness: the API may hang forever,
which is the case of interest.

All other properties are safety properties and hold of `Spec` without fairness; the
violations of section 4 are invariants and rest on none. No liveness is stated of the
local services: a removal plan that was IN_PROGRESS when its helper was killed stays
so, a lock that is left blocks publication until it is old, and a pairing waits for
the user; the code promises no progress there that a scheduler's fairness would give.

## 6. Proofs

TLAPS proves, for every value of the constants under the assumptions named below:

| module | theorem (property) | what it rests on |
|---|---|---|
| `DesktopStartupProofs` | `TypeCorrect`; `RolledBackStaysStopped` (`RollbackIsFinal`); `NoStartLosesData` (`PreStartDataSurvives`); `WindowShowsCurrentSchema` (`ServedSchemaIsCurrent`); `FailedStartsReturnTheData` (`FailedStartReturnsData`); `RequestsAreAttemptedOnce` (`RestoreAttemptedOnce`) | `Holder`, `SchemaServed`, `DataReturnable`, `RequestPhase` |
| `DataReviewProofs` | `TypeCorrect`; `RowsAppliedOnce` (`AppliedOnce`); `ConflictsAlwaysExcluded` (`ConflictsExcluded`); `HistoryAlwaysTraceable` (`HistoryTraceable`); `NumbersAlwaysUnique` (`AttemptNumbersUnique`); `ImplementsLedger` (`LedgerSpec`); `OneActive` (`OneActiveSnapshot`); `ActiveKept` (`ActiveNeverLost`) | `Consistent` |
| `SearchProofs` | lemmas of both searches, of sums, folds and sorted lists, and of recursion over a well-founded order | smallest counterexamples |
| `AcademicScenarioProofs` | `CountingSafe` (`NothingCountedTwice`); `ScenarioOptimal` (`ResultIsBest`); `GapsAreSaid` (`NothingUnsaid`); `ComparisonAddsUp` (`CreditsCountedOnce`); `ScenarioStoredWhole` (`SnapshotWhole`); `ScenarioTyped` (`TypeOK` of scenarios) | `Visited`, `Seen`, `Stored` |
| `ScheduleOptimizerProofs` | `TypesHold` (`TypeOK`); `OptionsLegal` (`HardConstraintsHold`); `FeasibleOptionsFull` (`FeasibleIsFull`); `ShortListsComplete` (`ShortListIsAll`); `BestOptionsFirst` (`BestComeFirst`); `RunsStoredWhole` (`RunStoredWhole`) | `WorkInv` |
| `LocalServicesProofs` | `RemovedOnceAndBackedUp` (`ExecutedOnceAndBackedUp`); `ServesWhatIsPublished` (`ServedIsPublished`); `CodesHonouredInTime` (`PairedInTime`); `ReplaysStayOut` (`ReplayWindow`); `UpgradesStayWhole` (`UpgradesAreWhole`); `PendingIsApplicable` (`PendingCanBeApplied`); `StopsStayExact` (`StopIsExact`) | one invariant per service |
| `EvaluationProofs` | `VerdictsAreSound` (`VerdictIsSound`); `EligibilityStays` (`EligibleStays`); `ExclusiveUseIsKept` (`ExclusiveUseKept`) | `AsRead`, `CheckInv`, `AuditInv` |
| `AdvisingProofs` | `ActiveWasReviewed` (`ActiveIsReviewed`); `ConflictMeansOvertaken` (`OneActiveUnlessOvertaken`); `ChangesAreTold` (`AlertsTellTheChange`); `RowsAreFollowed` (`SectionsFollowTheirRows`); `PlansKeepLimits` (`PlanKeepsLimits`); `RowsAreAccepted` (`RowsAccepted`) | one invariant per service |

The theorems of the local services and of advising are about `LocalSpec` and `AdvisingSpec`,
the specifications the runs check: `EachServiceSteps` says that a step of the
composition is a step of one service and leaves the others alone.

**Desktop start: the data.** `PreStartDataSurvives` is not inductive: it does not say where
the data is, so nothing stops a step from overwriting its only copy. `Holder`
names, for each state of the shell and from what it holds in memory, the file with
the data: the active database until `MoveDatabase`, then the safety copy of the
restore, or the evidence of a migration rollback. `DataHeld` says it is there; once
the shell is down, and its locals gone, any file but a staged candidate will do.
`Stopped` says that beside a ROLLED_BACK marker the shell is down, on its way to
refuse, or returning a restore. With `TypeOK`, `Prepared` and a bound on the stamps these
are the invariant; each action is one step of the proof.

`FailedStartReturnsData` says more, of fewer starts: those in which nothing failed but the
candidate or the migration. `DataReturnable` names the file that has exactly the data
found, for as long as the start has met no fault: the safety copy once the database was
moved, the snapshot of the attempt once it was converted. It needs that no later step
writes these copies (`SafetyStays`, `AttemptStays`), which holds because a request and an
attempt have names of their own, and that an earlier start's faults are counted apart.

**Desktop start: the schema and the requests.** `SchemaServed` follows the database from
the end of the migration command to readiness: from `spawn` on its last attempt is over,
and after readiness its schema is the one of the build. `RequestsAreAttemptedOnce` is a
refinement: every action is one of four kinds of step. It leaves the phase of every request as
it is, ends an attempt, takes a marker, or installs a candidate; each kind
is a step of `RestoreOnce` or a stutter. `RequestsDrawn` carries it: a
request that a marker or the shell's memory names has been drawn, so it cannot be
drawn again.

**Data review.** `Consistent` relates states, attempts and applied transcript rows: states and
attempts are `Linked` both ways, an attempt of a row is `Held` by it, rows of one
code are `Excluded` when they differ, each row counts `Once`, attempts are
`Numbered`. It is stated of the rows in the open transaction and of `undo`, because
`Abort` turns one into the other. That the number after the greatest is new needs
a greatest element of a finite set. `ImplementsLedger` maps a commit to one step in
which any number of rows move, and every other step to a stutter.

**Sums and folds.** The library's induction theorems take an operator as a parameter, so
`SearchProofs` argues by a smallest counterexample instead: among the subsets of a finite
set that fail one has no failing proper subset (`SmallestSet`). With it a fold exists as a
function over all subsets (`FoldExists`), what every step of it keeps holds of
its result (`FoldStays`, `FoldStaysIn`), and a sum does not depend on the order in which it is
taken (`SumInsert`), adds over disjoint sets (`SumUnion`) and follows a renaming (`SumImage`,
`SumShift`).

**The two searches.** Both have the same invariant: the best selection (the found
combinations) covers every leaf that is not later than the current path. `Visited`
follows because `NextPath` skips nothing, and at the end there is no leaf beyond.
The rest is the shape of leaves: for scenarios, that every lawful selection
is the selection of some leaf (`LeafExists`) and that what `IsValidSelection`
accepts is lawful (`AcceptedIsLawful`); for schedules, that every schedule that
could be shown is a combination of a leaf (`ShowableIsFound`), that a combination
without the tests' refusals is legal, and that a schedule has as many sections as
courses exactly when it is full (`FullIsComplete`, `CompleteIsFull`).

Scenarios further: leaves are counted by the set of those before the path (`Seen`), so the count
reaches the limit exactly when a leaf is left. The comparison's shared and unique
credits, with those of the major's rows, are sums over three disjoint parts of the earned
courses, and its manual decisions are those of the audits and of the warnings stored with it. `Stored` says of every phase which rows the
open transaction holds, and of the database that it holds a whole snapshot, a
FAILED row or none.

Schedules further: `RankInv` says that what stands behind an option, listed or not, does
not precede it; the first option therefore precedes all, in both modes. `RowInv` is the
counterpart of `Stored`; options are distinct because an option leaves `remaining` when it is listed.

**Removal.** The requests share one file without a lock, so the proof follows the nonces.
A nonce is filled into the file by one request, before any helper has it
(`FilledOnce`); what is READY, about to be filled or validated was prepared, behind a
backup and with the time its preparation gave it (`FromItsRequest`); what has begun has begun
once, or is shared, and is READY nowhere (`BegunOnce`). A plan that two helpers hold is one
that the second validated while the first had it (`SharedIsKnown`). The ledger may forget a nonce.

**Runtime manifest.** While nobody was overtaken, who publishes holds the lock and finds no
other process that runs (`Publishes`), and a manifest stays its process's for as long
as that needs it (`Published`). `raced` marks every step that breaks this, and the
theorem claims nothing after it.

**Pairing.** Any request may write back a file that is older than the current one, so
nothing can be said of the order of files. `Kept` says of every file, wherever a
request, the store or the temporary name holds it, that its session is the one made for
its code and that the file is of that session's run. A restart changes the instance:
the requests are gone, and reading drops the session. What is written is then
right however old it is.

**Request guard.** `TableIsRight`: a request that was let through is in the table, or its time
is over, or at least `MaxNonces` others followed it. Its time is over only when the request's
own timestamp is outside the skew, because a nonce lives at least twice as long.

**Migrations.** `WholeUpgrades` speaks of a database and of the snapshots taken before each
attempt: every row of the journal has its snapshot, which is a prefix of the
schema now. `CommandRelies` is what the command's steps rely on, for nothing
changes the database between them. That the plan's steps lead from the version found to
the target is a lemma on `build_migration_plan`, again by a smallest counterexample.

**Restore staging.** The marker says nothing of threads that are about to write or
remove files. `Alone` says that a session still being staged is known to nobody else,
`Marked` that what a thread will mark, like what is marked, is whole unless it was
cancelled, and that who removes a candidate has its cancellation accepted first, `Moved` that
a candidate that became the database is not taken for one that is lost.

**Process ownership.** Creation times tell processes of one id apart (`ProcessesKnown`,
`Captured`), and a parent that is older than its child is the process that started it
(`ParentsKnown`). Along the ancestors of the candidate this gives that the process trusted
is of this start, unless `astray`; the list of ancestors exists by a smallest
number at which it would not (`Climbs`). `PhaseKnown` follows the trusted process through the stop.

**Reviewed rules.** `ReadsHold`: the text and identity of a rule set are still what a
request has read, although its lifecycle may not be. Hence what an activation commits
was confirmed, and what was confirmed has no errors (`ConfirmedIsSound`). `Single` is
`OneActiveUnlessOvertaken` in terms of the rows: a commit that saw all active
sets of its identity leaves one, the others mark the identity.

**Monitoring.** A batch is a fold over its captures. `MonitorSound` is stated of the tables
between any two of them: alerts name the snapshot before theirs (`AlertsInPlace`),
each snapshot has exactly the alerts of its change (`AlertsOfChanges`), and no section
has a hash twice (`HashesUnique`). New ids and times are later than all before.

**Imported sections.** Applying a run is a fold over its rows, with a transaction that a
failing row undoes. `RowsFollowed` compares the meetings of every section with what the rows
applied since its last complete row ask for, and says that sections not imported are
untouched; it is kept by one row, and so by the fold and by the transaction.

**Plans.** A plan is sound (`SoundPlans`) when every term holds the sum of its courses'
credits, no more than the maximum, and no course twice. A row is added only after
`can_fit` was asked of the same credits (`AddSound`). The rows of a course with its corequisites are
a fold in which each new row is of a course that is not planned (`PairedSoFar`); prerequisites are placed
by another (`PrerequisitesStay`), the terms are tried by a third (`Trying`): while the course has no
place it is not planned, although its prerequisites may stay where they were put. The
proof needs the exception of section 4: a rule that names its own course.

**Degree audits.** `ExclusiveUseKept` compares two results and says nothing of the allocator, so
`AuditReserved` adds that what a requirement without overlap has applied is in `used`. That one
evaluation keeps both is a fact about the evaluators (`ExclusiveOutcome`, `EvaluateSound`): each
filters its candidates for availability before it sorts out repeated courses and takes the
first few, reserves what it takes (`AppliedSound`), and never forgets what was used; composites and
totals apply nothing. The order of the evaluations plays no part, so it holds for any tree.
What the helpers pick from sequences is a lemma (`OnlyMembers`), on counting in a
finite set (`KthMember`).

**Eligibility.** A child is listed before its parent, so the evaluation of a tree and the reading of it
by `Answers` exist as functions (`TreeIs`, `ReadingsAre`). `AsRead` relates the two at one
position: the result is SATISFIED exactly when TRUE is the only reading, NOT_SATISFIED exactly when FALSE
is, and anything else has both readings. Of the positions where it would fail take the first: its children are before it, so
they agree, and each operator then agrees too (`AndIsRead`, `OrIsRead`, `NotIsRead`). The same holds of a
rule, and of the aggregate over the rules (`VerdictIsFinal`); `CheckInv` says that a stored check was
computed by `evaluate` from the attempts it names. `EligibilityStays` is about one more attempt at the front
of the list (`AttemptsShift`). The best grade of a course does not fall (`GradesAre`, `BetterGradePasses`,
`BestIs`), nor do earned credits when attempts of a course bring as many (`EarnedGrows`); so a satisfied leaf
stays satisfied (`LeafStays`), and AND and OR keep that (`OperatorStays`, `TreeStays`).
NOT does not, hence its exclusion.

**Rows.** `RowsAreAccepted` is the conjunction of the services' type invariants, each by the
invariant of its service. An audit needed most: its lists of candidates are `Listed`
(typed rows), sorting keeps that because the sort keys are in a total order, so that each
candidate has a place of its own (`LessOrders`, `EachPlaceTaken`, `SortedIs`); every evaluator
returns a state the table knows with credits that are naturals; a node is evaluated once
(`EvaluatedOnce`); and the summary's counts and percentages are in range (`FiguresAre`). A plan
is completed only through its guards, with each course once in a term (`PlanStored`). A
scenario's open and committed rows are `RowTyped` in every phase.

**Assumptions.** Each is an `ASSUME` of the module that declares the constants, and TLC
evaluates it in the runs. Bounds are naturals; ids are disjoint; `Nothing`, `NoFile` and `None` are
no record; the seeded attempts have different numbers; candidates, sources, nodes, courses
and sections are typed, with credits that are numbers; registries and plans of rows are
sequences, an audited program has credits to earn, `None` is not a status, and there is a request. `ServiceConstants` and `AdvisingConstants` collect those of the services. What
they say of data is what the schema and the validations of the code say. No theorem has
another premise.

**Only model-checked**: `EveryStartSettles`, because liveness under fairness is out of the
prover's reach. Every safety property of the passing runs is a theorem. The violations of
section 4 are counterexamples and need no proof.

## 7. What is not modelled

In the modelled components:

- Desktop: the debug-only Next.js child, the second window, diagnostics files. The
  migration command is the steps from `TakeSnapshot` to `CompleteAttempt` with every outcome; the
  creation of a database (`db/bootstrap.py:47-64`) is one step, and the API ends with a killed
  shell (`ApiOwnership` lets it live on).
- Process ownership: the graph of processes is read in one step; the shell's own id is
  the same after a restart.
- Review: warnings and audit log rows, the dry run (writes nothing), the readiness
  entries other than the planner's.
- Scenarios: the audits are rows already written; which of several stored rules
  is read (`academic_scenarios/engine.py:354` takes the greatest term id).
- Schedules: the score, option comparisons, the choice of
  candidate courses from a plan or an audit.
- Eligibility: seats, the term and the wording of explanations change no verdict.
  Every transfer is of a known course; one without (its credits are a constant) is left out.
- Audit: `ExclusiveUseKept` speaks of the allocator's keys, under which a
  substitution is a source of its own; reading rows into the context is an input.
- Planner: warnings about offering patterns and sections.
- Monitoring: times of capture given by the client are not told apart from the clock.
- Imports: how a file's text becomes rows; extraction warnings; the summary of a
  MyProgress page.
- Removal: paths, reparse points and the hash of the plan.
- Pairing and boundary: the limit of pairing attempts, preflight requests.

Not modelled at all, as listed in `PROJECT.json`: diagnostics, shared contracts and packaging
keep no state of their own that a step could corrupt; the web client is React
state and the extension the fields of one popup, both over the API that is modelled.
Of the HTTP API the handlers with state of their own are in the modules; tokens and
roles are not. Of the data model, the rows that services write are in the modules with the
constraints that could refuse them; seeds are inputs.

## 8. Further hazards

`PROJECT.json` lists the hazards properties cover and the most serious ones that none
covers; these are the others. "covered" means that a property of section 3 would
fail if it went wrong.

| where | what | |
|---|---|---|
| `main.rs:909` | the migration rollback is restarted after a crash in it and runs over its own half-finished result | covered: `PreStartDataSurvives` |
| `main.rs:1157` | a failing migration on a database that a restore has just installed: both rollbacks are due and must compose | covered: `FailedStartReturnsData` |
| `main.rs:1252` | an error of rollback_migration after the readiness wait returns through `?` and skips rollback_restore | covered: `PreStartDataSurvives` |
| `services/local_backup.py:397` | cancel_restore deletes a candidate that a confirmed pending-restore.json already names | covered: `RestoreAttemptedOnce` |
| `main.rs:1237` | finalize_restore fails after readiness: `start` returns Err with the API running and no rollback | covered: `PreStartDataSurvives`, `EveryStartSettles` |
| `main.rs:1241` | the migration marker cannot be removed after readiness (error ignored): the next start rolls back what the user did since | the edits are kept as evidence in migration-safety, which PreStartDataSurvives covers; that they leave the active database is the behaviour the code chooses and no document denies |
| `main.rs:1079` | two shells are started on one data directory | StartupLock is a create-new lock file held by one process; both models of the shell take one at a time |
| `services/data_review/engine.py:217` | two decisions on one row overlap and each writes only the columns it changed | it does go wrong: a decision EDITED_AND_CONFIRMED can be left with no edit; CommitUpdate models it and the applied rows stay consistent in spite of it |
| `services/data_review/engine.py:248` | a decision is withdrawn after the application loaded the decisions and before it takes the lock: the row is applied anyway | no document promises otherwise; LoadApply and LockApply model it, and no property is stated about it |
| `services/data_review/engine.py:562` | a transcript row and a MyProgress row bring the same attempt, in either order | the code compares only transcript rows (data_review/engine.py:562), so a MyProgress row applied second repeats the attempt; AppliedOnce is per row |
| `services/data_review/engine.py:1182` | _sync_review_status counts in the database before the decision it follows is flushed, so the status lags one decision behind | modelled in Synced; READY_TO_APPLY gates no operation, so nothing goes wrong that a property could name |
| `services/course_state/engine.py:264` | a row that repeats the code of an exception is recorded as reliable although no attempt counts for it, or as a conflict, depending on the order | modelled in ApplyDuplicate; no document says what the readiness of such a row should be |
| `services/course_state/engine.py:179` | the dry run previews each row against the stored history, the application against the rows before it in the same run, so the outcomes can differ | a dry run writes nothing and is no action of the model |
| `services/academic_scenarios/allocator.py:163` | two selections with one score are visited in text order of their keys, which is not the order of the candidates: the tie-breaker, not the visit order, must decide | covered: `ResultIsBest` |
| `services/academic_scenarios/engine.py:354` | of several rules for one pair of programs the one with the greatest term id is taken, not the one of the current term | the rule is an input of the model, chosen for each program: which stored rule is read is not modelled |
| `services/schedule_optimizer/engine.py:1440` | the limit warning is also given when the last combination is exactly the limit, so a complete list is called not exhaustive | the code does so; the test is >=, and no line of the repository says which of the two is meant |
| `services/schedule_optimizer/engine.py:1094` | a course keeps its first eight sections and drops the others without any warning, while a dropped ninth course or combination is reported | it does happen: BestComeFirst and ShortListIsAll assume that no group is cut; docs/DECISIONS.md:275 wants every limit to warn |
| `services/schedule_optimizer/engine.py:1052` | a required section restricts only the group of its own course: when that course is no candidate, the data mode leaves the section out, or two sections of one course are required, an option without it is still FEASIBLE | it does go wrong, against docs/DOMAIN_RULES.md:222 (section 4); `HardConstraintsHold` covers the other required sections |
| `services/section_monitoring/engine.py:373` | a section that goes back to an earlier state stores no snapshot, because the hash is not new, so its reopening or closing raises no alert | `AlertsTellTheChange` speaks of the snapshots that are stored; storing the repeated one breaks their unique key (section 3) |
| `main.rs:1704` | an id is passed on between the comparison of creation times and the kill | it can happen; `StopIsExact` leaves it out (`astray`), for no interface the shell uses compares and ends in one step |
| `services/schedule_optimizer/engine.py:520` | anything raised, or a crash, while conflicts, options, their sections and warnings are inserted one after the other, or between the rollback and the commit of the FAILED row | covered: `RunStoredWhole` |
| `services/schedule_optimizer/engine.py:2271` | one meeting ends when the next starts: the comparison must be strict, also at the edge of an unavailable block | covered: `ShortListIsAll` |
| `api/local_data_removal.py:124` | two prepare requests pass the state check on one expired plan and write two plans; each needs a receipt and a time of its own | covered: `ExecutedOnceAndBackedUp` |
| `services/local_data_removal.py:488` | the database is deleted and the markers of a pending restore or a migration attempt are not, so the next start acts on them | DesktopStartup starts only from states that a complete set of files can be in |
| `runtime/discovery.py:103` | the lock is removed by name: a process that outlived its lock removes that of the next one | covered: `ServedIsPublished` |
| `main.py:33` | the second publication copies whatever manifest is found, also that of another process, and says it is ready before the server listens | covered: `ServedIsPublished` |
| `security/pairing.py:165` | the credential is replaced before the answer leaves: when the answer is lost the extension keeps the old credential, which is refused from then on | the user pairs again; the model has no answer that is lost |
| `security/local_request.py:46` | the nonce window drops its oldest entries above the limit, before their time is over | covered: `ReplayWindow` |
| `services/local_backup.py:151` | the safety snapshot is checked for the version the app supports, not for the one that is upgraded, so every real upgrade is refused by an error nothing catches | it does go wrong, against docs/LOCAL_DESKTOP_EXECUTION_PLAN.md:1155; SnapshotAccepted models it, and the upgrades of the runs have targets above the supported version, as the tests do |
| `services/local_backup.py:416` | two confirmations pass the check for a pending restore, between the restore that is applied and its last step: a session must not be confirmed without its candidate | covered: `PendingCanBeApplied` |
| `main.rs:1079` | the shell's process is ended and its API is not: the next start takes the lock and renames the database under it | start looks at no manifest and no process of an earlier start; DesktopStartup ends the API with the shell, ApiOwnership lets it run on |
| `main.rs:1704` | the readiness wait ends before a process was trusted: stop kills only the child it spawned and removes the manifest while a server that the child started runs on | ApiOwnership has the steps (KillChild with no runtime); docs/CONTROLLED_STUDENT_BETA_CHECKLIST.md:82 asks that no orphan remains |
| `main.rs:609` | a lineage is followed by ids without comparing creation times, and the anchor's stored identity stands for its process: over an id that was passed on a foreign process is trusted and ended | it can happen: ApiOwnership has it, and `StopIsExact` leaves it out (`astray`) |
| `main.rs:1215` | the identity of the child cannot be captured: start returns an error and the child keeps running, known to nobody | Spawn of ApiOwnership has it; no document promises otherwise |
| `main.rs:1598` | the last step of a restore removes pending-restore.json by name while the API serves: a restore confirmed meanwhile loses its marker | RestoreStaging has the step (Finalize); no document says that a restore confirmed while another is finished is kept |
| `runtime/discovery.py:109` | os.kill(pid, 0) asks whether a process is alive on POSIX; on Windows signal 0 is CTRL_C_EVENT | what the platform answers is outside the program; Alive of RuntimeManifest is the answer that is meant |
| `services/section_monitoring/engine.py:373` | the previous snapshot is the last one by time and id, among several of one request, of other sections and of other targets | covered: `AlertsTellTheChange` |
| `api/v1/academic.py:315` | two rule sets of one catalog identity are activated side by side: neither sees the other active, and every reader gets a conflict until a later activation ends it | covered: `OneActiveUnlessOvertaken` |
| `services/data_review/engine.py:791` | nothing compares the time of retrieval: an older import applied after a newer one takes the section back to what the older one showed | no document promises otherwise; SectionsFollowTheirRows speaks of the order of application |
| `services/data_review/engine.py:954` | a meeting is matched without its room, so a row that only moves it to another room leaves the old room | modelled in identity; SectionsFollowTheirRows compares what the code matches by |
| `services/data_imports/engine.py:435` | a section whose validation FAILED counts as an error of its run, unless its course is unknown too: then it is AMBIGUOUS and counts in neither number | modelled in record_status; no document says what the counts add up to |
| `apps/extension/src/background/service-worker.ts:102` | a rejected fetch inside the storage callback is caught by nobody, so the popup waits for an answer that never comes | the extension has no module |
| `apps/extension/src/popup/popup.ts:585` | several imports are sent one after the other: when a later one fails the earlier ones are stored, and the retry sends all of them again | the extension has no module; DataReview has several imports of the same rows |
| `apps/web/src/app/page.tsx:4594` | a slow answer for an import selected before replaces the state of the one selected after it | the web client is not modelled |

## 9. Plan

Done, in the order of what a failure costs the student: the database (startup,
staging, migrations, removal, ownership), the history (review, imports), what is
computed from it (scenarios, schedules, eligibility, audits, plans), and what
connects the parts (manifest, pairing, boundary, monitoring, rules).

What is left:

1. A refinement mapping from `RestoreStaging` to the restore steps of `DesktopStartup`.
2. The requests that follow a repair suggestion of the optimizer.
3. The extension's popup and service worker, with answers that never come.
