---------------------------- MODULE LocalServices ----------------------------
(***************************************************************************)
(* The services that keep files of their own beside the database, or a     *)
(* journal in it. They share no state that their models tell apart, so no  *)
(* behaviour of one depends on a step of another: a behaviour of the       *)
(* composition is one of the service it starts with, and their             *)
(* interleavings would only multiply the states. Restore staging is the    *)
(* module extended, the others are instances.                              *)
(***************************************************************************)
EXTENDS RestoreStaging, Integers, Sequences

CONSTANTS
  Helpers, Nonces, EntryCount, PLAN_TTL, LedgerSize, RemovalTime, Torn,
  Procs, LockAge, MaxRestarts, RuntimeTime,
  Extensions, Codes, PAIRING_CODE_TTL, PairingTime, PairingStarts,
  Received, Skew, NonceTTL, MaxNonces, FailureWindow, MaxFailures, BoundaryTime, MaxAccepted,
  LOCAL_SCHEMA_VERSION, Targets, Registries, MaxAttempts,
  Pids, ShellPid, Images, Tolerance, Window, MaxDepth, MaxBorn, MaxStarts

VARIABLES
  service,
  plan, expired, ledger, receipts, root, api, waiting, removing, helper, removalClock, history,
  lock, manifest, pc, phase, child, owned, watch, restarts, runtimeClock, raced,
  store, temp, pairing, instance, pairingClock, made, issued,
  pairedTo, nonces, failures, requestClock, accepted,
  database, command, result, snapshots, stopped,
  process, born, discovery, shell, starts, wronged

removalVars == <<plan, expired, ledger, receipts, root, api, waiting, removing, helper, removalClock, history>>
runtimeVars == <<lock, manifest, pc, phase, child, owned, watch, restarts, runtimeClock, raced>>
pairingVars == <<store, temp, pairing, instance, pairingClock, made, issued>>
boundaryVars == <<pairedTo, nonces, failures, requestClock, accepted>>
migrationVars == <<database, command, result, snapshots, stopped>>
ownershipVars == <<process, born, discovery, shell, starts, wronged>>

Removal == INSTANCE LocalDataRemoval
  WITH TTL <- PLAN_TTL, MaxClock <- RemovalTime, request <- removing, clock <- removalClock
Runtime == INSTANCE RuntimeManifest WITH MaxClock <- RuntimeTime, clock <- runtimeClock
Pairing == INSTANCE ExtensionPairing
  WITH TTL <- PAIRING_CODE_TTL, MaxClock <- PairingTime, MaxStarts <- PairingStarts,
       request <- pairing, clock <- pairingClock
Boundary == INSTANCE LocalRequest
  WITH Requests <- Received, MaxClock <- BoundaryTime, clock <- requestClock
Migration == INSTANCE LocalMigrations
Ownership == INSTANCE ApiOwnership

ASSUME ServiceConstants ==
  /\ Removal!RemovalAssumption /\ Runtime!RuntimeAssumption
  /\ Pairing!PairingAssumption /\ Boundary!RequestAssumption
  /\ Migration!MigrationAssumption /\ Ownership!OwnershipAssumption

localVars ==
  <<service, vars, removalVars, runtimeVars, pairingVars, boundaryVars, migrationVars, ownershipVars>>
LocalInit ==
  /\ service \in {"removal", "runtime", "pairing", "boundary", "migration", "staging", "ownership"}
  /\ Removal!Init /\ Runtime!Init /\ Pairing!Init /\ Boundary!Init
  /\ Migration!Init /\ Init /\ Ownership!Init

Removing ==
  /\ service = "removal" /\ Removal!Next
  /\ UNCHANGED <<service, runtimeVars, pairingVars, boundaryVars, migrationVars, vars, ownershipVars>>
Running ==
  /\ service = "runtime" /\ Runtime!Next
  /\ UNCHANGED <<service, removalVars, pairingVars, boundaryVars, migrationVars, vars, ownershipVars>>
PairingStep ==
  /\ service = "pairing" /\ Pairing!Next
  /\ UNCHANGED <<service, removalVars, runtimeVars, boundaryVars, migrationVars, vars, ownershipVars>>
Guarding ==
  /\ service = "boundary" /\ Boundary!Next
  /\ UNCHANGED <<service, removalVars, runtimeVars, pairingVars, migrationVars, vars, ownershipVars>>
Migrating ==
  /\ service = "migration" /\ Migration!Next
  /\ UNCHANGED <<service, removalVars, runtimeVars, pairingVars, boundaryVars, vars, ownershipVars>>
StagingStep ==
  /\ service = "staging" /\ Next
  /\ UNCHANGED <<service, removalVars, runtimeVars, pairingVars, boundaryVars, migrationVars, ownershipVars>>
OwnershipStep ==
  /\ service = "ownership" /\ Ownership!Next
  /\ UNCHANGED <<service, removalVars, runtimeVars, pairingVars, boundaryVars, migrationVars, vars>>
\* Every process has ended and no other is started, or nothing more is followed.
Done ==
  /\ \/ service = "runtime" /\ pc = [p \in Procs |-> "gone"]
     \/ service = "migration" /\ stopped
     \/ service = "ownership" /\ Ownership!Over
  /\ UNCHANGED localVars

LocalNext == Removing \/ Running \/ PairingStep \/ Guarding \/ Migrating \/ StagingStep \/ OwnershipStep \/ Done
LocalSpec == LocalInit /\ [][LocalNext]_localVars

\* A removal plan deletes in time and behind a validated backup, and once unless two
\* helpers had it at once.
ExecutedOnceAndBackedUp == Removal!ExecutedOnceAndBackedUp
\* A serving API is the one in the manifest unless an owner was overtaken.
ServedIsPublished == Runtime!ServedIsPublished
\* A credential is given for a code of this run of the app that has not expired.
PairedInTime == Pairing!PairedInTime
\* A request passes twice only at the end of its window or in a flood.
ReplayWindow == Boundary!ReplayWindow
\* Upgrades of the schema are whole, and none follows one that failed.
UpgradesAreWhole == Migration!UpgradesAreWhole
\* A stop ends the API of its own start and nothing else.
StopIsExact == Ownership!StopIsExact
=============================================================================
