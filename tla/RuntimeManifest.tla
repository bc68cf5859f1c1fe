--------------------------- MODULE RuntimeManifest ---------------------------
(***************************************************************************)
(* runtime.json, the file by which shell, extension and supervisor find    *)
(* the API (runtime/discovery.py, run.py, the lifespan of main.py) and the *)
(* supervisor that owns one API child (runtime/supervisor.py).             *)
(*                                                                         *)
(* A process publishes under a lock file that a later process removes when *)
(* it is LockAge old, also when its owner is only slow. A published        *)
(* manifest is stale when its process is gone or, once it says "ready",    *)
(* when its port does not answer: uvicorn runs the lifespan, which writes  *)
(* "ready", before it listens, and stops listening before run.py removes   *)
(* the file.                                                               *)
(***************************************************************************)
EXTENDS Integers, FiniteSets

CONSTANTS
  Procs,        \* API processes that are ever started
  LockAge,      \* 30 seconds
  MaxClock,     \* bound on time
  MaxRestarts,  \* of the supervisor
  None

VARIABLES
  lock,       \* runtime.json.lock: its time, and who made it
  manifest,   \* runtime.json: process and status
  pc,         \* of each process
  phase,      \* which of its two publications a process is in, and the manifest it writes
  child,      \* the supervisor's process
  owned,      \* the instance the supervisor saw ready
  watch,      \* what the supervisor is doing
  restarts,
  clock,
  raced       \* an owner lost its lock or its manifest to another process

vars == <<lock, manifest, pc, phase, child, owned, watch, restarts, clock, raced>>
supervisor == <<child, owned, watch, restarts>>

Manifest == [proc : Procs, status : {"starting", "ready"}]
Lock == [at : 0..MaxClock, by : Procs]
RuntimeAssumption ==
  /\ None \notin Procs \cup Manifest \cup Lock
  /\ MaxRestarts \in Nat /\ MaxClock \in Nat /\ LockAge \in Nat
Publishing == {"lock", "old", "again", "check", "write", "unlock"}
Alive == {p \in Procs : pc[p] \notin {"new", "gone"}}

Init ==
  /\ lock = None /\ manifest = None /\ clock = 0 /\ raced = FALSE
  /\ pc = [p \in Procs |-> "new"] /\ phase = [p \in Procs |-> None]
  /\ child = None /\ owned = None /\ watch = "off" /\ restarts = 0

\* is_runtime_manifest_stale
IsStale(m) == m.proc \notin Alive \/ (m.status = "ready" /\ pc[m.proc] # "serving")
\* discover_runtime_manifest
Discovered == IF manifest = None THEN None ELSE IF IsStale(manifest) THEN None ELSE manifest

Goto(p, label) == pc' = [pc EXCEPT ![p] = label]
\* A RuntimeError: run.py has no finally clause yet around its own publication.
Failed(p) == IF phase[p].status = "starting" THEN "gone" ELSE "closed"
Fails(p) == Goto(p, Failed(p))
-----------------------------------------------------------------------------
(* publish_runtime_manifest, of p *)

\* run.py publishes its own manifest as "starting".
Launch(p) ==
  /\ pc[p] = "new" /\ Goto(p, "lock")
  /\ phase' = [phase EXCEPT ![p] = [proc |-> p, status |-> "starting"]]
  /\ UNCHANGED <<lock, manifest, supervisor, clock, raced>>

TakeLock(p) ==
  /\ pc[p] \in {"lock", "again"} /\ lock = None
  /\ lock' = [at |-> clock, by |-> p] /\ Goto(p, "check")
  /\ UNCHANGED <<manifest, phase, supervisor, clock, raced>>
\* Another has it: too young, or old enough to be removed. No second chance.
FindLock(p) ==
  /\ pc[p] = "lock" /\ lock # None
  /\ Goto(p, IF clock - lock.at > LockAge THEN "old" ELSE Failed(p))
  /\ UNCHANGED <<lock, manifest, phase, supervisor, clock, raced>>
BreakLock(p) ==
  /\ pc[p] = "old" /\ lock' = None
  /\ Goto(p, IF lock = None THEN Failed(p) ELSE "again")
  /\ raced' = (raced \/ (lock # None /\ pc[lock.by] \in {"check", "write", "unlock"}))
  /\ UNCHANGED <<manifest, phase, supervisor, clock>>
LoseLock(p) ==
  /\ pc[p] = "again" /\ lock # None /\ Fails(p)
  /\ UNCHANGED <<lock, manifest, phase, supervisor, clock, raced>>

\* The finally clause removes whatever lock is there.
Release == lock' = None
ReleaseRaces(p) == lock # None /\ lock.by # p /\ pc[lock.by] \in {"check", "write", "unlock"}

\* mutant: the manifest found is not compared
CheckOwnerNot(p) ==
  /\ pc[p] = "check" /\ Goto(p, "write") /\ UNCHANGED <<lock, raced>>
  /\ UNCHANGED <<manifest, phase, supervisor, clock>>
CheckOwner(p) ==
  /\ pc[p] = "check"
  /\ IF Discovered = None \/ (Discovered # None /\ manifest.proc = phase[p].proc)
     THEN /\ Goto(p, "write") /\ UNCHANGED lock
          /\ raced' = (raced \/ (/\ manifest # None /\ manifest.proc # phase[p].proc
                                 /\ manifest.proc \in Alive))
     ELSE Fails(p) /\ Release /\ raced' = (raced \/ ReleaseRaces(p))
  /\ UNCHANGED <<manifest, phase, supervisor, clock>>
WriteManifest(p) ==
  /\ pc[p] = "write" /\ manifest' = phase[p] /\ Goto(p, "unlock")
  /\ UNCHANGED <<lock, phase, supervisor, clock, raced>>
Unlock(p) ==
  /\ pc[p] = "unlock" /\ Release /\ raced' = (raced \/ ReleaseRaces(p))
  /\ Goto(p, IF phase[p].status = "starting" THEN "lifespan" ELSE "bind")
  /\ UNCHANGED <<manifest, phase, supervisor, clock>>
-----------------------------------------------------------------------------
(* run.py and the lifespan *)

\* The manifest it finds is published again as "ready", whosever it is.
Lifespan(p) ==
  /\ pc[p] = "lifespan"
  /\ IF Discovered = None THEN Goto(p, "bind") /\ UNCHANGED phase
     ELSE /\ Goto(p, "lock")
          /\ phase' = [phase EXCEPT ![p] = [manifest EXCEPT !.status = "ready"]]
  /\ UNCHANGED <<lock, manifest, supervisor, clock, raced>>
Bind(p) ==
  /\ pc[p] = "bind" /\ Goto(p, "serving")
  /\ UNCHANGED <<lock, manifest, phase, supervisor, clock, raced>>
StopServing(p) ==
  /\ pc[p] = "serving" /\ Goto(p, "closed")
  /\ UNCHANGED <<lock, manifest, phase, supervisor, clock, raced>>
\* The finally clause reads the manifest and then removes it.
ReadOwn(p) ==
  /\ pc[p] = "closed"
  /\ Goto(p, IF manifest # None /\ manifest.proc = p THEN "unlink" ELSE "gone")
  /\ UNCHANGED <<lock, manifest, phase, supervisor, clock, raced>>
UnlinkOwn(p) ==
  /\ pc[p] = "unlink" /\ manifest' = None /\ Goto(p, "gone")
  /\ raced' = (raced \/ (manifest # None /\ manifest.proc # p))
  /\ UNCHANGED <<lock, phase, supervisor, clock>>
Crash(p) ==
  /\ p \in Alive /\ Goto(p, "gone")
  /\ UNCHANGED <<lock, manifest, phase, supervisor, clock, raced>>
Tick ==
  /\ clock < MaxClock /\ clock' = clock + 1
  /\ UNCHANGED <<lock, manifest, pc, phase, supervisor, raced>>
-----------------------------------------------------------------------------
(* ApiProcessSupervisor *)

\* start and _cleanup_stale_manifest: a stale manifest is removed after it was read.
Supervise ==
  /\ watch = "off" /\ child = None
  /\ watch' = (IF manifest = None THEN "spawn" ELSE IF Discovered = None THEN "clean" ELSE "off")
  /\ UNCHANGED <<lock, manifest, pc, phase, child, owned, restarts, clock, raced>>
CleanStale ==
  /\ watch = "clean" /\ manifest' = None /\ watch' = "spawn"
  /\ raced' = (raced \/ (manifest # None /\ manifest.proc \in Alive))
  /\ UNCHANGED <<lock, pc, phase, child, owned, restarts, clock>>
Spawn(p) ==
  /\ watch = "spawn" /\ pc[p] = "new" /\ Goto(p, "lock") /\ child' = p /\ watch' = "wait"
  /\ phase' = [phase EXCEPT ![p] = [proc |-> p, status |-> "starting"]]
  /\ UNCHANGED <<lock, manifest, owned, restarts, clock, raced>>
\* wait_until_ready
SeeReady ==
  /\ watch = "wait" /\ Discovered # None /\ manifest.proc = child /\ pc[child] = "serving"
  /\ owned' = child /\ watch' = "ready"
  /\ UNCHANGED <<lock, manifest, pc, phase, child, restarts, clock, raced>>
\* stop: by the user, or because the child exited, is another's or is late
StopChild ==
  /\ watch \in {"wait", "ready"} /\ watch' = "off" /\ child' = None /\ owned' = None
  /\ pc' = IF child \in Alive THEN [pc EXCEPT ![child] = "gone"] ELSE pc
  /\ manifest' = IF manifest # None /\ manifest.proc = owned THEN None ELSE manifest
  /\ UNCHANGED <<lock, phase, restarts, clock, raced>>
\* restart_if_crashed
Restart ==
  /\ watch = "ready" /\ child \notin Alive /\ restarts < MaxRestarts
  /\ restarts' = restarts + 1
  /\ watch' = (IF manifest = None THEN "spawn" ELSE IF Discovered = None THEN "clean" ELSE "ready")
  /\ UNCHANGED <<lock, manifest, pc, phase, child, owned, clock, raced>>

ProcessStep(p) ==
  \/ Launch(p) \/ TakeLock(p) \/ FindLock(p) \/ BreakLock(p) \/ LoseLock(p) \/ CheckOwner(p)
  \/ WriteManifest(p) \/ Unlock(p) \/ Lifespan(p) \/ Bind(p) \/ StopServing(p) \/ ReadOwn(p) \/ UnlinkOwn(p)
  \/ Crash(p) \/ Spawn(p)
Next ==
  \/ \E p \in Procs : ProcessStep(p)
  \/ Supervise \/ CleanStale \/ SeeReady \/ StopChild \/ Restart \/ Tick
Spec == Init /\ [][Next]_vars
-----------------------------------------------------------------------------
\* A process that serves is the one the manifest names, unless an owner lost its
\* lock or its manifest to another process (`raced`): a lock broken, or released
\* by a second holder, while its owner was at work; a live owner's manifest
\* replaced or removed because its port did not answer yet or no more.
ServedIsPublished ==
  ~ raced => \A p \in Procs : pc[p] = "serving" => manifest = [proc |-> p, status |-> "ready"]
=============================================================================
