----------------------------- MODULE ApiOwnership -----------------------------
(***************************************************************************)
(* Which processes the desktop shell takes for its API, and which it ends  *)
(* (StartupLock, trusted_runtime_from_graph, windows_process, wait_for_api *)
(* and the process part of start and stop in desktop-shell main.rs).       *)
(*                                                                         *)
(* A process is known by its id, and ids are used again: once a process    *)
(* has ended, another may run under its id, unless a handle of it is still *)
(* open, as the shell's of its child is. Processes are started one after   *)
(* the other, so the number of starts serves as the creation time. A graph *)
(* of processes is read in one step; ending a process is not: the shell    *)
(* compares, opens the id again, and ends what it then finds.              *)
(***************************************************************************)
EXTENDS Integers, FiniteSets

CONSTANTS
  Pids,
  ShellPid,    \* the id of the shell's process, also after a restart
  Images,      \* executables: "api" is the packaged one
  Tolerance,   \* LAUNCH_CLOCK_TOLERANCE_100NS
  Window,      \* API_READINESS_TIMEOUT_SECONDS, as process starts
  MaxDepth,    \* MAX_PROCESS_ANCESTRY_DEPTH
  MaxBorn,     \* bound: processes started
  MaxStarts,   \* bound: starts of the shell
  None         \* an absent value

VARIABLES
  process,   \* pid -> process, or None
  born,      \* processes started so far
  discovery, \* the runtime manifest: instance and pid of the API, or None
  shell,     \* what the shell's process keeps
  starts,    \* starts of the shell so far; the instance id of the last one
  wronged    \* a process of another start or owner was ended as the API

vars == <<process, born, discovery, shell, starts, wronged>>

Instances == 1..MaxStarts
Process == [pid : Pids, born : 1..MaxBorn, parent : Pids \cup {ShellPid, None}, image : Images,
            instance : Instances \cup {None}]
Discovery == [instance : Instances, pid : Pids]
Phase == {"down", "locked", "wait", "running", "kill", "compare", "end", "gone", "cleanup", "stopped"}
\* launch: when the child was launched; root: the child, held: its handle is open;
\* runtime: the process that is trusted; allowed: the manifest may go; refused: the
\* system did not let the process be ended. The rest is history: what was compared
\* before, and whether an id of the lineage was passed on.
Shell == [phase : Phase, launch : 0..MaxBorn, root : Process \cup {None}, runtime : Process \cup {None},
          held : BOOLEAN, allowed : BOOLEAN, refused : BOOLEAN,
          seen : Process \cup {None}, astray : BOOLEAN]
Down == [phase |-> "down", launch |-> 0, root |-> None, runtime |-> None, held |-> FALSE, allowed |-> TRUE,
         refused |-> FALSE, seen |-> None, astray |-> FALSE]

OwnershipAssumption ==
  /\ ShellPid \notin Pids /\ None \notin Pids \cup {ShellPid} \cup Process \cup Discovery /\ "api" \in Images
  /\ Tolerance \in Nat /\ Window \in Nat /\ MaxDepth \in Nat \ {0} /\ MaxBorn \in Nat /\ MaxStarts \in Nat

Init ==
  /\ process = [p \in Pids |-> None] /\ born = 0 /\ discovery = None
  /\ shell = Down /\ starts = 0 /\ wronged = FALSE

To(phase) == shell' = [shell EXCEPT !.phase = phase]
-----------------------------------------------------------------------------
(* Processes *)

\* bound: nothing is followed after the last start has come to its end.
Over == starts = MaxStarts /\ shell.phase \in {"down", "stopped"}
\* The shell's handle of the child it spawned keeps the id of the child.
Held(p) == shell.held /\ shell.root # None /\ shell.root.pid = p
Begin(p, parent, image, instance) ==
  /\ process[p] = None /\ ~ Held(p) /\ born < MaxBorn /\ ~ Over
  /\ born' = born + 1
  /\ process' = [process EXCEPT ![p] =
       [pid |-> p, born |-> born + 1, parent |-> parent, image |-> image, instance |-> instance]]

\* A process of the API starts another, which inherits the instance id: the server
\* behind a launcher, or a tool of its own.
Fork(p) ==
  /\ process[p] # None /\ process[p].instance # None
  /\ \E q \in Pids, image \in Images : Begin(q, p, image, process[p].instance)
  /\ UNCHANGED <<discovery, shell, starts, wronged>>

\* Something else on the computer, also a second copy of the API
Foreign ==
  /\ \E q \in Pids, parent \in {p \in Pids : process[p] # None /\ process[p].instance = None} \cup {None},
        image \in Images : Begin(q, parent, image, None)
  /\ UNCHANGED <<discovery, shell, starts, wronged>>

Exit(p) ==
  /\ process[p] # None /\ ~ Over
  /\ process' = [process EXCEPT ![p] = None]
  /\ UNCHANGED <<born, discovery, shell, starts, wronged>>

\* The API under a manifest that is not stale; RuntimeManifest has the steps.
Discovered ==
  /\ discovery # None /\ process[discovery.pid] # None
  /\ process[discovery.pid].instance = discovery.instance
Publish(p) ==
  /\ process[p] # None /\ process[p].instance # None /\ process[p].image = "api" /\ ~ Over
  /\ Discovered => discovery.instance = process[p].instance
  /\ discovery' = [instance |-> process[p].instance, pid |-> p]
  /\ UNCHANGED <<process, born, shell, starts, wronged>>
-----------------------------------------------------------------------------
(* Start *)

\* StartupLock::acquire. The lock is a mutex of the operating system: it ends with the
\* process that has it, and no second shell gets past this line before.
Acquire ==
  /\ shell.phase \in {"down", "stopped"} /\ starts < MaxStarts
  /\ starts' = starts + 1 /\ shell' = [Down EXCEPT !.phase = "locked"]
  /\ UNCHANGED <<process, born, discovery, wronged>>

\* The API is spawned with an instance id of its own. When its identity cannot be
\* captured, `?` leaves start, and the child with it.
Spawn ==
  /\ shell.phase = "locked"
  /\ \E p \in Pids :
       /\ Begin(p, ShellPid, "api", starts)
       /\ \/ shell' = [shell EXCEPT !.phase = "wait", !.launch = born, !.root = process'[p], !.held = TRUE]
          \/ shell' = [Down EXCEPT !.phase = "stopped"]
  /\ UNCHANGED <<discovery, starts, wronged>>

creation_time_is_in_launch_window(p) ==
  p.born >= shell.launch - Tolerance /\ p.born <= shell.launch + Window

\* mutant: an id and an image are an identity
same_process_identityTimeless(expected, actual) == expected.pid = actual.pid /\ expected.image = actual.image
same_process_identity(expected, actual) ==
  expected.pid = actual.pid /\ expected.born = actual.born /\ expected.image = actual.image

\* The ids from the parent of a candidate upwards, over processes that run, until one is
\* an anchor. Its stored identity is put into the graph as that of its process.
Ancestors(candidate) ==
  LET up[n \in 1..MaxDepth] ==
        LET p == IF n = 1 THEN candidate ELSE up[n - 1] IN
        IF n > 1 /\ p \in {shell.root.pid, ShellPid} THEN p
        ELSE IF p \notin Pids \/ process[p] = None THEN None ELSE process[p].parent
  IN up
lineage_reaches(candidate) == Ancestors(candidate)[MaxDepth] \in {shell.root.pid, ShellPid}

\* History: no creation time above the candidate is compared. Under some id of the
\* lineage there is a process that is younger than its child, so not the one that
\* started it.
BornAt(p) == IF p = ShellPid THEN shell.launch ELSE IF p = shell.root.pid THEN shell.root.born ELSE process[p].born
PassedOn(candidate) ==
  \E n \in 1..MaxDepth :
    LET up == Ancestors(candidate)
        child == IF n = 1 THEN candidate ELSE up[n - 1]
    IN up[n] # None /\ up[n] # child /\ BornAt(up[n]) >= BornAt(child)

\* trusted_runtime_from_graph, for the process and instance the manifest names
trusted_runtime(candidate, instance) ==
  /\ instance = starts /\ process[candidate] # None
  /\ process[candidate].image = "api" /\ creation_time_is_in_launch_window(process[candidate])
  /\ IF candidate = shell.root.pid THEN same_process_identity(shell.root, process[candidate])
     ELSE lineage_reaches(candidate)

\* wait_for_api: the process is noted before the API is asked whether it is ready.
Trust ==
  /\ shell.phase = "wait" /\ discovery # None /\ trusted_runtime(discovery.pid, discovery.instance)
  /\ shell.runtime # process[discovery.pid]
  /\ shell' = [shell EXCEPT !.runtime = process[discovery.pid],
                          !.astray = (discovery.pid # shell.root.pid /\ PassedOn(discovery.pid))]
  /\ UNCHANGED <<process, born, discovery, starts, wronged>>
Ready ==
  /\ shell.phase = "wait" /\ discovery # None /\ trusted_runtime(discovery.pid, discovery.instance)
  /\ shell.runtime = process[discovery.pid]
  /\ To("running")
  /\ UNCHANGED <<process, born, discovery, starts, wronged>>
-----------------------------------------------------------------------------
(* Stop *)

\* After the readiness timeout, or when the window is closed
Close ==
  /\ shell.phase \in {"wait", "running"} /\ To("kill")
  /\ UNCHANGED <<process, born, discovery, starts, wronged>>
\* The child is ended by its handle, which is then closed.
KillChild ==
  /\ shell.phase = "kill"
  /\ process' = [process EXCEPT ![shell.root.pid] = None]
  /\ shell' = [shell EXCEPT !.held = FALSE, !.phase = IF shell.runtime = None THEN "cleanup" ELSE "compare"]
  /\ UNCHANGED <<born, discovery, starts, wronged>>

Runs(identity) ==
  process[identity.pid] # None /\ same_process_identity(identity, process[identity.pid])
\* terminate: capture and compare
Compare ==
  /\ shell.phase = "compare"
  /\ shell' = [shell EXCEPT !.phase = IF Runs(shell.runtime) THEN "end" ELSE "gone",
                            !.seen = process[shell.runtime.pid]]
  /\ UNCHANGED <<process, born, discovery, starts, wronged>>
\* then open the id again and end what runs under it, if the system lets it
Terminate ==
  LET p == shell.runtime.pid IN
  /\ shell.phase = "end"
  /\ \/ /\ process' = [process EXCEPT ![p] = None] /\ To("gone")
        /\ wronged' = (wronged \/ ( /\ process[p] # None /\ process[p].instance # starts
                                    /\ process[p] = shell.seen /\ ~ shell.astray))
     \/ /\ shell' = [shell EXCEPT !.phase = "gone", !.refused = TRUE]
        /\ UNCHANGED <<process, wronged>>
  /\ UNCHANGED <<born, discovery, starts>>
\* wait_until_gone says no to an id that was passed on, and to a process that stays.
WaitUntilGone ==
  /\ shell.phase = "gone"
  /\ shell' = [shell EXCEPT !.phase = "cleanup", !.allowed = (process[shell.runtime.pid] = None)]
  /\ UNCHANGED <<process, born, discovery, starts, wronged>>
\* The manifest goes with the API, when it is that of this start.
RemoveManifest ==
  /\ shell.phase = "cleanup" /\ To("stopped")
  /\ discovery' = IF discovery # None /\ discovery.instance = starts /\ shell.allowed THEN None ELSE discovery
  /\ UNCHANGED <<process, born, starts, wronged>>

\* The shell's process is ended: its handles and its lock go, its children stay.
ShellCrash ==
  /\ shell.phase \notin {"down", "stopped"} /\ shell' = Down
  /\ UNCHANGED <<process, born, discovery, starts, wronged>>

Next ==
  \/ \E p \in Pids : Fork(p) \/ Exit(p) \/ Publish(p)
  \/ Foreign
  \/ Acquire \/ Spawn \/ Trust \/ Ready
  \/ Close \/ KillChild \/ Compare \/ Terminate \/ WaitUntilGone \/ RemoveManifest
  \/ ShellCrash

Spec == Init /\ [][Next]_vars
-----------------------------------------------------------------------------
TypeOK ==
  /\ process \in [Pids -> Process \cup {None}] /\ born \in 0..MaxBorn
  /\ shell \in Shell /\ starts \in 0..MaxStarts /\ wronged \in BOOLEAN

\* (trusted_runtime_from_graph, terminate, wait_until_gone and stop.) A stop ends the API
\* of its own start and nothing else, unless an id is passed on where no creation time
\* is compared: above the candidate, or between comparison and end. A process that was
\* trusted does not outlive the stop that could end it, and the manifest is only taken
\* away from a process that has gone.
StopIsExact ==
  LET Lives == shell.runtime # None /\ process[shell.runtime.pid] = shell.runtime IN
  /\ TypeOK /\ ~ wronged
  /\ shell.runtime # None /\ ~ shell.astray => shell.runtime.instance = starts
  /\ shell.phase = "stopped" /\ Lives => shell.refused /\ discovery # None
=============================================================================
