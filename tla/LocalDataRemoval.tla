-------------------------- MODULE LocalDataRemoval --------------------------
(***************************************************************************)
(* Removal of all local data: the API prepares a one-time plan, the shell  *)
(* runs a helper for it after it stopped the API (local_data_removal.py,   *)
(* api/local_data_removal.py, run.py, stop() of main.rs).                  *)
(*                                                                         *)
(* The plan file and the ledger of used nonces have no lock. Requests run  *)
(* on threads of the API; a helper is a process of its own that outlives a *)
(* killed shell, and the next shell starts another beside it. An entry is  *)
(* a name of ALLOWLIST below the data root, in the order of deletion.      *)
(* Times are in units of which PLAN_TTL has TTL.                           *)
(***************************************************************************)
EXTENDS Integers, FiniteSets

CONSTANTS
  Threads,      \* of the API
  Helpers,      \* processes that run local-data-remove at one time
  Nonces,       \* numbered in the order of their text
  EntryCount,   \* entries of the plan
  TTL,          \* PLAN_TTL
  LedgerSize,   \* nonces kept in the ledger (256)
  MaxClock,     \* bound on time
  None,         \* no file, no helper
  Torn          \* a plan file that is no JSON

Entries == 1..EntryCount
\* RemovalState, the values that a plan file can hold
PlanState == {"READY", "IN_PROGRESS", "PARTIALLY_COMPLETED", "COMPLETED", "FAILED", "EXPIRED"}
DeletionPlan == [nonce : Nonces, expires : 0..(MaxClock + TTL), state : PlanState]

RemovalAssumption ==
  /\ Nonces \subseteq Nat /\ EntryCount \in Nat /\ MaxClock \in Nat
  /\ TTL \in Nat \ {0} /\ LedgerSize \in Nat \ {0}
  /\ None \notin DeletionPlan \cup Helpers /\ Torn \notin DeletionPlan /\ None # Torn

VARIABLES
  plan,      \* pending-plan.json
  expired,   \* the temporary file of this API process, an expired plan
  ledger,    \* consumed nonces, a file beside it
  receipts,  \* when the backups of this API process were validated
  root,      \* entries that exist below the data root
  api,       \* the API is up
  waiting,   \* the helper the shell waits for, or None
  request,   \* what each thread is about to do, with what it has read
  helper,    \* what each helper is about to do, with the plan and the ledger it read
  clock,
  history    \* of each nonce: its backup, its preparation, its executions, and
             \* whether two helpers had validated its plan before it was marked

vars == <<plan, expired, ledger, receipts, root, api, waiting, request, helper, clock, history>>

Idle == [pc |-> "idle", seen |-> None]
NoHelper == [pc |-> "idle", plan |-> None, used |-> {}, next |-> 0, at |-> 0]

Init ==
  /\ plan = None /\ expired = None /\ ledger = {} /\ receipts = {} /\ root = Entries
  /\ api = TRUE /\ waiting = None /\ clock = 0
  /\ request = [t \in Threads |-> Idle] /\ helper = [h \in Helpers |-> NoHelper]
  /\ history = [n \in Nonces |->
                  [issued |-> FALSE, backup |-> 0, prepared |-> 0, begun |-> 0, at |-> 0, shared |-> FALSE]]

\* An open handle on the plan file makes Windows refuse its replacement and removal.
Filling == \E t \in Threads : request[t].pc = "fill"

\* get_persisted_plan_state: the state a request sees, and whether it will expire the plan
StateOf(p) ==
  IF p = None THEN "NOT_STARTED" ELSE IF p = Torn THEN "FAILED" ELSE p.state
StaleReady(p) == StateOf(p) = "READY" /\ p.expires <= clock
Replaceable(state) == state \in {"NOT_STARTED", "FAILED", "EXPIRED"}
-----------------------------------------------------------------------------
(* Requests *)

To(t, next) == request' = [request EXCEPT ![t] = next]

\* A status request, or the first line of a prepare request.
ReadState(t, operation) ==
  /\ api /\ request[t].pc = "idle"
  /\ \/ /\ StaleReady(plan)
        /\ To(t, [pc |-> IF operation = "prepare" THEN "expireToPrepare" ELSE "expire",
                  seen |-> plan])
     \/ /\ ~ StaleReady(plan) /\ operation = "prepare" /\ Replaceable(StateOf(plan))
        /\ To(t, [Idle EXCEPT !.pc = "prepare"])
  /\ UNCHANGED <<plan, expired, ledger, receipts, root, api, waiting, helper, clock, history>>

\* _atomic_write of the plan that was read, as EXPIRED: the threads of a process
\* share the name of the temporary file, and an OSError counts as FAILED.
Expired(t) == To(t, IF request[t].pc = "expire" \/ request[t].pc = "replace" THEN Idle ELSE [Idle EXCEPT !.pc = "prepare"])
WriteExpired(t) ==
  /\ request[t].pc \in {"expire", "expireToPrepare"}
  /\ \/ /\ expired' = [request[t].seen EXCEPT !.state = "EXPIRED"]
        /\ To(t, [Idle EXCEPT !.pc = IF request[t].pc = "expire" THEN "replace" ELSE "replaceToPrepare"])
     \/ UNCHANGED expired /\ Expired(t)
  /\ UNCHANGED <<plan, ledger, receipts, root, api, waiting, helper, clock, history>>
ReplaceExpired(t) ==
  /\ request[t].pc \in {"replace", "replaceToPrepare"}
  /\ \/ ~ Filling /\ expired # None /\ plan' = expired /\ expired' = None
     \/ UNCHANGED <<plan, expired>>
  /\ Expired(t)
  /\ UNCHANGED <<ledger, receipts, root, api, waiting, helper, clock, history>>

\* mutant: a receipt is good for as long as the API runs
ValidReceiptsKept == receipts
\* is_validated_external_backup
ValidReceipts == {created \in receipts : clock - created <= TTL}

\* create_deletion_plan, and write_bytes up to the truncation of the file
OpenPlan(t, n) ==
  /\ request[t].pc = "prepare" /\ ~ history[n].issued
  /\ \E created \in ValidReceipts :
       /\ history' = [history EXCEPT ![n].issued = TRUE, ![n].backup = created,
                                     ![n].prepared = clock]
       /\ plan' = Torn
       /\ To(t, [pc |-> "fill",
                 seen |-> [nonce |-> n, expires |-> clock + TTL, state |-> "READY"]])
  /\ UNCHANGED <<expired, ledger, receipts, root, api, waiting, helper, clock>>
FillPlan(t) ==
  /\ request[t].pc = "fill" /\ plan' = request[t].seen /\ To(t, Idle)
  /\ UNCHANGED <<expired, ledger, receipts, root, api, waiting, helper, clock, history>>
RefusePrepare(t) ==
  /\ request[t].pc = "prepare" /\ To(t, Idle)
  /\ UNCHANGED <<plan, expired, ledger, receipts, root, api, waiting, helper, clock, history>>

\* cancel_local_data_removal: whatever the state of the plan
Cancel ==
  /\ api /\ plan # None /\ ~ Filling /\ plan' = None
  /\ UNCHANGED <<expired, ledger, receipts, root, api, waiting, request, helper, clock, history>>

\* create_backup: the archive was read back and its receipt registered
CreateBackup ==
  /\ api /\ receipts' = receipts \cup {clock}
  /\ UNCHANGED <<plan, expired, ledger, root, api, waiting, request, helper, clock, history>>
-----------------------------------------------------------------------------
(* The helpers *)

Helper(h, next) == helper' = [helper EXCEPT ![h] = next]

\* read_and_validate_plan
IsExecutable(p) == p \in DeletionPlan /\ p.state = "READY" /\ clock < p.expires
\* The helper has validated the plan of n and has not marked it.
Holds(h, n) == helper[h].pc \in {"check", "merge", "consume", "mark"} /\ helper[h].plan.nonce = n

HelperValidate(h) ==
  /\ helper[h].pc = "validate"
  /\ IF IsExecutable(plan)
     THEN /\ Helper(h, [NoHelper EXCEPT !.pc = "check", !.plan = plan, !.next = 1, !.at = clock])
          /\ history' = [history EXCEPT ![plan.nonce].shared = @ \/ \E k \in Helpers : Holds(k, plan.nonce)]
     ELSE Helper(h, NoHelper) /\ UNCHANGED history
  /\ UNCHANGED <<plan, expired, ledger, receipts, root, api, waiting, request, clock>>

\* _consumed_nonces: a ledger that cannot be read is empty.
ReadLedger == {ledger, {}}
HelperCheck(h) ==
  /\ helper[h].pc = "check"
  /\ \E used \in ReadLedger :
       Helper(h, IF helper[h].plan.nonce \in used THEN NoHelper ELSE [helper[h] EXCEPT !.pc = "merge"])
  /\ UNCHANGED <<plan, expired, ledger, receipts, root, api, waiting, request, clock, history>>
\* _record_consumed_nonce reads the ledger again, ...
HelperMerge(h) ==
  /\ helper[h].pc = "merge"
  /\ \E used \in ReadLedger : Helper(h, [helper[h] EXCEPT !.pc = "consume", !.used = used])
  /\ UNCHANGED <<plan, expired, ledger, receipts, root, api, waiting, request, clock, history>>
\* ... and writes it with the last of the sorted nonces, not the newest.
LastOf(S) == {n \in S : Cardinality({m \in S : m > n}) < LedgerSize}
HelperConsume(h) ==
  /\ helper[h].pc = "consume"
  /\ \/ /\ ledger' = LastOf(helper[h].used \cup {helper[h].plan.nonce})
        /\ Helper(h, [helper[h] EXCEPT !.pc = "mark", !.used = {}])
     \/ UNCHANGED ledger /\ Helper(h, NoHelper)
  /\ UNCHANGED <<plan, expired, receipts, root, api, waiting, request, clock, history>>

HelperMark(h) ==
  /\ helper[h].pc = "mark"
  /\ \/ /\ ~ Filling
        /\ plan' = [helper[h].plan EXCEPT !.state = "IN_PROGRESS"]
        /\ Helper(h, [helper[h] EXCEPT !.pc = "delete"])
        /\ history' = [history EXCEPT ![helper[h].plan.nonce].begun = @ + 1,
                                      ![helper[h].plan.nonce].at = helper[h].at]
     \/ UNCHANGED <<plan, history>> /\ Helper(h, NoHelper)
  /\ UNCHANGED <<expired, ledger, receipts, root, api, waiting, request, clock>>

\* _delete_entry of the next entry; a missing one counts as deleted.
HelperDelete(h) ==
  LET next == helper[h].next IN
  /\ helper[h].pc = "delete"
  /\ \/ /\ next <= EntryCount
        /\ \/ root' = root \ {next} /\ Helper(h, [helper[h] EXCEPT !.next = @ + 1])
           \/ next \in root /\ UNCHANGED root /\ Helper(h, [helper[h] EXCEPT !.pc = "fail"])
     \/ next > EntryCount /\ UNCHANGED root /\ Helper(h, [helper[h] EXCEPT !.pc = "complete"])
  /\ UNCHANGED <<plan, expired, ledger, receipts, api, waiting, request, clock, history>>

Outcome(h) ==
  CASE helper[h].pc = "complete" -> "COMPLETED"
    [] helper[h].pc = "fail" /\ helper[h].next > 1 -> "PARTIALLY_COMPLETED"
    [] OTHER -> "FAILED"
HelperFinish(h) ==
  /\ helper[h].pc \in {"complete", "fail"}
  /\ \/ ~ Filling /\ plan' = [helper[h].plan EXCEPT !.state = Outcome(h)]
     \/ UNCHANGED plan
  /\ Helper(h, NoHelper)
  /\ UNCHANGED <<expired, ledger, receipts, root, api, waiting, request, clock, history>>
-----------------------------------------------------------------------------
(* The shell *)

\* stop(): the API is killed, with its requests, and a helper started if there is
\* a plan; none starts when it cannot be spawned or the power fails.
Stop ==
  /\ api /\ api' = FALSE /\ receipts' = {} /\ expired' = None
  /\ request' = [t \in Threads |-> Idle]
  /\ \/ UNCHANGED <<waiting, helper>>
     \/ /\ plan # None
        /\ \E h \in Helpers : /\ helper[h].pc = "idle" /\ waiting' = h
                             /\ Helper(h, [NoHelper EXCEPT !.pc = "validate"])
  /\ UNCHANGED <<plan, ledger, root, clock, history>>
HelperGone ==
  /\ waiting # None /\ helper[waiting].pc = "idle" /\ waiting' = None
  /\ UNCHANGED <<plan, expired, ledger, receipts, root, api, request, helper, clock, history>>
\* After 30 seconds the shell kills the helper it waits for; a power failure or the
\* user ends any.
KillHelper(h) ==
  /\ helper[h].pc # "idle" /\ Helper(h, NoHelper)
  /\ waiting' = IF waiting = h THEN None ELSE waiting
  /\ UNCHANGED <<plan, expired, ledger, receipts, root, api, request, clock, history>>
\* The shell is killed, and its lock released: the helper goes on.
ShellKilled ==
  /\ waiting # None /\ helper[waiting].pc # "idle" /\ waiting' = None
  /\ UNCHANGED <<plan, expired, ledger, receipts, root, api, request, helper, clock, history>>
\* A start creates its files again.
Start ==
  /\ ~ api /\ waiting = None /\ api' = TRUE /\ root' = Entries
  /\ UNCHANGED <<plan, expired, ledger, receipts, waiting, request, helper, clock, history>>
Tick ==
  /\ clock < MaxClock /\ clock' = clock + 1
  /\ UNCHANGED <<plan, expired, ledger, receipts, root, api, waiting, request, helper, history>>

RequestStep ==
  \/ \E t \in Threads : \/ ReadState(t, "status") \/ ReadState(t, "prepare") \/ WriteExpired(t)
                        \/ ReplaceExpired(t)
                        \/ \E n \in Nonces : OpenPlan(t, n)
                        \/ FillPlan(t) \/ RefusePrepare(t)
  \/ Cancel \/ CreateBackup
HelperStep ==
  \E h \in Helpers : \/ HelperValidate(h) \/ HelperCheck(h) \/ HelperMerge(h) \/ HelperConsume(h)
                     \/ HelperMark(h) \/ HelperDelete(h) \/ HelperFinish(h) \/ KillHelper(h)
ShellStep == Stop \/ HelperGone \/ ShellKilled \/ Start
Next == RequestStep \/ HelperStep \/ ShellStep \/ Tick
Spec == Init /\ [][Next]_vars
-----------------------------------------------------------------------------
TypeOK ==
  /\ plan \in DeletionPlan \cup {None, Torn} /\ expired \in DeletionPlan \cup {None}
  /\ ledger \subseteq Nonces /\ receipts \subseteq 0..MaxClock /\ root \subseteq Entries
  /\ api \in BOOLEAN /\ waiting \in Helpers \cup {None} /\ clock \in 0..MaxClock
  /\ request \in [Threads -> [pc : {"idle", "expire", "expireToPrepare", "replace", "replaceToPrepare",
                                    "prepare", "fill"},
                              seen : DeletionPlan \cup {None}]]
  /\ helper \in [Helpers -> [pc : {"idle", "validate", "check", "merge", "consume", "mark", "delete",
                                   "complete", "fail"},
                             plan : DeletionPlan \cup {None}, used : SUBSET Nonces,
                             next : 0..(EntryCount + 1), at : 0..MaxClock]]
  /\ history \in [Nonces -> [issued : BOOLEAN, backup : 0..MaxClock, prepared : 0..MaxClock, begun : Nat,
                             at : 0..MaxClock, shared : BOOLEAN]]

\* A plan deletes only when its helper validated it less than PLAN_TTL after its
\* preparation, and that came at most PLAN_TTL after the validation of a backup;
\* and it deletes at most once, also when the ledger was unreadable or has dropped
\* the nonce, unless one helper validated it while another had and had not yet
\* marked it. That happens when the shell is killed while it waits: its lock is
\* released, the next shell starts and stops, and nothing keeps its helper out.
ExecutedOnceAndBackedUp ==
  \A n \in Nonces : history[n].begun > 0 =>
    /\ history[n].begun = 1 \/ history[n].shared
    /\ history[n].at < history[n].prepared + TTL
    /\ history[n].prepared <= history[n].backup + TTL
=============================================================================
