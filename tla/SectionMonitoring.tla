-------------------------- MODULE SectionMonitoring --------------------------
(***************************************************************************)
(* Section monitoring of one student (section_monitoring/engine.py and its *)
(* handlers in api/v1/academic.py): targets, imported snapshots, and the   *)
(* alerts drawn from two snapshots of one section.                         *)
(*                                                                         *)
(* A section stands for course, section and term code. A content is what   *)
(* the hash of a snapshot covers: its status, the other compared fields    *)
(* and the raw payload. A snapshot is named by its place in the table; its *)
(* id is random, so among snapshots of one time the order is any.          *)
(***************************************************************************)
EXTENDS Integers, Sequences, FiniteSets, SequencesExt

CONSTANTS
  Sections,
  Contents,   \* [status, values : [Fields -> value], raw]
  Fields,     \* seats, waitlist, meeting time, instructor, location
  Payloads,   \* what a request may carry
  MaxStored,  \* bound on the table of snapshots
  MaxBatch,   \* snapshots of one request
  MaxClock,
  None        \* an absent value; a target id that does not exist

VARIABLES
  targets,    \* of each section: the status its target shows, or None without one
  snapshots,  \* the table, in the order of insertion
  alerts,     \* set of alerts
  clock

vars == <<targets, snapshots, alerts, clock>>

Ids == 1..MaxBatch   \* ids of the snapshots of one section and time, by their order
Snapshot == [section : Sections, target : Sections, content : Contents, at : 0..MaxClock, id : Ids]
Payload == [section : Sections, content : Contents, target : {"own", "other", "unknown"}, id : Ids]
Batches == UNION {[1..n -> Payloads] : n \in 1..MaxBatch}
\* A target that is there has a status.
MonitoringAssumption ==
  /\ Payloads \subseteq Payload /\ MaxClock \in Nat
  /\ None # "none" /\ \A c \in Contents : c.status # None

Init ==
  /\ targets = [s \in Sections |-> None] /\ snapshots = <<>> /\ alerts = {} /\ clock = 0

\* alert_specs: type and field of each alert. UNKNOWN_CHANGE is the last resort.
StatusType(old, new) ==
  CASE old = "CLOSED" /\ new = "OPEN" -> "SECTION_OPENED"
    [] old = "OPEN" /\ new = "CLOSED" -> "SECTION_CLOSED"
    [] OTHER -> "STATUS_CHANGED"
alert_specs(old, new) ==
  LET status == IF old.status = new.status THEN {}
                ELSE {<<StatusType(old.status, new.status), "status">>}
      others == {<<"CHANGED", f>> : f \in {g \in Fields : old.values[g] # new.values[g]}}
  IN IF status \cup others = {} /\ old.raw # new.raw THEN {<<"UNKNOWN_CHANGE", "raw_payload">>}
     ELSE status \cup others

\* mutant: the previous snapshot of any section
previous_snapshotOfAny(table, i) ==
  LET others == DOMAIN table \ {i}
      Later(a, b) == table[a].at > table[b].at \/ (table[a].at = table[b].at /\ table[a].id > table[b].id)
  IN {j \in others : \A k \in others : ~ Later(k, j)}
\* _previous_snapshot: the last of its section by time, then id, that is not itself
previous_snapshot(table, i) ==
  LET others == {j \in DOMAIN table : j # i /\ table[j].section = table[i].section}
      Later(a, b) == table[a].at > table[b].at \/ (table[a].at = table[b].at /\ table[a].id > table[b].id)
  IN {j \in others : \A k \in others : ~ Later(k, j)}
-----------------------------------------------------------------------------
Tables == [targets |-> targets, snapshots |-> snapshots, alerts |-> alerts]
Failed == [Tables EXCEPT !.snapshots = None]

\* mutant: a snapshot is known when it is the last one of its section
KnownLast(t, p) ==
  \E i \in DOMAIN t.snapshots :
    /\ t.snapshots[i].section = p.section /\ t.snapshots[i].content = p.content
    /\ \A j \in DOMAIN t.snapshots : t.snapshots[j].section = p.section => j <= i
\* The hash is looked up among all snapshots of the section.
Known(t, p) ==
  \E i \in DOMAIN t.snapshots :
    t.snapshots[i].section = p.section /\ t.snapshots[i].content = p.content

\* _resolve_target: the one named, whatever its section is; else the section's own,
\* created when there is none
resolve_target(t, p) ==
  CASE p.target = "own" -> p.section
    [] p.target = "other" /\ (\E s \in Sections : s # p.section /\ t.targets[s] # None) ->
         CHOOSE s \in Sections : s # p.section /\ t.targets[s] # None
    [] OTHER -> None
\* A stored status overwrites that of the target.
Retarget(t, s, content) ==
  [t.targets EXCEPT ![s] = IF content.status # "none" THEN content.status
                           ELSE IF @ = None THEN "none" ELSE @]

\* _store_snapshot of a new payload, and _create_alerts of the pair
store_snapshot(t, p) ==
  LET s == resolve_target(t, p)
      table == Append(t.snapshots, [section |-> p.section, target |-> s, content |-> p.content,
                                    at |-> clock, id |-> p.id])
      i == Len(table)
      raised == UNION {{[target |-> s, previous |-> j, current |-> i, spec |-> spec, seen |-> FALSE] :
                         spec \in alert_specs(table[j].content, p.content)} : j \in previous_snapshot(table, i)}
  IN IF s = None THEN Failed
     ELSE [targets |-> Retarget(t, s, p.content), snapshots |-> table, alerts |-> t.alerts \cup raised]

\* One payload of a request; an earlier one may have failed it.
CompareOne(t, p) ==
  IF t.snapshots = None \/ (t.snapshots # None /\ Known(t, p)) THEN t ELSE store_snapshot(t, p)

\* Ids are unique.
FreshIds(t) ==
  \A i, j \in DOMAIN t.snapshots :
    i # j /\ t.snapshots[i].section = t.snapshots[j].section /\ t.snapshots[i].at = t.snapshots[j].at
      => t.snapshots[i].id # t.snapshots[j].id

\* compare_snapshots: one transaction, committed when every payload was accepted
compare_snapshots(batch) ==
  LET t == FoldLeft(CompareOne, Tables, batch)
  IN /\ t.snapshots # None /\ Len(t.snapshots) <= MaxStored /\ FreshIds(t)
     /\ targets' = t.targets /\ snapshots' = t.snapshots /\ alerts' = t.alerts
     /\ UNCHANGED clock
compare_refused(batch) ==
  /\ FoldLeft(CompareOne, Tables, batch).snapshots = None
  /\ UNCHANGED vars

\* create_target; a second one of the section is refused.
create_target(s) ==
  /\ targets[s] = None
  /\ targets' = [targets EXCEPT ![s] = "none"]
  /\ UNCHANGED <<snapshots, alerts, clock>>
\* update_target, edited by the student; is_active, title and instructor are read by
\* no comparison and left out.
update_target(s) ==
  /\ targets[s] # None
  /\ \E c \in Contents : targets' = [targets EXCEPT ![s] = c.status]
  /\ UNCHANGED <<snapshots, alerts, clock>>
acknowledge_alert(a) ==
  /\ alerts' = (alerts \ {a}) \cup {[a EXCEPT !.seen = ~ @]}
  /\ UNCHANGED <<targets, snapshots, clock>>
Tick ==
  /\ clock < MaxClock /\ clock' = clock + 1
  /\ UNCHANGED <<targets, snapshots, alerts>>

Next ==
  \/ \E batch \in Batches : compare_snapshots(batch) \/ compare_refused(batch)
  \/ \E s \in Sections : create_target(s) \/ update_target(s)
  \/ \E a \in alerts : acknowledge_alert(a)
  \/ Tick
Spec == Init /\ [][Next]_vars
-----------------------------------------------------------------------------
\* The rows that the tables accept (models/academic.py): a target with a status, a
\* hash once in a section, an alert once between two snapshots
SectionMonitorTarget == {None, "none"} \cup {c.status : c \in Contents}
SectionMonitorSnapshots(table) ==
  /\ \A i \in DOMAIN table : table[i] \in Snapshot
  /\ \A i, j \in DOMAIN table :
       table[i].section = table[j].section /\ table[i].content = table[j].content => i = j
SectionMonitorAlerts(rows) ==
  \A a, b \in rows :
    <<a.previous, a.current, a.spec>> = <<b.previous, b.current, b.spec>> => a = b
TypeOK ==
  /\ targets \in [Sections -> SectionMonitorTarget] /\ clock \in 0..MaxClock
  /\ SectionMonitorSnapshots(snapshots) /\ SectionMonitorAlerts(alerts)
  /\ \A a \in alerts : targets[a.target] # None

Earlier(i) == {j \in 1..(i - 1) : snapshots[j].section = snapshots[i].section}

\* A snapshot stored later than every other of its section has exactly the alerts
\* of the changes since the one before it, under the target it was stored with,
\* acknowledged or not; the first of a section has none, no alert compares two
\* sections, and nothing that a refused request began is left.
AlertsTellTheChange ==
  \A i \in DOMAIN snapshots :
    LET raised == {a \in alerts : a.current = i}
    IN /\ \A a \in raised : a.previous \in Earlier(i) /\ a.target = snapshots[i].target
       /\ \A j \in Earlier(i) :
            (\A k \in Earlier(i) : k # j => snapshots[k].at < snapshots[j].at)
              => {a.spec : a \in raised} = alert_specs(snapshots[j].content, snapshots[i].content)
=============================================================================
