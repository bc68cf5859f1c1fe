---------------------------- MODULE SectionImports ----------------------------
(***************************************************************************)
(* Imported section schedules: staging (services/data_imports/engine.py)   *)
(* and the application of reviewed rows to the sections and meetings the   *)
(* schedule search reads (_section_application_result and its helpers in   *)
(* services/data_review/engine.py).                                        *)
(*                                                                         *)
(* The sessions and their races are DataReview's; here every run has one   *)
(* session. A request that applies it loads the decisions, then waits for  *)
(* SQLite's write lock; the rest is one transaction. Status, modality,     *)
(* title and the like are copied as they come and left out, and so is the  *)
(* dry run, which writes nothing.                                          *)
(***************************************************************************)
EXTENDS Integers, Sequences, FiniteSets, TLC, SequencesExt

CONSTANTS
  Threads,
  Uploads,    \* run -> [student, source, named, size, rows]
  Decisions,  \* decisions the reviewer uses
  Edits,      \* what a reviewer may put over the fields of a row
  Catalog,    \* courses of the student's institution
  Terms,      \* its terms
  OtherTerms, \* terms of other institutions
  Campuses,
  Existing,   \* sections that are there before: key -> section
  MaxBytes,   \* MAX_IMPORT_CONTENT_BYTES; the extension may send eight times that
  MaxSteps,   \* bound: decisions and applications in a behaviour
  None        \* an absent value

VARIABLES
  staged,    \* run -> its staged rows and summary, or None
  entry,     \* run -> row -> decision and edit
  loaded,    \* thread -> the run it applies and the decisions it has read, or None
  sections,  \* key -> section
  wanted,    \* key -> meetings of the rows applied since the last complete one (history)
  steps

vars == <<staged, entry, loaded, sections, wanted, steps>>

Runs == DOMAIN Uploads
Keys == DOMAIN Existing
RowsOf(run) == Uploads[run].rows
Imported == {"BROWSER_EXTENSION", "IMPORTED"}
\* A section that is not there
NoSection == [source |-> None, official |-> FALSE, campus |-> None, meetings |-> {}]
\* The rows of a run are a sequence, a key has one section, and no meeting of it ends
\* before it starts.
ImportsAssumption ==
  /\ MaxSteps \in Nat /\ Existing = [k \in Keys |-> Existing[k]]
  /\ \A run \in Runs : Len(RowsOf(run)) \in Nat /\ DOMAIN RowsOf(run) = 1..Len(RowsOf(run))
  /\ \A k \in Keys : \A m \in Existing[k].meetings : m.at[2] = None \/ m.at[3] = None \/ m.at[2] < m.at[3]
Unreviewed(run) == [n \in DOMAIN RowsOf(run) |-> [decision |-> "UNREVIEWED", edit |-> <<>>]]
-----------------------------------------------------------------------------
(* Staging *)

\* _validate_import_request; the API answers an error and stores nothing
Refused(u) ==
  \/ ~ u.student \/ u.source = "OFFICIAL" \/ ~ u.named \/ u.size = 0
  \/ u.size > (IF u.source = "BROWSER_EXTENSION" THEN 8 * MaxBytes ELSE MaxBytes)

\* _record_status, then what the match of the course makes of it
record_status(row) ==
  CASE row.course = None -> "INVALID"
    [] row.course \notin Catalog -> "AMBIGUOUS"
    [] row.state = "FAILED" -> "INVALID"
    [] OTHER -> "VALID_WITH_WARNINGS"
\* _persist_mapping_candidates: the course a row is mapped to
selected_course(row) == IF row.course \in Catalog THEN row.course ELSE None
\* _persist_section_term_candidate looks among the terms of every institution.
term_candidate(row) == IF row.term \in Terms \cup OtherTerms THEN row.term ELSE None
\* _add_warning, by code; a term is only looked at beside a known course
Warnings(row) ==
  CASE row.course = None -> {"MISSING_COURSE_CODE"}
    [] row.course \notin Catalog -> {"UNMATCHED_COURSE_CODE"}
    [] row.term # None /\ term_candidate(row) = None -> {"UNMATCHED_TERM_CODE"}
    [] OTHER -> {}

\* _record_count and _persist_preview. The run itself carries a warning that it is
\* only staged, and one more when it has no row.
Summary(rows) ==
  LET With(statuses) == {n \in DOMAIN rows : record_status(rows[n]) \in statuses} IN
  [records |-> Len(rows), valid |-> Cardinality(With({"VALID_WITH_WARNINGS"})),
   errors |-> Cardinality(With({"INVALID"})),
   warnings |-> (IF rows = <<>> THEN 2 ELSE 1) + Cardinality({n \in DOMAIN rows : Warnings(rows[n]) # {}})]

\* create_import: one transaction
Stage(run) ==
  /\ staged[run] = None /\ ~ Refused(Uploads[run])
  /\ staged' = [staged EXCEPT ![run] =
       [rows |-> [n \in DOMAIN RowsOf(run) |->
          [status |-> record_status(RowsOf(run)[n]), course |-> selected_course(RowsOf(run)[n]),
           term |-> term_candidate(RowsOf(run)[n])]],
        summary |-> Summary(RowsOf(run))]]
  /\ UNCHANGED <<entry, loaded, sections, wanted, steps>>
-----------------------------------------------------------------------------
(* The meetings of a section *)

\* A line of a row meets on each day it names; one without a known day stands for no day.
days(line) == IF line.days = {} THEN {None} ELSE line.days
desired(p) == UNION {{[n |-> n, day |-> day] : day \in days(p.meetings[n])} : n \in DOMAIN p.meetings}
\* identity: what a stored meeting is matched by; the room is no part of it
identity(p, d) ==
  LET line == p.meetings[d.n] IN <<d.day, line.start, line.end, line.place>>
identities(p) == {identity(p, d) : d \in desired(p)}

\* is_arranged and is_online excuse from the check constraint that a meeting has a time.
Storable(p, d) ==
  LET line == p.meetings[d.n] IN
  /\ \/ line.timeless
     \/ d.day = None /\ line.start = None /\ line.end = None
     \/ d.day # None /\ line.start # None /\ line.end # None
  /\ line.start = None \/ line.end = None \/ line.start < line.end

\* _apply_section_meetings: a line is new when no meeting that was there before the row
\* has its identity; a complete row ends the earlier meetings it does not name. All
\* meetings of an imported section are imported, so the filter on their source keeps all.
added(before, p) == {d \in desired(p) : \A m \in before : m.at # identity(p, d)}
\* mutant: every row ends the meetings it does not name
apply_section_meetingsWhole(before, p, run, n) ==
  {m \in before : m.at \in identities(p)} \cup
  {[at |-> identity(p, d), room |-> p.meetings[d.n].room, from |-> <<run, n, d>>] : d \in added(before, p)}
apply_section_meetings(before, p, run, n) ==
  {m \in before : p.completeness = "COMPLETE" => m.at \in identities(p)} \cup
  {[at |-> identity(p, d), room |-> p.meetings[d.n].room, from |-> <<run, n, d>>] : d \in added(before, p)}
-----------------------------------------------------------------------------
(* One row of an application *)

review_payload(run, n, e) == e.edit @@ RowsOf(run)[n]
Key(run, n, p) == <<selected_course(RowsOf(run)[n]), p.term, p.code>>
\* Official, mock and foreign sections are never overwritten.
Protected(s) == s.source # None /\ (s.official \/ s.source \notin Imported)

\* _build_application_result and the refusals of _section_application_result. The course
\* is the one selected at the import, not the one the review selected.
Applies(tables, run, n, e, allow) ==
  LET p == review_payload(run, n, e) IN
  /\ \/ e.decision \in {"CONFIRMED", "EDITED_AND_CONFIRMED"}
     \/ e.decision = "NEEDS_ADVISOR_REVIEW" /\ allow
  /\ p.state # "FAILED" /\ p.completeness # "UNCERTAIN"
  /\ selected_course(RowsOf(run)[n]) # None
  /\ p.term \in Terms /\ p.campus \in Campuses /\ p.code # None
  /\ ~ Protected(tables.sections[Key(run, n, p)])
\* The section is created, or takes the fields of the row; its source stays.
Updated(tables, run, n, p) ==
  LET key == Key(run, n, p)  old == tables.sections[key] IN
  [source |-> IF old = NoSection THEN "BROWSER_EXTENSION" ELSE old.source, official |-> FALSE, campus |-> p.campus,
   meetings |-> apply_section_meetings(old.meetings, p, run, n)]

\* The flush after a row fails on a meeting without a time, and with it the application.
ApplyRow(tables, run, n, e, allow) ==
  LET p == review_payload(run, n, e)  key == Key(run, n, p) IN
  CASE tables = None -> None
    [] tables # None /\ ~ Applies(tables, run, n, e, allow) -> tables
    [] OTHER ->
         IF \A d \in added(tables.sections[key].meetings, p) : Storable(p, d)
         THEN [sections |-> [tables.sections EXCEPT ![key] = Updated(tables, run, n, p)],
               wanted |-> [tables.wanted EXCEPT ![key] =
                  identities(p) \cup (IF p.completeness = "COMPLETE" THEN {} ELSE @)]]
         ELSE None
-----------------------------------------------------------------------------
Init ==
  /\ staged = [run \in Runs |-> None] /\ entry = [run \in Runs |-> Unreviewed(run)]
  /\ loaded = [t \in Threads |-> None] /\ steps = 0
  /\ sections = Existing
  /\ wanted = [k \in Keys |-> {m.at : m \in Existing[k].meetings}]

\* update_record_review
Decide(run, n) ==
  /\ staged[run] # None /\ steps < MaxSteps
  /\ \E d \in Decisions, edit \in Edits \cup {<<>>} :
       /\ d = "EDITED_AND_CONFIRMED" => edit # <<>>
       /\ entry' = [entry EXCEPT ![run][n] = [decision |-> d, edit |-> edit]]
  /\ steps' = steps + 1
  /\ UNCHANGED <<staged, loaded, sections, wanted>>

Load(t, run, allow) ==
  /\ loaded[t] = None /\ staged[run] # None /\ steps < MaxSteps
  /\ loaded' = [loaded EXCEPT ![t] = [run |-> run, entry |-> entry[run], allow |-> allow]]
  /\ steps' = steps + 1
  /\ UNCHANGED <<staged, entry, sections, wanted>>

\* The rows of the run, in their order, with the decisions that were loaded
Outcome(q) ==
  FoldLeft(LAMBDA tables, n : ApplyRow(tables, q.run, n, q.entry[n], q.allow),
           [sections |-> sections, wanted |-> wanted], [n \in DOMAIN RowsOf(q.run) |-> n])
Apply(t) ==
  /\ loaded[t] # None
  /\ loaded' = [loaded EXCEPT ![t] = None]
  /\ LET tables == Outcome(loaded[t]) IN
     IF tables = None THEN UNCHANGED <<sections, wanted>>
     ELSE sections' = tables.sections /\ wanted' = tables.wanted
  /\ UNCHANGED <<staged, entry, steps>>

Next ==
  \/ \E run \in Runs : Stage(run) \/ (\E n \in DOMAIN RowsOf(run) : Decide(run, n))
  \/ \E t \in Threads : Apply(t) \/ (\E run \in Runs, allow \in BOOLEAN : Load(t, run, allow))

Spec == Init /\ [][Next]_vars
-----------------------------------------------------------------------------
\* The rows these steps store: a summary that counts the run's rows, one section per key,
\* and no meeting that the check constraints of section_meetings refuse.
TypeOK ==
  /\ \A run \in Runs : staged[run] # None =>
       /\ Len(staged[run].rows) = staged[run].summary.records
       /\ staged[run].summary.valid + staged[run].summary.errors <= staged[run].summary.records
  /\ DOMAIN sections = Keys /\ DOMAIN wanted = Keys
  /\ \A k \in Keys : \A m \in sections[k].meetings :
       m.at[2] = None \/ m.at[3] = None \/ m.at[2] < m.at[3]
  /\ steps \in 0..MaxSteps

\* However reviewed rows are edited, repeated and applied side by side, an imported section
\* meets as the rows say that were applied to it since its last complete row, and
\* official, mock and foreign sections stay as they are.
SectionsFollowTheirRows ==
  \A k \in Keys :
    IF Protected(Existing[k]) THEN sections[k] = Existing[k]
    ELSE {m.at : m \in sections[k].meetings} = wanted[k]
=============================================================================
