------------------------------ MODULE DataReview ------------------------------
(***************************************************************************)
(* The review and application of imported course rows: the review service  *)
(* (services/data_review/engine.py), the course-state snapshots it builds  *)
(* (services/course_state/engine.py) and the requests that run them side   *)
(* by side in the API's thread pool on the local SQLite database.          *)
(*                                                                         *)
(* A request reads in autocommit mode until its first write, which takes   *)
(* SQLite's one write lock; what it loaded before is never read again      *)
(* (SessionLocal keeps it in its identity map).  So a request is modelled  *)
(* as a step that loads and a step that writes; an application writes row  *)
(* after row under the lock, and is undone as a whole when it fails.       *)
(*                                                                         *)
(* An import is a MyProgress page or a transcript.  Its rows are numbered  *)
(* in import order; a row's payload is reduced to the fields the service   *)
(* branches on.  Section rows and the rows that are only summarised        *)
(* (program, requirement groups) change nothing here and are left out, and *)
(* a dry run writes nothing and is no action.                              *)
(***************************************************************************)
EXTENDS Integers, FiniteSets, FiniteSetsExt

CONSTANTS
  Imports,        \* ids of data import runs
  Progress,       \* the imports that are MyProgress pages; the others are transcripts
  Verified,       \* MyProgress imports whose validation is AUTO_VERIFIED
  Complete,       \* imports with an exact program, requirements and no truncation
  Rows,           \* the imported course rows, as their positions
  ImportOf,       \* row -> its import
  Extracted,      \* row -> the payload the parser produced
  Edits,          \* row -> the payloads a reviewer may put in its place
  Candidates,     \* row -> courses proposed for it
  Mapped,         \* row -> the selected proposal, or NoCourse
  Courses, Codes, Terms, TermCodes, Grades, Supported, Nonpassing, Credits,
  Reviews,        \* ids of review sessions
  ReviewOf,       \* review session -> the import it reviews
  Requests,       \* the API's worker threads
  Decisions,      \* decisions the reviewer uses
  Seeded,         \* attempts of the seeded mock history
  Nothing,        \* the value of every absent field
  MaxUpdates      \* bound: decisions written in a behaviour

Statuses == {"COMPLETED", "IN_PROGRESS", "PLANNED", "NOT_STARTED", "UNKNOWN"}
Payload == [code : Codes \cup {Nothing}, status : Statuses, term : TermCodes,
            grade : Grades, credits : Credits \cup {Nothing}, flagged : BOOLEAN]
Decision == {"UNREVIEWED", "CONFIRMED", "REJECTED", "NEEDS_ADVISOR_REVIEW",
             "EDITED_AND_CONFIRMED", "DEFERRED"}
ApplyDecisions == {"CONFIRMED", "EDITED_AND_CONFIRMED"}
Attempt == [row : Rows \cup {Nothing}, snapshot : Imports \cup {Nothing},
            course : Courses, term : Terms, grade : Grades, credits : Credits,
            number : Nat \ {0}]

ASSUME ImportAssumption ==
  /\ Verified \subseteq Progress /\ Progress \subseteq Imports /\ Complete \subseteq Imports
  /\ Rows \subseteq Nat /\ ImportOf \in [Rows -> Imports] /\ ReviewOf \in [Reviews -> Imports]
ASSUME PayloadAssumption ==
  /\ Terms \subseteq TermCodes /\ Supported \subseteq Grades /\ Nonpassing \subseteq Grades
  /\ Extracted \in [Rows -> Payload] /\ Edits \in [Rows -> SUBSET Payload]
  /\ Mapped \in [Rows -> Courses \cup {Nothing}] /\ Candidates \in [Rows -> SUBSET Courses]
  /\ Decisions \subseteq Decision /\ MaxUpdates \in Nat
ASSUME SeedAssumption ==
  /\ Seeded \subseteq Attempt /\ IsFiniteSet(Seeded)
  /\ \A a, b \in Seeded : a.course = b.course /\ a.number = b.number => a = b
  /\ \A a \in Seeded : a.row = Nothing /\ a.snapshot = Nothing
ASSUME NothingAssumption ==
  /\ Nothing \notin Rows /\ Nothing \notin Imports /\ Nothing \notin Courses
  /\ Nothing \notin Codes /\ Nothing \notin Credits /\ Nothing \notin Reviews
  /\ Nothing \notin Requests /\ Nothing \notin Payload /\ Nothing \notin Attempt

VARIABLES
  review,     \* review session -> status, or Nothing before it is created
  entry,      \* review session -> row -> ImportedRecordReview
  request,    \* worker thread -> what its request loaded
  writer,     \* the request holding SQLite's write lock, or Nothing
  todo,       \* rows the writer still has to apply
  undo,       \* the course history when the writer took the lock (SQLite's journal)
  snapshot,   \* import -> CourseStateSnapshot, or Nothing
  state,      \* row -> CourseStateRecord of its import's snapshot, or Nothing
  attempts,   \* the StudentCourseAttempt rows of the student
  applied,    \* transcript rows with a successful AppliedImportedRecord
  updates     \* decisions written so far

reviews == <<review, entry>>
history == <<snapshot, state, attempts, applied>>
lock == <<writer, todo, undo>>
vars == <<reviews, request, lock, history, updates>>

ActiveStatus == {"IN_REVIEW", "READY_TO_APPLY"}
Entry == [decision : Decision, edit : Payload \cup {Nothing}, course : Courses \cup {Nothing}]
Snapshot == [active : BOOLEAN, planner : {"BLOCKED", "READY_WITH_WARNINGS"}]
State == [code : Codes \cup {Nothing}, status : Statuses, term : TermCodes,
          validity : {"RELIABLE", "EXTERNAL_EVIDENCE", "EXCEPTION"},
          attempt : Attempt \cup {Nothing}]
Request == [op : {"idle", "create", "update", "apply"}, review : Reviews \cup {Nothing},
            row : Rows \cup {Nothing}, allow : BOOLEAN,
            status : ActiveStatus \cup {"APPLIED", Nothing}, seen : [Rows -> Entry],
            reused : BOOLEAN]

History == [snapshot : [Imports -> Snapshot \cup {Nothing}], state : [Rows -> State \cup {Nothing}],
            attempts : SUBSET Attempt, applied : SUBSET Rows]

\* An absent record is told apart from every record.
ASSUME AbsenceAssumption == Nothing \notin Snapshot \cup State \cup History

Unreviewed == [row \in Rows |-> [decision |-> "UNREVIEWED", edit |-> Nothing, course |-> Mapped[row]]]
Idle == [op |-> "idle", review |-> Nothing, row |-> Nothing, allow |-> FALSE,
         status |-> Nothing, seen |-> Unreviewed, reused |-> FALSE]
RowsOf(i) == {row \in Rows : ImportOf[row] = i}
-----------------------------------------------------------------------------
Init ==
  /\ review = [v \in Reviews |-> Nothing] /\ entry = [v \in Reviews |-> Unreviewed]
  /\ request = [r \in Requests |-> Idle] /\ writer = Nothing /\ todo = {}
  /\ snapshot = [i \in Imports |-> Nothing] /\ state = [row \in Rows |-> Nothing]
  /\ attempts = Seeded /\ applied = {} /\ updates = 0
  /\ undo = Nothing

Receive(r, op, v, row, allow) ==
  /\ request[r].op = "idle"
  /\ request' = [request EXCEPT ![r] =
                   [op |-> op, review |-> v, row |-> row, allow |-> allow,
                    status |-> review[v], seen |-> entry[v], reused |-> FALSE]]
  /\ UNCHANGED <<reviews, lock, history, updates>>

Done(r) == request' = [request EXCEPT ![r] = Idle]

\* create_review_session finds no active session of the import.  The session
\* is `v` once it is inserted.
CheckCreate(r, v) ==
  /\ review[v] = Nothing
  /\ \A w \in Reviews : ReviewOf[w] = ReviewOf[v] => review[w] \notin ActiveStatus
  /\ Receive(r, "create", v, Nothing, FALSE)

\* It inserts the session with every row unreviewed: the parser marks every
\* row it produces as requiring review, so no row confirms itself.
CommitCreate(r) ==
  LET v == request[r].review IN
  /\ request[r].op = "create" /\ writer = Nothing
  /\ review[v] = Nothing      \* v is a fresh uuid
  /\ review' = [review EXCEPT ![v] = "IN_REVIEW"]
  /\ Done(r) /\ UNCHANGED <<entry, lock, history, updates>>

\* update_record_review loads the session and the row; no status refuses it.
LoadUpdate(r, v, row) ==
  /\ review[v] # Nothing /\ ImportOf[row] = ReviewOf[v] /\ updates < MaxUpdates
  /\ Receive(r, "update", v, row, FALSE)

\* _sync_review_status counts in the database: the session does not flush
\* before a query, so the decision being written is not counted yet.
Synced(v, seen) ==
  IF /\ \A row \in RowsOf(ReviewOf[v]) : seen[row].decision # "UNREVIEWED"
     /\ \E row \in RowsOf(ReviewOf[v]) : seen[row].decision \in ApplyDecisions
  THEN "READY_TO_APPLY" ELSE "IN_REVIEW"

\* The UPDATE statement names only the columns whose value differs from the
\* one loaded.
Written(loaded, new, current) == IF new = loaded THEN current ELSE new

CommitUpdate(r) ==
  LET q == request[r]  v == q.review  row == q.row  old == q.seen[row]  cur == entry[v][row] IN
  /\ q.op = "update" /\ writer = Nothing /\ updates < MaxUpdates
  /\ \E d \in Decisions, e \in Edits[row] \cup {Nothing}, c \in Candidates[row] \cup {old.course} :
       /\ d = "EDITED_AND_CONFIRMED" => e # Nothing
       /\ entry' = [entry EXCEPT ![v][row] =
                      [decision |-> Written(old.decision, d, cur.decision),
                       edit |-> Written(old.edit, e, cur.edit),
                       course |-> Written(old.course, c, cur.course)]]
  /\ review' = [review EXCEPT ![v] = Written(q.status, Synced(v, q.seen), @)]
  /\ updates' = updates + 1
  /\ Done(r) /\ UNCHANGED <<lock, history>>

\* apply_review_session loads the session and its row decisions, in any status.
LoadApply(r, v, allow) ==
  review[v] # Nothing /\ Receive(r, "apply", v, Nothing, allow)

\* Its first write, the application run, takes the lock; prepare_snapshot then
\* finds the import's snapshot or inserts one.  The status APPLYING is
\* overwritten before the commit and nobody else reads it.
LockApply(r) ==
  LET i == ReviewOf[request[r].review] IN
  /\ request[r].op = "apply" /\ writer = Nothing
  /\ writer' = r /\ todo' = RowsOf(i)
  /\ undo' = [snapshot |-> snapshot, state |-> state, attempts |-> attempts, applied |-> applied]
  /\ request' = [request EXCEPT ![r].reused = (snapshot[i] # Nothing)]
  /\ snapshot' = IF i \in Verified /\ snapshot[i] = Nothing
                 THEN [snapshot EXCEPT ![i] = [active |-> FALSE, planner |-> "BLOCKED"]]
                 ELSE snapshot
  /\ UNCHANGED <<reviews, state, attempts, applied, updates>>
-----------------------------------------------------------------------------
(* One row of an application, _build_application_result. *)

Reviewed(r, row) == LET e == request[r].seen[row] IN
  IF e.edit = Nothing THEN Extracted[row] ELSE e.edit
Accepted(r, row) == LET d == request[r].seen[row].decision IN
  d \in ApplyDecisions \/ (d = "NEEDS_ADVISOR_REVIEW" /\ request[r].allow)

\* The rows are applied in row order.
Turn(r, row) ==
  /\ writer = r /\ row \in todo /\ \A other \in todo : row <= other
  /\ todo' = todo \ {row}
  /\ UNCHANGED <<reviews, request, writer, undo, snapshot, updates>>

\* mutant: numbers the attempt by counting
NextNumberByCount(course) == Cardinality({b \in attempts : b.course = course}) + 1
NextNumber(course) == Max({0} \cup {a.number : a \in {b \in attempts : b.course = course}}) + 1
NewAttempt(row, snap, course, p) ==
  [row |-> row, snapshot |-> snap, course |-> course, term |-> p.term, grade |-> p.grade,
   credits |-> p.credits, number |-> NextNumber(course)]

\* mutant: a row that has a state is applied again
CourseStateAgain(r, row) ==
  ImportOf[row] \in Progress /\ Accepted(r, row) /\ snapshot[ImportOf[row]] # Nothing
\* CourseStateApplicationService.apply_record takes the rows that have no state yet.
CourseState(r, row) ==
  /\ ImportOf[row] \in Progress /\ Accepted(r, row)
  /\ snapshot[ImportOf[row]] # Nothing /\ state[row] = Nothing

Same(row, code) == {other \in RowsOf(ImportOf[row]) :
                      code # Nothing /\ state[other] # Nothing /\ state[other].code = code}
\* mutant: only the term is compared
ConflictsByTerm(row, p) == \E other \in Same(row, p.code) : state[other].term # p.term
Conflicts(row, p) == \E other \in Same(row, p.code) :
                        state[other].status # p.status \/ state[other].term # p.term
Unusable(p) == p.flagged \/ p.status = "UNKNOWN"
Countable(p, course) ==
  /\ p.status \in {"COMPLETED", "IN_PROGRESS", "PLANNED"}
  /\ course # Nothing /\ p.term \in Terms /\ p.credits # Nothing
Contradictory(p) == p.status = "COMPLETED" /\ p.grade \in Nonpassing

StateOf(p, validity, attempt) ==
  [code |-> p.code, status |-> p.status, term |-> p.term, validity |-> validity, attempt |-> attempt]
Record(row, p, validity) ==
  /\ state' = [state EXCEPT ![row] = StateOf(p, validity, Nothing)]
  /\ UNCHANGED <<attempts, applied>>
\* mutant: the link to the deleted attempt stays
WithdrawnLinked(s) == [s EXCEPT !.validity = "EXCEPTION"]
Withdrawn(s) == [s EXCEPT !.validity = "EXCEPTION", !.attempt = Nothing]

\* A row of the same course with another status or term: all of them become
\* exceptions, and the attempts they had are deleted.
ApplyConflict(r, row) ==
  LET p == Reviewed(r, row)  same == Same(row, p.code) IN
  /\ CourseState(r, row) /\ Conflicts(row, p)
  /\ state' = [other \in Rows |->
                 IF other = row THEN StateOf(p, "EXCEPTION", Nothing)
                 ELSE IF other \in same THEN Withdrawn(state[other]) ELSE state[other]]
  /\ attempts' = attempts \ {state[other].attempt : other \in same}
  /\ Turn(r, row) /\ UNCHANGED applied

ApplyException(r, row) ==
  LET p == Reviewed(r, row)  course == request[r].seen[row].course IN
  /\ CourseState(r, row) /\ ~Conflicts(row, p)
  /\ \/ Unusable(p)
     \/ Same(row, p.code) = {} /\ Countable(p, course) /\ Contradictory(p)
  /\ Record(row, p, "EXCEPTION") /\ Turn(r, row)

ApplyDuplicate(r, row) ==
  LET p == Reviewed(r, row) IN
  /\ CourseState(r, row) /\ ~Conflicts(row, p)
  /\ ~Unusable(p) /\ Same(row, p.code) # {}
  /\ Record(row, p, "RELIABLE") /\ Turn(r, row)

\* A requirement option, or a course the catalog, the terms or the credits do
\* not confirm: kept without an attempt.
ApplyEvidence(r, row) ==
  LET p == Reviewed(r, row)  course == request[r].seen[row].course IN
  /\ CourseState(r, row) /\ ~Unusable(p) /\ Same(row, p.code) = {} /\ ~Countable(p, course)
  /\ Record(row, p, IF p.status = "NOT_STARTED" /\ course # Nothing
                    THEN "RELIABLE" ELSE "EXTERNAL_EVIDENCE")
  /\ Turn(r, row)

ApplyHistory(r, row) ==
  LET p == Reviewed(r, row)  course == request[r].seen[row].course
      a == NewAttempt(row, ImportOf[row], course, p) IN
  /\ CourseState(r, row) /\ ~Unusable(p) /\ Same(row, p.code) = {}
  /\ Countable(p, course) /\ ~Contradictory(p)
  /\ attempts' = attempts \cup {a}
  /\ state' = [state EXCEPT ![row] = StateOf(p, "RELIABLE", a)]
  /\ Turn(r, row) /\ UNCHANGED applied

\* A transcript row: applied at most once by any session, never beside an equal
\* attempt, and always to the mapping the importer selected.
NewTranscriptRow(r, row) ==
  LET p == Reviewed(r, row) IN
  /\ ImportOf[row] \notin Progress /\ Accepted(r, row) /\ row \notin applied
  /\ Mapped[row] # Nothing /\ p.term \in Terms /\ p.grade \in Supported /\ p.credits # Nothing
  /\ \A a \in attempts : ~(/\ a.course = Mapped[row] /\ a.term = p.term
                           /\ a.grade = p.grade /\ a.credits = p.credits)

ApplyTranscript(r, row) ==
  /\ NewTranscriptRow(r, row)
  /\ attempts' = attempts \cup {NewAttempt(row, Nothing, Mapped[row], Reviewed(r, row))}
  /\ applied' = applied \cup {row}
  /\ Turn(r, row) /\ UNCHANGED state

\* Every other row is logged with its reason and changes no course history.
SkipRow(r, row) ==
  /\ ~CourseState(r, row) /\ ~NewTranscriptRow(r, row)
  /\ Turn(r, row) /\ UNCHANGED <<state, attempts, applied>>
-----------------------------------------------------------------------------
\* finalize_snapshot, for a snapshot this application inserted: its readiness,
\* and whether it replaces the student's active snapshot.
Exceptions(i) == {row \in RowsOf(i) : Extracted[row].flagged
                    \/ (state[row] # Nothing /\ state[row].validity = "EXCEPTION")}
Reliable(i) == {row \in RowsOf(i) : state[row] # Nothing /\ state[row].attempt # Nothing}
Planner(i) == IF i \in Complete /\ Reliable(i) # {} /\ Exceptions(i) = {}
              THEN "READY_WITH_WARNINGS" ELSE "BLOCKED"
\* mutant: the current snapshot stays active
FinalizedBeside(i) ==
  [snapshot EXCEPT ![i] = [active |-> Reliable(i) # {}, planner |-> Planner(i)]]
\* mutant: the current snapshot is deactivated before the new one is looked at
FinalizedFirst(i) ==
  [j \in Imports |->
     IF j = i THEN [active |-> Reliable(i) # {}, planner |-> Planner(i)]
     ELSE IF snapshot[j] # Nothing THEN [active |-> FALSE, planner |-> snapshot[j].planner]
     ELSE Nothing]
Finalized(i) ==
  [j \in Imports |->
     IF j = i THEN [active |-> Reliable(i) # {}, planner |-> Planner(i)]
     ELSE IF snapshot[j] # Nothing /\ Reliable(i) # {}
     THEN [active |-> FALSE, planner |-> snapshot[j].planner]
     ELSE snapshot[j]]

FinishApply(r) ==
  LET v == request[r].review  i == ReviewOf[v] IN
  /\ writer = r /\ todo = {}
  /\ snapshot' = IF snapshot[i] # Nothing /\ ~request[r].reused THEN Finalized(i) ELSE snapshot
  /\ review' = [review EXCEPT ![v] = "APPLIED"]
  /\ writer' = Nothing /\ undo' = Nothing /\ Done(r)
  /\ UNCHANGED <<entry, todo, state, attempts, applied, updates>>

\* A request fails, the lock cannot be had in time, or the process dies: what
\* the request wrote is rolled back.
Abort(r) ==
  /\ request[r].op # "idle" /\ Done(r)
  /\ IF writer = r
     THEN /\ snapshot' = undo.snapshot /\ state' = undo.state
          /\ attempts' = undo.attempts /\ applied' = undo.applied
          /\ writer' = Nothing /\ todo' = {} /\ undo' = Nothing
     ELSE UNCHANGED <<lock, history>>
  /\ UNCHANGED <<reviews, updates>>

ApplyRow(r, row) ==
  \/ ApplyConflict(r, row) \/ ApplyException(r, row) \/ ApplyDuplicate(r, row)
  \/ ApplyEvidence(r, row) \/ ApplyHistory(r, row) \/ ApplyTranscript(r, row)
  \/ SkipRow(r, row)

Next == \E r \in Requests :
  \/ \E v \in Reviews : \/ CheckCreate(r, v)
                        \/ \E row \in Rows : LoadUpdate(r, v, row)
                        \/ \E allow \in BOOLEAN : LoadApply(r, v, allow)
  \/ CommitCreate(r) \/ CommitUpdate(r) \/ LockApply(r)
  \/ \E row \in Rows : ApplyRow(r, row)
  \/ FinishApply(r) \/ Abort(r)

Spec == Init /\ [][Next]_vars
-----------------------------------------------------------------------------
(* Properties *)

\* Every variable keeps its shape, in the writer's transaction and in what a
\* rollback restores.
TypeOK ==
  /\ review \in [Reviews -> ActiveStatus \cup {"APPLIED", Nothing}]
  /\ entry \in [Reviews -> [Rows -> Entry]]
  /\ request \in [Requests -> Request]
  /\ writer \in Requests \cup {Nothing} /\ todo \in SUBSET Rows
  /\ undo \in History \cup {Nothing} /\ (undo = Nothing <=> writer = Nothing)
  /\ snapshot \in [Imports -> Snapshot \cup {Nothing}]
  /\ state \in [Rows -> State \cup {Nothing}]
  /\ attempts \in SUBSET Attempt /\ applied \in SUBSET Rows
  /\ updates \in 0..MaxUpdates

\* However often and by whatever sessions its import is reviewed, edited and
\* applied, an imported row has at most one course attempt.
AppliedOnce == \A a, b \in attempts : a.row # Nothing /\ a.row = b.row => a = b

\* Rows of a snapshot that give one course code different statuses or terms are
\* all exceptions without an attempt, and of the rows of one code at most one
\* has an attempt, whatever the order in which the rows were reviewed.
ConflictsExcluded ==
  \A x, y \in Rows :
    LET s == state[x]  t == state[y] IN
    (/\ x # y /\ ImportOf[x] = ImportOf[y] /\ s # Nothing /\ t # Nothing
     /\ s.code = t.code /\ s.code # Nothing) =>
      /\ (s.status # t.status \/ s.term # t.term) =>
           s.validity = "EXCEPTION" /\ s.attempt = Nothing
      /\ s.attempt = Nothing \/ t.attempt = Nothing

\* An attempt of a snapshot is the attempt of its row's reliable state, and the
\* attempt of a state exists: a withdrawn attempt leaves no orphan behind and
\* an exception row never keeps one.
HistoryTraceable ==
  /\ \A a \in attempts : a.snapshot # Nothing =>
       a.row # Nothing /\ state[a.row] # Nothing /\ state[a.row].attempt = a
  /\ \A row \in Rows : (state[row] # Nothing /\ state[row].attempt # Nothing) =>
       /\ state[row].attempt \in attempts /\ state[row].attempt.row = row
       /\ state[row].validity = "RELIABLE"

\* uq_student_course_attempts_student_course_attempt: attempts of a course have
\* different numbers, also after a conflict deleted some of them.
AttemptNumbersUnique ==
  \A a, b \in attempts : a.course = b.course /\ a.number = b.number => a = b

Active == {i \in Imports : snapshot[i] # Nothing /\ snapshot[i].active}

\* At most one snapshot is active, and only one of a verified import whose
\* every counted course was applied to it.
OneActiveSnapshot ==
  /\ \A i, j \in Active : i = j
  /\ Active \subseteq Verified

\* Once a snapshot is active, no application, failure or rollback leaves the
\* student without one: the seeded mock history never comes back.
ActiveNeverLost == [][Active # {} => Active' # {}]_vars

\* What another request, or the next start, reads of the course rows.
Committed == IF writer = Nothing
             THEN [snapshot |-> snapshot, state |-> state, attempts |-> attempts, applied |-> applied]
             ELSE undo
StandingOf(row) ==
  LET s == Committed.state[row] IN
  IF s = Nothing THEN (IF row \in Committed.applied THEN "history" ELSE "staged")
  ELSE IF s.validity = "EXCEPTION" THEN "exception"
  ELSE IF s.attempt # Nothing THEN "history" ELSE "evidence"
Ledger == INSTANCE CourseLedger WITH ledger <- [row \in Rows |-> StandingOf(row)]

\* The committed rows implement the ledger: a row leaves the staging area only
\* by an application, and moves afterwards only to an exception.
LedgerSpec == Ledger!Spec
-----------------------------------------------------------------------------
(* What the documents say and the code does not do *)

\* docs/DOMAIN_RULES.md: "A bounded/truncated source or critical exception
\* blocks the long-term planner."  The readiness is computed once, when the
\* snapshot is new; rows applied to it later are not counted.
PlannerBlockedByExceptions ==
  writer = Nothing =>
    \A i \in Active : Exceptions(i) # {} => snapshot[i].planner = "BLOCKED"
=============================================================================
