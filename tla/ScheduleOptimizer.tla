-------------------------- MODULE ScheduleOptimizer --------------------------
(***************************************************************************)
(* One schedule request: ScheduleOptimizerApplicationService               *)
(* .create_schedule with its validations, _candidate_courses,              *)
(* _section_groups, the bounded search of _build_options, the ranking of   *)
(* _select_ranked_options and _repair_suggestions.                         *)
(*                                                                         *)
(* The request is one transaction of one session: "session" is what it has *)
(* flushed, "db" what is committed of the run. Any step may raise, and the *)
(* process may die between two steps. A step of the search is one complete *)
(* combination, a step of the ranking one option.                          *)
(***************************************************************************)
EXTENDS ScheduleRules, SequencesExt

CONSTANT Nothing

VARIABLES
  request,
  phase,       \* where create_schedule stands
  session,     \* the rows flushed in the open transaction
  db,          \* the committed rows of the run, or Nothing
  path,        \* the combination backtrack completes next
  evaluated, combinations,
  remaining,   \* the drafts that are not ranked yet
  options,     \* the ranked ones
  warnings, conflicts   \* lists of the request, as sets

vars == <<request, phase, session, db, path, evaluated, combinations, remaining, options, warnings, conflicts>>
search == <<path, evaluated, combinations>>
ranking == <<remaining, options>>
notes == <<warnings, conflicts>>

Note(code, about) == [code |-> code, about |-> about]
Everything == 0   \* what a note about no course and no section is about

\* The rows of one run. _persist_constraints stores what was asked for.
Row(status) ==
  [status |-> status, constraints |-> Nothing, options |-> <<>>, warnings |-> {}, conflicts |-> {}, repairs |-> {}]
ConstraintSet(r) ==
  [days |-> r.days, blocks |-> r.blocks, required |-> r.required, unwanted |-> r.unwanted, weights |-> r.weights,
   allowPermission |-> r.allowPermission, allowPartial |-> r.allowPartial, diversity |-> r.diversity,
   limit |-> r.limit, sourceAge |-> r.sourceAge]

Init ==
  /\ request \in Requests
  /\ phase = "requested"
  /\ session = Nothing /\ db = Nothing
  /\ path = <<>> /\ evaluated = 0 /\ combinations = {}
  /\ remaining = {} /\ options = <<>>
  /\ warnings = {} /\ conflicts = {}

\* A validation raises, and nothing is stored.
RejectRequest ==
  /\ phase = "requested" /\ Rejection(request) # "none"
  /\ phase' = "done"
  /\ UNCHANGED <<request, session, db, search, ranking, notes>>

\* The run and its constraints are flushed; the first warning is about the data mode.
CreateRun ==
  /\ phase = "requested" /\ Rejection(request) = "none"
  /\ session' = [Row("RUNNING") EXCEPT !.constraints = ConstraintSet(request)]
  /\ warnings' = {Note("NOT_OFFICIAL", Everything)}
  /\ phase' = "created"
  /\ UNCHANGED <<request, db, search, ranking, conflicts>>

\* _candidate_courses keeps the first courses, or raises when there is none ...
\* ... and _section_groups drops the courses without a selectable section.
Uncovered == Kept(request) \ Covered(request)
Asked == UNION {Considered(request, c) : c \in Kept(request)}
Refused(codes) == {s \in Asked : Refusal(request, s) \in codes}

CollectSections ==
  /\ phase = "created"
  /\ request.wanted # {}
  /\ warnings' = warnings \cup
       {Note("LIMIT_REACHED", Everything) : c \in request.wanted \ Kept(request)} \cup
       {Note("NO_SECTION_AVAILABLE", c) : c \in Uncovered} \cup
       {Note(Refusal(request, s), s) : s \in Refused({"CLOSED", "MANUAL_REVIEW_REQUIRED", "PERMISSION_REQUIRED"})}
  /\ conflicts' =
       {Note("NO_SECTION_AVAILABLE", Everything) : c \in Uncovered} \cup
       {Note("EXCLUDED_DAY", s) : s \in {s \in Refused({"UNAVAILABLE_TIME"}) : OnExcludedDay(request, s)}} \cup
       {Note("UNAVAILABLE_TIME", s) : s \in {s \in Refused({"UNAVAILABLE_TIME"}) : Blocked(request, s)}} \cup
       {Note("ELIGIBILITY_BLOCKED", s) : s \in Refused({"NOT_ELIGIBLE"})} \cup
       {Note("MANUAL_REVIEW_REQUIRED", s) : s \in Refused({"MANUAL_REVIEW_REQUIRED", "PERMISSION_REQUIRED"})}
  /\ phase' = IF Covered(request) = {} THEN "searched" ELSE "searching"
  /\ path' = FirstPath(Menu(request))
  /\ UNCHANGED <<request, session, db, evaluated, combinations, ranking>>

\* mutant: the limit is compared after the combination was added
CompleteCombinationAtLimit ==
  /\ phase = "searching"
  /\ combinations' = combinations \cup {Combination(path)}
  /\ evaluated' = evaluated + 1
  /\ IF Open(path, Menu(request)) = {} \/ evaluated > request.limit
       THEN phase' = "searched" /\ path' = path
       ELSE phase' = phase /\ path' = NextPath(path, Menu(request))
  /\ UNCHANGED <<request, session, db, ranking, notes>>

\* backtrack reaches a leaf; at the limit it returns from every level.
CompleteCombination ==
  /\ phase = "searching"
  /\ combinations' = combinations \cup {Combination(path)}
  /\ evaluated' = evaluated + 1
  /\ IF Open(path, Menu(request)) = {} \/ evaluated' >= request.limit
       THEN phase' = "searched" /\ path' = path
       ELSE phase' = phase /\ path' = NextPath(path, Menu(request))
  /\ UNCHANGED <<request, session, db, ranking, notes>>

\* mutant: the warning is left out when the count only meets the limit
LimitReachedBeyond == evaluated > request.limit
LimitReached == evaluated >= request.limit

\* The warning of the limit, the conflicts of the combinations, and the drafts.
BuildDrafts ==
  /\ phase = "searched"
  /\ warnings' = warnings \cup {Note("LIMIT_REACHED", Everything) : flag \in {LimitReached} \cap {TRUE}}
  /\ conflicts' = conflicts \cup
       {Note(IF Clashes(C) THEN "TIME_OVERLAP" ELSE "CREDIT_LIMIT", Everything) :
          C \in {C \in combinations : Clashes(C) \/ Credits(C) > request.maximum}}
  /\ remaining' = {C \in combinations : IsDraft(request, C)}
  /\ phase' = "ranking"
  /\ UNCHANGED <<request, session, db, search, options>>

\* Which draft comes next: the first in order, or with high diversity the first
\* of those that share the fewest sections with the option before.
Before(A, B) ==
  IF options = <<>> \/ request.diversity # "HIGH" THEN Precedes(request, A, B)
  ELSE \/ Shared(Last(options), A) < Shared(Last(options), B)
       \/ Shared(Last(options), A) = Shared(Last(options), B) /\ Precedes(request, A, B)
Ranks == phase = "ranking" /\ remaining # {} /\ Len(options) < request.count

\* mutant: the draft chosen for diversity is read, not popped
RankOptionUnpopped ==
  /\ Ranks
  /\ \E A \in remaining :
       /\ \A B \in remaining \ {A} : Before(A, B)
       /\ remaining' = IF options = <<>> \/ request.diversity # "HIGH" THEN remaining \ {A} ELSE remaining
       /\ options' = Append(options, A)
  /\ UNCHANGED <<request, phase, session, db, search, notes>>

RankOption ==
  /\ Ranks
  /\ \E A \in remaining :
       /\ \A B \in remaining \ {A} : Before(A, B)
       /\ remaining' = remaining \ {A}
       /\ options' = Append(options, A)
  /\ UNCHANGED <<request, phase, session, db, search, notes>>

\* An option with its sections; without any, one INFEASIBLE option stands for none.
Placeholder == [sections |-> {}, status |-> "INFEASIBLE", doubtful |-> {}]
Stored(C) == [sections |-> C, status |-> Status(request, C), doubtful |-> Doubtful(request, C)]

\* _repair_suggestions: one for each way out and what it is about. Its last case
\* asks for a range of credits that validate_credit_inputs has refused.
About(codes) == {note.about : note \in {note \in conflicts : note.code \in codes}}
RepairSuggestions ==
  {Note("RELAX_EXCLUDED_DAY", x) : x \in About({"EXCLUDED_DAY"})} \cup
  {Note("ALLOW_PERMISSION_REQUIRED", x) :
     x \in {x \in About({"MANUAL_REVIEW_REQUIRED"}) : ~ request.allowPermission}} \cup
  {Note("INCREASE_MAX_CREDITS", x) : x \in About({"CREDIT_LIMIT"})} \cup
  {Note("RELAX_UNAVAILABLE_BLOCK", x) : x \in About({"UNAVAILABLE_TIME"})} \cup
  {Note("REMOVE_REQUIRED_SECTION", s) : s \in request.required} \cup
  {Note("RELAX_CREDIT_RANGE", Everything) : r \in {r \in {request} : r.minimum > r.maximum}} \cup
  {Note("RELAX_EXCLUDED_DAY", Everything) : day \in request.days}

PersistRun ==
  /\ phase = "ranking" /\ ~ Ranks
  /\ warnings' = IF options = <<>> THEN warnings \cup {Note("NO_FEASIBLE_SCHEDULE_FOUND", Everything)} ELSE warnings
  /\ session' = [session EXCEPT
       !.options = IF options = <<>> THEN <<Placeholder>> ELSE [i \in DOMAIN options |-> Stored(options[i])],
       !.warnings = warnings', !.conflicts = conflicts, !.repairs = RepairSuggestions]
  /\ phase' = "persisted"
  /\ UNCHANGED <<request, db, search, ranking, conflicts>>

\* The data-mode warning is always there, so the run is never plainly COMPLETED.
CommitRun ==
  /\ phase = "persisted"
  /\ db' = [session EXCEPT !.status = IF warnings = {} THEN "COMPLETED" ELSE "COMPLETED_WITH_WARNINGS"]
  /\ session' = Nothing
  /\ phase' = "done"
  /\ UNCHANGED <<request, search, ranking, notes>>

\* Anything raised inside the try rolls back, no candidate course among it ...
RollBack ==
  /\ phase \in {"created", "searching", "searched", "ranking", "persisted"}
  /\ session' = Nothing
  /\ phase' = "rolled back"
  /\ UNCHANGED <<request, db, search, ranking, notes>>

\* ... and the run is stored again as FAILED.
RecordFailure ==
  /\ phase = "rolled back"
  /\ db' = Row("FAILED")
  /\ phase' = "done"
  /\ UNCHANGED <<request, session, search, ranking, notes>>

\* The process dies: what is not committed is gone.
Crash ==
  /\ phase # "done"
  /\ session' = Nothing
  /\ phase' = "done"
  /\ UNCHANGED <<request, db, search, ranking, notes>>

Done == phase = "done" /\ UNCHANGED vars

Next ==
  \/ RejectRequest \/ CreateRun \/ CollectSections
  \/ CompleteCombination \/ BuildDrafts
  \/ RankOption \/ PersistRun \/ CommitRun
  \/ RollBack \/ RecordFailure \/ Crash
  \/ Done

Spec == Init /\ [][Next]_vars
-----------------------------------------------------------------------------
(* What the tables of models/academic.py accept *)

ScheduleConstraintSet(r) == \A b \in r.blocks : b.from < b.to
ScheduleOptimizationRun(r) ==
  /\ 0 <= r.minimum /\ r.minimum <= r.maximum /\ 0 <= r.preferred /\ r.preferred <= r.maximum
  /\ r.count \in 1..20
ScheduleOption ==
  [sections : SUBSET Sections, status : {"FEASIBLE", "FEASIBLE_WITH_WARNINGS", "PARTIAL", "INFEASIBLE"},
   doubtful : SUBSET Sections]
\* An option has one section of a course.
ScheduleOptionSection(option) == \A s, t \in option.sections : courseOf[s] = courseOf[t] => s = t
ScheduleConflict ==
  [code : {"TIME_OVERLAP", "UNAVAILABLE_TIME", "EXCLUDED_DAY", "CREDIT_LIMIT", "DUPLICATE_COURSE",
           "ELIGIBILITY_BLOCKED", "COREQUISITE_MISSING", "NO_SECTION_AVAILABLE", "MANUAL_REVIEW_REQUIRED"},
   about : {Everything} \cup Sections]
ScheduleWarning ==
  [code : {"NOT_OFFICIAL", "LIMIT_REACHED", "NO_SECTION_AVAILABLE", "CLOSED", "MANUAL_REVIEW_REQUIRED",
           "PERMISSION_REQUIRED", "NO_FEASIBLE_SCHEDULE_FOUND"},
   about : {Everything} \cup Courses \cup Sections]
ScheduleRepairSuggestion ==
  [code : {"RELAX_EXCLUDED_DAY", "ALLOW_PERMISSION_REQUIRED", "INCREASE_MAX_CREDITS", "RELAX_UNAVAILABLE_BLOCK",
           "REMOVE_REQUIRED_SECTION"},
   about : {Everything} \cup Sections]

Insertable(rows) ==
  /\ rows.status \in {"RUNNING", "COMPLETED", "COMPLETED_WITH_WARNINGS", "FAILED"}
  /\ \A i \in DOMAIN rows.options : rows.options[i] \in ScheduleOption /\ ScheduleOptionSection(rows.options[i])
  /\ rows.warnings \subseteq ScheduleWarning /\ rows.conflicts \subseteq ScheduleConflict
  /\ rows.repairs \subseteq ScheduleRepairSuggestion
  /\ ScheduleConstraintSet(request) /\ ScheduleOptimizationRun(request)

TypeOK ==
  /\ request \in Requests
  /\ phase \in {"requested", "created", "searching", "searched", "ranking", "persisted", "rolled back", "done"}
  /\ evaluated \in Nat /\ (evaluated > 0 => evaluated <= request.limit)
  /\ combinations \cup remaining \subseteq SUBSET Sections
  /\ Range(options) \subseteq combinations
  /\ options # <<>> => Len(options) <= request.count
  /\ phase = "searching" => IsPath(path, Menu(request))
  /\ \A rows \in {session, db} \ {Nothing} : Insertable(rows)

Completed == db # Nothing /\ db.status \in {"COMPLETED", "COMPLETED_WITH_WARNINGS"}
Proposed == {option \in {db.options[i] : i \in DOMAIN db.options} : option.status # "INFEASIBLE"}
Warned(code) == \E note \in db.warnings : note.code = code

\* What a student may be offered: one section of each covered course, none of
\* them excluded, closed, forbidden or in the way, no two at the same time, not
\* above the maximum of credits. An online or arranged meeting floats for the code,
\* even with a day and hours (_is_floating_meeting): it may lie on an excluded day,
\* in a block and over another meeting, which docs/DOMAIN_RULES.md:218-220 does not
\* except. A required section keeps out the others of its course and no more.
MayHold(r, s) ==
  /\ s \in r.offered \ (r.unwanted \cup r.closed)
  /\ courseOf[s] \in r.wanted
  /\ \A m \in meetingsOf[s] : m.floating \/ (m.day \notin r.days /\ \A b \in r.blocks : ~ Hits(m, b))
  /\ r.standing[s] \in {"ELIGIBLE", "CONDITIONALLY_ELIGIBLE"} \cup
                       (IF r.allowPermission THEN {"PERMISSION_REQUIRED"} ELSE {})
  /\ \A t \in r.required : t \in r.offered /\ courseOf[t] = courseOf[s] => s \in r.required

Legal(r, C) ==
  /\ \A s \in C : MayHold(r, s)
  /\ \A s, t \in C : s # t => /\ courseOf[s] # courseOf[t]
                              /\ \A m \in Fixed(s), n \in Fixed(t) : ~ Hits(m, n)
  /\ Credits(C) <= r.maximum

\* A schedule is full when it has a section of every course wanted.
Full(r, C) == {courseOf[s] : s \in C} = r.wanted
\* What the optimizer may show at all: a section of every course that has one.
Showable(r, C) ==
  /\ Legal(r, C)
  /\ \A s \in Sections : MayHold(r, s) => \E t \in C : courseOf[t] = courseOf[s]
  /\ r.allowPartial \/ (Full(r, C) /\ Credits(C) >= r.minimum)

\* No search limit was reported, and no course has more selectable sections than a group holds.
SearchedAll ==
  /\ ~ Warned("LIMIT_REACHED")
  /\ \A c \in Courses : Cardinality({s \in Sections : MayHold(request, s) /\ courseOf[s] = c}) <= MaxSections

\* The only required section of a course that is looked at
Binding(r, s) ==
  /\ s \in r.required \cap r.offered /\ courseOf[s] \in Kept(r)
  /\ \A t \in r.required \cap r.offered : courseOf[t] = courseOf[s] => t = s

\* Every stored option is a legal schedule: hard constraints are never traded
\* against score, however the sections were combined (engine.py:1545-1584), and
\* one that is not called partial holds the required sections. Two exemptions that
\* docs/DOMAIN_RULES.md:218-222 does not make: online meetings with hours float
\* (see MayHold), and a required section is missing without a word when its course
\* is no candidate, when the data mode does not admit it, or when another section of
\* its course is required too and is taken.
HardConstraintsHold ==
  Completed => \A option \in Proposed :
    /\ Legal(request, option.sections)
    /\ option.status # "PARTIAL" => \A s \in Sections : Binding(request, s) => s \in option.sections

\* An option is called FEASIBLE only when it is a full schedule of at least the
\* minimum credits; a course dropped at the course limit is at least reported.
FeasibleIsFull ==
  Completed => \A option \in Proposed :
    option.status # "PARTIAL" =>
      /\ Full(request, option.sections) \/ Warned("LIMIT_REACHED")
      /\ Credits(option.sections) >= request.minimum

\* A full schedule comes before a partial one, then the score decides, then the credits.
Outranks(r, A, B) ==
  LET rank(C) == StatusRank(Status(r, C)) IN
  \/ rank(A) < rank(B)
  \/ rank(A) = rank(B) /\ r.score[A] > r.score[B]
  \/ rank(A) = rank(B) /\ r.score[A] = r.score[B] /\ Credits(A) > Credits(B)

\* Without a limit nothing better was missed: no schedule that could be shown
\* outranks the first option, nor in standard mode a later one unless it is above it.
BestComeFirst ==
  Completed /\ SearchedAll =>
    \A i \in DOMAIN db.options :
      i = 1 \/ request.diversity # "HIGH" =>
        \A C \in SUBSET Sections :
          Showable(request, C) /\ C # {} /\ Outranks(request, C, db.options[i].sections)
            => \E j \in 1..(i - 1) : C = db.options[j].sections

\* Fewer options than asked for, and no limit reported: there are no others.
ShortListIsAll ==
  Completed /\ SearchedAll /\ (Proposed = {} \/ Len(db.options) < request.count) =>
    \A C \in SUBSET Sections :
      Showable(request, C) /\ C # {} => \E option \in Proposed : option.sections = C

\* No schedule is listed twice, in either diversity mode, and the placeholder
\* that stands for "none" comes alone and with its warning.
OptionsDistinct ==
  Completed =>
    /\ \A i, j \in DOMAIN db.options : i # j => db.options[i].sections # db.options[j].sections
    /\ Len(db.options) \in 1..request.count
    /\ Proposed = {} <=> Warned("NO_FEASIBLE_SCHEDULE_FOUND")

\* A run is committed with all its rows, or as FAILED and without any: never
\* RUNNING, never COMPLETED without its constraints or an option, and its options
\* are distinct. A request that a validation refuses has no run.
RunStoredWhole ==
  /\ db = Nothing \/ db = Row("FAILED") \/
       ( /\ Completed /\ db.constraints = ConstraintSet(request) /\ db.options # <<>>
         /\ Note("NOT_OFFICIAL", Everything) \in db.warnings)
  /\ OptionsDistinct
  /\ Rejection(request) # "none" => db = Nothing
=============================================================================
