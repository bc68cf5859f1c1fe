---------------------------- MODULE ScheduleRules ----------------------------
(***************************************************************************)
(* The pure part of the schedule optimizer (schedule_optimizer/engine.py): *)
(* which sections a course offers to the search, which combinations are    *)
(* options, and which of two options ranks before the other.               *)
(*                                                                         *)
(* Courses are numbered in the order of _candidate_sort_key, sections in   *)
(* the order of _section_sort_key; textRank is the order of the section    *)
(* keys as text. Times and credits of sections are natural numbers. A      *)
(* limit on meeting times (an unavailable block, an earliest start, a      *)
(* latest end) is a block of hours of one day. What _score returns for a   *)
(* set of sections is an input.                                            *)
(***************************************************************************)
EXTENDS Integers, FiniteSets, Functions, ChoiceTree

CONSTANTS
  CourseCount, SectionCount,
  courseOf,     \* of each section
  meetingsOf,   \* of each section, a set of [day, from, to, floating]
  creditsOf,    \* of each section
  textRank,     \* of each section
  MaxCourses,   \* MAX_CANDIDATE_COURSES
  MaxSections,  \* MAX_SECTIONS_PER_COURSE
  Requests      \* what create_schedule may be called with, see RequestType

Courses == 1..CourseCount
Sections == 1..SectionCount
Standings == {"ELIGIBLE", "CONDITIONALLY_ELIGIBLE", "PERMISSION_REQUIRED", "MANUAL_REVIEW_REQUIRED", "NOT_ELIGIBLE"}

\* wanted: the candidate courses without the excluded ones. offered: the sections
\* of the term that the data mode admits. unwanted: excluded by id or modality.
\* known: the sections of the term and institution that there are. noted: the
\* sections with a warning of their own (waitlist, unknown times). days: excluded.
\* A block that cannot be parsed has no hours.
RequestType ==
  [wanted : SUBSET Courses, offered : SUBSET Sections, required : SUBSET Sections,
   unwanted : SUBSET Sections, closed : SUBSET Sections, noted : SUBSET Sections, known : SUBSET Sections,
   standing : [Sections -> Standings], allowPermission : BOOLEAN,
   days : SUBSET Nat, blocks : SUBSET [day : Nat, from : Nat, to : Nat],
   minimum : Int, maximum : Int, preferred : Int, weights : SUBSET Int, sourceAge : Int, allowPartial : BOOLEAN,
   score : [SUBSET Sections -> Nat], count : Int, diversity : {"STANDARD", "HIGH", "OTHER"}, limit : Int,
   student : {"known", "missing"}, term : {"known", "missing", "foreign"},
   readiness : {"none", "READY", "READY_WITH_WARNINGS", "BLOCKED"},
   planRequired : BOOLEAN, plan : {"none", "missing", "foreign", "other term", "good"}]

(* The validations of create_schedule, in the order in which it asks *)

validate_credit_inputs(r) ==
  CASE r.minimum < 0 \/ r.maximum < 0 \/ r.preferred < 0 \/ r.maximum < r.minimum \/ r.preferred > r.maximum
         -> "invalid_credit_limits"
    [] r.count <= 0 \/ r.count > 20 -> "invalid_option_count"
    [] OTHER -> "none"
validate_phase_6b_inputs(r) ==
  CASE \E w \in r.weights : w < 0 -> "invalid_preference_weight"
    [] r.diversity \notin {"STANDARD", "HIGH"} -> "invalid_diversity_mode"
    [] r.limit <= 0 \/ r.limit > 5000 -> "invalid_search_limit"
    [] OTHER -> "none"
validate_student(r) == IF r.student = "missing" THEN "not_found" ELSE "none"
validate_term(r) ==
  CASE r.term = "missing" -> "not_found"
    [] r.term = "foreign" -> "institution_scope_mismatch"
    [] OTHER -> "none"
validate_course_state_readiness(r) ==
  IF r.readiness = "BLOCKED" THEN "course_state_schedule_not_ready" ELSE "none"
validate_plan(r) ==
  CASE r.plan = "none" /\ r.planRequired -> "academic_plan_required"
    [] r.plan = "missing" -> "not_found"
    [] r.plan = "foreign" -> "academic_plan_student_mismatch"
    [] r.plan = "other term" /\ r.planRequired -> "academic_plan_term_missing"
    [] OTHER -> "none"
parse_unavailable_blocks(r) == IF \E b \in r.blocks : b.to <= b.from THEN "invalid_unavailable_block" ELSE "none"
validate_section_ids(r) == IF r.required \cup r.unwanted \subseteq r.known THEN "none" ELSE "invalid_section"

Rejection(r) ==
  LET errors == <<validate_credit_inputs(r), validate_phase_6b_inputs(r), validate_student(r), validate_term(r),
                  IF r.sourceAge < 0 THEN "invalid_source_age" ELSE "none", validate_course_state_readiness(r),
                  validate_plan(r), parse_unavailable_blocks(r), validate_section_ids(r)>>
      raised == {i \in DOMAIN errors : errors[i] # "none"}
  IN IF raised = {} THEN "none" ELSE errors[Least(raised)]
Accepted == {r \in Requests : Rejection(r) = "none"}

SectionMeeting(m) == m.floating \/ m.from < m.to               \* what the table of meetings accepts
Hits(m, n) == m.day = n.day /\ m.from < n.to /\ n.from < m.to   \* times_overlap
\* _is_floating_meeting: a meeting floats when it is online or arranged, even with a day
\* and hours, or when it lacks one of them.
Fixed(s) == {m \in meetingsOf[s] : ~ m.floating}

\* _violates_meeting_constraints; the first and last hour are blocks as well.
OnExcludedDay(r, s) == \E m \in Fixed(s) : m.day \in r.days
Blocked(r, s) == \E m \in Fixed(s), b \in r.blocks : Hits(m, b)
InTheWay(r, s) == OnExcludedDay(r, s) \/ Blocked(r, s)

\* Why _section_candidate returns None, in the order it asks.
Refusal(r, s) ==
  IF s \in r.unwanted THEN "UNWANTED"
  ELSE IF s \in r.closed THEN "CLOSED"
  ELSE IF InTheWay(r, s) THEN "UNAVAILABLE_TIME"
  ELSE IF r.standing[s] \in {"NOT_ELIGIBLE", "MANUAL_REVIEW_REQUIRED"} THEN r.standing[s]
  ELSE IF r.standing[s] = "PERMISSION_REQUIRED" /\ ~ r.allowPermission THEN "PERMISSION_REQUIRED"
  ELSE "NONE"

\* The candidate courses that are looked at, and the sections each offers the search.
First(S, n) == {x \in S : Cardinality({y \in S : y < x}) < n}
Kept(r) == First(r.wanted, MaxCourses)
OfCourse(r, c) == {s \in r.offered : courseOf[s] = c}
Considered(r, c) ==
  {s \in OfCourse(r, c) : OfCourse(r, c) \cap r.required # {} => s \in r.required}
Selectable(r, c) == {s \in Considered(r, c) : Refusal(r, s) = "NONE"}
Covered(r) == {c \in Kept(r) : Selectable(r, c) # {}}
Menu(r) == [c \in Covered(r) |-> First(Selectable(r, c), MaxSections)]
Combination(path) == {path[c] : c \in DOMAIN path}

\* mutant: only the sections of neighbouring courses are compared
ClashesNext(C) ==
  \E s, t \in C : /\ courseOf[s] < courseOf[t]
                  /\ ~ \E u \in C : courseOf[s] < courseOf[u] /\ courseOf[u] < courseOf[t]
                  /\ \E m \in Fixed(s), n \in Fixed(t) : Hits(m, n)
\* _combination_conflict
Clashes(C) == \E s, t \in C : s # t /\ \E m \in Fixed(s), n \in Fixed(t) : Hits(m, n)

Credits(C) == SumFunctionOnSet([s \in C |-> creditsOf[s]], C)

\* _option_warnings: the sections of an option that carry a warning
Doubtful(r, C) == {s \in C : s \in r.noted \/ r.standing[s] # "ELIGIBLE"}

\* mutant: an option is complete when it has a section of every group
StatusOfCovered(r, C) ==
  CASE Cardinality(C) < Cardinality(Covered(r)) \/ Credits(C) < r.minimum -> "PARTIAL"
    [] Cardinality(C) >= Cardinality(Covered(r)) /\ Credits(C) >= r.minimum ->
       IF Doubtful(r, C) # {} THEN "FEASIBLE_WITH_WARNINGS" ELSE "FEASIBLE"

Status(r, C) ==
  CASE Cardinality(C) < Cardinality(Kept(r)) \/ Credits(C) < r.minimum -> "PARTIAL"
    [] Cardinality(C) >= Cardinality(Kept(r)) /\ Credits(C) >= r.minimum ->
       IF Doubtful(r, C) # {} THEN "FEASIBLE_WITH_WARNINGS" ELSE "FEASIBLE"

\* The combinations of which _build_options makes a draft.
IsDraft(r, C) ==
  /\ ~ Clashes(C)
  /\ Credits(C) <= r.maximum
  /\ Status(r, C) = "PARTIAL" => r.allowPartial

StatusRank(status) ==
  CASE status = "FEASIBLE" -> 0 [] status = "FEASIBLE_WITH_WARNINGS" -> 1 [] status = "PARTIAL" -> 2

\* mutant: the score is compared before the status
KeyByScore(r, C) ==
  [i \in 1..3 |-> CASE i = 2 -> StatusRank(Status(r, C)) [] i = 1 -> - r.score[C] [] i = 3 -> - Credits(C)]

\* _option_sort_key: a triple, then the section keys in the order of the courses.
Key(r, C) ==
  [i \in 1..3 |-> CASE i = 1 -> StatusRank(Status(r, C)) [] i = 2 -> - r.score[C] [] i = 3 -> - Credits(C)]
SectionKey(C) ==
  [c \in Courses |-> LET own == {s \in C : courseOf[s] = c} IN IF own = {} THEN 0 ELSE textRank[Least(own)]]
Precedes(r, A, B) ==
  \/ Earlier(Key(r, A), Key(r, B))
  \/ Key(r, A) = Key(r, B) /\ Earlier(SectionKey(A), SectionKey(B))

\* _shared_section_count
Shared(A, B) == Cardinality(A \cap B)

ScheduleAssumption ==
  /\ CourseCount \in Nat /\ SectionCount \in Nat
  /\ courseOf \in [Sections -> Courses] /\ creditsOf \in [Sections -> Nat]
  /\ \A s \in Sections : meetingsOf[s] \subseteq [day : Nat, from : Nat, to : Nat, floating : BOOLEAN]
  /\ \A s \in Sections : \A m \in meetingsOf[s] : SectionMeeting(m)
  /\ textRank \in [Sections -> Sections]
  /\ \A s, t \in Sections : textRank[s] = textRank[t] => s = t
  /\ MaxCourses \in Nat \ {0} /\ MaxSections \in Nat \ {0}
  /\ Requests \subseteq RequestType
ASSUME OptimizerInput == ScheduleAssumption
=============================================================================
