--------------------------- MODULE AcademicPlanner ---------------------------
(***************************************************************************)
(* One long-term plan (academic_planner/engine.py): the courses of open    *)
(* requirements are put, one candidate after the other, into the first     *)
(* term in which they fit, with their corequisites, or after their missing *)
(* prerequisites.                                                          *)
(*                                                                         *)
(* A request holds the requirements as the degree audit returns them.      *)
(* Catalog has of every course its credits, the order of its text, how     *)
(* many rules name it, and the eligibility check's answer for the student: *)
(* the check does not see the plan, and no term changes its answer.        *)
(***************************************************************************)
EXTENDS Integers, FiniteSets, SequencesExt

CONSTANTS
  Requests,
  Catalog,
  None

VARIABLES
  request,
  todo,       \* candidates still to be placed
  plan,       \* the terms: planned credits, status and courses
  covered,    \* placed_requirement_ids
  warnings,   \* codes of the warnings about placement
  run         \* status of the AcademicPlanRun row

vars == <<request, todo, plan, covered, warnings, run>>
-----------------------------------------------------------------------------
credit_inputs_valid(q) ==
  q.terms_to_plan > 0 /\ q.minimum >= 0 /\ q.maximum >= 0 /\ q.preferred \in 0..q.maximum
\* scenario: None, or whether it is the student's and lists the program
scope_valid(q) ==
  IF q.mode = "CURRENT_PROGRAM" THEN q.declared ELSE q.scenario # None /\ q.scenario.own /\ q.scenario.listed
\* readiness of the active snapshot for the planner, None without a snapshot
ready(q) == q.readiness \in {None, "READY", "READY_WITH_WARNINGS"}
target_terms(q) == IF q.terms < q.terms_to_plan THEN q.terms ELSE q.terms_to_plan

\* _planner_candidates: a choice of n offers all of its options. The sort is by the key,
\* which no two candidates share: a requirement has a course once.
strictness(type) == CASE type = "REQUIRED_COURSE" -> 0 [] type = "CAPSTONE" -> 1 [] OTHER -> 2
Open(r) == r.required /\ r.status \notin {"SATISFIED", "WAIVED", "NOT_APPLICABLE"}
Candidate(r, option) ==
  [node |-> r.node, course |-> option.course, credits |-> option.credits,
   key |-> <<r.order, strictness(r.type), - Catalog[option.course].unlocks, r.node, Catalog[option.course].text>>]
planner_candidates(q) ==
  UNION {{Candidate(r, option) : option \in {o \in ToSet(r.options) : o.course \notin q.occupied}} :
           r \in {x \in ToSet(q.requirements) : Open(x) /\ x.type \in {"REQUIRED_COURSE", "CHOOSE_N", "CAPSTONE"}}}
Before(c, d) == \E i \in 1..5 : c.key[i] < d.key[i] /\ \A j \in 1..(i - 1) : c.key[j] = d.key[j]
candidate_warnings(q) ==
  {IF r.type \in {"MINIMUM_CREDITS", "TOTAL_CREDITS", "COURSE_LEVEL", "MINIMUM_COURSES", "RESIDENCY"}
   THEN "MANUAL_REVIEW_REQUIREMENT_POOL" ELSE "NO_ELIGIBLE_COURSE_FOUND"
     : r \in {x \in ToSet(q.requirements) : Open(x) /\ x.options = <<>>}}
-----------------------------------------------------------------------------
CreditsOf(course) == Catalog[course].credits
Verdict(course) == Catalog[course].verdict
Courses(terms) == UNION {{c.course : c \in ToSet(terms[t].courses)} : t \in DOMAIN terms}
\* mutant: the limit is compared before the course is added
can_fitBefore(terms, t, credits) == terms[t].credits <= request.maximum
can_fit(terms, t, credits) == terms[t].credits + credits <= request.maximum
CreditsIn(rows) == SumFunctionOnSet([i \in DOMAIN rows |-> rows[i].credits], DOMAIN rows)
PlanCourse(course, credits, status, reason) ==
  [course |-> course, credits |-> credits, status |-> status, reason |-> reason]
add_plan_courses(terms, t, rows) ==
  [terms EXCEPT ![t].credits = @ + CreditsIn(rows), ![t].courses = @ \o rows]
planning_status(overall) ==
  CASE overall = "ELIGIBLE" -> "PLANNED"
    [] overall = "CONDITIONALLY_ELIGIBLE" -> "CONDITIONALLY_PLANNED"
    [] overall = "NOT_ELIGIBLE" -> "BLOCKED"
    [] OTHER -> "MANUAL_REVIEW_REQUIRED"

\* _place_prerequisites into the terms before t. What is planned already is left where it is.
PlacePrerequisite(acc, p, t) ==
  LET fit == {i \in 1..(t - 1) : can_fit(acc.plan, i, CreditsOf(p))}
      allowed == Verdict(p).overall \in {"ELIGIBLE", "CONDITIONALLY_ELIGIBLE"}
      first == CHOOSE i \in fit : \A j \in fit : i <= j
      row == PlanCourse(p, CreditsOf(p), planning_status(Verdict(p).overall), "PREREQUISITE_UNLOCK")
  IN CASE ~ acc.ok \/ p \in Courses(acc.plan) -> acc
       [] acc.ok /\ p \notin Courses(acc.plan) /\ (fit = {} \/ ~ allowed) ->
            [acc EXCEPT !.ok = FALSE, !.noted = @ \cup {"PREREQUISITE_CHAIN_BLOCKS_COMPLETION"}]
       [] OTHER -> [acc EXCEPT !.plan = add_plan_courses(@, first, <<row>>)]
place_prerequisites(terms, t, missing, noted) ==
  FoldLeft(LAMBDA acc, p : PlacePrerequisite(acc, p, t), [plan |-> terms, ok |-> TRUE, noted |-> noted], missing)

\* A course and the corequisites that are not planned yet
Pair(rows, c, terms) ==
  IF c \in Courses(terms) THEN rows
  ELSE Append(rows, PlanCourse(c, CreditsOf(c), "CONDITIONALLY_PLANNED", "COREQUISITE_PAIR"))
WithCorequisites(row, to_add, terms) == FoldLeft(LAMBDA rows, c : Pair(rows, c, terms), <<row>>, to_add)

\* One term of _place_single_candidate; what was placed for a term that failed stays.
TryTerm(acc, t, candidate) ==
  LET v == Verdict(candidate.course)
      Row(status, reason) == PlanCourse(candidate.course, candidate.credits, status, reason)
      earlier == place_prerequisites(acc.plan, t, v.missing, acc.noted)
      beside == WithCorequisites(Row(planning_status(v.overall), "REQUIREMENT_REMAINING"), v.to_add, acc.plan)
      Placed(terms, rows, noted) == [done |-> TRUE, plan |-> add_plan_courses(terms, t, rows), noted |-> noted]
  IN CASE acc.done \/ (v.missing # <<>> /\ t = 1) -> acc
       [] ~ acc.done /\ v.missing # <<>> /\ t > 1 ->
            IF earlier.ok /\ can_fit(earlier.plan, t, candidate.credits)
            THEN Placed(earlier.plan, <<Row("CONDITIONALLY_PLANNED", "PREREQUISITE_PLANNED_EARLIER")>>, earlier.noted)
            ELSE [acc EXCEPT !.plan = earlier.plan, !.noted = earlier.noted]
       [] OTHER ->
            IF ~ can_fit(acc.plan, t, CreditsIn(beside)) THEN acc
            ELSE IF v.overall = "NOT_ELIGIBLE" THEN [acc EXCEPT !.noted = @ \cup {"ELIGIBILITY_CHECK_FAILED"}]
            ELSE Placed(acc.plan, beside, acc.noted)
place_single_candidate(candidate) ==
  FoldLeft(LAMBDA acc, t : TryTerm(acc, t, candidate), [plan |-> plan, done |-> FALSE, noted |-> warnings],
           [t \in DOMAIN plan |-> t])
-----------------------------------------------------------------------------
Init ==
  /\ request \in Requests
  /\ todo = {} /\ plan = <<>> /\ covered = {} /\ warnings = {} /\ run = None

create_plan ==
  /\ run = None
  /\ IF credit_inputs_valid(request) /\ scope_valid(request) /\ ready(request) /\ request.terms > 0
     THEN /\ run' = "RUNNING"
          /\ todo' = planner_candidates(request)
          /\ plan' = [t \in 1..target_terms(request) |-> [credits |-> 0, status |-> "PLANNED", courses |-> <<>>]]
          /\ warnings' = candidate_warnings(request) \cup
               (IF request.terms < request.terms_to_plan THEN {"PLANNING_HORIZON_TRUNCATED"} ELSE {})
     ELSE run' = "REFUSED" /\ UNCHANGED <<todo, plan, warnings>>
  /\ UNCHANGED <<request, covered>>

place_candidate ==
  /\ run = "RUNNING"
  /\ \E c \in todo :
       /\ \A d \in todo : ~ Before(d, c)
       /\ todo' = todo \ {c}
       /\ IF c.course \in Courses(plan) THEN covered' = covered \cup {c.node} /\ UNCHANGED <<plan, warnings>>
          ELSE LET placed == place_single_candidate(c) IN
               /\ plan' = placed.plan
               /\ covered' = IF placed.done THEN covered \cup {c.node} ELSE covered
               /\ warnings' = placed.noted \cup (IF placed.done THEN {} ELSE {"CREDIT_LIMIT_PREVENTS_PLACEMENT"})
  /\ UNCHANGED <<request, run>>

\* A term lists a course once: the unique key that the rows meet when they are inserted.
OncePerTerm(terms) ==
  \A t \in DOMAIN terms : \A i, j \in DOMAIN terms[t].courses :
    terms[t].courses[i].course = terms[t].courses[j].course => i = j

\* Terms below the minimum are marked, what is not placed is reported, the plan is stored.
finish ==
  /\ run = "RUNNING" /\ todo = {} /\ OncePerTerm(plan)
  /\ run' = "COMPLETED_WITH_WARNINGS"
  /\ plan' = [t \in DOMAIN plan |-> [plan[t] EXCEPT !.status =
                CASE plan[t].credits >= request.minimum -> @
                  [] OTHER -> IF plan[t].credits > 0 THEN "PARTIAL" ELSE "BLOCKED"]]
  /\ warnings' = warnings \cup
       (IF \E t \in DOMAIN plan : plan[t].credits < request.minimum THEN {"MINIMUM_CREDITS_NOT_MET"} ELSE {}) \cup
       (IF {c.node : c \in planner_candidates(request)} \subseteq covered THEN {}
        ELSE {"PARTIAL_PLAN_HORIZON_INSUFFICIENT"})
  /\ UNCHANGED <<request, todo, covered>>

\* A database error, that of a repeated course among them: the plan is rolled back, a row
\* without terms is kept.
fail ==
  /\ run = "RUNNING"
  /\ run' = "FAILED" /\ todo' = {} /\ plan' = <<>> /\ covered' = {} /\ warnings' = {}
  /\ UNCHANGED request

Next == create_plan \/ place_candidate \/ finish \/ fail
Spec == Init /\ [][Next]_vars
-----------------------------------------------------------------------------
Slots == UNION {{<<t, i>> : i \in DOMAIN plan[t].courses} : t \in DOMAIN plan}
CourseAt(slot) == plan[slot[1]].courses[slot[2]].course

\* The rows that the tables accept (models/academic.py)
AcademicPlanRun(q) ==
  /\ q.minimum >= 0 /\ q.maximum >= 0 /\ q.preferred >= 0 /\ q.preferred <= q.maximum
  /\ q.mode = "WHAT_IF_SCENARIO" => q.scenario # None
AcademicPlanCourse(c) ==
  /\ c.credits \in Nat
  /\ c.status \in {"PLANNED", "CONDITIONALLY_PLANNED", "BLOCKED", "ALTERNATIVE", "MANUAL_REVIEW_REQUIRED"}
AcademicPlanTerm(t) ==
  /\ t.credits \in Nat /\ t.status \in {"PLANNED", "PARTIAL", "BLOCKED", "MANUAL_REVIEW_REQUIRED"}
  /\ \A c \in ToSet(t.courses) : AcademicPlanCourse(c)
\* A row is stored only for inputs that pass the guards, and each is one the tables accept.
TypeOK ==
  /\ run \in {None, "RUNNING", "REFUSED", "COMPLETED_WITH_WARNINGS", "FAILED"}
  /\ run \notin {None, "REFUSED"} => AcademicPlanRun(request)
  /\ \A t \in DOMAIN plan : AcademicPlanTerm(plan[t])
  /\ run = "COMPLETED_WITH_WARNINGS" => OncePerTerm(plan)
  /\ \A node \in covered : \E r \in ToSet(request.requirements) : r.node = node

PlanningAssumption ==
  /\ Requests # {} /\ None # "RUNNING"
  /\ \A c \in DOMAIN Catalog :
       /\ Catalog[c].credits \in Nat
       /\ Verdict(c).missing \in Seq(DOMAIN Catalog) /\ Verdict(c).to_add \in Seq(DOMAIN Catalog)
  /\ \A q \in Requests :
       /\ q.terms \in Int /\ q.terms_to_plan \in Int /\ q.maximum \in Int
       /\ \A r \in ToSet(q.requirements) : \A o \in ToSet(r.options) : o.course \in DOMAIN Catalog /\ o.credits \in Nat

\* A rule may name its own course: a repeat restriction says that it has not been taken. The
\* answer then names the course as missing. A reviewed rule may name a corequisite twice.
NamesItself(course) == course \in ToSet(Verdict(course).missing) \cup ToSet(Verdict(course).to_add)
PairedTwice(course) ==
  \E c \in DOMAIN Catalog : \E i, j \in DOMAIN Verdict(c).to_add :
    i # j /\ Verdict(c).to_add[i] = course /\ Verdict(c).to_add[j] = course

(***************************************************************************)
(* However candidates, prerequisites placed for a term that then fails,    *)
(* and corequisite pairs follow one another: no term holds more than the   *)
(* maximum, and no course stands in the plan twice, unless a rule asks for *)
(* the course that it restricts, or twice for one corequisite.             *)
(***************************************************************************)
PlanKeepsLimits ==
  /\ \A t \in DOMAIN plan : plan[t].credits <= request.maximum /\ plan[t].credits = CreditsIn(plan[t].courses)
  /\ \A s, u \in Slots :
       CourseAt(s) = CourseAt(u) => s = u \/ NamesItself(CourseAt(s)) \/ PairedTwice(CourseAt(s))

(***************************************************************************)
(* "Course is conditionally planned after its missing prerequisite is      *)
(* placed in an earlier term" (academic_planner/engine.py:744).            *)
(***************************************************************************)
PrerequisitesComeFirst ==
  \A s \in Slots : plan[s[1]].courses[s[2]].reason = "PREREQUISITE_PLANNED_EARLIER" =>
    \A p \in ToSet(Verdict(CourseAt(s)).missing) : \E u \in Slots : CourseAt(u) = p /\ u[1] < s[1]
=============================================================================
