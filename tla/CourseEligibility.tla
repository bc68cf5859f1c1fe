-------------------------- MODULE CourseEligibility --------------------------
(***************************************************************************)
(* Eligibility checks of one student for one course                        *)
(* (course_eligibility/engine.py, reviewed_rules/eligibility.py) while the *)
(* student's attempts progress. The term and the section's seats change no *)
(* verdict and are left out.                                               *)
(*                                                                         *)
(* Attempts are listed as effective_student_course_attempts returns them:  *)
(* of one course the latest first. The expressions of a rule are listed in *)
(* the order of their evaluation: each with the position of its parent, a  *)
(* child before its parent and so the root, whose parent is 0, last. Rows  *)
(* that the root does not reach are never evaluated and are left out. An   *)
(* absent operand is None.                                                 *)
(***************************************************************************)
EXTENDS GradePolicy, FiniteSets, SequencesExt

CONSTANTS
  Requests,   \* what a check is asked for, the student as stored, the rows to come
  None

VARIABLES
  request,    \* mode, attempts, transfers, rules, reviewed, incoming rows, ...
  check       \* the last stored check, or None

vars == <<request, check>>

Match(result, reason, course) == [result |-> result, reason |-> reason, course |-> course]
Plain(result) == Match(result, "OTHER", None)

\* mutant: the inverse of an open question is a refusal
rollup_notRefuses(result) ==
  IF result = "NOT_SATISFIED" THEN "SATISFIED" ELSE "NOT_SATISFIED"
rollup_not(result) ==
  CASE result = "SATISFIED" -> "NOT_SATISFIED"
    [] result = "NOT_SATISFIED" -> "SATISFIED"
    [] OTHER -> "MANUAL_REVIEW_REQUIRED"
\* The first of the order that occurs, else what is left
First(order, results, rest) ==
  LET found == {i \in DOMAIN order : order[i] \in results}
  IN IF found = {} THEN rest ELSE order[CHOOSE i \in found : \A j \in found : i <= j]
rollup_and(results) ==
  First(<<"NOT_SATISFIED", "PERMISSION_REQUIRED", "CONDITIONALLY_SATISFIED", "MANUAL_REVIEW_REQUIRED">>,
        results, "SATISFIED")
rollup_or(results) ==
  First(<<"SATISFIED", "CONDITIONALLY_SATISFIED", "PERMISSION_REQUIRED", "MANUAL_REVIEW_REQUIRED">>,
        results, "NOT_SATISFIED")
\* results: those of the children
evaluate_operator(node, results) ==
  CASE node = "AND" /\ results # <<>> -> rollup_and(Range(results))
    [] node = "OR" /\ results # <<>> -> rollup_or(Range(results))
    [] node = "NOT" /\ (\E i \in DOMAIN results : DOMAIN results = {i}) ->
         rollup_not(results[CHOOSE i \in DOMAIN results : TRUE])
    [] OTHER -> "MANUAL_REVIEW_REQUIRED"
-----------------------------------------------------------------------------
\* Positions in the list of attempts
Of(ctx, course) == {i \in DOMAIN ctx.attempts : ctx.attempts[i].course = course}
Passed(a) == a.status = "COMPLETED" /\ satisfies_minimum(a.grade, "none").ok
\* An imported plan never counts, imported work in progress only beside the course.
may_be_conditional(a, type) ==
  \/ a.status = "IN_PROGRESS" /\ (~ a.imported \/ type = "COREQUISITE")
  \/ a.status = "PLANNED" /\ ~ a.imported
LooksAhead(ctx) == ctx.mode \in {"PROJECTED", "REGISTRATION"}
Pending(ctx, course, type) ==
  {i \in Of(ctx, course) : LooksAhead(ctx) /\ may_be_conditional(ctx.attempts[i], type)}
PassedOf(ctx, course) == {i \in Of(ctx, course) : Passed(ctx.attempts[i])}

completed_course(e, type, ctx) ==
  LET beside == type = "COREQUISITE"
      pending == Pending(ctx, e.course, type)
      Satisfied == Match("SATISFIED", IF beside THEN "COREQUISITE_COMPLETED" ELSE "OTHER", e.course)
      Conditional(reason) == Match("CONDITIONALLY_SATISFIED", reason, e.course)
  IN CASE e.course = None -> Plain("MANUAL_REVIEW_REQUIRED")
       [] e.course # None /\ (PassedOf(ctx, e.course) # {} \/ e.course \in DOMAIN ctx.transfers) -> Satisfied
       [] OTHER ->
            IF pending # {} THEN
              Conditional(IF ~ beside THEN "OTHER"
                          ELSE IF ctx.attempts[Min(pending)].status = "IN_PROGRESS" THEN "COREQUISITE_IN_PROGRESS"
                          ELSE "COREQUISITE_CONCURRENT_PLAN")
            ELSE IF beside /\ LooksAhead(ctx) THEN
              Conditional(IF e.course \in ctx.planned THEN "COREQUISITE_CONCURRENT_PLAN"
                          ELSE "COREQUISITE_MUST_ENROLL")
            ELSE Match("NOT_SATISFIED", "COMPLETED_COURSE_MISSING", e.course)

\* mutant: the latest attempt that passed decides
best_attemptLatest(attempts, passed) == attempts[Min(passed)]
best_attempt(attempts, passed) ==
  attempts[CHOOSE i \in passed : \A j \in passed :
             LET k == best_grade_key(attempts[i].grade)  l == best_grade_key(attempts[j].grade)
             IN k < l \/ (k = l /\ i <= j)]
minimum_grade(e, type, ctx) ==
  LET passed == PassedOf(ctx, e.course)
      decision == satisfies_minimum(best_attempt(ctx.attempts, passed).grade, e.minimum)
  IN CASE e.course = None \/ e.minimum = "none" -> Plain("MANUAL_REVIEW_REQUIRED")
       [] e.course # None /\ e.minimum # "none" /\ passed # {} ->
            Plain(IF decision.ok THEN "SATISFIED" ELSE IF decision.review THEN "MANUAL_REVIEW_REQUIRED"
                  ELSE "NOT_SATISFIED")
       [] OTHER -> Plain(IF Pending(ctx, e.course, type) # {} THEN "CONDITIONALLY_SATISFIED" ELSE "NOT_SATISFIED")

\* Of a course the latest completed attempt counts, a transfer when there is none;
\* what is open counts with every attempt.
CompletedOf(ctx, course) == {i \in Of(ctx, course) : ctx.attempts[i].status = "COMPLETED"}
Counted(ctx) ==
  DOMAIN ctx.transfers \cup {a.course : a \in {b \in ToSet(ctx.attempts) : b.status = "COMPLETED"}}
Credit(ctx, course) ==
  IF CompletedOf(ctx, course) = {} THEN ctx.transfers[course]
  ELSE ctx.attempts[Min(CompletedOf(ctx, course))].credits
earned(ctx) == SumFunctionOnSet([course \in Counted(ctx) |-> Credit(ctx, course)], Counted(ctx))
potential(ctx) ==
  LET open == {i \in DOMAIN ctx.attempts :
                 ~ ctx.attempts[i].imported /\ ctx.attempts[i].status \in {"IN_PROGRESS", "PLANNED"}}
  IN SumFunctionOnSet([i \in open |-> ctx.attempts[i].credits], open)
minimum_completed_credits(e, ctx) ==
  Plain(CASE e.credits = None -> "MANUAL_REVIEW_REQUIRED"
          [] e.credits # None /\ earned(ctx) >= e.credits -> "SATISFIED"
          [] OTHER -> IF LooksAhead(ctx) /\ earned(ctx) + potential(ctx) >= e.credits
                      THEN "CONDITIONALLY_SATISFIED" ELSE "NOT_SATISFIED")

standings == <<"FRESHMAN", "SOPHOMORE", "JUNIOR", "SENIOR", "GRADUATE">>
class_standing(e, ctx) ==
  LET Rank(s) == CHOOSE i \in DOMAIN standings : standings[i] = s
  IN Plain(IF {e.standing, ctx.standing} \subseteq ToSet(standings)
           THEN IF Rank(ctx.standing) >= Rank(e.standing) THEN "SATISFIED" ELSE "NOT_SATISFIED"
           ELSE "MANUAL_REVIEW_REQUIRED")
\* programs: those of the expression's type in which the student is active. Outside of
\* a registration restriction a match is no match.
program_restriction(e, type, ctx) ==
  Plain(CASE e.program = None -> "MANUAL_REVIEW_REQUIRED"
          [] e.program \in ctx.programs /\ type = "REGISTRATION_RESTRICTION" -> "SATISFIED"
          [] OTHER -> "NOT_SATISFIED")
campus_restriction(e, ctx) ==
  Plain(IF e.campus # None /\ e.campus = ctx.campus THEN "SATISFIED" ELSE "MANUAL_REVIEW_REQUIRED")

evaluate_leaf(e, type, ctx) ==
  CASE e.node = "COMPLETED_COURSE" -> completed_course(e, type, ctx)
    [] e.node = "MINIMUM_GRADE" -> minimum_grade(e, type, ctx)
    [] e.node = "MINIMUM_COMPLETED_CREDITS" -> minimum_completed_credits(e, ctx)
    [] e.node = "CLASS_STANDING" -> class_standing(e, ctx)
    [] e.node = "PROGRAM_RESTRICTION" -> program_restriction(e, type, ctx)
    [] e.node = "CAMPUS_RESTRICTION" -> campus_restriction(e, ctx)
    [] e.node = "PERMISSION_REQUIRED" -> Plain("PERMISSION_REQUIRED")

Operators == {"AND", "OR", "NOT"}
IsOperator(e) == e.node \in Operators
children(tree, i) == {j \in DOMAIN tree : tree[j].parent = i}
\* _evaluate_expression_tree, for every expression of a rule; match: of those before
evaluate_expression(rule, ctx, match, i) ==
  IF IsOperator(rule.tree[i])
    THEN Plain(evaluate_operator(rule.tree[i].node, [j \in children(rule.tree, i) |-> match[j].result]))
    ELSE evaluate_leaf(rule.tree[i], rule.type, ctx)
evaluate_tree(rule, ctx) ==
  LET match[i \in DOMAIN rule.tree] == evaluate_expression(rule, ctx, match, i) IN match
-----------------------------------------------------------------------------
\* The positions of the rules that apply: a rule of a section does only when the check
\* names the section.
load_rules(ctx) == {i \in DOMAIN ctx.rules : ctx.section \/ ~ ctx.rules[i].sectional}
Trees(ctx) == [i \in load_rules(ctx) |-> evaluate_tree(ctx.rules[i], ctx)]
rule_result(rule, tree) ==
  IF rule.tree = <<>> THEN "MANUAL_REVIEW_REQUIRED" ELSE tree[Len(rule.tree)].result
aggregate_overall(ctx, trees) ==
  LET worst == rollup_and({rule_result(ctx.rules[i], trees[i]) : i \in DOMAIN trees})
  IN CASE worst = "SATISFIED" -> "ELIGIBLE"
       [] worst = "NOT_SATISFIED" -> "NOT_ELIGIBLE"
       [] worst = "CONDITIONALLY_SATISFIED" -> "CONDITIONALLY_ELIGIBLE"
       [] OTHER -> worst
\* list(dict.fromkeys(...)): the first of each
Distinct(list) == FoldLeft(LAMBDA kept, x : IF x \in ToSet(kept) THEN kept ELSE Append(kept, x), <<>>, list)
Result(overall, missing, to_add) == [overall |-> overall, missing |-> missing, to_add |-> to_add]
evaluate_stored(ctx) ==
  LET trees == Trees(ctx)
      leaves == FlattenSeq([i \in DOMAIN ctx.rules |-> IF i \in load_rules(ctx) THEN trees[i] ELSE <<>>])
      Named(result, reasons) ==
        LET found == SelectSeq(leaves, LAMBDA l : l.result = result /\ l.reason \in reasons)
        IN [i \in DOMAIN found |-> found[i].course]
  IN IF load_rules(ctx) = {}
     THEN Result(IF ctx.snapshot THEN "MANUAL_REVIEW_REQUIRED" ELSE "ELIGIBLE", <<>>, <<>>)
     ELSE Result(aggregate_overall(ctx, trees), Named("NOT_SATISFIED", {"COMPLETED_COURSE_MISSING"}),
                 Distinct(Named("CONDITIONALLY_SATISFIED", {"COREQUISITE_MUST_ENROLL", "COREQUISITE_CONCURRENT_PLAN"})))

\* evaluate_reviewed_prerequisites: a code of no catalog course is None.
evaluate_reviewed(ctx) ==
  LET d == ctx.reviewed.definition
      Has(course, statuses) == \E i \in Of(ctx, course) : ctx.attempts[i].status \in statuses
      named == ToSet(d.prerequisites) \cup ToSet(d.corequisites)
      Blocking(c) == c \in ToSet(d.prerequisites) /\ ~ Has(c, {"COMPLETED", "IN_PROGRESS", "PLANNED"})
      overall == CASE None \in named -> "UNKNOWN"
                   [] None \notin named /\ (\E c \in named : Blocking(c)) -> "NOT_ELIGIBLE"
                   [] OTHER -> IF \A c \in named : Has(c, {"COMPLETED"}) THEN "ELIGIBLE" ELSE "CONDITIONALLY_ELIGIBLE"
  IN IF ctx.reviewed.state = "CONFLICT" \/ d = None THEN Result("UNKNOWN", <<>>, <<>>)
     ELSE Result(overall, <<>>, SelectSeq(d.corequisites, LAMBDA c :
                   c # None /\ ~ Has(c, {"COMPLETED", "IN_PROGRESS"})))
evaluate(ctx) == IF ctx.reviewed.state = "MISSING" THEN evaluate_stored(ctx) ELSE evaluate_reviewed(ctx)
-----------------------------------------------------------------------------
Init == request \in Requests /\ check = None

\* A course row of a review is applied: the next attempt of its course. Its term is
\* new, so it is never the duplicate that the code skips.
attempt_status(row) ==
  CASE row.status \in {"IN_PROGRESS", "CURRENT"} -> "IN_PROGRESS"
    [] row.status \in {"PLANNED", "TRANSFERRED"} -> row.status
    [] OTHER -> IF row.status \in {"WITHDRAWN", "W"} \/ row.grade \in {"W", "WF"} THEN "WITHDRAWN"
                ELSE IF row.status = "INCOMPLETE" \/ row.grade = "I" THEN "INCOMPLETE"
                ELSE IF row.status = "FAILED" \/ row.grade \in {"F", "U"} THEN "FAILED" ELSE "COMPLETED"
apply_course_attempt(row) ==
  /\ row \in request.incoming
  /\ request' = [request EXCEPT
       !.incoming = @ \ {row},
       !.attempts = <<[course |-> row.course, status |-> attempt_status(row), grade |-> row.grade,
                       credits |-> row.credits, imported |-> FALSE]>> \o @]
  /\ UNCHANGED check

\* What is stored has the evaluations of every rule and names the attempts it rests on.
create_check ==
  /\ check' = [result |-> evaluate(request), attempts |-> request.attempts,
               evaluations |-> IF request.reviewed.state = "MISSING" THEN Trees(request) ELSE <<>>]
  /\ UNCHANGED request

Next == create_check \/ \E row \in request.incoming : apply_course_attempt(row)
Spec == Init /\ [][Next]_vars
-----------------------------------------------------------------------------
\* The rows that the tables accept (models/academic.py)
CourseRuleType == {"PREREQUISITE", "COREQUISITE", "REGISTRATION_RESTRICTION", "REPEAT_RESTRICTION", "PERMISSION"}
EligibilityRuleResult ==
  {"SATISFIED", "CONDITIONALLY_SATISFIED", "NOT_SATISFIED", "PERMISSION_REQUIRED", "MANUAL_REVIEW_REQUIRED", "NOT_APPLICABLE"}
EligibilityOverallResult ==
  {"ELIGIBLE", "CONDITIONALLY_ELIGIBLE", "NOT_ELIGIBLE", "PERMISSION_REQUIRED", "MANUAL_REVIEW_REQUIRED", "UNKNOWN"}
\* Every leaf has the operands that its type needs, an operator has none.
Operands(e) ==
  {o \in {"course", "credits", "program", "campus"} : e[o] # None} \cup {o \in {"minimum", "standing"} : e[o] # "none"}
OperandsNeeded(node) ==
  CASE node = "COMPLETED_COURSE" -> {"course"}
    [] node = "MINIMUM_GRADE" -> {"course", "minimum"}
    [] node = "MINIMUM_COMPLETED_CREDITS" -> {"credits"}
    [] node = "CLASS_STANDING" -> {"standing"}
    [] node = "PROGRAM_RESTRICTION" -> {"program"}
    [] node = "CAMPUS_RESTRICTION" -> {"campus"}
    [] OTHER -> {}
Leaves == {"COMPLETED_COURSE", "MINIMUM_GRADE", "MINIMUM_COMPLETED_CREDITS", "CLASS_STANDING",
           "PROGRAM_RESTRICTION", "CAMPUS_RESTRICTION", "PERMISSION_REQUIRED"}
CourseRuleExpression(e) ==
  /\ e.node \in Operators \cup Leaves
  /\ OperandsNeeded(e.node) \subseteq Operands(e) /\ (IsOperator(e) => Operands(e) = {})
  /\ e.credits # None => e.credits \in Nat
CourseRule(r) ==
  /\ r.type \in CourseRuleType
  /\ r.tree \in Seq(ToSet(r.tree))
  /\ \A i \in DOMAIN r.tree :
       /\ CourseRuleExpression(r.tree[i])
       /\ r.tree[i].parent \in IF i = Len(r.tree) THEN {0} ELSE (i + 1)..Len(r.tree)
StudentCourseAttempt ==
  [course : STRING, grade : STRING, credits : Nat, imported : BOOLEAN,
   status : {"COMPLETED", "IN_PROGRESS", "PLANNED", "FAILED", "WITHDRAWN", "INCOMPLETE", "TRANSFERRED"}]
EligibilityRequest(q) ==
  /\ {"mode", "snapshot", "section", "attempts", "transfers", "planned", "standing", "programs", "campus", "rules",
      "reviewed", "incoming"} \subseteq DOMAIN q
  /\ q.rules \in Seq(ToSet(q.rules)) /\ \A r \in ToSet(q.rules) : CourseRule(r)
  /\ q.attempts \in Seq(StudentCourseAttempt)
  /\ q.incoming \subseteq [course : STRING, status : STRING, grade : STRING, credits : Nat]
  /\ IsFiniteSet(DOMAIN q.transfers) /\ \A course \in DOMAIN q.transfers : q.transfers[course] \in Nat
EligibilityAssumption == \A q \in Requests : EligibilityRequest(q)

\* One evaluation of every rule that applies, and of every expression of it.
RuleExpressionEvaluation(v) == v.result \in EligibilityRuleResult
RuleEvaluation(rule, tree) ==
  DOMAIN tree = DOMAIN rule.tree /\ \A i \in DOMAIN tree : RuleExpressionEvaluation(tree[i])
EligibilityCheckRun(run) ==
  /\ run.result.overall \in EligibilityOverallResult
  /\ DOMAIN run.evaluations = IF request.reviewed.state = "MISSING" THEN load_rules(request) ELSE {}
  /\ \A i \in DOMAIN run.evaluations : RuleEvaluation(request.rules[i], run.evaluations[i])

\* The check that is stored is one that the tables accept, and so are the attempts.
TypeOK ==
  /\ request.attempts \in Seq(StudentCourseAttempt)
  /\ check # None => EligibilityCheckRun(check)

\* The truth values an expression can turn out to have: a leaf that is satisfied or not
\* satisfied is settled, every other one may turn out either way, and so may an operator
\* without an operand or a NOT of several.
Settled(result) == {v \in BOOLEAN : (result = "SATISFIED" => v) /\ (result = "NOT_SATISFIED" => ~ v)}
Open(node, below) == below = {} \/ (node = "NOT" /\ \A j \in below : below # {j})
Reading(rule, ctx, can, i) ==
  LET node == rule.tree[i].node  below == children(rule.tree, i)
  IN CASE ~ IsOperator(rule.tree[i]) -> Settled(evaluate_leaf(rule.tree[i], rule.type, ctx).result)
       [] node = "AND" /\ ~ Open(node, below) ->
            {v \in BOOLEAN : IF v THEN \A j \in below : TRUE \in can[j] ELSE \E j \in below : FALSE \in can[j]}
       [] node = "OR" /\ ~ Open(node, below) ->
            {v \in BOOLEAN : IF v THEN \E j \in below : TRUE \in can[j] ELSE \A j \in below : FALSE \in can[j]}
       [] node = "NOT" /\ ~ Open(node, below) -> {v \in BOOLEAN : \A j \in below : (~ v) \in can[j]}
       [] OTHER -> BOOLEAN
Readings(rule, ctx) ==
  LET can[i \in DOMAIN rule.tree] == Reading(rule, ctx, can, i)
  IN IF rule.tree = <<>> THEN BOOLEAN ELSE can[Len(rule.tree)]
Answers(ctx) ==
  {v \in BOOLEAN : IF v THEN \A i \in load_rules(ctx) : TRUE \in Readings(ctx.rules[i], ctx)
                        ELSE \E i \in load_rules(ctx) : FALSE \in Readings(ctx.rules[i], ctx)}
Stored(ctx) == ctx.reviewed.state = "MISSING" /\ load_rules(ctx) # {}

(***************************************************************************)
(* A stored verdict is final exactly when no open question can change it:  *)
(* "eligible" when the rules hold however the conditional, permission and  *)
(* manual leaves turn out, "not eligible" when they fail in every case.    *)
(***************************************************************************)
VerdictIsSound ==
  check # None /\ check.attempts = request.attempts /\ Stored(request) =>
    /\ check.result.overall = "ELIGIBLE" <=> Answers(request) = {TRUE}
    /\ check.result.overall = "NOT_ELIGIBLE" <=> Answers(request) = {FALSE}

\* The latest attempt of a course replaces the credits of an earlier one or of a transfer.
\* Only when it brings as many do earned credits never fall.
SameCredits(ctx) ==
  LET known == ToSet(ctx.attempts) \cup ctx.incoming
  IN \A a \in known :
       /\ \A b \in known : a.course = b.course => a.credits = b.credits
       /\ a.course \in DOMAIN ctx.transfers => a.credits = ctx.transfers[a.course]
Uses(ctx, node) == \E i \in load_rules(ctx) : \E j \in DOMAIN ctx.rules[i].tree : ctx.rules[i].tree[j].node = node

(***************************************************************************)
(* Without a NOT, no further row takes eligibility away: a retake that     *)
(* goes worse, is withdrawn from or is only planned leaves what the first  *)
(* attempt earned. With a minimum of credits that needs courses that keep  *)
(* theirs.                                                                 *)
(***************************************************************************)
EligibleStays ==
  [][check' # check /\ check # None /\ check.result.overall = "ELIGIBLE"
       /\ ~ Uses(request, "NOT") /\ (Uses(request, "MINIMUM_COMPLETED_CREDITS") => SameCredits(request))
     => check'.result.overall = "ELIGIBLE"]_vars
=============================================================================
