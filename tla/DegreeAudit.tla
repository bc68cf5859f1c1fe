----------------------------- MODULE DegreeAudit -----------------------------
(***************************************************************************)
(* One degree audit (degree_audit/): the requirements of a program version *)
(* are evaluated one after the other, the children of a composite before   *)
(* it, and draw on the student's attempts, transfers, waivers,             *)
(* substitutions and equivalencies. A source that a requirement without    *)
(* overlap has used is kept from the ones after it.                        *)
(*                                                                         *)
(* A node has the number its type asks for (choose_n, minimum credits,     *)
(* minimum courses or residency credits) as `need`. Only approved records  *)
(* are listed; ids stand for the order of their texts.                     *)
(***************************************************************************)
EXTENDS GradePolicy, FiniteSets, SequencesExt

CONSTANTS
  Requests,   \* program versions with a student's records
  Catalog,    \* all courses with their levels, in order
  None

VARIABLES
  request,
  todo,       \* the calls of evaluate_node still to be made, and before them those being made
  used,       \* the allocator's _used_sources
  results,    \* the evaluations so far
  run         \* status of the DegreeAuditRun row

vars == <<request, todo, used, results, run>>

Nodes == ToSet(request.nodes)
NodeOf(id) == CHOOSE n \in Nodes : n.id = id
\* The members of a sequence at some of its positions, in order
Only(s, positions) ==
  [k \in 1..Cardinality(positions) |->
     s[CHOOSE i \in positions : Cardinality({j \in positions : j <= i}) = k]]
children_of(id) == Only(request.nodes, {i \in DOMAIN request.nodes : request.nodes[i].parent = id})
Ids(nodes) == [i \in DOMAIN nodes |-> nodes[i].id]
Evaluated == {results[i].node : i \in DOMAIN results}
\* The evaluator of a composite asks for its children, of which some may have been evaluated.
open_children(node) ==
  LET kids == IF node.type \in {"GROUP", "ALL_OF", "ANY_OF"} THEN children_of(node.id) ELSE <<>>
  IN Only(kids, {i \in DOMAIN kids : kids[i].id \notin Evaluated})
-----------------------------------------------------------------------------
Candidate(kind, id, course, credits, state) ==
  [source |-> <<kind, id>>, course |-> course, credits |-> credits, state |-> state]
attempt_candidates(course, as, kind, key, minimum) ==
  LET Usable(a) == /\ a.course = course
                   /\ \/ a.status \in {"IN_PROGRESS", "PLANNED"}
                      \/ a.status = "COMPLETED" /\ satisfies_minimum(a.grade, minimum).ok
      found == Only(request.attempts, {i \in DOMAIN request.attempts : Usable(request.attempts[i])})
  IN [i \in DOMAIN found |-> Candidate(kind, IF key = None THEN found[i].id ELSE key, as,
                                       found[i].credits, found[i].status)]
transfer_candidates(course, minimum) ==
  LET Usable(t) == t.course = course /\ (minimum = "none" \/ satisfies_minimum(t.grade, minimum).ok)
      found == Only(request.transfers, {i \in DOMAIN request.transfers : Usable(request.transfers[i])})
  IN [i \in DOMAIN found |-> Candidate("transfer", found[i].id, course, found[i].credits, "COMPLETED")]
waiver_candidates(node) ==
  LET found == Only(request.waivers, {i \in DOMAIN request.waivers : request.waivers[i].node = node.id})
  IN [i \in DOMAIN found |-> Candidate("waiver", found[i].id, None, 0, "COMPLETED")]
direct_candidates(course, minimum) ==
  attempt_candidates(course, course, "attempt", None, minimum) \o transfer_candidates(course, minimum)
equivalency_candidates(course, minimum) ==
  FlattenSeq([i \in DOMAIN request.equivalencies |->
    LET q == request.equivalencies[i]
    IN IF q.to # course THEN <<>> ELSE attempt_candidates(q.from, course, "attempt", None, minimum)])
substitution_candidates(node, course, minimum) ==
  FlattenSeq([i \in DOMAIN request.substitutions |->
    LET s == request.substitutions[i]
        found == attempt_candidates(s.substitute, s.substitute, "substitution", s.id, minimum)
    IN IF s.node # node.id \/ s.original # course THEN <<>>
       ELSE Only(found, {j \in DOMAIN found : found[j].state = "COMPLETED"})])

\* candidate_sort_key: completed, in progress, planned; waivers first; then by id
StateRank(c) == CASE c.state = "COMPLETED" -> 0 [] c.state = "IN_PROGRESS" -> 1 [] OTHER -> 2
SortKey(c) == <<StateRank(c), IF c.source[1] = "waiver" THEN 0 ELSE 1, c.source[2]>>
Less(k, l) == \E i \in 1..3 : k[i] < l[i] /\ \A j \in 1..(i - 1) : k[j] = l[j]
\* Sorting is stable: a candidate comes after those with a smaller key, and after those
\* with the same key that stood before it.
Sorted(candidates) ==
  LET KeyAt(i) == SortKey(candidates[i])
      Before(i) == {j \in DOMAIN candidates : Less(KeyAt(j), KeyAt(i)) \/ (KeyAt(j) = KeyAt(i) /\ j < i)}
  IN [k \in DOMAIN candidates |-> candidates[CHOOSE i \in DOMAIN candidates : Cardinality(Before(i)) = k - 1]]
course_candidates(node, option) ==
  LET minimum == IF option.minimum = "none" THEN node.minimum ELSE option.minimum
  IN Sorted(direct_candidates(option.course, minimum) \o equivalency_candidates(option.course, minimum)
              \o substitution_candidates(node, option.course, minimum))
all_course_candidates(minimum) ==
  Sorted(FlattenSeq([i \in DOMAIN Catalog |-> direct_candidates(Catalog[i].id, minimum)]))
-----------------------------------------------------------------------------
is_available(source, overlap, taken) == overlap \/ source \notin taken
\* mutant: what a requirement has used is not remembered
reserveForgets(sources, overlap, taken) == taken
\* What is taken when the sources have been reserved one after the other
reserve(sources, overlap, taken) == IF overlap THEN taken ELSE taken \cup sources

first_available(candidates, overlap, taken) ==
  Only(candidates, {i \in DOMAIN candidates : is_available(candidates[i].source, overlap, taken)})
\* The candidates without a course, or with one that none before them has
Distinct(candidates) ==
  LET Repeats(i) == candidates[i].course # None /\ \E j \in 1..(i - 1) : candidates[j].course = candidates[i].course
  IN Only(candidates, {i \in DOMAIN candidates : ~ Repeats(i)})
FirstOf(n, candidates) == Only(candidates, {i \in DOMAIN candidates : i <= n})
Credits(candidates, state) ==
  FoldLeft(LAMBDA n, c : IF c.state = state THEN n + c.credits ELSE n, 0, candidates)
CountOf(candidates, state) == Cardinality({i \in DOMAIN candidates : candidates[i].state = state})

\* count_status and credit_status
reach_status(required, completed, in_progress, planned) ==
  CASE completed >= required -> "SATISFIED"
    [] completed < required /\ completed + in_progress >= required -> "IN_PROGRESS"
    [] completed + in_progress < required /\ completed + in_progress + planned >= required -> "PLANNED"
    [] OTHER -> IF completed + in_progress + planned > 0 THEN "PARTIALLY_SATISFIED" ELSE "NOT_SATISFIED"
leaf_status(c) ==
  CASE c.source[1] = "waiver" -> "WAIVED"
    [] c.source[1] # "waiver" /\ c.state = "COMPLETED" -> "SATISFIED"
    [] OTHER -> c.state
CreditStatus(required, candidates) ==
  reach_status(required, Credits(candidates, "COMPLETED"), Credits(candidates, "IN_PROGRESS"), Credits(candidates, "PLANNED"))
CountStatus(required, candidates) ==
  reach_status(required, CountOf(candidates, "COMPLETED"), CountOf(candidates, "IN_PROGRESS"), CountOf(candidates, "PLANNED"))

\* The selected candidates become applications, each one reserved before the next.
Apply(selected, overlap, taken) ==
  LET After(n) == reserve({selected[j].source : j \in 1..n}, overlap, taken)
  IN [taken |-> After(Len(selected)),
      applications |-> [i \in DOMAIN selected |->
        [candidate |-> selected[i], shared |-> selected[i].source \in After(i - 1)]]]
Outcome(status, credits, applied) ==
  [status |-> status, credits |-> credits, applications |-> applied.applications, taken |-> applied.taken]
Unused == [taken |-> used, applications |-> <<>>]
manual_review == Outcome("MANUAL_REVIEW_REQUIRED", 0, Unused)

\* A waiver, or the first candidate of the first option that has one
required_course(node) ==
  LET waivers == first_available(Sorted(waiver_candidates(node)), node.overlap, used)
      offers == [i \in DOMAIN node.options |->
                   first_available(course_candidates(node, node.options[i]), node.overlap, used)]
      offering == {i \in DOMAIN offers : offers[i] # <<>>}
      Using(c) == Outcome(leaf_status(c), Credits(<<c>>, "COMPLETED"), Apply(<<c>>, node.overlap, used))
  IN CASE waivers # <<>> -> Using(waivers[1])
       [] waivers = <<>> /\ offering # {} -> Using(offers[Min(offering)][1])
       [] waivers = <<>> /\ offering = {} ->
            IF node.options = <<>> THEN manual_review ELSE Outcome("NOT_SATISFIED", 0, Unused)

choose_n(node) ==
  LET offered == waiver_candidates(node) \o
                 FlattenSeq([i \in DOMAIN node.options |-> course_candidates(node, node.options[i])])
      selected == FirstOf(node.need, Distinct(first_available(Sorted(offered), node.overlap, used)))
  IN Outcome(CountStatus(node.need, selected), Credits(selected, "COMPLETED"), Apply(selected, node.overlap, used))

minimum_courses(node) ==
  LET distinct == Distinct(first_available(all_course_candidates(node.minimum), node.overlap, used))
      selected == FirstOf(node.need, distinct)
  IN Outcome(CountStatus(node.need, distinct), Credits(distinct, "COMPLETED"), Apply(selected, node.overlap, used))

\* evaluate_credit_pool: the status counts every candidate, the applications only those that
\* are available, and only until enough credits are completed. A pool has a record once.
credit_pool(node, required, reserves, pool) ==
  LET candidates == Distinct(pool)
      open == IF reserves THEN first_available(candidates, node.overlap, used) ELSE candidates
      selected == Only(open, {i \in DOMAIN open : Credits(SubSeq(open, 1, i - 1), "COMPLETED") < required})
      unshared == [i \in DOMAIN selected |-> [candidate |-> selected[i], shared |-> FALSE]]
      applied == IF reserves THEN Apply(selected, node.overlap, used) ELSE [taken |-> used, applications |-> unshared]
  IN Outcome(CreditStatus(required, candidates), Credits(candidates, "COMPLETED"), applied)
LevelOf(course) == (CHOOSE c \in ToSet(Catalog) : c.id = course).level
at_level(node) ==
  LET all == all_course_candidates(node.minimum)
  IN Only(all, {i \in DOMAIN all : node.level = None \/ LevelOf(all[i].course) >= node.level})
resident(node) ==
  LET all == all_course_candidates(node.minimum) IN Only(all, {i \in DOMAIN all : all[i].source[1] = "attempt"})
total_credits(node) ==
  LET all == Distinct(all_course_candidates("none"))
      required == IF node.need = None \/ node.need = 0 THEN request.total ELSE node.need
  IN Outcome(CreditStatus(required, all), Credits(all, "COMPLETED"), Unused)

SatisfiedLike == {"SATISFIED", "WAIVED", "NOT_APPLICABLE"}
all_of_status(statuses) ==
  CASE "MANUAL_REVIEW_REQUIRED" \in statuses -> "MANUAL_REVIEW_REQUIRED"
    [] statuses \subseteq SatisfiedLike -> "SATISFIED"
    [] "MANUAL_REVIEW_REQUIRED" \notin statuses /\ ~ statuses \subseteq SatisfiedLike ->
         IF "NOT_SATISFIED" \notin statuses /\ "IN_PROGRESS" \in statuses THEN "IN_PROGRESS"
         ELSE IF "NOT_SATISFIED" \notin statuses /\ "PLANNED" \in statuses THEN "PLANNED"
         ELSE IF statuses \cap {"SATISFIED", "WAIVED", "IN_PROGRESS", "PLANNED", "PARTIALLY_SATISFIED"} # {}
              THEN "PARTIALLY_SATISFIED" ELSE "NOT_SATISFIED"
StatusOrder == <<"SATISFIED", "WAIVED", "IN_PROGRESS", "PLANNED", "PARTIALLY_SATISFIED",
                 "NOT_SATISFIED", "MANUAL_REVIEW_REQUIRED", "NOT_APPLICABLE">>
status_rank(status) == CHOOSE i \in DOMAIN StatusOrder : StatusOrder[i] = status
any_of_status(statuses) ==
  LET order == <<"IN_PROGRESS", "PLANNED", "PARTIALLY_SATISFIED", "MANUAL_REVIEW_REQUIRED">>
      found == {i \in DOMAIN order : order[i] \in statuses}
  IN IF statuses \cap {"SATISFIED", "WAIVED"} # {} THEN "SATISFIED"
     ELSE IF found # {} THEN order[CHOOSE i \in found : \A j \in found : i <= j] ELSE "NOT_SATISFIED"

ResultOf(id) == LET i == CHOOSE i \in DOMAIN results : results[i].node = id IN results[i].outcome
combined(node, all) ==
  LET kids == children_of(node.id)
      of == [i \in DOMAIN kids |-> ResultOf(kids[i].id)]
      statuses == {of[i].status : i \in DOMAIN of}
      best == CHOOSE i \in DOMAIN of : \A j \in DOMAIN of :
                LET k == status_rank(of[i].status)  l == status_rank(of[j].status) IN k < l \/ (k = l /\ i <= j)
      sum == FoldLeft(LAMBDA n, r : n + r.credits, 0, of)
  IN IF kids = <<>> THEN manual_review
     ELSE IF all THEN Outcome(all_of_status(statuses), sum, Unused)
     ELSE Outcome(any_of_status(statuses), of[best].credits, Unused)

\* credit_summary and the figures of the run: more credits than required are 100 percent.
summary ==
  LET all == Distinct(all_course_candidates("none"))
      completed == Credits(all, "COMPLETED")
      part == IF request.total > 0 THEN (completed * 100) \div request.total ELSE 0
  IN [completed |-> completed, in_progress |-> Credits(all, "IN_PROGRESS"), planned |-> Credits(all, "PLANNED"),
      remaining |-> IF request.total > completed THEN request.total - completed ELSE 0,
      percentage |-> IF part < 100 THEN part ELSE 100]

Lacks(node) ==
  \/ node.type \in {"MINIMUM_CREDITS", "MINIMUM_COURSES", "RESIDENCY", "CHOOSE_N"} /\ node.need = None
  \/ node.type = "COURSE_LEVEL" /\ node.level = None
  \/ node.type \in {"MINIMUM_GRADE", "EXCLUSION"}
evaluate(node) ==
  CASE Lacks(node) -> manual_review
    [] node.type \in {"REQUIRED_COURSE", "CAPSTONE"} -> required_course(node)
    [] node.type \in {"GROUP", "ALL_OF"} -> combined(node, TRUE)
    [] node.type = "ANY_OF" -> combined(node, FALSE)
    [] node.type = "TOTAL_CREDITS" -> total_credits(node)
    [] node.type = "CHOOSE_N" /\ ~ Lacks(node) -> choose_n(node)
    [] node.type = "MINIMUM_COURSES" /\ ~ Lacks(node) -> minimum_courses(node)
    [] node.type = "MINIMUM_CREDITS" /\ ~ Lacks(node) ->
         credit_pool(node, node.need, TRUE, at_level(node))
    [] node.type = "COURSE_LEVEL" /\ ~ Lacks(node) ->
         credit_pool(node, IF node.need = None THEN 0 ELSE node.need, FALSE, at_level(node))
    [] node.type = "RESIDENCY" /\ ~ Lacks(node) ->
         credit_pool(node, node.need, FALSE, resident(node))
-----------------------------------------------------------------------------
Init ==
  /\ request \in Requests
  /\ todo = <<>> /\ used = {} /\ results = <<>> /\ run = None

create_audit ==
  /\ run = None
  /\ IF request.declared
     THEN run' = "RUNNING" /\ todo' = Ids(children_of(None)) \o Ids(request.nodes)
     ELSE run' = "REFUSED" /\ UNCHANGED todo
  /\ UNCHANGED <<request, used, results>>

\* A node has a result already; a composite's children are evaluated first; or the node is.
known_node ==
  /\ run = "RUNNING" /\ todo # <<>> /\ Head(todo) \in Evaluated
  /\ todo' = Tail(todo)
  /\ UNCHANGED <<request, used, results, run>>
descend ==
  /\ run = "RUNNING" /\ todo # <<>> /\ Head(todo) \notin Evaluated
  /\ LET kids == open_children(NodeOf(Head(todo))) IN kids # <<>> /\ todo' = Ids(kids) \o todo
  /\ UNCHANGED <<request, used, results, run>>
evaluate_node ==
  /\ run = "RUNNING" /\ todo # <<>> /\ Head(todo) \notin Evaluated
  /\ open_children(NodeOf(Head(todo))) = <<>>
  /\ LET outcome == evaluate(NodeOf(Head(todo)))
     IN /\ results' = Append(results, [node |-> Head(todo),
              outcome |-> [status |-> outcome.status, credits |-> outcome.credits, applications |-> outcome.applications]])
        /\ used' = outcome.taken
  /\ todo' = Tail(todo)
  /\ UNCHANGED <<request, run>>

persist_success ==
  /\ run = "RUNNING" /\ todo = <<>>
  /\ run' = "COMPLETED"
  /\ UNCHANGED <<request, todo, used, results>>

\* A database error while evaluating: everything is rolled back, a row without results is kept.
fail ==
  /\ run = "RUNNING"
  /\ run' = "FAILED" /\ todo' = <<>> /\ used' = {} /\ results' = <<>>
  /\ UNCHANGED request

Next == create_audit \/ known_node \/ descend \/ evaluate_node \/ persist_success \/ fail
Spec == Init /\ [][Next]_vars
-----------------------------------------------------------------------------
\* The rows that the tables accept (models/academic.py)
IsSequence(s) == s \in Seq(ToSet(s))
Unique(s, Key(_)) == \A i, j \in DOMAIN s : Key(s[i]) = Key(s[j]) => i = j
RequirementType ==
  {"REQUIRED_COURSE", "CHOOSE_N", "MINIMUM_CREDITS", "MINIMUM_COURSES", "TOTAL_CREDITS", "MINIMUM_GRADE", "COURSE_LEVEL",
   "RESIDENCY", "ALL_OF", "ANY_OF", "EXCLUSION", "GROUP", "CAPSTONE"}
RequirementCourseOptions(options) == Unique(options, LAMBDA o : o.course)
RequirementNode(n) ==
  /\ n.type \in RequirementType /\ n.overlap \in BOOLEAN
  /\ n.parent # n.id
  /\ n.need # None => n.need \in Nat /\ (n.type = "CHOOSE_N" => n.need > 0)
  /\ n.level \in Nat \cup {None}
  /\ IsSequence(n.options) /\ RequirementCourseOptions(n.options)
StudentCourseAttempt(a) == a.id \in Nat /\ a.credits \in Nat
TransferCredit(t) == t.id \in Nat /\ t.credits \in Nat \ {0}
CourseWaiver(q, w) == w.id \in Nat /\ \E n \in ToSet(q.nodes) : n.id = w.node
CourseSubstitution(q, s) == s.id \in Nat /\ s.original # s.substitute /\ \E n \in ToSet(q.nodes) : n.id = s.node
CourseEquivalency(e) == e.from # e.to
AuditAssumption ==
  /\ IsSequence(Catalog) /\ Requests # {}
  /\ \A q \in Requests :
    /\ IsSequence(q.nodes) /\ IsSequence(q.attempts) /\ IsSequence(q.transfers) /\ IsSequence(q.waivers)
    /\ IsSequence(q.substitutions) /\ IsSequence(q.equivalencies)
    /\ Unique(q.nodes, LAMBDA n : n.id) /\ \A n \in ToSet(q.nodes) : RequirementNode(n)
    /\ q.total \in Nat \ {0}
    /\ \A a \in ToSet(q.attempts) : StudentCourseAttempt(a)
    /\ \A t \in ToSet(q.transfers) : TransferCredit(t)
    /\ \A w \in ToSet(q.waivers) : CourseWaiver(q, w)
    /\ \A s \in ToSet(q.substitutions) : CourseSubstitution(q, s)
    /\ \A e \in ToSet(q.equivalencies) : CourseEquivalency(e)
    /\ Unique(q.equivalencies, LAMBDA e : <<e.from, e.to>>)
AuditCourseApplication(a) ==
  /\ a.candidate.source[1] \in {"attempt", "transfer", "waiver", "substitution"}
  /\ a.candidate.credits \in Nat /\ a.shared \in BOOLEAN
  /\ a.candidate.state \in {"COMPLETED", "IN_PROGRESS", "PLANNED"}
RequirementEvaluation(r) ==
  /\ r.status \in ToSet(StatusOrder) /\ r.credits \in Nat
  /\ \A a \in ToSet(r.applications) : AuditCourseApplication(a)
DegreeAuditRun(r) ==
  /\ r.remaining \in Nat /\ r.percentage \in 0..100
  /\ r.completed \in Nat /\ r.in_progress \in Nat /\ r.planned \in Nat

\* A node is evaluated once, and the tables accept what an audit stores.
TypeOK ==
  /\ run \in {None, "RUNNING", "REFUSED", "COMPLETED", "FAILED"}
  /\ Unique(results, LAMBDA r : r.node)
  /\ \A r \in ToSet(results) : RequirementEvaluation(r.outcome)
  /\ run = "COMPLETED" => DegreeAuditRun(summary)

Reserving == {"REQUIRED_COURSE", "CAPSTONE", "CHOOSE_N", "MINIMUM_COURSES", "MINIMUM_CREDITS"}

(***************************************************************************)
(* What a requirement without overlap has used, a later one of the types   *)
(* that use up sources takes only if it allows overlap, and then the       *)
(* application says that it is shared.                                     *)
(***************************************************************************)
ExclusiveUseKept ==
  \A i, j \in DOMAIN results : i < j =>
    LET m == NodeOf(results[i].node)  n == NodeOf(results[j].node)
    IN {m.type, n.type} \subseteq Reserving /\ ~ m.overlap =>
         \A x \in ToSet(results[i].outcome.applications), y \in ToSet(results[j].outcome.applications) :
           x.candidate.source = y.candidate.source => n.overlap /\ y.shared

(***************************************************************************)
(* "Do not count the same course twice for distinct-course requirements"   *)
(* (docs/DOMAIN_RULES.md:56): a choice of n that is satisfied rests on n   *)
(* different records.                                                      *)
(***************************************************************************)
ChoicesAreDistinct ==
  \A i \in DOMAIN results :
    LET n == NodeOf(results[i].node)
    IN n.type = "CHOOSE_N" /\ results[i].outcome.status = "SATISFIED" =>
         Cardinality({a.candidate.source : a \in ToSet(results[i].outcome.applications)}) >= n.need
=============================================================================
