-------------------------- MODULE EvaluationProofs ---------------------------
(***************************************************************************)
(* What the eligibility checks and the degree audits keep in every         *)
(* behaviour of the advising services.                                     *)
(*                                                                         *)
(* Eligibility: a verdict is final exactly when no open question can       *)
(* change it, and without a NOT no further attempt takes eligibility away. *)
(* The recursion over the expressions of a rule, and that over their       *)
(* readings, are functions because a child is listed before its parent.    *)
(* What holds of every expression is shown of a first one for which it     *)
(* would not.                                                              *)
(*                                                                         *)
(* Audits: what is used exclusively is not used again, and every           *)
(* evaluation and its summary are rows that the tables accept. The         *)
(* candidates are sorted by keys in a total order, so each has a place of  *)
(* its own in the list.                                                    *)
(***************************************************************************)
EXTENDS Advising, SearchProofs, SequenceTheorems, TLAPS

LEMMA EachServiceSteps ==
  [AdvisingNext]_advisingVars =>
    /\ [Next]_vars /\ [Eligibility!Next]_(Eligibility!vars) /\ [Audit!Next]_(Audit!vars) /\ [Planner!Next]_(Planner!vars)
    /\ [Monitor!Next]_(Monitor!vars) /\ [Rules!Next]_(Rules!vars) /\ [SectionImport!Next]_(SectionImport!vars)
<1> SUFFICES ASSUME [AdvisingNext]_advisingVars
             PROVE  /\ [Next]_vars /\ [Eligibility!Next]_(Eligibility!vars) /\ [Audit!Next]_(Audit!vars) /\ [Planner!Next]_(Planner!vars)
                    /\ [Monitor!Next]_(Monitor!vars) /\ [Rules!Next]_(Rules!vars) /\ [SectionImport!Next]_(SectionImport!vars)
  OBVIOUS
<1> USE DEF checkVars, Eligibility!vars, auditVars, Audit!vars, planVars, Planner!vars, monitorVars, Monitor!vars, ruleVars, Rules!vars, importVars, SectionImport!vars
<1>1. CASE Evaluating
  BY <1>1 DEF Evaluating
<1>9. CASE Checking
  BY <1>9 DEF Checking
<1>7. CASE Auditing
  BY <1>7 DEF Auditing
<1>2. CASE Planning
  BY <1>2 DEF Planning
<1>3. CASE Monitoring
  BY <1>3 DEF Monitoring
<1>4. CASE Reviewing
  BY <1>4 DEF Reviewing
<1>5. CASE Importing
  BY <1>5 DEF Importing
<1>6. CASE UNCHANGED advisingVars
  BY <1>6 DEF advisingVars
<1>8. QED
  BY <1>1, <1>2, <1>3, <1>4, <1>5, <1>6, <1>7, <1>9 DEF AdvisingNext, Ended

\* Every behaviour of the composition is one of each service.
LEMMA EachServiceRuns ==
  AdvisingSpec => Spec /\ Eligibility!Spec /\ Audit!Spec /\ Planner!Spec /\ Monitor!Spec /\ Rules!Spec /\ SectionImport!Spec
<1>1. AdvisingInit => Init /\ Eligibility!Init /\ Audit!Init /\ Planner!Init /\ Monitor!Init /\ Rules!Init /\ SectionImport!Init
  BY DEF AdvisingInit, Begin
<1>2. QED
  BY <1>1, EachServiceSteps, PTL
  DEF AdvisingSpec, Spec, Eligibility!Spec, Audit!Spec, Planner!Spec, Monitor!Spec, Rules!Spec, SectionImport!Spec
-----------------------------------------------------------------------------
(* Results *)

\* What an expression or a rule evaluates to
RuleResults == {"SATISFIED", "NOT_SATISFIED", "PERMISSION_REQUIRED", "CONDITIONALLY_SATISFIED", "MANUAL_REVIEW_REQUIRED"}

LEMMA LeastIs ==
  ASSUME NEW S \in SUBSET Nat, S # {}
  PROVE  Eligibility!Min(S) \in S /\ \A n \in S : Eligibility!Min(S) <= n
<1>1. \E n \in S : \A m \in S : n <= m
  BY SmallestTerm
<1> QED
  BY <1>1 DEF Eligibility!Min

\* The first result of an order that occurs, else the rest
LEMMA FirstOfOrder ==
  ASSUME NEW T, NEW order \in Seq(T), NEW S, NEW rest
  PROVE  LET f == Eligibility!First(order, S, rest) IN
         \/ (\A i \in DOMAIN order : order[i] \notin S) /\ f = rest
         \/ \E i \in DOMAIN order : /\ order[i] \in S /\ f = order[i]
                                    /\ \A j \in DOMAIN order : order[j] \in S => i <= j
<1> DEFINE found == {i \in DOMAIN order : order[i] \in S}
           pick == CHOOSE i \in found : \A j \in found : i <= j
<1>1. Eligibility!First(order, S, rest) = IF found = {} THEN rest ELSE order[pick]
  BY Zenon DEF Eligibility!First
<1>2. CASE found = {}
  BY <1>1, <1>2
<1>3. CASE found # {}
  <2>1. found \in SUBSET Nat
    OBVIOUS
  <2>2. \E i \in found : \A j \in found : i <= j
    <3> HIDE DEF found
    <3> QED
      BY <1>3, <2>1, SmallestTerm
  <2>3. pick \in found /\ \A j \in found : pick <= j
    BY <2>2, Zenon
  <2> HIDE DEF pick
  <2> QED
    BY <1>1, <1>3, <2>3
<1> QED
  BY <1>2, <1>3

\* A conjunction holds when all do and fails when one does,
LEMMA AndIs ==
  ASSUME NEW S \in SUBSET RuleResults
  PROVE  LET r == Eligibility!rollup_and(S) IN
         /\ r \in RuleResults
         /\ r = "SATISFIED" <=> \A x \in S : x = "SATISFIED"
         /\ r = "NOT_SATISFIED" <=> "NOT_SATISFIED" \in S
<1> DEFINE order == <<"NOT_SATISFIED", "PERMISSION_REQUIRED", "CONDITIONALLY_SATISFIED", "MANUAL_REVIEW_REQUIRED">>
           r == Eligibility!First(order, S, "SATISFIED")
<1>1. order \in Seq(RuleResults) /\ DOMAIN order = 1..4
  BY DEF RuleResults
<1>2. \/ (\A i \in DOMAIN order : order[i] \notin S) /\ r = "SATISFIED"
      \/ \E i \in DOMAIN order : /\ order[i] \in S /\ r = order[i]
                                 /\ \A j \in DOMAIN order : order[j] \in S => i <= j
  <2> HIDE DEF order
  <2> QED
    BY <1>1, FirstOfOrder
<1>3. Eligibility!rollup_and(S) = r
  BY DEF Eligibility!rollup_and
<1> HIDE DEF r
<1>4. CASE (\A i \in DOMAIN order : order[i] \notin S) /\ r = "SATISFIED"
  <2>1. "NOT_SATISFIED" \notin S /\ "PERMISSION_REQUIRED" \notin S /\ "CONDITIONALLY_SATISFIED" \notin S /\ "MANUAL_REVIEW_REQUIRED" \notin S
    BY <1>4
  <2> QED
    BY <1>3, <1>4, <2>1 DEF RuleResults
<1>5. CASE \E i \in DOMAIN order : /\ order[i] \in S /\ r = order[i]
                                   /\ \A j \in DOMAIN order : order[j] \in S => i <= j
  <2>1. PICK i \in 1..4 : order[i] \in S /\ r = order[i] /\ \A j \in 1..4 : order[j] \in S => i <= j
    BY <1>1, <1>5
  <2>2. r # "SATISFIED" /\ r \in S /\ r \in RuleResults
    BY <2>1 DEF RuleResults
  <2>3. "NOT_SATISFIED" \in S => r = "NOT_SATISFIED"
    BY <2>1
  <2> QED
    BY <1>3, <2>2, <2>3
<1> QED
  BY <1>2, <1>4, <1>5

\* and a disjunction the other way round.
LEMMA OrIs ==
  ASSUME NEW S \in SUBSET RuleResults
  PROVE  LET r == Eligibility!rollup_or(S) IN
         /\ r \in RuleResults
         /\ r = "SATISFIED" <=> "SATISFIED" \in S
         /\ r = "NOT_SATISFIED" <=> \A x \in S : x = "NOT_SATISFIED"
<1> DEFINE order == <<"SATISFIED", "CONDITIONALLY_SATISFIED", "PERMISSION_REQUIRED", "MANUAL_REVIEW_REQUIRED">>
           r == Eligibility!First(order, S, "NOT_SATISFIED")
<1>1. order \in Seq(RuleResults) /\ DOMAIN order = 1..4
  BY DEF RuleResults
<1>2. \/ (\A i \in DOMAIN order : order[i] \notin S) /\ r = "NOT_SATISFIED"
      \/ \E i \in DOMAIN order : /\ order[i] \in S /\ r = order[i]
                                 /\ \A j \in DOMAIN order : order[j] \in S => i <= j
  <2> HIDE DEF order
  <2> QED
    BY <1>1, FirstOfOrder
<1>3. Eligibility!rollup_or(S) = r
  BY DEF Eligibility!rollup_or
<1> HIDE DEF r
<1>4. CASE (\A i \in DOMAIN order : order[i] \notin S) /\ r = "NOT_SATISFIED"
  <2>1. "SATISFIED" \notin S /\ "PERMISSION_REQUIRED" \notin S /\ "CONDITIONALLY_SATISFIED" \notin S /\ "MANUAL_REVIEW_REQUIRED" \notin S
    BY <1>4
  <2> QED
    BY <1>3, <1>4, <2>1 DEF RuleResults
<1>5. CASE \E i \in DOMAIN order : /\ order[i] \in S /\ r = order[i]
                                   /\ \A j \in DOMAIN order : order[j] \in S => i <= j
  <2>1. PICK i \in 1..4 : order[i] \in S /\ r = order[i] /\ \A j \in 1..4 : order[j] \in S => i <= j
    BY <1>1, <1>5
  <2>2. r # "NOT_SATISFIED" /\ r \in S /\ r \in RuleResults
    BY <2>1 DEF RuleResults
  <2>3. "SATISFIED" \in S => r = "SATISFIED"
    BY <2>1
  <2> QED
    BY <1>3, <2>2, <2>3
<1> QED
  BY <1>2, <1>4, <1>5

\* Every leaf has a result,
LEMMA LeafTyped ==
  ASSUME NEW e, e.node \in Eligibility!Leaves, NEW type, NEW ctx
  PROVE  Eligibility!evaluate_leaf(e, type, ctx).result \in RuleResults
<1> USE DEF RuleResults, Eligibility!Plain, Eligibility!Match
<1>1. Eligibility!completed_course(e, type, ctx).result \in RuleResults
  BY DEF Eligibility!completed_course
<1>2. Eligibility!minimum_grade(e, type, ctx).result \in RuleResults
  BY DEF Eligibility!minimum_grade
<1>3. Eligibility!minimum_completed_credits(e, ctx).result \in RuleResults
  BY DEF Eligibility!minimum_completed_credits
<1>4. Eligibility!class_standing(e, ctx).result \in RuleResults
  BY DEF Eligibility!class_standing
<1>5. Eligibility!program_restriction(e, type, ctx).result \in RuleResults
  BY DEF Eligibility!program_restriction
<1>6. Eligibility!campus_restriction(e, ctx).result \in RuleResults
  BY DEF Eligibility!campus_restriction
<1> QED
  BY <1>1, <1>2, <1>3, <1>4, <1>5, <1>6 DEF Eligibility!evaluate_leaf, Eligibility!Leaves

\* and so has an operator, whatever its operands.
LEMMA OperatorTyped ==
  ASSUME NEW node, NEW of, \A j \in DOMAIN of : of[j] \in RuleResults
  PROVE  Eligibility!evaluate_operator(node, of) \in RuleResults
<1> DEFINE S == Eligibility!Range(of)
           only == of[CHOOSE i \in DOMAIN of : TRUE]
<1>1. S \in SUBSET RuleResults
  BY DEF Eligibility!Range
<1>2. Eligibility!rollup_and(S) \in RuleResults /\ Eligibility!rollup_or(S) \in RuleResults
  BY <1>1, AndIs, OrIs
<1>3. Eligibility!rollup_not(only) \in RuleResults
  BY DEF Eligibility!rollup_not, RuleResults
<1>4. Eligibility!evaluate_operator(node, of) \in
        {Eligibility!rollup_and(S), Eligibility!rollup_or(S), Eligibility!rollup_not(only), "MANUAL_REVIEW_REQUIRED"}
  <2> HIDE DEF S, only
  <2> QED
    BY DEF Eligibility!evaluate_operator, S, only
<1> HIDE DEF S, only
<1> QED
  BY <1>2, <1>3, <1>4 DEF RuleResults

\* A rule whose expressions are well formed lists every child before its parent.
LEMMA ChildrenBefore ==
  ASSUME NEW rule, Eligibility!CourseRule(rule)
  PROVE  /\ DOMAIN rule.tree = 1..Len(rule.tree) /\ Len(rule.tree) \in Nat
         /\ \A i \in DOMAIN rule.tree :
              /\ rule.tree[i].node \in Eligibility!Operators \cup Eligibility!Leaves
              /\ \A j \in Eligibility!children(rule.tree, i) : j \in 1..(i - 1)
<1>1. DOMAIN rule.tree = 1..Len(rule.tree) /\ Len(rule.tree) \in Nat
  BY DEF Eligibility!CourseRule
<1>2. ASSUME NEW i \in DOMAIN rule.tree PROVE rule.tree[i].node \in Eligibility!Operators \cup Eligibility!Leaves
  BY DEF Eligibility!CourseRule, Eligibility!CourseRuleExpression
<1>3. ASSUME NEW i \in DOMAIN rule.tree, NEW j \in Eligibility!children(rule.tree, i) PROVE j \in 1..(i - 1)
  <2>1. j \in DOMAIN rule.tree /\ rule.tree[j].parent = i
    BY DEF Eligibility!children
  <2>2. rule.tree[j].parent \in IF j = Len(rule.tree) THEN {0} ELSE (j + 1)..Len(rule.tree)
    BY <2>1 DEF Eligibility!CourseRule
  <2> QED
    BY <1>1, <2>1, <2>2
<1> QED
  BY <1>1, <1>2, <1>3

(* What a tree evaluates to *)

LEMMA TreeIs ==
  ASSUME NEW rule, Eligibility!CourseRule(rule), NEW ctx
  PROVE  LET m == Eligibility!evaluate_tree(rule, ctx) IN
         DOMAIN m = DOMAIN rule.tree /\ \A i \in DOMAIN rule.tree : m[i] = Eligibility!evaluate_expression(rule, ctx, m, i)
<1> DEFINE n == Len(rule.tree)
           V == {Eligibility!evaluate_leaf(rule.tree[i], rule.type, ctx) :
                   i \in {k \in DOMAIN rule.tree : ~ Eligibility!IsOperator(rule.tree[k])}}
                  \cup {Eligibility!Plain(r) : r \in RuleResults}
           P == (1..n) \X UNION {[1..(k - 1) -> V] : k \in 1..n}
           F == [p \in P |-> Eligibility!evaluate_expression(rule, ctx, p[2], p[1])]
           Body(m) == [i \in DOMAIN rule.tree |-> Eligibility!evaluate_expression(rule, ctx, m, i)]
<1>1. DOMAIN rule.tree = 1..n /\ n \in Nat
  BY ChildrenBefore
<1>2. \A v \in V : v.result \in RuleResults
  <2>1. \A i \in DOMAIN rule.tree : ~ Eligibility!IsOperator(rule.tree[i]) =>
          Eligibility!evaluate_leaf(rule.tree[i], rule.type, ctx).result \in RuleResults
    BY ChildrenBefore, LeafTyped DEF Eligibility!IsOperator
  <2>2. \A r \in RuleResults : Eligibility!Plain(r).result = r
    BY DEF Eligibility!Plain, Eligibility!Match
  <2> QED
    BY <2>1, <2>2
<1>3. \A i \in 1..n : ~ Eligibility!IsOperator(rule.tree[i]) => Eligibility!evaluate_leaf(rule.tree[i], rule.type, ctx) \in V
  BY <1>1
<1>4. \A r \in RuleResults : Eligibility!Plain(r) \in V
  OBVIOUS
<1> HIDE DEF V
<1>5. ASSUME NEW i \in 1..n, NEW h \in [1..(i - 1) -> V] PROVE Eligibility!evaluate_expression(rule, ctx, h, i) \in V
  <2> DEFINE of == [j \in Eligibility!children(rule.tree, i) |-> h[j].result]
  <2>1. \A j \in DOMAIN of : of[j] \in RuleResults
    BY <1>1, <1>2, ChildrenBefore
  <2> HIDE DEF of
  <2>2. Eligibility!evaluate_operator(rule.tree[i].node, of) \in RuleResults
    BY <2>1, OperatorTyped
  <2> QED
    BY <1>3, <1>4, <2>2 DEF Eligibility!evaluate_expression, of
<1>6. ASSUME NEW i \in 1..n, NEW h \in [1..(i - 1) -> V] PROVE F[<<i, h>>] = Eligibility!evaluate_expression(rule, ctx, h, i)
  <2>1. <<i, h>> \in P
    OBVIOUS
  <2> HIDE DEF P
  <2> QED
    BY <2>1
<1> HIDE DEF F
<1>7. PICK g \in [1..n -> V] : Recurses(g, F, n)
  <2>1. StaysIn(F, V, n)
    BY <1>5, <1>6 DEF StaysIn
  <2> HIDE DEF n
  <2>2. \E g \in [1..n -> V] : Recurses(g, F, n)
    BY <1>1, <2>1, RecursionExists
  <2> QED
    BY <2>2
<1>8. ASSUME NEW i \in 1..n PROVE g[i] = Eligibility!evaluate_expression(rule, ctx, g, i)
  <2> DEFINE h == [j \in 1..(i - 1) |-> g[j]]
  <2>1. h \in [1..(i - 1) -> V]
    BY <1>1, <1>7
  <2>2. \A j \in Eligibility!children(rule.tree, i) : h[j] = g[j]
    BY <1>1, ChildrenBefore
  <2>3. g[i] = F[<<i, h>>]
    BY <1>7 DEF Recurses
  <2> HIDE DEF h
  <2>4. [j \in Eligibility!children(rule.tree, i) |-> h[j].result] = [j \in Eligibility!children(rule.tree, i) |-> g[j].result]
    BY <2>2
  <2> QED
    BY <1>6, <2>1, <2>3, <2>4 DEF Eligibility!evaluate_expression
<1>9. g = Body(g)
  BY <1>1, <1>7, <1>8
<1>10. Eligibility!evaluate_tree(rule, ctx) = CHOOSE m : m = Body(m)
  BY Zenon DEF Eligibility!evaluate_tree
<1> DEFINE match == CHOOSE m : m = Body(m)
<1>11. match = Body(match)
  BY <1>9, Zenon
<1> HIDE DEF match
<1> QED
  BY <1>10, <1>11 DEF match

(* What a tree can turn out to be *)

Cans(rule, ctx, can) ==
  DOMAIN can = DOMAIN rule.tree /\ \A i \in DOMAIN rule.tree : can[i] = Eligibility!Reading(rule, ctx, can, i)

LEMMA ReadingsAre ==
  ASSUME NEW rule, Eligibility!CourseRule(rule), NEW ctx
  PROVE  \E can : Cans(rule, ctx, can) /\ Eligibility!Readings(rule, ctx) = IF rule.tree = <<>> THEN BOOLEAN ELSE can[Len(rule.tree)]
<1> DEFINE n == Len(rule.tree)
           V == SUBSET BOOLEAN
           P == (1..n) \X UNION {[1..(k - 1) -> V] : k \in 1..n}
           F == [p \in P |-> Eligibility!Reading(rule, ctx, p[2], p[1])]
           Body(can) == [i \in DOMAIN rule.tree |-> Eligibility!Reading(rule, ctx, can, i)]
<1>1. DOMAIN rule.tree = 1..n /\ n \in Nat
  BY ChildrenBefore
<1>2. \A r : Eligibility!Settled(r) \in V
  BY Zenon DEF Eligibility!Settled
<1>3. ASSUME NEW i \in 1..n, NEW h \in [1..(i - 1) -> V] PROVE Eligibility!Reading(rule, ctx, h, i) \in V
  <2> QED
    BY <1>2, Zenon DEF Eligibility!Reading
<1> HIDE DEF V
<1>6. ASSUME NEW i \in 1..n, NEW h \in [1..(i - 1) -> V] PROVE F[<<i, h>>] = Eligibility!Reading(rule, ctx, h, i)
  <2>1. <<i, h>> \in P
    OBVIOUS
  <2> HIDE DEF P
  <2> QED
    BY <2>1
<1> HIDE DEF F
<1>7. PICK g \in [1..n -> V] : Recurses(g, F, n)
  <2>1. StaysIn(F, V, n)
    BY <1>3, <1>6 DEF StaysIn
  <2> HIDE DEF n
  <2>2. \E g \in [1..n -> V] : Recurses(g, F, n)
    BY <1>1, <2>1, RecursionExists
  <2> QED
    BY <2>2
<1>8. ASSUME NEW i \in 1..n PROVE g[i] = Eligibility!Reading(rule, ctx, g, i)
  <2> DEFINE h == [j \in 1..(i - 1) |-> g[j]]
             below == Eligibility!children(rule.tree, i)
  <2>1. h \in [1..(i - 1) -> V]
    BY <1>1, <1>7
  <2>2. \A j \in below : h[j] = g[j]
    BY <1>1, ChildrenBefore
  <2>3. g[i] = F[<<i, h>>]
    BY <1>7 DEF Recurses
  <2> HIDE DEF h
  <2>4. Eligibility!Reading(rule, ctx, h, i) = Eligibility!Reading(rule, ctx, g, i)
    <3>1. /\ {v \in BOOLEAN : IF v THEN \A j \in below : TRUE \in h[j] ELSE \E j \in below : FALSE \in h[j]}
             = {v \in BOOLEAN : IF v THEN \A j \in below : TRUE \in g[j] ELSE \E j \in below : FALSE \in g[j]}
          /\ {v \in BOOLEAN : IF v THEN \E j \in below : TRUE \in h[j] ELSE \A j \in below : FALSE \in h[j]}
             = {v \in BOOLEAN : IF v THEN \E j \in below : TRUE \in g[j] ELSE \A j \in below : FALSE \in g[j]}
          /\ {v \in BOOLEAN : \A j \in below : (~ v) \in h[j]} = {v \in BOOLEAN : \A j \in below : (~ v) \in g[j]}
      <4> HIDE DEF below
      <4> QED
        BY <2>2, Zenon
    <3> QED
      BY <3>1, Zenon DEF Eligibility!Reading
  <2> QED
    BY <1>6, <2>1, <2>3, <2>4
<1>9. g = Body(g)
  BY <1>1, <1>7, <1>8
<1> DEFINE can == CHOOSE m : m = Body(m)
<1>10. Eligibility!Readings(rule, ctx) = IF rule.tree = <<>> THEN BOOLEAN ELSE can[Len(rule.tree)]
  BY Zenon DEF Eligibility!Readings
<1>11. can = Body(can)
  BY <1>9, Zenon
<1> HIDE DEF can
<1>12. Cans(rule, ctx, can)
  BY <1>11 DEF Cans
<1> QED
  BY <1>10, <1>12

\* A result is final exactly when the readings leave it no choice.
AsRead(result, readings) ==
  /\ result \in RuleResults
  /\ result = "SATISFIED" <=> FALSE \notin readings
  /\ result = "NOT_SATISFIED" <=> TRUE \notin readings
  /\ TRUE \in readings \/ FALSE \in readings

LEMMA SettledIsRead == ASSUME NEW r \in RuleResults PROVE AsRead(r, Eligibility!Settled(r))
<1>1. TRUE \in Eligibility!Settled(r) <=> r # "NOT_SATISFIED"
  BY Zenon DEF Eligibility!Settled
<1>2. FALSE \in Eligibility!Settled(r) <=> r # "SATISFIED"
  BY Zenon DEF Eligibility!Settled
<1> QED
  BY <1>1, <1>2 DEF AsRead

LEMMA OpenIsRead == AsRead("MANUAL_REVIEW_REQUIRED", BOOLEAN)
<1>1. TRUE \in BOOLEAN /\ FALSE \in BOOLEAN
  BY Zenon
<1> QED
  BY <1>1 DEF AsRead, RuleResults

AllCan(below, can) ==
  {v \in BOOLEAN : IF v THEN \A j \in below : TRUE \in can[j] ELSE \E j \in below : FALSE \in can[j]}
AnyCan(below, can) ==
  {v \in BOOLEAN : IF v THEN \E j \in below : TRUE \in can[j] ELSE \A j \in below : FALSE \in can[j]}

LEMMA AndIsRead ==
  ASSUME NEW below, below # {}, NEW of, NEW can, DOMAIN of = below, \A j \in below : AsRead(of[j], can[j])
  PROVE  AsRead(Eligibility!evaluate_operator("AND", of), AllCan(below, can))
<1> DEFINE readings == AllCan(below, can)
           S == Eligibility!Range(of)
           r == Eligibility!rollup_and(S)
<1>1. (TRUE \in readings <=> \A j \in below : TRUE \in can[j]) /\ (FALSE \in readings <=> \E j \in below : FALSE \in can[j])
  BY Zenon DEF AllCan
<1>2. of # <<>>
  OBVIOUS
<1>3. Eligibility!evaluate_operator("AND", of) = r
  BY <1>2 DEF Eligibility!evaluate_operator
<1>4. S \in SUBSET RuleResults /\ S = {of[j] : j \in below}
  BY DEF Eligibility!Range, AsRead
<1>5. /\ r \in RuleResults
      /\ r = "SATISFIED" <=> \A x \in S : x = "SATISFIED"
      /\ r = "NOT_SATISFIED" <=> "NOT_SATISFIED" \in S
  BY <1>4, AndIs
<1> HIDE DEF readings, r
<1>6. (\A x \in S : x = "SATISFIED") <=> \A j \in below : FALSE \notin can[j]
  BY <1>4 DEF AsRead
<1>7. "NOT_SATISFIED" \in S <=> \E j \in below : TRUE \notin can[j]
  BY <1>4 DEF AsRead
<1>8. \A j \in below : TRUE \in can[j] \/ FALSE \in can[j]
  BY DEF AsRead
<1> HIDE DEF S
<1>9. AsRead(r, readings)
  BY <1>1, <1>5, <1>6, <1>7, <1>8 DEF AsRead
<1> QED
  BY <1>3, <1>9 DEF readings

LEMMA OrIsRead ==
  ASSUME NEW below, below # {}, NEW of, NEW can, DOMAIN of = below, \A j \in below : AsRead(of[j], can[j])
  PROVE  AsRead(Eligibility!evaluate_operator("OR", of), AnyCan(below, can))
<1> DEFINE readings == AnyCan(below, can)
           S == Eligibility!Range(of)
           r == Eligibility!rollup_or(S)
<1>1. (TRUE \in readings <=> \E j \in below : TRUE \in can[j]) /\ (FALSE \in readings <=> \A j \in below : FALSE \in can[j])
  BY Zenon DEF AnyCan
<1>2. of # <<>>
  OBVIOUS
<1>3. Eligibility!evaluate_operator("OR", of) = r
  BY <1>2 DEF Eligibility!evaluate_operator
<1>4. S \in SUBSET RuleResults /\ S = {of[j] : j \in below}
  BY DEF Eligibility!Range, AsRead
<1>5. /\ r \in RuleResults
      /\ r = "SATISFIED" <=> "SATISFIED" \in S
      /\ r = "NOT_SATISFIED" <=> \A x \in S : x = "NOT_SATISFIED"
  BY <1>4, OrIs
<1> HIDE DEF readings, r
<1>6. "SATISFIED" \in S <=> \E j \in below : FALSE \notin can[j]
  BY <1>4 DEF AsRead
<1>7. (\A x \in S : x = "NOT_SATISFIED") <=> \A j \in below : TRUE \notin can[j]
  BY <1>4 DEF AsRead
<1>8. \A j \in below : TRUE \in can[j] \/ FALSE \in can[j]
  BY DEF AsRead
<1> HIDE DEF S
<1>9. AsRead(r, readings)
  BY <1>1, <1>5, <1>6, <1>7, <1>8 DEF AsRead
<1> QED
  BY <1>3, <1>9 DEF readings

LEMMA NotIsRead ==
  ASSUME NEW k, NEW of, NEW can, DOMAIN of = {k}, AsRead(of[k], can[k])
  PROVE  AsRead(Eligibility!evaluate_operator("NOT", of), {v \in BOOLEAN : \A j \in {k} : (~ v) \in can[j]})
<1> DEFINE readings == {v \in BOOLEAN : \A j \in {k} : (~ v) \in can[j]}
           r == Eligibility!rollup_not(of[k])
<1>1. (TRUE \in readings <=> FALSE \in can[k]) /\ (FALSE \in readings <=> TRUE \in can[k])
  BY Zenon
<1>2. (CHOOSE i \in DOMAIN of : TRUE) = k
  OBVIOUS
<1>3. Eligibility!evaluate_operator("NOT", of) = r
  BY <1>2 DEF Eligibility!evaluate_operator
<1>4. r \in RuleResults /\ (r = "SATISFIED" <=> of[k] = "NOT_SATISFIED") /\ (r = "NOT_SATISFIED" <=> of[k] = "SATISFIED")
  BY DEF Eligibility!rollup_not, RuleResults
<1> HIDE DEF readings, r
<1>5. AsRead(r, readings)
  BY <1>1, <1>4 DEF AsRead
<1> QED
  BY <1>3, <1>5 DEF readings

\* Every expression evaluates as it is read,
LEMMA EveryIsRead ==
  ASSUME NEW rule, Eligibility!CourseRule(rule), NEW ctx, NEW can, Cans(rule, ctx, can)
  PROVE  \A i \in DOMAIN rule.tree : AsRead(Eligibility!evaluate_tree(rule, ctx)[i].result, can[i])
<1> DEFINE m == Eligibility!evaluate_tree(rule, ctx)
           wrong == {i \in DOMAIN rule.tree : ~ AsRead(m[i].result, can[i])}
<1>1. DOMAIN m = DOMAIN rule.tree /\ \A i \in DOMAIN rule.tree : m[i] = Eligibility!evaluate_expression(rule, ctx, m, i)
  BY TreeIs
<1>2. ASSUME NEW i \in DOMAIN rule.tree, \A j \in 1..(i - 1) : j \notin wrong PROVE AsRead(m[i].result, can[i])
  <2> DEFINE node == rule.tree[i].node
             below == Eligibility!children(rule.tree, i)
             of == [j \in below |-> m[j].result]
             r == Eligibility!evaluate_operator(node, of)
  <2>1. can[i] = Eligibility!Reading(rule, ctx, can, i) /\ m[i] = Eligibility!evaluate_expression(rule, ctx, m, i)
    BY <1>1 DEF Cans
  <2>2. \A j \in below : AsRead(of[j], can[j])
    <3>1. \A j \in below : j \in 1..(i - 1) /\ j \in DOMAIN rule.tree
      BY ChildrenBefore DEF Eligibility!children
    <3> QED
      BY <1>2, <3>1
  <2> HIDE DEF m, below
  <2>3. DOMAIN of = below
    OBVIOUS
  <2>4. CASE ~ Eligibility!IsOperator(rule.tree[i])
    <3> DEFINE leaf == Eligibility!evaluate_leaf(rule.tree[i], rule.type, ctx)
    <3>1. can[i] = Eligibility!Settled(leaf.result)
      BY <2>1, <2>4, Zenon DEF Eligibility!Reading, Eligibility!IsOperator, Eligibility!Operators
    <3>2. m[i] = leaf
      BY <2>1, <2>4 DEF Eligibility!evaluate_expression
    <3>3. leaf.result \in RuleResults
      BY <2>4, ChildrenBefore, LeafTyped DEF Eligibility!IsOperator
    <3> HIDE DEF leaf
    <3> QED
      BY <3>1, <3>2, <3>3, SettledIsRead
  <2>5. CASE Eligibility!IsOperator(rule.tree[i])
    <3>1. m[i].result = r
      BY <2>1, <2>5 DEF Eligibility!evaluate_expression, Eligibility!Plain, Eligibility!Match, below
    <3>2. node \in {"AND", "OR", "NOT"}
      BY <2>5 DEF Eligibility!IsOperator, Eligibility!Operators
    <3>3. CASE Eligibility!Open(node, below)
      <4>1. can[i] = BOOLEAN
        BY <2>1, <2>5, <3>3, Zenon DEF Eligibility!Reading, below
      <4>2. CASE below = {}
        <5>1. of = <<>>
          BY <4>2
        <5>2. \A k : DOMAIN of # {k}
          BY <4>2, <2>3
        <5> HIDE DEF of
        <5> QED
          BY <3>1, <4>1, <5>1, <5>2, OpenIsRead DEF Eligibility!evaluate_operator
      <4>3. CASE node = "NOT" /\ \A k \in below : below # {k}
        <5>1. ~ \E k \in DOMAIN of : DOMAIN of = {k}
          BY <4>3, <2>3
        <5> HIDE DEF of
        <5>2. r = "MANUAL_REVIEW_REQUIRED"
          BY <4>3, <5>1 DEF Eligibility!evaluate_operator
        <5> QED
          BY <3>1, <4>1, <5>2, OpenIsRead
      <4> QED
        BY <3>3, <4>2, <4>3 DEF Eligibility!Open
    <3>4. CASE ~ Eligibility!Open(node, below)
      <4>1. below # {} /\ (node = "NOT" => \E k \in below : below = {k})
        BY <3>4 DEF Eligibility!Open
      <4>2. CASE node = "AND"
        <5>1. can[i] = AllCan(below, can)
          BY <2>1, <2>5, <3>4, <4>2, Zenon DEF Eligibility!Reading, below, AllCan
        <5> HIDE DEF of
        <5>2. AsRead(Eligibility!evaluate_operator("AND", of), AllCan(below, can))
          BY <2>2, <2>3, <4>1, AndIsRead
        <5> QED
          BY <3>1, <4>2, <5>1, <5>2, Zenon
      <4>3. CASE node = "OR"
        <5>1. can[i] = AnyCan(below, can)
          BY <2>1, <2>5, <3>4, <4>3, Zenon DEF Eligibility!Reading, below, AnyCan
        <5> HIDE DEF of
        <5>2. AsRead(Eligibility!evaluate_operator("OR", of), AnyCan(below, can))
          BY <2>2, <2>3, <4>1, OrIsRead
        <5> QED
          BY <3>1, <4>3, <5>1, <5>2, Zenon
      <4>4. CASE node = "NOT"
        <5>1. can[i] = {v \in BOOLEAN : \A j \in below : (~ v) \in can[j]}
          BY <2>1, <2>5, <3>4, <4>4, Zenon DEF Eligibility!Reading, below
        <5>2. PICK k \in below : below = {k}
          BY <4>1, <4>4
        <5> HIDE DEF of
        <5>3. can[i] = {v \in BOOLEAN : \A j \in {k} : (~ v) \in can[j]}
          BY <5>1, <5>2, Zenon
        <5> QED
          BY <2>2, <2>3, <3>1, <4>4, <5>2, <5>3, NotIsRead
      <4> QED
        BY <3>2, <4>2, <4>3, <4>4
    <3> QED
      BY <3>3, <3>4
  <2> QED
    BY <2>4, <2>5 DEF m
<1>3. wrong = {}
  <2> SUFFICES ASSUME wrong # {} PROVE FALSE
    OBVIOUS
  <2>1. wrong \in SUBSET Nat
    BY ChildrenBefore
  <2> HIDE DEF m
  <2>2. \E i \in wrong : \A j \in wrong : i <= j
    <3> HIDE DEF wrong
    <3> QED
      BY <2>1, SmallestTerm
  <2>3. PICK i \in wrong : \A j \in wrong : i <= j
    BY <2>2
  <2>4. \A j \in 1..(i - 1) : j \notin wrong
    BY <2>1, <2>3
  <2> QED
    BY <1>2, <2>3, <2>4
<1> QED
  BY <1>3

\* and so does a rule.
LEMMA RuleIsRead ==
  ASSUME NEW rule, Eligibility!CourseRule(rule), NEW ctx
  PROVE  AsRead(Eligibility!rule_result(rule, Eligibility!evaluate_tree(rule, ctx)), Eligibility!Readings(rule, ctx))
<1>1. PICK can : Cans(rule, ctx, can) /\ Eligibility!Readings(rule, ctx) = IF rule.tree = <<>> THEN BOOLEAN ELSE can[Len(rule.tree)]
  BY ReadingsAre
<1>2. CASE rule.tree = <<>>
  BY <1>1, <1>2, OpenIsRead DEF Eligibility!rule_result
<1>3. CASE rule.tree # <<>>
  <2>1. Len(rule.tree) \in DOMAIN rule.tree
    BY <1>3 DEF Eligibility!CourseRule
  <2>2. AsRead(Eligibility!evaluate_tree(rule, ctx)[Len(rule.tree)].result, can[Len(rule.tree)])
    BY <1>1, <2>1, EveryIsRead
  <2> QED
    BY <1>1, <1>3, <2>2 DEF Eligibility!rule_result
<1> QED
  BY <1>2, <1>3

\* Every expression has one of the five results.
LEMMA TreeResults ==
  ASSUME NEW rule, Eligibility!CourseRule(rule), NEW ctx
  PROVE  \A i \in DOMAIN rule.tree : Eligibility!evaluate_tree(rule, ctx)[i].result \in RuleResults
<1>1. PICK can : Cans(rule, ctx, can)
  BY ReadingsAre
<1>2. \A i \in DOMAIN rule.tree : AsRead(Eligibility!evaluate_tree(rule, ctx)[i].result, can[i])
  BY <1>1, EveryIsRead
<1> QED
  BY <1>2 DEF AsRead

(* The verdict *)

RulesFit(ctx) == ctx.rules \in Seq(Eligibility!ToSet(ctx.rules)) /\ \A r \in Eligibility!ToSet(ctx.rules) : Eligibility!CourseRule(r)
ResultOf(ctx, i) == Eligibility!rule_result(ctx.rules[i], Eligibility!evaluate_tree(ctx.rules[i], ctx))

LEMMA RulesAreRead ==
  ASSUME NEW ctx, RulesFit(ctx), NEW i \in Eligibility!load_rules(ctx)
  PROVE  Eligibility!CourseRule(ctx.rules[i]) /\ AsRead(ResultOf(ctx, i), Eligibility!Readings(ctx.rules[i], ctx))
<1>1. i \in DOMAIN ctx.rules
  BY DEF Eligibility!load_rules
<1>2. ctx.rules[i] \in Eligibility!ToSet(ctx.rules)
  BY <1>1 DEF RulesFit, Eligibility!ToSet
<1>3. Eligibility!CourseRule(ctx.rules[i])
  BY <1>2 DEF RulesFit
<1> QED
  BY <1>3, RuleIsRead DEF ResultOf

\* The verdict of stored rules: eligible when each holds, not eligible when one fails.
LEMMA OverallIs ==
  ASSUME NEW ctx, RulesFit(ctx), Eligibility!Stored(ctx)
  PROVE  LET overall == Eligibility!evaluate(ctx).overall IN
         /\ overall \in Eligibility!EligibilityOverallResult
         /\ overall = "ELIGIBLE" <=> \A i \in Eligibility!load_rules(ctx) : ResultOf(ctx, i) = "SATISFIED"
         /\ overall = "NOT_ELIGIBLE" <=> \E i \in Eligibility!load_rules(ctx) : ResultOf(ctx, i) = "NOT_SATISFIED"
<1> DEFINE trees == Eligibility!Trees(ctx)
           S == {Eligibility!rule_result(ctx.rules[i], trees[i]) : i \in DOMAIN trees}
           worst == Eligibility!rollup_and(S)
<1>1. Eligibility!evaluate(ctx).overall = Eligibility!aggregate_overall(ctx, trees)
  BY DEF Eligibility!evaluate, Eligibility!Stored, Eligibility!evaluate_stored, Eligibility!Result
<1>2. S = {ResultOf(ctx, i) : i \in Eligibility!load_rules(ctx)}
  BY DEF Eligibility!Trees, ResultOf
<1>3. S \in SUBSET RuleResults
  BY <1>2, RulesAreRead DEF AsRead
<1>4. /\ worst \in RuleResults
      /\ worst = "SATISFIED" <=> \A x \in S : x = "SATISFIED"
      /\ worst = "NOT_SATISFIED" <=> "NOT_SATISFIED" \in S
  BY <1>3, AndIs
<1>5. /\ (\A x \in S : x = "SATISFIED") <=> \A i \in Eligibility!load_rules(ctx) : ResultOf(ctx, i) = "SATISFIED"
      /\ "NOT_SATISFIED" \in S <=> \E i \in Eligibility!load_rules(ctx) : ResultOf(ctx, i) = "NOT_SATISFIED"
  BY <1>2
<1>6. Eligibility!aggregate_overall(ctx, trees) =
        CASE worst = "SATISFIED" -> "ELIGIBLE"
          [] worst = "NOT_SATISFIED" -> "NOT_ELIGIBLE"
          [] worst = "CONDITIONALLY_SATISFIED" -> "CONDITIONALLY_ELIGIBLE"
          [] OTHER -> worst
  BY DEF Eligibility!aggregate_overall
<1> HIDE DEF worst, S, trees
<1> QED
  BY <1>1, <1>4, <1>5, <1>6 DEF RuleResults, Eligibility!EligibilityOverallResult

\* It is eligible when the rules can only hold and not eligible when they can only fail.
LEMMA VerdictIsFinal ==
  ASSUME NEW ctx, RulesFit(ctx), Eligibility!Stored(ctx)
  PROVE  /\ Eligibility!evaluate(ctx).overall = "ELIGIBLE" <=> Eligibility!Answers(ctx) = {TRUE}
         /\ Eligibility!evaluate(ctx).overall = "NOT_ELIGIBLE" <=> Eligibility!Answers(ctx) = {FALSE}
<1> DEFINE applying == Eligibility!load_rules(ctx)
           can(i) == Eligibility!Readings(ctx.rules[i], ctx)
           answers == Eligibility!Answers(ctx)
<1>1. answers = {v \in BOOLEAN : IF v THEN \A i \in applying : TRUE \in can(i) ELSE \E i \in applying : FALSE \in can(i)}
  BY Zenon DEF Eligibility!Answers
<1>2. \A i \in applying : AsRead(ResultOf(ctx, i), can(i))
  BY RulesAreRead
<1> HIDE DEF can, answers
<1>3. (TRUE \in answers <=> \A i \in applying : TRUE \in can(i)) /\ (FALSE \in answers <=> \E i \in applying : FALSE \in can(i))
  BY <1>1, Zenon
<1>4. \A v \in answers : v = TRUE \/ v = FALSE
  BY <1>1, Zenon
<1>5. /\ (\A i \in applying : ResultOf(ctx, i) = "SATISFIED") <=> \A i \in applying : FALSE \notin can(i)
      /\ (\E i \in applying : ResultOf(ctx, i) = "NOT_SATISFIED") <=> \E i \in applying : TRUE \notin can(i)
  BY <1>2 DEF AsRead
<1>6. \A i \in applying : TRUE \in can(i) \/ FALSE \in can(i)
  BY <1>2 DEF AsRead
<1>7. applying # {}
  BY DEF Eligibility!Stored
<1>8. FALSE \notin answers <=> answers = {TRUE}
  <2>1. FALSE \notin answers => TRUE \in answers
    BY <1>3, <1>6
  <2> QED
    BY <2>1, <1>4, Zenon
<1>9. TRUE \notin answers <=> answers = {FALSE}
  <2>1. TRUE \notin answers => FALSE \in answers
    BY <1>3, <1>6
  <2> QED
    BY <2>1, <1>4, Zenon
<1>10. /\ Eligibility!evaluate(ctx).overall = "ELIGIBLE" <=> \A i \in applying : ResultOf(ctx, i) = "SATISFIED"
       /\ Eligibility!evaluate(ctx).overall = "NOT_ELIGIBLE" <=> \E i \in applying : ResultOf(ctx, i) = "NOT_SATISFIED"
  BY OverallIs
<1> QED
  BY <1>3, <1>5, <1>8, <1>9, <1>10, Zenon DEF answers

(* One more attempt *)

\* The student with one more attempt in front of those before, and nothing else changed
OneMore(next, ctx, a) ==
  /\ a \in Eligibility!StudentCourseAttempt /\ ctx.attempts \in Seq(Eligibility!StudentCourseAttempt)
  /\ next.attempts = <<a>> \o ctx.attempts
  /\ next.transfers = ctx.transfers /\ next.rules = ctx.rules /\ next.reviewed = ctx.reviewed
  /\ next.section = ctx.section /\ next.snapshot = ctx.snapshot
  /\ next.standing = ctx.standing /\ next.programs = ctx.programs /\ next.campus = ctx.campus

LEMMA AttemptsShift ==
  ASSUME NEW next, NEW ctx, NEW a, OneMore(next, ctx, a)
  PROVE  /\ next.attempts \in Seq(Eligibility!StudentCourseAttempt)
         /\ Len(ctx.attempts) \in Nat /\ DOMAIN ctx.attempts = 1..Len(ctx.attempts)
         /\ Len(next.attempts) = Len(ctx.attempts) + 1 /\ DOMAIN next.attempts = 1..(Len(ctx.attempts) + 1)
         /\ next.attempts[1] = a
         /\ \A i \in DOMAIN ctx.attempts : i + 1 \in DOMAIN next.attempts /\ next.attempts[i + 1] = ctx.attempts[i]
         /\ \A k \in DOMAIN next.attempts : k = 1 \/ (k - 1 \in DOMAIN ctx.attempts /\ next.attempts[k] = ctx.attempts[k - 1])
  BY DEF OneMore

\* What was passed or completed still is, and so is what was registered.
LEMMA OfShifts ==
  ASSUME NEW next, NEW ctx, NEW a, OneMore(next, ctx, a), NEW course
  PROVE  /\ \A i \in Eligibility!Of(ctx, course) : i + 1 \in Eligibility!Of(next, course)
         /\ \A i \in Eligibility!PassedOf(ctx, course) : i + 1 \in Eligibility!PassedOf(next, course)
         /\ \A i \in Eligibility!CompletedOf(ctx, course) : i + 1 \in Eligibility!CompletedOf(next, course)
<1>1. \A i \in DOMAIN ctx.attempts : i + 1 \in DOMAIN next.attempts /\ next.attempts[i + 1] = ctx.attempts[i]
  BY AttemptsShift
<1>2. \A i \in Eligibility!Of(ctx, course) : i \in DOMAIN ctx.attempts /\ i + 1 \in Eligibility!Of(next, course)
  BY <1>1 DEF Eligibility!Of
<1>3. \A i \in Eligibility!PassedOf(ctx, course) : i + 1 \in Eligibility!PassedOf(next, course)
  <2> TAKE i \in Eligibility!PassedOf(ctx, course)
  <2>1. i \in Eligibility!Of(ctx, course) /\ Eligibility!Passed(ctx.attempts[i])
    BY DEF Eligibility!PassedOf
  <2>2. i + 1 \in Eligibility!Of(next, course) /\ Eligibility!Passed(next.attempts[i + 1])
    BY <1>1, <1>2, <2>1
  <2> QED
    BY <2>2 DEF Eligibility!PassedOf
<1>4. \A i \in Eligibility!CompletedOf(ctx, course) : i + 1 \in Eligibility!CompletedOf(next, course)
  BY <1>1, <1>2 DEF Eligibility!CompletedOf
<1> QED
  BY <1>2, <1>3, <1>4

(* Grades *)

LEMMA GradesAre ==
  /\ Eligibility!Letters = {"A", "A-", "B+", "B", "B-", "C+", "C", "C-", "D+", "D", "D-", "F"}
  /\ \A g \in Eligibility!Letters : Eligibility!rank(g) \in 1..12
  /\ Len(Eligibility!grade_order) = 12
<1> DEFINE order == Eligibility!grade_order
<1>1. DOMAIN order = 1..12 /\ Len(order) = 12
  BY DEF Eligibility!grade_order
<1>2. Eligibility!Letters = {order[i] : i \in 1..12}
  BY <1>1 DEF Eligibility!Letters
<1>3. \A g \in Eligibility!Letters : Eligibility!rank(g) \in 1..12
  BY <1>1, <1>2 DEF Eligibility!rank
<1>4. {order[i] : i \in 1..12} = {"A", "A-", "B+", "B", "B-", "C+", "C", "C-", "D+", "D", "D-", "F"}
  BY DEF Eligibility!grade_order
<1> QED
  BY <1>1, <1>2, <1>3, <1>4

\* A grade that is no worse passes what the other passes.
LEMMA BetterGradePasses ==
  ASSUME NEW g, NEW h, NEW minimum, minimum # "none",
         Eligibility!satisfies_minimum(g, minimum).ok, Eligibility!best_grade_key(h) <= Eligibility!best_grade_key(g)
  PROVE  Eligibility!satisfies_minimum(h, minimum).ok
<1>1. g \in Eligibility!Letters /\ minimum \in Eligibility!Letters /\ Eligibility!rank(g) <= Eligibility!rank(minimum)
  BY GradesAre DEF Eligibility!satisfies_minimum
<1>2. h \in Eligibility!Letters /\ Eligibility!rank(h) <= Eligibility!rank(g)
  BY <1>1, GradesAre DEF Eligibility!best_grade_key
<1>3. Eligibility!rank(h) <= Eligibility!rank(minimum)
  BY <1>1, <1>2, GradesAre
<1> QED
  BY <1>1, <1>2, <1>3, GradesAre DEF Eligibility!satisfies_minimum

\* The best attempt is one of those with the best key.
LEMMA BestIs ==
  ASSUME NEW attempts, NEW passed \in SUBSET Nat, passed # {}
  PROVE  \E i \in passed : /\ Eligibility!best_attempt(attempts, passed) = attempts[i]
                           /\ \A j \in passed : Eligibility!best_grade_key(attempts[i].grade) <= Eligibility!best_grade_key(attempts[j].grade)
<1> DEFINE key(i) == Eligibility!best_grade_key(attempts[i].grade)
           first(i) == \A j \in passed : key(i) < key(j) \/ (key(i) = key(j) /\ i <= j)
           pick == CHOOSE i \in passed : first(i)
<1>1. \A i \in passed : key(i) \in Nat
  BY GradesAre DEF Eligibility!best_grade_key
<1>2. Eligibility!best_attempt(attempts, passed) = attempts[pick]
  BY Zenon DEF Eligibility!best_attempt
<1> HIDE DEF key
<1>3. \E i \in passed : first(i)
  <2> DEFINE keys == {key(i) : i \in passed}
  <2>1. keys \in SUBSET Nat /\ keys # {}
    BY <1>1
  <2>2. PICK i0 \in passed : \A j \in passed : key(i0) <= key(j)
    <3>1. \E n \in keys : \A k \in keys : n <= k
      <4> HIDE DEF keys
      <4> QED
        BY <2>1, SmallestTerm
    <3> QED
      BY <3>1
  <2> DEFINE least == {i \in passed : key(i) = key(i0)}
  <2>3. least \in SUBSET Nat /\ least # {}
    BY <2>2
  <2>4. PICK i \in least : \A j \in least : i <= j
    <3>1. \E n \in least : \A k \in least : n <= k
      <4> HIDE DEF least
      <4> QED
        BY <2>3, SmallestTerm
    <3> QED
      BY <3>1
  <2>5. first(i)
    <3> TAKE j \in passed
    <3>1. key(i) \in Nat /\ key(j) \in Nat /\ key(i) <= key(j)
      BY <1>1, <2>2, <2>4
    <3>2. key(i) = key(j) => j \in least
      BY <2>4
    <3> QED
      BY <2>4, <3>1, <3>2
  <2> QED
    BY <2>4, <2>5
<1>4. pick \in passed /\ first(pick)
  BY <1>3, Zenon
<1> HIDE DEF pick
<1>5. \A j \in passed : key(pick) <= key(j)
  BY <1>1, <1>4
<1> QED
  BY <1>2, <1>4, <1>5 DEF key

(* Credits *)

LEMMA CheckSum == \A f, S : Eligibility!SumFunctionOnSet(f, S) = SumFunctionOnSet(f, S)
  BY Zenon DEF Eligibility!SumFunctionOnSet, Eligibility!FoldFunctionOnSet, Eligibility!MapThenFoldSet,
               SumFunctionOnSet, FoldFunctionOnSet, MapThenFoldSet

TransfersFit(ctx) == IsFiniteSet(DOMAIN ctx.transfers) /\ \A course \in DOMAIN ctx.transfers : ctx.transfers[course] \in Nat

\* What counts is finite, and its credits are numbers.
LEMMA CountedIs ==
  ASSUME NEW ctx, ctx.attempts \in Seq(Eligibility!StudentCourseAttempt), TransfersFit(ctx)
  PROVE  /\ IsFiniteSet(Eligibility!Counted(ctx))
         /\ \A course : course \in Eligibility!Counted(ctx)
                          <=> course \in DOMAIN ctx.transfers \/ Eligibility!CompletedOf(ctx, course) # {}
         /\ \A course \in Eligibility!Counted(ctx) : Eligibility!Credit(ctx, course) \in Nat
         /\ \A course : Eligibility!CompletedOf(ctx, course) # {} =>
              \E i \in Eligibility!CompletedOf(ctx, course) : Eligibility!Credit(ctx, course) = ctx.attempts[i].credits
<1> DEFINE I == {i \in DOMAIN ctx.attempts : ctx.attempts[i].status = "COMPLETED"}
           courses == {ctx.attempts[i].course : i \in I}
<1>1. DOMAIN ctx.attempts = 1..Len(ctx.attempts) /\ Len(ctx.attempts) \in Nat
  OBVIOUS
<1>2. Eligibility!Counted(ctx) = DOMAIN ctx.transfers \cup courses
  <2>1. {b \in Eligibility!ToSet(ctx.attempts) : b.status = "COMPLETED"} = {ctx.attempts[i] : i \in I}
    BY DEF Eligibility!ToSet
  <2>2. {b.course : b \in {ctx.attempts[i] : i \in I}} = courses
    OBVIOUS
  <2> HIDE DEF I, courses
  <2> QED
    BY <2>1, <2>2, Zenon DEF Eligibility!Counted
<1>3. \A course : course \in courses <=> Eligibility!CompletedOf(ctx, course) # {}
  BY DEF Eligibility!CompletedOf, Eligibility!Of
<1>4. IsFiniteSet(courses)
  <2>1. IsFiniteSet(I)
    <3>1. IsFiniteSet(1..Len(ctx.attempts)) /\ I \subseteq 1..Len(ctx.attempts)
      BY <1>1, FS_Interval
    <3> HIDE DEF I
    <3> QED
      BY <3>1, FS_Subset
  <2> DEFINE k == [i \in I |-> ctx.attempts[i].course]
  <2>2. k \in Surjection(I, courses)
    BY DEF Surjection
  <2> HIDE DEF I, courses, k
  <2> QED
    BY <2>1, <2>2, FS_Surjection DEF ExistsSurjection
<1> HIDE DEF courses
<1>5. IsFiniteSet(Eligibility!Counted(ctx))
  BY <1>2, <1>4, FS_Union DEF TransfersFit
<1>6. ASSUME NEW course, Eligibility!CompletedOf(ctx, course) # {}
      PROVE  \E i \in Eligibility!CompletedOf(ctx, course) : Eligibility!Credit(ctx, course) = ctx.attempts[i].credits
  <2>1. Eligibility!CompletedOf(ctx, course) \in SUBSET Nat
    BY <1>1 DEF Eligibility!CompletedOf, Eligibility!Of
  <2> QED
    BY <1>6, <2>1, LeastIs DEF Eligibility!Credit
<1>7. ASSUME NEW course \in Eligibility!Counted(ctx) PROVE Eligibility!Credit(ctx, course) \in Nat
  <2>1. CASE Eligibility!CompletedOf(ctx, course) = {}
    <3>1. course \in DOMAIN ctx.transfers
      BY <1>2, <1>3, <1>7, <2>1
    <3> QED
      BY <2>1, <3>1 DEF Eligibility!Credit, TransfersFit
  <2>2. CASE Eligibility!CompletedOf(ctx, course) # {}
    <3>1. PICK i \in Eligibility!CompletedOf(ctx, course) : Eligibility!Credit(ctx, course) = ctx.attempts[i].credits
      BY <1>6, <2>2
    <3>2. i \in DOMAIN ctx.attempts
      BY <3>1 DEF Eligibility!CompletedOf, Eligibility!Of
    <3>3. ctx.attempts[i] \in Eligibility!StudentCourseAttempt
      BY <3>2
    <3> QED
      BY <3>1, <3>3 DEF Eligibility!StudentCourseAttempt
  <2> QED
    BY <2>1, <2>2
<1> QED
  BY <1>2, <1>3, <1>5, <1>6, <1>7

\* Where a course keeps its credits, one more attempt takes none away.
LEMMA EarnedGrows ==
  ASSUME NEW next, NEW ctx, NEW a, OneMore(next, ctx, a), TransfersFit(ctx), Eligibility!SameCredits(next)
  PROVE  /\ Eligibility!earned(ctx) \in Nat /\ Eligibility!earned(next) \in Nat
         /\ Eligibility!earned(ctx) <= Eligibility!earned(next)
<1> DEFINE S == Eligibility!Counted(ctx)
           T == Eligibility!Counted(next)
           f == [course \in S |-> Eligibility!Credit(ctx, course)]
           g == [course \in T |-> Eligibility!Credit(next, course)]
<1>1. ctx.attempts \in Seq(Eligibility!StudentCourseAttempt) /\ next.attempts \in Seq(Eligibility!StudentCourseAttempt)
      /\ TransfersFit(next) /\ next.transfers = ctx.transfers
  BY AttemptsShift DEF OneMore, TransfersFit
<1>2. IsFiniteSet(S) /\ IsFiniteSet(T) /\ (\A course \in S : f[course] \in Nat) /\ (\A course \in T : g[course] \in Nat)
  BY <1>1, CountedIs
<1>3. S \subseteq T
  <2> SUFFICES ASSUME NEW course \in S PROVE course \in T
    OBVIOUS
  <2>1. CASE course \in DOMAIN ctx.transfers
    BY <1>1, <2>1, CountedIs
  <2>2. CASE Eligibility!CompletedOf(ctx, course) # {}
    <3>1. Eligibility!CompletedOf(next, course) # {}
      BY <2>2, OfShifts
    <3> QED
      BY <1>1, <3>1, CountedIs
  <2> QED
    BY <1>1, <2>1, <2>2, CountedIs
<1>4. ASSUME NEW course \in S PROVE f[course] = g[course]
  <2>1. f[course] = Eligibility!Credit(ctx, course) /\ g[course] = Eligibility!Credit(next, course)
    BY <1>3
  <2>2. \A i \in Eligibility!CompletedOf(next, course) :
           next.attempts[i] \in Eligibility!ToSet(next.attempts) /\ next.attempts[i].course = course
    BY DEF Eligibility!CompletedOf, Eligibility!Of, Eligibility!ToSet
  <2>3. CASE Eligibility!CompletedOf(next, course) = {}
    <3>1. Eligibility!CompletedOf(ctx, course) = {}
      BY <2>3, OfShifts
    <3> QED
      BY <1>1, <2>1, <2>3, <3>1 DEF Eligibility!Credit
  <2>4. CASE Eligibility!CompletedOf(next, course) # {}
    <3>1. PICK k \in Eligibility!CompletedOf(next, course) : g[course] = next.attempts[k].credits
      BY <1>1, <2>1, <2>4, CountedIs
    <3>2. CASE Eligibility!CompletedOf(ctx, course) = {}
      <4>1. course \in DOMAIN next.transfers /\ f[course] = next.transfers[course]
        BY <1>1, <2>1, <3>2, CountedIs DEF Eligibility!Credit
      <4> QED
        BY <2>2, <3>1, <4>1 DEF Eligibility!SameCredits
    <3>3. CASE Eligibility!CompletedOf(ctx, course) # {}
      <4>1. PICK i \in Eligibility!CompletedOf(ctx, course) : f[course] = ctx.attempts[i].credits
        BY <1>1, <2>1, <3>3, CountedIs
      <4>2. i \in DOMAIN ctx.attempts
        BY DEF Eligibility!CompletedOf, Eligibility!Of
      <4>3. i + 1 \in Eligibility!CompletedOf(next, course) /\ next.attempts[i + 1] = ctx.attempts[i]
        BY <4>2, OfShifts, AttemptsShift
      <4> QED
        BY <2>2, <3>1, <4>1, <4>3 DEF Eligibility!SameCredits
    <3> QED
      BY <3>2, <3>3
  <2> QED
    BY <2>3, <2>4
<1>5. Eligibility!earned(ctx) = SumFunctionOnSet(f, S) /\ Eligibility!earned(next) = SumFunctionOnSet(g, T)
  BY CheckSum DEF Eligibility!earned
<1> HIDE DEF S, T, f, g
<1>6. SumFunctionOnSet(f, S) = SumFunctionOnSet(g, S)
  <2> DEFINE same == [course \in S |-> course]
  <2>1. (\A x, y \in S : same[x] = same[y] => x = y) /\ (\A x \in S : g[same[x]] \in Int /\ f[x] = g[same[x]])
    BY <1>2, <1>3, <1>4
  <2>2. {same[x] : x \in S} = S
    OBVIOUS
  <2> HIDE DEF same
  <2>3. SumFunctionOnSet(f, S) = SumFunctionOnSet(g, {same[x] : x \in S})
    BY <1>2, <2>1, SumImage
  <2> QED
    BY <2>2, <2>3
<1>7. SumFunctionOnSet(g, T) = SumFunctionOnSet(g, S) + SumFunctionOnSet(g, T \ S)
  <2>1. IsFiniteSet(T \ S) /\ S \cap (T \ S) = {} /\ S \cup (T \ S) = T
    BY <1>2, <1>3, FS_Subset
  <2>2. \A x \in S \cup (T \ S) : g[x] \in Int
    BY <1>2, <1>3
  <2> QED
    BY <1>2, <2>1, <2>2, SumUnion
<1>8. SumFunctionOnSet(g, S) \in Nat /\ SumFunctionOnSet(g, T \ S) \in Nat
  <2>1. IsFiniteSet(T \ S) /\ \A x \in T \ S : g[x] \in Nat
    BY <1>2, FS_Subset
  <2>2. \A x \in S : g[x] \in Nat
    BY <1>2, <1>3
  <2> QED
    BY <1>2, <2>1, <2>2, SumTyped
<1> QED
  BY <1>5, <1>6, <1>7, <1>8

(* Without a NOT nothing that holds stops to hold *)

\* The leaves that hold still do,
LEMMA LeafStays ==
  ASSUME NEW next, NEW ctx, NEW a, OneMore(next, ctx, a), TransfersFit(ctx), NEW e, NEW type, Eligibility!CourseRuleExpression(e),
         ~ Eligibility!IsOperator(e), e.node = "MINIMUM_COMPLETED_CREDITS" => Eligibility!SameCredits(next),
         Eligibility!evaluate_leaf(e, type, ctx).result = "SATISFIED"
  PROVE  Eligibility!evaluate_leaf(e, type, next).result = "SATISFIED"
<1> USE DEF Eligibility!Plain, Eligibility!Match
<1>1. e.node \in Eligibility!Leaves
  BY DEF Eligibility!CourseRuleExpression, Eligibility!IsOperator
<1>2. CASE e.node = "COMPLETED_COURSE"
  <2>1. e.course # None /\ (Eligibility!PassedOf(ctx, e.course) # {} \/ e.course \in DOMAIN ctx.transfers)
    BY <1>2 DEF Eligibility!evaluate_leaf, Eligibility!completed_course
  <2>2. Eligibility!PassedOf(next, e.course) # {} \/ e.course \in DOMAIN next.transfers
    BY <2>1, OfShifts DEF OneMore
  <2> QED
    BY <1>2, <2>1, <2>2 DEF Eligibility!evaluate_leaf, Eligibility!completed_course
<1>3. CASE e.node = "MINIMUM_GRADE"
  <2> DEFINE was == Eligibility!PassedOf(ctx, e.course)
             now == Eligibility!PassedOf(next, e.course)
             Enough(attempt) == Eligibility!satisfies_minimum(attempt.grade, e.minimum).ok
  <2>1. /\ e.course # None /\ e.minimum # "none" /\ was # {}
        /\ Enough(Eligibility!best_attempt(ctx.attempts, was))
    BY <1>3 DEF Eligibility!evaluate_leaf, Eligibility!minimum_grade
  <2>2. was \in SUBSET (DOMAIN ctx.attempts) /\ was \in SUBSET Nat /\ now \in SUBSET Nat
    BY AttemptsShift DEF Eligibility!PassedOf, Eligibility!Of
  <2>3. \A i \in was : i + 1 \in now /\ next.attempts[i + 1] = ctx.attempts[i]
    BY <2>2, AttemptsShift, OfShifts
  <2> HIDE DEF was, now
  <2>4. PICK i \in was : Eligibility!best_attempt(ctx.attempts, was) = ctx.attempts[i]
    BY <2>1, <2>2, BestIs
  <2>5. PICK k \in now :
          /\ Eligibility!best_attempt(next.attempts, now) = next.attempts[k]
          /\ \A j \in now : Eligibility!best_grade_key(next.attempts[k].grade) <= Eligibility!best_grade_key(next.attempts[j].grade)
    BY <2>1, <2>2, <2>3, BestIs
  <2>6. Eligibility!best_grade_key(next.attempts[k].grade) <= Eligibility!best_grade_key(ctx.attempts[i].grade)
    BY <2>3, <2>5
  <2>7. Enough(next.attempts[k])
    BY <2>1, <2>4, <2>6, BetterGradePasses
  <2> QED
    BY <1>3, <2>1, <2>3, <2>5, <2>7 DEF Eligibility!evaluate_leaf, Eligibility!minimum_grade, was, now
<1>4. CASE e.node = "MINIMUM_COMPLETED_CREDITS"
  <2>1. e.credits # None /\ Eligibility!earned(ctx) >= e.credits
    BY <1>4 DEF Eligibility!evaluate_leaf, Eligibility!minimum_completed_credits
  <2>2. e.credits \in Nat
    BY <2>1 DEF Eligibility!CourseRuleExpression
  <2>3. Eligibility!earned(next) >= e.credits
    BY <1>4, <2>1, <2>2, EarnedGrows
  <2> QED
    BY <1>4, <2>1, <2>3 DEF Eligibility!evaluate_leaf, Eligibility!minimum_completed_credits
<1>5. CASE e.node = "CLASS_STANDING"
  BY <1>5 DEF Eligibility!evaluate_leaf, Eligibility!class_standing, OneMore
<1>6. CASE e.node = "PROGRAM_RESTRICTION"
  BY <1>6 DEF Eligibility!evaluate_leaf, Eligibility!program_restriction, OneMore
<1>7. CASE e.node = "CAMPUS_RESTRICTION"
  BY <1>7 DEF Eligibility!evaluate_leaf, Eligibility!campus_restriction, OneMore
<1>8. CASE e.node = "PERMISSION_REQUIRED"
  BY <1>8 DEF Eligibility!evaluate_leaf
<1> QED
  BY <1>1, <1>2, <1>3, <1>4, <1>5, <1>6, <1>7, <1>8 DEF Eligibility!Leaves

\* operators other than NOT keep what holds,
LEMMA OperatorStays ==
  ASSUME NEW node \in {"AND", "OR"}, NEW below, NEW was \in [below -> RuleResults], NEW now \in [below -> RuleResults],
         \A j \in below : was[j] = "SATISFIED" => now[j] = "SATISFIED",
         Eligibility!evaluate_operator(node, was) = "SATISFIED"
  PROVE  Eligibility!evaluate_operator(node, now) = "SATISFIED"
<1> DEFINE A == Eligibility!Range(was)
           B == Eligibility!Range(now)
<1>1. CASE below = {}
  <2>1. was = now
    BY <1>1
  <2> QED
    BY <2>1
<1>2. CASE below # {}
  <2>1. was # <<>> /\ now # <<>>
    BY <1>2
  <2>2. A \in SUBSET RuleResults /\ B \in SUBSET RuleResults /\ A = {was[j] : j \in below} /\ B = {now[j] : j \in below}
    BY DEF Eligibility!Range
  <2>3. /\ (\A x \in A : x = "SATISFIED") => \A x \in B : x = "SATISFIED"
        /\ "SATISFIED" \in A => "SATISFIED" \in B
    BY <2>2
  <2>4. (Eligibility!rollup_and(A) = "SATISFIED" <=> \A x \in A : x = "SATISFIED")
        /\ (Eligibility!rollup_and(B) = "SATISFIED" <=> \A x \in B : x = "SATISFIED")
    BY <2>2, AndIs
  <2>5. (Eligibility!rollup_or(A) = "SATISFIED" <=> "SATISFIED" \in A) /\ (Eligibility!rollup_or(B) = "SATISFIED" <=> "SATISFIED" \in B)
    BY <2>2, OrIs
  <2> HIDE DEF A, B
  <2>6. CASE node = "AND"
    BY <2>1, <2>3, <2>4, <2>6 DEF Eligibility!evaluate_operator, A, B
  <2>7. CASE node = "OR"
    BY <2>1, <2>3, <2>5, <2>7 DEF Eligibility!evaluate_operator, A, B
  <2> QED
    BY <2>6, <2>7
<1> QED
  BY <1>1, <1>2

\* and so every expression of a tree without a NOT does,
LEMMA TreeStays ==
  ASSUME NEW next, NEW ctx, NEW a, OneMore(next, ctx, a), TransfersFit(ctx), NEW rule, Eligibility!CourseRule(rule),
         \A i \in DOMAIN rule.tree : /\ rule.tree[i].node # "NOT"
                                     /\ rule.tree[i].node = "MINIMUM_COMPLETED_CREDITS" => Eligibility!SameCredits(next)
  PROVE  \A i \in DOMAIN rule.tree : Eligibility!evaluate_tree(rule, ctx)[i].result = "SATISFIED"
                                       => Eligibility!evaluate_tree(rule, next)[i].result = "SATISFIED"
<1> DEFINE was == Eligibility!evaluate_tree(rule, ctx)
           now == Eligibility!evaluate_tree(rule, next)
           Stays(i) == was[i].result = "SATISFIED" => now[i].result = "SATISFIED"
           lost == {i \in DOMAIN rule.tree : ~ Stays(i)}
<1>1. /\ DOMAIN was = DOMAIN rule.tree /\ \A i \in DOMAIN rule.tree : was[i] = Eligibility!evaluate_expression(rule, ctx, was, i)
      /\ DOMAIN now = DOMAIN rule.tree /\ \A i \in DOMAIN rule.tree : now[i] = Eligibility!evaluate_expression(rule, next, now, i)
  BY TreeIs
<1>2. \A i \in DOMAIN rule.tree : was[i].result \in RuleResults /\ now[i].result \in RuleResults
  BY TreeResults
<1> HIDE DEF was, now
<1>3. ASSUME NEW i \in DOMAIN rule.tree, \A j \in 1..(i - 1) : j \notin lost PROVE Stays(i)
  <2> DEFINE below == Eligibility!children(rule.tree, i)
             before == [j \in below |-> was[j].result]
             after == [j \in below |-> now[j].result]
  <2>1. CASE ~ Eligibility!IsOperator(rule.tree[i])
    <3>1. /\ was[i] = Eligibility!evaluate_leaf(rule.tree[i], rule.type, ctx)
          /\ now[i] = Eligibility!evaluate_leaf(rule.tree[i], rule.type, next)
      BY <1>1, <2>1 DEF Eligibility!evaluate_expression
    <3>2. Eligibility!CourseRuleExpression(rule.tree[i])
      BY DEF Eligibility!CourseRule
    <3> QED
      BY <2>1, <3>1, <3>2, LeafStays
  <2>2. CASE Eligibility!IsOperator(rule.tree[i])
    <3>1. was[i].result = Eligibility!evaluate_operator(rule.tree[i].node, before)
      <4>1. was[i] = Eligibility!evaluate_expression(rule, ctx, was, i)
        BY <1>1
      <4>2. was[i] = Eligibility!Plain(Eligibility!evaluate_operator(rule.tree[i].node, before))
        BY <2>2, <4>1, Zenon DEF Eligibility!evaluate_expression
      <4> QED
        BY <4>2 DEF Eligibility!Plain, Eligibility!Match
    <3>2. now[i].result = Eligibility!evaluate_operator(rule.tree[i].node, after)
      <4>1. now[i] = Eligibility!evaluate_expression(rule, next, now, i)
        BY <1>1
      <4>2. now[i] = Eligibility!Plain(Eligibility!evaluate_operator(rule.tree[i].node, after))
        BY <2>2, <4>1, Zenon DEF Eligibility!evaluate_expression
      <4> QED
        BY <4>2 DEF Eligibility!Plain, Eligibility!Match
    <3>3. rule.tree[i].node \in {"AND", "OR"}
      BY <2>2 DEF Eligibility!IsOperator, Eligibility!Operators
    <3>4. \A j \in below : j \in 1..(i - 1) /\ j \in DOMAIN rule.tree
      BY ChildrenBefore DEF Eligibility!children
    <3> HIDE DEF below
    <3>5. before \in [below -> RuleResults] /\ after \in [below -> RuleResults]
      BY <1>2, <3>4
    <3>6. \A j \in below : before[j] = "SATISFIED" => after[j] = "SATISFIED"
      BY <1>3, <3>4
    <3> HIDE DEF before, after
    <3> QED
      BY <3>1, <3>2, <3>3, <3>5, <3>6, OperatorStays
  <2> QED
    BY <2>1, <2>2
<1>4. lost = {}
  <2> SUFFICES ASSUME lost # {} PROVE FALSE
    OBVIOUS
  <2>1. lost \in SUBSET Nat
    BY ChildrenBefore
  <2>2. \E i \in lost : \A j \in lost : i <= j
    <3> HIDE DEF lost
    <3> QED
      BY <2>1, SmallestTerm
  <2>3. PICK i \in lost : \A j \in lost : i <= j
    BY <2>2
  <2>4. \A j \in 1..(i - 1) : j \notin lost
    BY <2>1, <2>3
  <2> QED
    BY <1>3, <2>3, <2>4
<1> QED
  BY <1>4 DEF was, now

\* so that what was eligible stays so.
LEMMA EligibleRemains ==
  ASSUME NEW next, NEW ctx, NEW a, OneMore(next, ctx, a), TransfersFit(ctx), RulesFit(ctx), ~ Eligibility!Uses(ctx, "NOT"),
         Eligibility!Uses(ctx, "MINIMUM_COMPLETED_CREDITS") => Eligibility!SameCredits(next),
         Eligibility!evaluate(ctx).overall = "ELIGIBLE"
  PROVE  Eligibility!evaluate(next).overall = "ELIGIBLE"
<1> DEFINE applying == Eligibility!load_rules(ctx)
<1>1. /\ next.rules = ctx.rules /\ next.reviewed = ctx.reviewed /\ next.snapshot = ctx.snapshot
      /\ Eligibility!load_rules(next) = applying /\ RulesFit(next)
  BY DEF OneMore, Eligibility!load_rules, RulesFit
<1>2. CASE ctx.reviewed.state # "MISSING"
  <2> DEFINE d == ctx.reviewed.definition
             named == Eligibility!ToSet(d.prerequisites) \cup Eligibility!ToSet(d.corequisites)
             Has(q, c, statuses) == \E i \in Eligibility!Of(q, c) : q.attempts[i].status \in statuses
             Blocking(q, c) == c \in Eligibility!ToSet(d.prerequisites) /\ ~ Has(q, c, {"COMPLETED", "IN_PROGRESS", "PLANNED"})
             Overall(q) == CASE None \in named -> "UNKNOWN"
                             [] None \notin named /\ (\E c \in named : Blocking(q, c)) -> "NOT_ELIGIBLE"
                             [] OTHER -> IF \A c \in named : Has(q, c, {"COMPLETED"}) THEN "ELIGIBLE" ELSE "CONDITIONALLY_ELIGIBLE"
             refused == ctx.reviewed.state = "CONFLICT" \/ d = None
  <2>1. /\ Eligibility!evaluate(ctx).overall = IF refused THEN "UNKNOWN" ELSE Overall(ctx)
        /\ Eligibility!evaluate(next).overall = IF refused THEN "UNKNOWN" ELSE Overall(next)
    BY <1>1, <1>2 DEF Eligibility!evaluate, Eligibility!evaluate_reviewed, Eligibility!Result
  <2>2. \A c, statuses : Has(ctx, c, statuses) => Has(next, c, statuses)
    <3> SUFFICES ASSUME NEW c, NEW statuses, NEW i \in Eligibility!Of(ctx, c), ctx.attempts[i].status \in statuses
                 PROVE  Has(next, c, statuses)
      OBVIOUS
    <3>1. i \in DOMAIN ctx.attempts
      BY DEF Eligibility!Of
    <3>2. i + 1 \in Eligibility!Of(next, c) /\ next.attempts[i + 1] = ctx.attempts[i]
      BY <3>1, OfShifts, AttemptsShift
    <3> QED
      BY <3>2
  <2> HIDE DEF d, named, Has
  <2>3. None \notin named /\ (\A c \in named : Has(ctx, c, {"COMPLETED"})) /\ ~ refused
        /\ \A c \in named : ~ Blocking(ctx, c)
    BY <2>1
  <2> QED
    BY <2>1, <2>2, <2>3
<1>3. CASE ctx.reviewed.state = "MISSING" /\ applying = {}
  BY <1>1, <1>3 DEF Eligibility!evaluate, Eligibility!evaluate_stored, Eligibility!Result
<1>4. CASE Eligibility!Stored(ctx)
  <2>1. Eligibility!Stored(next)
    BY <1>1, <1>4 DEF Eligibility!Stored
  <2>2. \A i \in applying : ResultOf(ctx, i) = "SATISFIED"
    BY <1>4, OverallIs
  <2>3. ASSUME NEW i \in applying PROVE ResultOf(next, i) = "SATISFIED"
    <3> DEFINE rule == ctx.rules[i]
    <3>1. Eligibility!CourseRule(rule)
      BY RulesAreRead
    <3>2. rule.tree # <<>>
      BY <2>2 DEF ResultOf, Eligibility!rule_result
    <3>3. Len(rule.tree) \in DOMAIN rule.tree
      BY <3>1, <3>2 DEF Eligibility!CourseRule
    <3>4. \A j \in DOMAIN rule.tree : /\ rule.tree[j].node # "NOT"
                                      /\ rule.tree[j].node = "MINIMUM_COMPLETED_CREDITS" => Eligibility!SameCredits(next)
      BY DEF Eligibility!Uses
    <3>5. Eligibility!evaluate_tree(rule, ctx)[Len(rule.tree)].result = "SATISFIED"
      BY <2>2, <3>2 DEF ResultOf, Eligibility!rule_result
    <3> HIDE DEF rule
    <3>6. Eligibility!evaluate_tree(rule, next)[Len(rule.tree)].result = "SATISFIED"
      BY <3>1, <3>3, <3>4, <3>5, TreeStays
    <3> QED
      BY <1>1, <3>2, <3>6 DEF ResultOf, Eligibility!rule_result, rule
  <2> QED
    BY <1>1, <2>1, <2>3, OverallIs
<1> QED
  BY <1>2, <1>3, <1>4 DEF Eligibility!Stored

(* What is stored *)

\* The latest check of the attempts as they are is the verdict on them, and one that
\* found the student eligible would find so again where nothing can take that away.
Lasting(q) ==
  ~ Eligibility!Uses(q, "NOT") /\ (Eligibility!Uses(q, "MINIMUM_COMPLETED_CREDITS") => Eligibility!SameCredits(q))
CheckHolds ==
  check # None =>
    /\ check.attempts \in Seq(Eligibility!StudentCourseAttempt) /\ Len(check.attempts) <= Len(checked.attempts)
    /\ check.attempts = checked.attempts => check.result = Eligibility!evaluate(checked)
    /\ check.result.overall = "ELIGIBLE" /\ Lasting(checked) => Eligibility!evaluate(checked).overall = "ELIGIBLE"
CheckInv == Eligibility!EligibilityRequest(checked) /\ Eligibility!TypeOK /\ CheckHolds

LEMMA CheckFinite == \A S : Eligibility!IsFiniteSet(S) <=> IsFiniteSet(S)
  BY Zenon DEF Eligibility!IsFiniteSet, IsFiniteSet

LEMMA RequestFits ==
  ASSUME NEW q, Eligibility!EligibilityRequest(q) PROVE RulesFit(q) /\ TransfersFit(q)
<1>1. RulesFit(q)
  BY Zenon DEF Eligibility!EligibilityRequest, RulesFit
<1>2. TransfersFit(q)
  BY CheckFinite, Zenon DEF Eligibility!EligibilityRequest, TransfersFit
<1> QED
  BY <1>1, <1>2

LEMMA CheckInit == Eligibility!EligibilityAssumption /\ Eligibility!Init => CheckInv
  BY DEF Eligibility!EligibilityAssumption, Eligibility!Init, CheckInv, Eligibility!TypeOK, CheckHolds, Eligibility!EligibilityRequest

\* A row becomes an attempt that the table accepts.
LEMMA AttemptTyped ==
  ASSUME NEW row \in [course : STRING, status : STRING, grade : STRING, credits : Nat]
  PROVE  [course |-> row.course, status |-> Eligibility!attempt_status(row), grade |-> row.grade,
          credits |-> row.credits, imported |-> FALSE] \in Eligibility!StudentCourseAttempt
<1>1. Eligibility!attempt_status(row) \in
        {"COMPLETED", "IN_PROGRESS", "PLANNED", "FAILED", "WITHDRAWN", "INCOMPLETE", "TRANSFERRED"}
  BY DEF Eligibility!attempt_status
<1> HIDE DEF Eligibility!attempt_status
<1> QED
  BY <1>1 DEF Eligibility!StudentCourseAttempt

\* A check is stored,
LEMMA CheckStored == CheckInv /\ Eligibility!create_check => CheckInv'
<1> SUFFICES ASSUME CheckInv, Eligibility!create_check PROVE CheckInv'
  OBVIOUS
<1> DEFINE run == [result |-> Eligibility!evaluate(checked), attempts |-> checked.attempts,
                   evaluations |-> IF checked.reviewed.state = "MISSING" THEN Eligibility!Trees(checked) ELSE <<>>]
<1>1. check' = run /\ checked' = checked
  BY DEF Eligibility!create_check
<1>2. RulesFit(checked) /\ checked.attempts \in Seq(Eligibility!StudentCourseAttempt)
  BY RequestFits DEF CheckInv, Eligibility!EligibilityRequest
<1>3. Eligibility!evaluate(checked).overall \in Eligibility!EligibilityOverallResult
  <2>1. CASE Eligibility!Stored(checked)
    BY <1>2, <2>1, OverallIs
  <2>2. CASE checked.reviewed.state = "MISSING" /\ Eligibility!load_rules(checked) = {}
    BY <2>2 DEF Eligibility!evaluate, Eligibility!evaluate_stored, Eligibility!Result, Eligibility!EligibilityOverallResult
  <2>3. CASE checked.reviewed.state # "MISSING"
    BY <2>3 DEF Eligibility!evaluate, Eligibility!evaluate_reviewed, Eligibility!Result, Eligibility!EligibilityOverallResult
  <2> QED
    BY <2>1, <2>2, <2>3 DEF Eligibility!Stored
<1>4. Eligibility!EligibilityCheckRun(run)
  <2>1. DOMAIN run.evaluations = IF checked.reviewed.state = "MISSING" THEN Eligibility!load_rules(checked) ELSE {}
    BY DEF Eligibility!Trees
  <2>2. ASSUME NEW i \in DOMAIN run.evaluations PROVE Eligibility!RuleEvaluation(checked.rules[i], run.evaluations[i])
    <3> DEFINE rule == checked.rules[i]
               tree == Eligibility!evaluate_tree(rule, checked)
    <3>1. i \in Eligibility!load_rules(checked) /\ run.evaluations[i] = tree
      BY <2>1 DEF Eligibility!Trees
    <3>2. Eligibility!CourseRule(rule)
      BY <1>2, <3>1, RulesAreRead
    <3>3. DOMAIN tree = DOMAIN rule.tree /\ \A j \in DOMAIN rule.tree : tree[j].result \in RuleResults
      BY <3>2, TreeIs, TreeResults
    <3> HIDE DEF run, rule, tree
    <3> QED
      BY <3>1, <3>3 DEF Eligibility!RuleEvaluation, Eligibility!RuleExpressionEvaluation, Eligibility!EligibilityRuleResult, RuleResults, rule
  <2>3. run.result.overall \in Eligibility!EligibilityOverallResult
    BY <1>3
  <2> HIDE DEF run
  <2> QED
    BY <2>1, <2>2, <2>3 DEF Eligibility!EligibilityCheckRun
<1>5. Eligibility!EligibilityCheckRun(run)'
  BY <1>1, <1>4 DEF Eligibility!EligibilityCheckRun, Eligibility!RuleEvaluation
<1>6. Eligibility!EligibilityRequest(checked)' /\ Eligibility!TypeOK'
  BY <1>1, <1>2, <1>5 DEF CheckInv, Eligibility!TypeOK
<1>7. CheckHolds'
  <2>1. run.attempts = checked.attempts /\ run.result = Eligibility!evaluate(checked)
    OBVIOUS
  <2>2. Len(checked.attempts) \in Nat
    BY <1>2
  <2> HIDE DEF run
  <2> QED
    BY <1>1, <1>2, <2>1, <2>2 DEF CheckHolds
<1> QED
  BY <1>6, <1>7 DEF CheckInv

\* and an attempt is added.
LEMMA AttemptApplied ==
  ASSUME CheckInv, NEW row \in checked.incoming, Eligibility!apply_course_attempt(row)
  PROVE  CheckInv'
<1> DEFINE a == [course |-> row.course, status |-> Eligibility!attempt_status(row), grade |-> row.grade,
                 credits |-> row.credits, imported |-> FALSE]
           kept == {"mode", "snapshot", "section", "transfers", "planned", "standing", "programs", "campus", "rules", "reviewed"}
<1>1. checked' = [checked EXCEPT !.incoming = @ \ {row}, !.attempts = <<a>> \o @] /\ check' = check
  BY DEF Eligibility!apply_course_attempt
<1>2. /\ kept \cup {"incoming", "attempts"} \subseteq DOMAIN checked
      /\ checked.incoming \subseteq [course : STRING, status : STRING, grade : STRING, credits : Nat]
      /\ checked.attempts \in Seq(Eligibility!StudentCourseAttempt)
      /\ RulesFit(checked) /\ TransfersFit(checked)
  BY RequestFits DEF CheckInv, Eligibility!EligibilityRequest
<1>3. a \in Eligibility!StudentCourseAttempt
  BY <1>2, AttemptTyped
<1>4. a.course = row.course /\ a.credits = row.credits
  OBVIOUS
<1> HIDE DEF a
<1>5. /\ DOMAIN checked' = DOMAIN checked
      /\ checked'.incoming = checked.incoming \ {row} /\ checked'.attempts = <<a>> \o checked.attempts
      /\ \A field \in kept : checked'[field] = checked[field]
  BY <1>1, <1>2
<1>6. /\ checked'.section = checked.section /\ checked'.snapshot = checked.snapshot /\ checked'.transfers = checked.transfers
      /\ checked'.rules = checked.rules /\ checked'.reviewed = checked.reviewed
      /\ checked'.standing = checked.standing /\ checked'.programs = checked.programs /\ checked'.campus = checked.campus
  BY <1>5
<1>7. OneMore(checked', checked, a)
  BY <1>2, <1>3, <1>5, <1>6 DEF OneMore
<1>8. checked'.attempts \in Seq(Eligibility!StudentCourseAttempt) /\ Len(checked'.attempts) = Len(checked.attempts) + 1
      /\ Len(checked.attempts) \in Nat
  BY <1>7, AttemptsShift
<1>9. Eligibility!EligibilityRequest(checked)'
  <2>1. RulesFit(checked') /\ TransfersFit(checked')
    BY <1>2, <1>6 DEF RulesFit, TransfersFit
  <2>2. /\ {"mode", "snapshot", "section", "attempts", "transfers", "planned", "standing", "programs", "campus", "rules",
            "reviewed", "incoming"} \subseteq DOMAIN checked'
        /\ checked'.incoming \subseteq [course : STRING, status : STRING, grade : STRING, credits : Nat]
    BY <1>2, <1>5
  <2> QED
    BY <1>8, <2>1, <2>2, CheckFinite, Zenon DEF Eligibility!EligibilityRequest, RulesFit, TransfersFit
<1>10. Eligibility!load_rules(checked)' = Eligibility!load_rules(checked)
  BY <1>6 DEF Eligibility!load_rules
<1>11. Eligibility!TypeOK'
  <2>1. check # None => Eligibility!EligibilityCheckRun(check)
    BY DEF CheckInv, Eligibility!TypeOK
  <2>2. check' # None => Eligibility!EligibilityCheckRun(check)'
    BY <1>1, <1>6, <1>10, <2>1 DEF Eligibility!EligibilityCheckRun
  <2> QED
    BY <1>8, <2>2 DEF Eligibility!TypeOK
<1>12. Lasting(checked)' => Lasting(checked) /\ (Eligibility!Uses(checked, "MINIMUM_COMPLETED_CREDITS") => Eligibility!SameCredits(checked'))
  <2>1. \A node : Eligibility!Uses(checked', node) <=> Eligibility!Uses(checked, node)
    BY <1>6, <1>10 DEF Eligibility!Uses
  <2>2. Eligibility!SameCredits(checked') => Eligibility!SameCredits(checked)
    <3> DEFINE known(q) == Eligibility!ToSet(q.attempts) \cup q.incoming
    <3>1. a \in known(checked')
      <4>1. 1 \in DOMAIN checked'.attempts /\ checked'.attempts[1] = a
        BY <1>7, AttemptsShift
      <4> QED
        BY <4>1 DEF Eligibility!ToSet
    <3>2. \A x \in Eligibility!ToSet(checked.attempts) : x \in Eligibility!ToSet(checked'.attempts)
      <4>1. \A i \in DOMAIN checked.attempts : i + 1 \in DOMAIN checked'.attempts /\ checked'.attempts[i + 1] = checked.attempts[i]
        BY <1>7, AttemptsShift
      <4> QED
        BY <4>1 DEF Eligibility!ToSet
    <3>3. \A x \in known(checked) : \E y \in known(checked') : y.course = x.course /\ y.credits = x.credits
      BY <1>4, <1>5, <3>1, <3>2
    <3> HIDE DEF known
    <3>4. ASSUME Eligibility!SameCredits(checked')
          PROVE  \A x, y \in known(checked') : (x.course = y.course => x.credits = y.credits)
                   /\ (x.course \in DOMAIN checked'.transfers => x.credits = checked'.transfers[x.course])
      BY <3>4 DEF Eligibility!SameCredits, known
    <3>5. ASSUME \A x, y \in known(checked') : (x.course = y.course => x.credits = y.credits)
                   /\ (x.course \in DOMAIN checked'.transfers => x.credits = checked'.transfers[x.course])
          PROVE  \A x, y \in known(checked) : (x.course = y.course => x.credits = y.credits)
                   /\ (x.course \in DOMAIN checked.transfers => x.credits = checked.transfers[x.course])
      BY <1>6, <3>3, <3>5
    <3> QED
      BY <3>4, <3>5 DEF Eligibility!SameCredits, known
  <2> QED
    BY <2>1, <2>2 DEF Lasting
<1>13. CheckHolds'
  <2> SUFFICES ASSUME check # None PROVE CheckHolds'
    BY <1>1 DEF CheckHolds
  <2>1. /\ check.attempts \in Seq(Eligibility!StudentCourseAttempt) /\ Len(check.attempts) <= Len(checked.attempts)
        /\ check.result.overall = "ELIGIBLE" /\ Lasting(checked) => Eligibility!evaluate(checked).overall = "ELIGIBLE"
    BY DEF CheckInv, CheckHolds
  <2>2. Len(check.attempts) \in Nat
    BY <2>1
  <2>3. Len(check.attempts) <= Len(checked'.attempts) /\ check.attempts # checked'.attempts
    BY <1>8, <2>1, <2>2
  <2>4. check.result.overall = "ELIGIBLE" /\ Lasting(checked') => Eligibility!evaluate(checked').overall = "ELIGIBLE"
    BY <1>2, <1>7, <1>12, <2>1, EligibleRemains DEF Lasting
  <2> QED
    BY <1>1, <2>1, <2>3, <2>4 DEF CheckHolds
<1> QED
  BY <1>9, <1>11, <1>13 DEF CheckInv

LEMMA CheckKeeps == CheckInv /\ [Eligibility!Next]_(Eligibility!vars) => CheckInv'
<1>1. CheckInv /\ UNCHANGED Eligibility!vars => CheckInv'
  BY DEF Eligibility!vars, CheckInv, Eligibility!TypeOK, CheckHolds, Eligibility!EligibilityCheckRun, Eligibility!RuleEvaluation
<1> QED
  BY <1>1, CheckStored, AttemptApplied DEF Eligibility!Next

\* A stored verdict on the attempts as they are is final exactly when no open question
\* can change it.
THEOREM VerdictsAreSound == AdvisingSpec => []VerdictIsSound
<1>1. CheckInv => VerdictIsSound
  <2> SUFFICES ASSUME CheckInv, check # None, check.attempts = checked.attempts, Eligibility!Stored(checked)
               PROVE  /\ check.result.overall = "ELIGIBLE" <=> Eligibility!Answers(checked) = {TRUE}
                      /\ check.result.overall = "NOT_ELIGIBLE" <=> Eligibility!Answers(checked) = {FALSE}
    BY Zenon DEF VerdictIsSound, Eligibility!VerdictIsSound
  <2>1. check.result = Eligibility!evaluate(checked)
    BY DEF CheckInv, CheckHolds
  <2>2. RulesFit(checked)
    BY RequestFits DEF CheckInv
  <2> QED
    BY <2>1, <2>2, VerdictIsFinal
<1>2. Eligibility!Init => CheckInv
  BY CheckInit, AdvisingConstants
<1> QED
  BY CheckKeeps, EachServiceRuns, <1>1, <1>2, PTL DEF Eligibility!Spec

\* No attempt, however it went, takes away eligibility under rules without a NOT.
THEOREM EligibilityStays == AdvisingSpec => EligibleStays
<1>1. CheckInv /\ [Eligibility!Next]_(Eligibility!vars) =>
        [check' # check /\ check # None /\ check.result.overall = "ELIGIBLE"
           /\ ~ Eligibility!Uses(checked, "NOT") /\ (Eligibility!Uses(checked, "MINIMUM_COMPLETED_CREDITS") => Eligibility!SameCredits(checked))
         => check'.result.overall = "ELIGIBLE"]_(Eligibility!vars)
  <2> SUFFICES ASSUME CheckInv, [Eligibility!Next]_(Eligibility!vars), check' # check, check # None,
                      check.result.overall = "ELIGIBLE", Lasting(checked)
               PROVE  check'.result.overall = "ELIGIBLE"
    BY Zenon DEF Lasting
  <2>1. Eligibility!create_check
    BY DEF Eligibility!Next, Eligibility!apply_course_attempt, Eligibility!vars
  <2>2. Eligibility!evaluate(checked).overall = "ELIGIBLE"
    BY DEF CheckInv, CheckHolds
  <2>3. check'.result = Eligibility!evaluate(checked)
    BY <2>1 DEF Eligibility!create_check
  <2> QED
    BY <2>2, <2>3
<1>2. Eligibility!Init => CheckInv
  BY CheckInit, AdvisingConstants
<1> QED
  BY CheckKeeps, EachServiceRuns, <1>1, <1>2, PTL DEF Eligibility!Spec, EligibleStays, Eligibility!EligibleStays
-----------------------------------------------------------------------------
(* Degree audits *)

LEMMA AuditCounts == \A S : Audit!Cardinality(S) = Cardinality(S)
  BY Zenon DEF Audit!Cardinality, Cardinality

\* A finite set of numbers has a first, a second and so on up to its size.
LEMMA KthMember ==
  ASSUME NEW n \in Nat, NEW P, P \subseteq 1..n, NEW k \in 1..Cardinality(P)
  PROVE \E i \in P : Cardinality({j \in P : j <= i}) = k
<1>1. IsFiniteSet(P) /\ Cardinality(P) \in Nat
  <2>1. IsFiniteSet(1..n)
    BY FS_Interval
  <2> QED
    BY <2>1, FS_Subset, FS_CardinalityType
<1>0. \A j \in P : j \in Int /\ 0 < j /\ j <= n
  <2> TAKE j \in P
  <2>1. j \in 1..n
    OBVIOUS
  <2> QED
    BY <2>1
<1> DEFINE Upto(m) == {j \in P : j <= m}
           Size(m) == Cardinality(Upto(m))
           Long == {m \in 0..n : Size(m) >= k}
<1>2. \A m : IsFiniteSet(Upto(m)) /\ Size(m) \in Nat
  <2>1. \A m : Upto(m) \subseteq P
    OBVIOUS
  <2> HIDE DEF Upto
  <2> QED
    BY <1>1, <2>1, FS_Subset, FS_CardinalityType
<1>3. Size(0) = 0 /\ Size(n) = Cardinality(P)
  <2>1. Upto(0) = {}
    <3>1. \A j \in P : ~ (j <= 0)
      BY <1>0
    <3> QED
      BY <3>1, Zenon
  <2>2. Upto(n) = P
    BY <1>0, Zenon
  <2> HIDE DEF Upto
  <2> QED
    BY <2>1, <2>2, FS_EmptySet
<1>4. ASSUME NEW m \in 1..n PROVE Size(m) = Size(m - 1) \/ (m \in P /\ Size(m) = Size(m - 1) + 1)
  <2>1. CASE m \in P
    <3>1. \A j \in P : j <= m <=> j <= m - 1 \/ j = m
      BY <1>0
    <3>2. Upto(m) = Upto(m - 1) \cup {m}
      BY <2>1, <3>1, Zenon
    <3>3. m \notin Upto(m - 1)
      OBVIOUS
    <3> HIDE DEF Upto
    <3> QED
      BY <1>2, <2>1, <3>2, <3>3, FS_AddElement
  <2>2. CASE m \notin P
    <3>1. \A j \in P : j <= m <=> j <= m - 1
      BY <1>0, <2>2
    <3>2. Upto(m) = Upto(m - 1)
      BY <3>1
    <3> HIDE DEF Upto
    <3> QED
      BY <3>2
  <2> QED
    BY <2>1, <2>2
<1> HIDE DEF Size
<1>5. PICK m \in Long : \A l \in Long : m <= l
  <2>1. n \in Long /\ Long \in SUBSET Nat
    BY <1>1, <1>3
  <2> HIDE DEF Long
  <2> QED
    BY <2>1, SmallestTerm
<1>6. m # 0 /\ m \in 0..n /\ Size(m) >= k
  BY <1>3, <1>5
<1>7. m \in 1..n /\ m - 1 \in 0..n /\ m - 1 \notin Long
  BY <1>5, <1>6
<1>8. ~ (Size(m - 1) >= k) /\ k \in Nat
  BY <1>1, <1>7
<1>9. m \in P /\ Size(m) = k
  <2>1. Size(m) \in Nat /\ Size(m - 1) \in Nat
    BY <1>2, <1>7
  <2> HIDE DEF Long
  <2> QED
    BY <1>4, <1>6, <1>7, <1>8, <2>1
<1> QED
  BY <1>9 DEF Size

\* What is picked from some positions of a sequence is a sequence of members from there.
LEMMA OnlyMembers ==
  ASSUME NEW s, Audit!IsSequence(s), NEW P, P \subseteq DOMAIN s
  PROVE LET r == Audit!Only(s, P) IN
        /\ Audit!IsSequence(r) /\ DOMAIN r = 1..Len(r) /\ Len(r) \in Nat
        /\ \A k \in DOMAIN r : \E i \in P : r[k] = s[i]
<1> DEFINE T == {s[i] : i \in P}
           At(k) == CHOOSE i \in P : Audit!Cardinality({j \in P : j <= i}) = k
           r == [k \in 1..Audit!Cardinality(P) |-> s[At(k)]]
<1>1. DOMAIN s = 1..Len(s) /\ Len(s) \in Nat
  BY DEF Audit!IsSequence
<1>2. Audit!Cardinality(P) = Cardinality(P) /\ Cardinality(P) \in Nat
  <2>1. IsFiniteSet(1..Len(s))
    BY <1>1, FS_Interval
  <2> QED
    BY <1>1, <2>1, AuditCounts, FS_Subset, FS_CardinalityType
<1>3. ASSUME NEW k \in 1..Audit!Cardinality(P) PROVE At(k) \in P
  <2>0. k \in 1..Cardinality(P) /\ P \subseteq 1..Len(s) /\ Len(s) \in Nat
    BY <1>1, <1>2
  <2>1. PICK i \in P : Cardinality({j \in P : j <= i}) = k
    <3>1. \E i \in P : Cardinality({j \in P : j <= i}) = k
      BY <2>0, KthMember, ZenonT(60)
    <3> QED
      BY <3>1
  <2>2. Audit!Cardinality({j \in P : j <= i}) = k
    BY <2>1, AuditCounts
  <2> QED
    BY <2>2
<1>4. r \in Seq(T) /\ DOMAIN r = 1..Len(r) /\ Len(r) \in Nat
  <2> HIDE DEF At
  <2> QED
    BY <1>2, <1>3
<1>5. \A k \in DOMAIN r : \E i \in P : r[k] = s[i]
  <2> HIDE DEF At
  <2> QED
    BY <1>3
<1>6. Audit!IsSequence(r)
  <2> HIDE DEF r
  <2> QED
    BY <1>4, SMTT(60) DEF Audit!IsSequence, Audit!ToSet
<1>7. Audit!Only(s, P) = r
  BY Zenon DEF Audit!Only
<1> HIDE DEF r
<1> QED
  BY <1>4, <1>5, <1>6, <1>7

\* A function on 1..n is a sequence.
LEMMA ListIs ==
  ASSUME NEW n \in Nat, NEW s, DOMAIN s = 1..n, s = [i \in 1..n |-> s[i]]
  PROVE Audit!IsSequence(s)
<1>1. s \in Seq({s[i] : i \in 1..n})
  OBVIOUS
<1> QED
  BY <1>1 DEF Audit!IsSequence, Audit!ToSet

LEMMA SeqIs ==
  ASSUME NEW T, NEW s \in Seq(T)
  PROVE Audit!IsSequence(s) /\ DOMAIN s = 1..Len(s) /\ Len(s) \in Nat
<1>1. DOMAIN s = 1..Len(s) /\ Len(s) \in Nat /\ s = [i \in 1..Len(s) |-> s[i]]
  OBVIOUS
<1> QED
  BY <1>1, ListIs

LEMMA EmptyIs == Audit!IsSequence(<<>>)
<1>1. <<>> \in Seq({})
  OBVIOUS
<1> QED
  BY <1>1, SeqIs

\* A list of candidates, as the applications store them
Typed(c) ==
  /\ c.source[1] \in {"attempt", "transfer", "waiver", "substitution"} /\ c.source[2] \in Nat
  /\ c.credits \in Nat /\ c.state \in {"COMPLETED", "IN_PROGRESS", "PLANNED"}
Listed(s) == Audit!IsSequence(s) /\ \A i \in DOMAIN s : Typed(s[i])

LEMMA PickedIs == ASSUME NEW s, Listed(s), NEW P, P \subseteq DOMAIN s PROVE Listed(Audit!Only(s, P))
<1>1. Audit!IsSequence(Audit!Only(s, P)) /\ \A k \in DOMAIN Audit!Only(s, P) : \E i \in P : Audit!Only(s, P)[k] = s[i]
  BY OnlyMembers DEF Listed
<1> QED
  BY <1>1 DEF Listed

\* The keys of candidates are in a total order.
LEMMA KeyIs == ASSUME NEW c, Typed(c) PROVE Audit!SortKey(c) \in Int \X Int \X Int
<1>1. Audit!StateRank(c) \in Int
  BY DEF Audit!StateRank
<1> QED
  BY <1>1 DEF Audit!SortKey, Typed

LEMMA LessIs ==
  ASSUME NEW k \in Int \X Int \X Int, NEW l \in Int \X Int \X Int
  PROVE  Audit!Less(k, l) <=> \/ k[1] < l[1]
                              \/ k[1] = l[1] /\ k[2] < l[2]
                              \/ k[1] = l[1] /\ k[2] = l[2] /\ k[3] < l[3]
<1>1. 1..3 = {1, 2, 3} /\ 1..(1 - 1) = {} /\ 1..(2 - 1) = {1} /\ 1..(3 - 1) = {1, 2}
  OBVIOUS
<1> QED
  BY <1>1 DEF Audit!Less

LEMMA LessOrders ==
  ASSUME NEW k \in Int \X Int \X Int, NEW l \in Int \X Int \X Int, NEW m \in Int \X Int \X Int
  PROVE  /\ ~ Audit!Less(k, k)
         /\ Audit!Less(k, l) /\ Audit!Less(l, m) => Audit!Less(k, m)
         /\ Audit!Less(k, l) \/ Audit!Less(l, k) \/ k = l
<1>1. \A x \in {k, l, m} : x[1] \in Int /\ x[2] \in Int /\ x[3] \in Int /\ x = <<x[1], x[2], x[3]>>
  OBVIOUS
<1>2. ~ Audit!Less(k, k)
  BY <1>1, LessIs
<1>3. Audit!Less(k, l) /\ Audit!Less(l, m) => Audit!Less(k, m)
  BY <1>1, LessIs
<1>4. Audit!Less(k, l) \/ Audit!Less(l, k) \/ k = l
  <2>1. ~ Audit!Less(k, l) /\ ~ Audit!Less(l, k) => k[1] = l[1] /\ k[2] = l[2] /\ k[3] = l[3]
    BY <1>1, LessIs
  <2> QED
    BY <1>1, <2>1
<1> QED
  BY <1>2, <1>3, <1>4

\* Sorting puts each candidate at a place of its own.
LEMMA SortedIs ==
  ASSUME NEW s, Listed(s) PROVE Listed(Audit!Sorted(s))
<1> DEFINE n == Len(s)
           key == [i \in 1..n |-> Audit!SortKey(s[i])]
           Ahead(j, i) == Audit!Less(key[j], key[i]) \/ (key[j] = key[i] /\ j < i)
           below == [i \in 1..n |-> {j \in 1..n : Ahead(j, i)}]
           At(k) == CHOOSE i \in 1..n : Audit!Cardinality(below[i]) = k - 1
           r == [k \in 1..n |-> s[At(k)]]
<1>1. DOMAIN s = 1..n /\ n \in Nat /\ \A i \in 1..n : Typed(s[i])
  BY DEF Listed, Audit!IsSequence
<1>2. \A i \in 1..n : key[i] \in Int \X Int \X Int
  BY <1>1, KeyIs
<1>3. Audit!Sorted(s) = r
  <2> DEFINE KeyAt(i) == Audit!SortKey(s[i])
             Before(i) == {j \in DOMAIN s : Audit!Less(KeyAt(j), KeyAt(i)) \/ (KeyAt(j) = KeyAt(i) /\ j < i)}
  <2>1. Audit!Sorted(s) = [k \in DOMAIN s |-> s[CHOOSE i \in DOMAIN s : Audit!Cardinality(Before(i)) = k - 1]]
    BY Zenon DEF Audit!Sorted
  <2>2. \A i \in 1..n : below[i] = Before(i)
    BY <1>1
  <2> HIDE DEF below, Before
  <2>3. \A k : (CHOOSE i \in DOMAIN s : Audit!Cardinality(Before(i)) = k - 1) = At(k)
    BY <1>1, <2>2
  <2> HIDE DEF At
  <2> QED
    BY <1>1, <2>1, <2>3
<1> HIDE DEF key
<1>4. /\ \A i \in 1..n : ~ Ahead(i, i)
      /\ \A i, j, k \in 1..n : Ahead(k, j) /\ Ahead(j, i) => Ahead(k, i)
      /\ \A i, j \in 1..n : i = j \/ Ahead(i, j) \/ Ahead(j, i)
  <2>1. ASSUME NEW i \in 1..n PROVE ~ Ahead(i, i)
    BY <1>1, <1>2, LessOrders
  <2>2. ASSUME NEW i \in 1..n, NEW j \in 1..n, NEW k \in 1..n, Ahead(k, j), Ahead(j, i) PROVE Ahead(k, i)
    BY <1>1, <1>2, <2>2, LessOrders, SMTT(60)
  <2>3. ASSUME NEW i \in 1..n, NEW j \in 1..n PROVE i = j \/ Ahead(i, j) \/ Ahead(j, i)
    BY <1>1, <1>2, LessOrders
  <2> HIDE DEF Ahead
  <2> QED
    BY <2>1, <2>2, <2>3
<1> HIDE DEF Ahead
<1>5. /\ below \in [1..n -> SUBSET (1..n)]
      /\ \A i \in 1..n : i \notin below[i]
      /\ \A i \in 1..n : \A j \in below[i] : below[j] \subseteq below[i]
      /\ \A i, j \in 1..n : i = j \/ i \in below[j] \/ j \in below[i]
  BY <1>4
<1>6. ASSUME NEW k \in 1..n PROVE At(k) \in 1..n
  <2> HIDE DEF below, n
  <2>1. \E i \in 1..n : Cardinality(below[i]) = k - 1
    BY <1>1, <1>5, EachPlaceTaken
  <2>2. \E i \in 1..n : Audit!Cardinality(below[i]) = k - 1
    BY <2>1, AuditCounts
  <2> QED
    BY <2>2
<1> HIDE DEF At
<1>7. r = [k \in 1..n |-> r[k]] /\ DOMAIN r = 1..n /\ \A k \in 1..n : Typed(r[k])
  BY <1>1, <1>6
<1> HIDE DEF r
<1>8. Audit!IsSequence(r)
  BY <1>1, <1>7, ListIs
<1> QED
  BY <1>3, <1>7, <1>8 DEF Listed

\* Sequences one after the other are a sequence of their members.
LEMMA FlattenIs ==
  ASSUME NEW n \in Nat, NEW seqs, DOMAIN seqs = 1..n, seqs = [i \in 1..n |-> seqs[i]],
         \A i \in 1..n : Audit!IsSequence(seqs[i])
  PROVE LET r == Audit!FlattenSeq(seqs) IN
        /\ Audit!IsSequence(r)
        /\ \A k \in DOMAIN r : \E i \in 1..n : \E j \in DOMAIN seqs[i] : r[k] = seqs[i][j]
<1> DEFINE T == UNION {Audit!ToSet(seqs[i]) : i \in 1..n}
           Part(g, i) == IF i = 1 THEN seqs[i] ELSE g[i - 1] \o seqs[i]
           Body(g) == [i \in 1..n |-> Part(g, i)]
           flat == CHOOSE g : g = Body(g)
<1>1. \A i \in 1..n : seqs[i] \in Seq(T)
  <2> TAKE i \in 1..n
  <2>1. seqs[i] \in Seq(Audit!ToSet(seqs[i])) /\ Audit!ToSet(seqs[i]) \subseteq T
    BY DEF Audit!IsSequence
  <2> HIDE DEF T
  <2> QED
    BY <2>1
<1> HIDE DEF T
<1>2. Len(seqs) = n
  <2>1. seqs \in Seq({seqs[i] : i \in 1..n})
    OBVIOUS
  <2> QED
    BY <2>1
<1>3. \E g : g = Body(g)
  <2> DEFINE Follows(g, k) == \A i \in 1..k : g[i] = Part(g, i)
             Short == {k \in 0..n : ~ \E g \in [1..k -> Seq(T)] : Follows(g, k)}
  <2>1. Short = {}
    <3> SUFFICES ASSUME Short # {} PROVE FALSE
      OBVIOUS
    <3>1. PICK k \in Short : \A l \in Short : k <= l
      <4>1. Short \in SUBSET Nat
        OBVIOUS
      <4> HIDE DEF Short
      <4> QED
        BY <4>1, SmallestTerm
    <3>2. k \in 0..n /\ ~ \E g \in [1..k -> Seq(T)] : Follows(g, k)
      BY <3>1
    <3>3. k # 0
      <4>1. [i \in 1..0 |-> <<>>] \in [1..0 -> Seq(T)]
        OBVIOUS
      <4>2. Follows([i \in 1..0 |-> <<>>], 0)
        OBVIOUS
      <4> QED
        BY <3>2, <4>1, <4>2
    <3>4. k - 1 \in 0..n /\ k \in 1..n
      BY <3>2, <3>3
    <3>5. PICK g \in [1..(k - 1) -> Seq(T)] : Follows(g, k - 1)
      <4>1. k - 1 \notin Short
        <5> HIDE DEF Short
        <5> QED
          BY <3>1, <3>4
      <4> HIDE DEF Follows
      <4> QED
        BY <3>4, <4>1
    <3> DEFINE h == [i \in 1..k |-> IF i = k THEN Part(g, k) ELSE g[i]]
    <3>6. Part(g, k) \in Seq(T)
      BY <1>1, <3>4, <3>5
    <3>7. h \in [1..k -> Seq(T)]
      <4> HIDE DEF Part
      <4> QED
        BY <3>4, <3>5, <3>6
    <3>8. ASSUME NEW i \in 1..k PROVE h[i] = Part(h, i)
      <4>1. CASE i = k
        BY <3>4, <4>1
      <4>2. CASE i # k
        <5>0. i \in 1..(k - 1) /\ h[i] = g[i]
          BY <3>4, <4>2
        <5>1. h[i] = Part(g, i)
          <6> HIDE DEF h, Part
          <6> QED
            BY <3>5, <5>0
        <5>2. i # 1 => i - 1 \in 1..k /\ i - 1 # k /\ h[i - 1] = g[i - 1]
          BY <3>4, <4>2, <5>0
        <5> HIDE DEF h
        <5> QED
          BY <5>1, <5>2
      <4> QED
        BY <4>1, <4>2
    <3> HIDE DEF h
    <3> QED
      BY <3>2, <3>7, <3>8
  <2>2. n \notin Short
    BY <2>1
  <2>3. PICK g \in [1..n -> Seq(T)] : Follows(g, n)
    BY <2>2
  <2>4. g = [i \in 1..n |-> g[i]] /\ \A i \in 1..n : g[i] = Part(g, i)
    BY <2>3
  <2> HIDE DEF Part
  <2>5. g = Body(g)
    BY <2>4
  <2> QED
    BY <2>5
<1>4. flat = Body(flat)
  BY <1>3, Zenon
<1>5. ASSUME NEW i \in 1..n PROVE flat[i] \in Seq(T)
  <2> DEFINE Odd == {k \in 1..n : flat[k] \notin Seq(T)}
  <2>1. Odd = {}
    <3> SUFFICES ASSUME Odd # {} PROVE FALSE
      OBVIOUS
    <3>1. PICK k \in Odd : \A l \in Odd : k <= l
      <4>1. Odd \in SUBSET Nat
        OBVIOUS
      <4> HIDE DEF Odd
      <4> QED
        BY <4>1, SmallestTerm
    <3> HIDE DEF flat
    <3>2. k \in 1..n /\ flat[k] = Part(flat, k) /\ flat[k] \notin Seq(T)
      BY <1>4, <3>1
    <3>3. k # 1 => k - 1 \in 1..n /\ k - 1 \notin Odd
      BY <3>1, <3>2
    <3>4. k # 1 => flat[k - 1] \in Seq(T)
      BY <3>3
    <3> QED
      BY <1>1, <3>2, <3>4
  <2> QED
    BY <2>1
<1>6. CASE n = 0
  <2>1. Audit!FlattenSeq(seqs) = seqs
    BY <1>2, <1>6 DEF Audit!FlattenSeq
  <2>2. Audit!IsSequence(seqs)
    BY ListIs
  <2>3. DOMAIN seqs = {}
    BY <1>6
  <2> QED
    BY <2>1, <2>2, <2>3, Zenon
<1>7. CASE n # 0
  <2>1. Audit!FlattenSeq(seqs) = flat[n]
    BY <1>2, <1>7, Zenon DEF Audit!FlattenSeq
  <2> HIDE DEF flat
  <2>2. flat[n] \in Seq(T)
    BY <1>5, <1>7
  <2>3. Audit!IsSequence(flat[n])
    BY <2>2, SeqIs
  <2>4. ASSUME NEW k \in DOMAIN flat[n] PROVE \E i \in 1..n : \E j \in DOMAIN seqs[i] : flat[n][k] = seqs[i][j]
    <3>1. flat[n][k] \in T
      BY <2>2
    <3>2. PICK i \in 1..n : flat[n][k] \in Audit!ToSet(seqs[i])
      BY <3>1 DEF T
    <3> QED
      BY <3>2, Zenon DEF Audit!ToSet
  <2> QED
    BY <2>1, <2>3, <2>4, ZenonT(60)
<1> QED
  BY <1>6, <1>7

LEMMA ConcatIs ==
  ASSUME NEW s, NEW t, Audit!IsSequence(s), Audit!IsSequence(t)
  PROVE Audit!IsSequence(s \o t)
<1> DEFINE T == Audit!ToSet(s) \cup Audit!ToSet(t)
<1>1. s \in Seq(T) /\ t \in Seq(T)
  BY DEF Audit!IsSequence
<1> HIDE DEF T
<1>2. s \o t \in Seq(T)
  BY <1>1
<1> QED
  BY <1>2, SeqIs

\* Lists one after the other are a list.
LEMMA ListsAre ==
  /\ Listed(<<>>)
  /\ \A s, t : Listed(s) /\ Listed(t) => Listed(s \o t)
<1>1. Listed(<<>>)
  <2>1. DOMAIN <<>> = {}
    OBVIOUS
  <2> QED
    BY <2>1, EmptyIs DEF Listed
<1>2. ASSUME NEW s, NEW t, Listed(s), Listed(t) PROVE Listed(s \o t)
  <2>1. DOMAIN s = 1..Len(s) /\ DOMAIN t = 1..Len(t) /\ Len(s) \in Nat /\ Len(t) \in Nat
    BY <1>2 DEF Listed, Audit!IsSequence
  <2>2. /\ DOMAIN (s \o t) = 1..(Len(s) + Len(t))
        /\ \A i \in 1..(Len(s) + Len(t)) : (s \o t)[i] = IF i <= Len(s) THEN s[i] ELSE t[i - Len(s)]
    BY <1>2, <2>1 DEF Listed, Audit!IsSequence
  <2>3. ASSUME NEW i \in DOMAIN (s \o t) PROVE Typed((s \o t)[i])
    <3>1. CASE i <= Len(s)
      BY <1>2, <2>1, <2>2, <3>1 DEF Listed
    <3>2. CASE ~ (i <= Len(s))
      <4>1. i - Len(s) \in DOMAIN t /\ (s \o t)[i] = t[i - Len(s)]
        BY <2>1, <2>2, <3>2
      <4> QED
        BY <1>2, <4>1 DEF Listed
    <3> QED
      BY <3>1, <3>2
  <2>4. Audit!IsSequence(s \o t)
    BY <1>2, ConcatIs DEF Listed
  <2> QED
    BY <2>3, <2>4 DEF Listed
<1> QED
  BY <1>1, <1>2

LEMMA AllListed ==
  ASSUME NEW n \in Nat, NEW lists, DOMAIN lists = 1..n, lists = [i \in 1..n |-> lists[i]],
         \A i \in 1..n : Listed(lists[i])
  PROVE  Listed(Audit!FlattenSeq(lists))
<1>1. \A i \in 1..n : Audit!IsSequence(lists[i])
  BY DEF Listed
<1>2. /\ Audit!IsSequence(Audit!FlattenSeq(lists))
      /\ \A k \in DOMAIN Audit!FlattenSeq(lists) :
           \E i \in 1..n : \E j \in DOMAIN lists[i] : Audit!FlattenSeq(lists)[k] = lists[i][j]
  BY <1>1, FlattenIs, SMTT(60)
<1> QED
  BY <1>2 DEF Listed

LEMMA AuditConstants ==
  /\ Audit!IsSequence(AuditCatalog)
  /\ \A q \in AuditRequests :
       /\ Audit!IsSequence(q.nodes) /\ Audit!IsSequence(q.attempts) /\ Audit!IsSequence(q.transfers)
       /\ Audit!IsSequence(q.waivers) /\ Audit!IsSequence(q.substitutions) /\ Audit!IsSequence(q.equivalencies)
       /\ \A n \in Audit!ToSet(q.nodes) : Audit!IsSequence(n.options) /\ n.type \in Audit!RequirementType /\ n.overlap \in BOOLEAN
       /\ q.total \in Nat \ {0}
       /\ \A i \in DOMAIN q.attempts : q.attempts[i].id \in Nat /\ q.attempts[i].credits \in Nat
       /\ \A i \in DOMAIN q.transfers : q.transfers[i].id \in Nat /\ q.transfers[i].credits \in Nat
       /\ \A i \in DOMAIN q.waivers : q.waivers[i].id \in Nat
       /\ \A i \in DOMAIN q.substitutions : q.substitutions[i].id \in Nat
<1> SUFFICES ASSUME NEW q \in AuditRequests
             PROVE  /\ q.total \in Nat \ {0}
                    /\ \A i \in DOMAIN q.attempts : q.attempts[i].id \in Nat /\ q.attempts[i].credits \in Nat
                    /\ \A i \in DOMAIN q.transfers : q.transfers[i].id \in Nat /\ q.transfers[i].credits \in Nat
                    /\ \A i \in DOMAIN q.waivers : q.waivers[i].id \in Nat
                    /\ \A i \in DOMAIN q.substitutions : q.substitutions[i].id \in Nat
  BY AdvisingConstants, Zenon DEF Audit!AuditAssumption, Audit!RequirementNode
<1>1. /\ q.total \in Nat \ {0}
      /\ \A a \in Audit!ToSet(q.attempts) : Audit!StudentCourseAttempt(a)
      /\ \A t \in Audit!ToSet(q.transfers) : Audit!TransferCredit(t)
      /\ \A w \in Audit!ToSet(q.waivers) : Audit!CourseWaiver(q, w)
      /\ \A x \in Audit!ToSet(q.substitutions) : Audit!CourseSubstitution(q, x)
  BY AdvisingConstants, Zenon DEF Audit!AuditAssumption
<1>2. \A x : \A i \in DOMAIN x : x[i] \in Audit!ToSet(x)
  BY DEF Audit!ToSet
<1> QED
  BY <1>1, <1>2 DEF Audit!StudentCourseAttempt, Audit!TransferCredit, Audit!CourseWaiver, Audit!CourseSubstitution

\* The candidates for a requirement are listed.
LEMMA AttemptsAre ==
  ASSUME audited \in AuditRequests, NEW course, NEW as, NEW kind \in {"attempt", "substitution"},
         NEW key \in Nat \cup {None}, NEW minimum
  PROVE Listed(Audit!attempt_candidates(course, as, kind, key, minimum))
<1> DEFINE Usable(a) == /\ a.course = course
                        /\ \/ a.status \in {"IN_PROGRESS", "PLANNED"}
                           \/ a.status = "COMPLETED" /\ Audit!satisfies_minimum(a.grade, minimum).ok
           P == {i \in DOMAIN audited.attempts : Usable(audited.attempts[i])}
           found == Audit!Only(audited.attempts, P)
           Offer(i) == Audit!Candidate(kind, IF key = None THEN found[i].id ELSE key, as, found[i].credits, found[i].status)
           all == [i \in DOMAIN found |-> Offer(i)]
<1>1. P \subseteq DOMAIN audited.attempts /\ \A i \in P : audited.attempts[i].status \in {"COMPLETED", "IN_PROGRESS", "PLANNED"}
  OBVIOUS
<1>2. Audit!attempt_candidates(course, as, kind, key, minimum) = all
  BY Zenon DEF Audit!attempt_candidates
<1> HIDE DEF P
<1>3. DOMAIN found = 1..Len(found) /\ Len(found) \in Nat /\ \A k \in DOMAIN found : \E i \in P : found[k] = audited.attempts[i]
  BY <1>1, AuditConstants, OnlyMembers
<1> HIDE DEF found
<1>4. ASSUME NEW i \in DOMAIN found PROVE Typed(Offer(i))
  <2>1. found[i].id \in Nat /\ found[i].credits \in Nat /\ found[i].status \in {"COMPLETED", "IN_PROGRESS", "PLANNED"}
    BY <1>1, <1>3, AuditConstants
  <2> QED
    BY <2>1 DEF Typed, Audit!Candidate
<1>5. DOMAIN all = 1..Len(found) /\ all = [i \in 1..Len(found) |-> all[i]] /\ \A i \in DOMAIN all : all[i] = Offer(i)
  BY <1>3
<1> HIDE DEF all, Offer
<1>6. Audit!IsSequence(all)
  BY <1>3, <1>5, ListIs
<1> QED
  BY <1>2, <1>3, <1>4, <1>5, <1>6 DEF Listed

LEMMA TransfersAre ==
  ASSUME audited \in AuditRequests, NEW course, NEW minimum
  PROVE Listed(Audit!transfer_candidates(course, minimum))
<1> DEFINE Usable(t) == t.course = course /\ (minimum = "none" \/ Audit!satisfies_minimum(t.grade, minimum).ok)
           P == {i \in DOMAIN audited.transfers : Usable(audited.transfers[i])}
           found == Audit!Only(audited.transfers, P)
           Offer(i) == Audit!Candidate("transfer", found[i].id, course, found[i].credits, "COMPLETED")
           all == [i \in DOMAIN found |-> Offer(i)]
<1>1. P \subseteq DOMAIN audited.transfers
  OBVIOUS
<1>2. Audit!transfer_candidates(course, minimum) = all
  BY Zenon DEF Audit!transfer_candidates
<1> HIDE DEF P
<1>3. DOMAIN found = 1..Len(found) /\ Len(found) \in Nat /\ \A k \in DOMAIN found : \E i \in P : found[k] = audited.transfers[i]
  BY <1>1, AuditConstants, OnlyMembers
<1> HIDE DEF found
<1>4. ASSUME NEW i \in DOMAIN found PROVE Typed(Offer(i))
  <2>1. found[i].id \in Nat /\ found[i].credits \in Nat
    BY <1>1, <1>3, AuditConstants
  <2> QED
    BY <2>1 DEF Typed, Audit!Candidate
<1>5. DOMAIN all = 1..Len(found) /\ all = [i \in 1..Len(found) |-> all[i]] /\ \A i \in DOMAIN all : all[i] = Offer(i)
  BY <1>3
<1> HIDE DEF all, Offer
<1>6. Audit!IsSequence(all)
  BY <1>3, <1>5, ListIs
<1> QED
  BY <1>2, <1>3, <1>4, <1>5, <1>6 DEF Listed

LEMMA WaiversAre ==
  ASSUME audited \in AuditRequests, NEW node
  PROVE Listed(Audit!waiver_candidates(node))
<1> DEFINE P == {i \in DOMAIN audited.waivers : audited.waivers[i].node = node.id}
           found == Audit!Only(audited.waivers, P)
           Offer(i) == Audit!Candidate("waiver", found[i].id, None, 0, "COMPLETED")
           all == [i \in DOMAIN found |-> Offer(i)]
<1>1. P \subseteq DOMAIN audited.waivers
  OBVIOUS
<1>2. Audit!waiver_candidates(node) = all
  BY Zenon DEF Audit!waiver_candidates
<1> HIDE DEF P
<1>3. DOMAIN found = 1..Len(found) /\ Len(found) \in Nat /\ \A k \in DOMAIN found : \E i \in P : found[k] = audited.waivers[i]
  BY <1>1, AuditConstants, OnlyMembers
<1> HIDE DEF found
<1>4. ASSUME NEW i \in DOMAIN found PROVE Typed(Offer(i))
  <2>1. found[i].id \in Nat
    BY <1>1, <1>3, AuditConstants
  <2> QED
    BY <2>1 DEF Typed, Audit!Candidate
<1>5. DOMAIN all = 1..Len(found) /\ all = [i \in 1..Len(found) |-> all[i]] /\ \A i \in DOMAIN all : all[i] = Offer(i)
  BY <1>3
<1> HIDE DEF all, Offer
<1>6. Audit!IsSequence(all)
  BY <1>3, <1>5, ListIs
<1> QED
  BY <1>2, <1>3, <1>4, <1>5, <1>6 DEF Listed

LEMMA DirectAre ==
  ASSUME audited \in AuditRequests, NEW course, NEW minimum
  PROVE Listed(Audit!direct_candidates(course, minimum))
<1>1. Listed(Audit!attempt_candidates(course, course, "attempt", None, minimum)) /\ Listed(Audit!transfer_candidates(course, minimum))
  BY AttemptsAre, TransfersAre
<1> QED
  BY <1>1, ListsAre DEF Audit!direct_candidates

LEMMA EquivalenciesAre ==
  ASSUME audited \in AuditRequests, NEW course, NEW minimum
  PROVE Listed(Audit!equivalency_candidates(course, minimum))
<1> DEFINE qs == audited.equivalencies
           Part(i) == IF qs[i].to # course THEN <<>>
                      ELSE Audit!attempt_candidates(qs[i].from, course, "attempt", None, minimum)
           parts == [i \in DOMAIN qs |-> Part(i)]
<1>1. DOMAIN qs = 1..Len(qs) /\ Len(qs) \in Nat
  BY AuditConstants DEF Audit!IsSequence
<1>2. \A i \in DOMAIN qs : Listed(Part(i))
  BY AttemptsAre, ListsAre
<1>3. Listed(Audit!FlattenSeq(parts))
  <2> HIDE DEF Part, qs
  <2> QED
    BY <1>1, <1>2, AllListed
<1> QED
  BY <1>3, Zenon DEF Audit!equivalency_candidates

LEMMA SubstitutionsAre ==
  ASSUME audited \in AuditRequests, NEW node, NEW course, NEW minimum
  PROVE Listed(Audit!substitution_candidates(node, course, minimum))
<1> DEFINE ss == audited.substitutions
           Found(i) == Audit!attempt_candidates(ss[i].substitute, ss[i].substitute, "substitution", ss[i].id, minimum)
           Part(i) == IF ss[i].node # node.id \/ ss[i].original # course THEN <<>>
                      ELSE Audit!Only(Found(i), {j \in DOMAIN Found(i) : Found(i)[j].state = "COMPLETED"})
           parts == [i \in DOMAIN ss |-> Part(i)]
<1>1. DOMAIN ss = 1..Len(ss) /\ Len(ss) \in Nat
  BY AuditConstants DEF Audit!IsSequence
<1>2. ASSUME NEW i \in DOMAIN ss PROVE Listed(Part(i))
  <2>1. Listed(Found(i))
    BY AttemptsAre, AuditConstants
  <2> HIDE DEF Found, ss
  <2>2. Listed(Audit!Only(Found(i), {j \in DOMAIN Found(i) : Found(i)[j].state = "COMPLETED"}))
    BY <2>1, PickedIs
  <2> QED
    BY <2>2, ListsAre
<1>3. Listed(Audit!FlattenSeq(parts))
  <2> HIDE DEF Part, ss
  <2> QED
    BY <1>1, <1>2, AllListed
<1> QED
  BY <1>3, Zenon DEF Audit!substitution_candidates

LEMMA CandidatesAre ==
  ASSUME audited \in AuditRequests
  PROVE /\ \A node, option : Listed(Audit!course_candidates(node, option))
        /\ \A minimum : Listed(Audit!all_course_candidates(minimum))
<1>1. ASSUME NEW node, NEW option PROVE Listed(Audit!course_candidates(node, option))
  <2> DEFINE minimum == IF option.minimum = "none" THEN node.minimum ELSE option.minimum
             all == Audit!direct_candidates(option.course, minimum) \o Audit!equivalency_candidates(option.course, minimum)
                      \o Audit!substitution_candidates(node, option.course, minimum)
  <2>1. Listed(all)
    <3> HIDE DEF minimum
    <3> QED
      BY DirectAre, EquivalenciesAre, SubstitutionsAre, ListsAre
  <2>2. Audit!course_candidates(node, option) = Audit!Sorted(all)
    BY Zenon DEF Audit!course_candidates
  <2> QED
    BY <2>1, <2>2, SortedIs
<1>2. ASSUME NEW minimum PROVE Listed(Audit!all_course_candidates(minimum))
  <2> DEFINE parts == [i \in DOMAIN AuditCatalog |-> Audit!direct_candidates(AuditCatalog[i].id, minimum)]
  <2>1. DOMAIN AuditCatalog = 1..Len(AuditCatalog) /\ Len(AuditCatalog) \in Nat
    BY AuditConstants DEF Audit!IsSequence
  <2>2. Listed(Audit!FlattenSeq(parts))
    <3>1. \A i \in DOMAIN AuditCatalog : Listed(Audit!direct_candidates(AuditCatalog[i].id, minimum))
      BY DirectAre
    <3> QED
      BY <2>1, <3>1, AllListed
  <2>3. Audit!all_course_candidates(minimum) = Audit!Sorted(Audit!FlattenSeq(parts))
    BY Zenon DEF Audit!all_course_candidates
  <2> QED
    BY <2>2, <2>3, SortedIs
<1> QED
  BY <1>1, <1>2

LEMMA AvailableAre ==
  ASSUME NEW s, Listed(s), NEW overlap
  PROVE LET r == Audit!first_available(s, overlap, used) IN
        /\ Listed(r)
        /\ \A k \in DOMAIN r : Audit!is_available(r[k].source, overlap, used)
<1> DEFINE P == {i \in DOMAIN s : Audit!is_available(s[i].source, overlap, used)}
           r == Audit!Only(s, P)
<1>1. Audit!first_available(s, overlap, used) = r
  BY Zenon DEF Audit!first_available
<1>2. P \subseteq DOMAIN s /\ \A i \in P : Audit!is_available(s[i].source, overlap, used)
  OBVIOUS
<1> HIDE DEF P
<1>3. Listed(r) /\ \A k \in DOMAIN r : \E i \in P : r[k] = s[i]
  BY <1>2, OnlyMembers, PickedIs DEF Listed
<1> QED
  BY <1>1, <1>2, <1>3

LEMMA DistinctAre ==
  ASSUME NEW s, Listed(s)
  PROVE LET r == Audit!Distinct(s) IN Listed(r) /\ \A k \in DOMAIN r : \E i \in DOMAIN s : r[k] = s[i]
<1> DEFINE Repeats(i) == s[i].course # None /\ \E j \in 1..(i - 1) : s[j].course = s[i].course
           P == {i \in DOMAIN s : ~ Repeats(i)}
<1>1. Audit!Distinct(s) = Audit!Only(s, P)
  BY Zenon DEF Audit!Distinct
<1>2. P \subseteq DOMAIN s
  OBVIOUS
<1> HIDE DEF P
<1> QED
  BY <1>1, <1>2, OnlyMembers, PickedIs DEF Listed

LEMMA FirstOfAre ==
  ASSUME NEW s, Listed(s), NEW n
  PROVE LET r == Audit!FirstOf(n, s) IN Listed(r) /\ \A k \in DOMAIN r : \E i \in DOMAIN s : r[k] = s[i]
<1> DEFINE P == {i \in DOMAIN s : i <= n}
<1>1. Audit!FirstOf(n, s) = Audit!Only(s, P) /\ P \subseteq DOMAIN s
  BY Zenon DEF Audit!FirstOf
<1> HIDE DEF P
<1> QED
  BY <1>1, OnlyMembers, PickedIs DEF Listed

\* The statuses of a requirement, and what the rules for them give
AuditStatuses == {"SATISFIED", "WAIVED", "IN_PROGRESS", "PLANNED", "PARTIALLY_SATISFIED",
                  "NOT_SATISFIED", "MANUAL_REVIEW_REQUIRED", "NOT_APPLICABLE"}

LEMMA StatusesAre == DOMAIN Audit!StatusOrder = 1..8 /\ Audit!ToSet(Audit!StatusOrder) = AuditStatuses
<1>1. DOMAIN Audit!StatusOrder = 1..8
  BY DEF Audit!StatusOrder
<1>2. 1..8 = {1, 2, 3, 4, 5, 6, 7, 8}
  OBVIOUS
<1>3. {Audit!StatusOrder[i] : i \in {1, 2, 3, 4, 5, 6, 7, 8}} = AuditStatuses
  BY DEF Audit!StatusOrder, AuditStatuses
<1> QED
  BY <1>1, <1>2, <1>3 DEF Audit!ToSet

LEMMA StatusIs ==
  /\ \A required, completed, in_progress, planning :
       Audit!reach_status(required, completed, in_progress, planning) \in AuditStatuses
  /\ \A c : Typed(c) => Audit!leaf_status(c) \in AuditStatuses
  /\ \A statuses : Audit!all_of_status(statuses) \in AuditStatuses
<1>1. ASSUME NEW required, NEW completed, NEW in_progress, NEW planning
      PROVE Audit!reach_status(required, completed, in_progress, planning) \in AuditStatuses
  BY DEF Audit!reach_status, AuditStatuses
<1>2. ASSUME NEW c, Typed(c) PROVE Audit!leaf_status(c) \in AuditStatuses
  <2>1. c.state \in {"COMPLETED", "IN_PROGRESS", "PLANNED"}
    BY <1>2 DEF Typed
  <2> QED
    BY <2>1 DEF Audit!leaf_status, AuditStatuses
<1>3. ASSUME NEW statuses PROVE Audit!all_of_status(statuses) \in AuditStatuses
  BY DEF Audit!all_of_status, AuditStatuses
<1> QED
  BY <1>1, <1>2, <1>3

LEMMA AnyStatusIs == \A statuses : Audit!any_of_status(statuses) \in AuditStatuses
<1> SUFFICES ASSUME NEW statuses PROVE Audit!any_of_status(statuses) \in AuditStatuses
  OBVIOUS
<1> DEFINE order == <<"IN_PROGRESS", "PLANNED", "PARTIALLY_SATISFIED", "MANUAL_REVIEW_REQUIRED">>
           found == {i \in DOMAIN order : order[i] \in statuses}
           least == CHOOSE i \in found : \A j \in found : i <= j
<1>1. found \in SUBSET Nat /\ found \subseteq 1..4
  OBVIOUS
<1>2. found # {} => least \in found
  <2> HIDE DEF found
  <2>1. found # {} => \E i \in found : \A j \in found : i <= j
    BY <1>1, SmallestTerm
  <2> QED
    BY <2>1
<1>3. \A i \in 1..4 : order[i] \in AuditStatuses
  <2>1. 1..4 = {1, 2, 3, 4}
    OBVIOUS
  <2> QED
    BY <2>1 DEF AuditStatuses
<1>4. Audit!any_of_status(statuses) \in {"SATISFIED", "NOT_SATISFIED"} \/ (found # {} /\ Audit!any_of_status(statuses) = order[least])
  BY Zenon DEF Audit!any_of_status
<1>5. "SATISFIED" \in AuditStatuses /\ "NOT_SATISFIED" \in AuditStatuses
  BY DEF AuditStatuses
<1> HIDE DEF order, found, least
<1> QED
  BY <1>1, <1>2, <1>3, <1>4, <1>5

LEMMA RankIs == \A status \in AuditStatuses : Audit!status_rank(status) \in Nat
<1> SUFFICES ASSUME NEW status \in AuditStatuses PROVE Audit!status_rank(status) \in Nat
  OBVIOUS
<1>1. \E i \in 1..8 : Audit!StatusOrder[i] = status
  BY StatusesAre DEF Audit!ToSet
<1>2. Audit!status_rank(status) \in 1..8
  BY <1>1, StatusesAre, Zenon DEF Audit!status_rank
<1> QED
  BY <1>2

LEMMA AuditGreatest ==
  ASSUME NEW n \in Nat, NEW s, s \subseteq 1..n, s # {}
  PROVE Audit!Max(s) \in s
<1>1. Greatest(s) \in s /\ \A k \in s : Greatest(s) >= k
  BY GreatestMember
<1> QED
  BY <1>1, Zenon DEF Audit!Max

\* The credits of listed candidates in some state are a natural number.
LEMMA CreditsAre ==
  ASSUME NEW all, Listed(all), NEW state PROVE Audit!Credits(all, state) \in Nat
<1> DEFINE U == 1..Len(all)
           More(t, i) == IF all[i].state = state THEN t + all[i].credits ELSE t
           pick == [s \in SUBSET U |-> Audit!Max(s)]
           step == [t \in Nat |-> [i \in U |-> More(t, i)]]
           Body(g) == [s \in SUBSET U |-> IF s = {} THEN 0 ELSE More(g[s \ {Audit!Max(s)}], Audit!Max(s))]
           fold == CHOOSE g : g = Body(g)
<1>1. DOMAIN all = U /\ Len(all) \in Nat /\ \A i \in U : all[i].credits \in Nat
  BY DEF Listed, Typed, Audit!IsSequence
<1>2. IsFiniteSet(U)
  BY <1>1, FS_Interval
<1>3. \A s \in SUBSET U : s # {} => pick[s] \in s /\ pick[s] = Audit!Max(s)
  BY <1>1, AuditGreatest
<1>4. \A t \in Nat, i \in U : More(t, i) \in Nat
  BY <1>1
<1> HIDE DEF More
<1>5. \E g : g = Body(g)
  <2>0. \A t \in Nat, i \in U : step[t][i] \in Nat /\ step[t][i] = More(t, i)
    BY <1>4
  <2> DEFINE zero == 0
  <2>3. zero \in Nat /\ (\A s \in SUBSET U : s # {} => pick[s] \in s) /\ (\A t \in Nat, i \in U : step[t][i] \in Nat)
    BY <1>3, <2>0
  <2> HIDE DEF step, pick, U, zero
  <2>1. PICK g \in [SUBSET U -> Nat] : \A s \in SUBSET U : StepsTo(g, U, pick, zero, step, s)
    BY <1>2, <2>3, FoldExists
  <2>2. ASSUME NEW s \in SUBSET U PROVE g[s] = Body(g)[s]
    <3>1. CASE s = {}
      BY <2>1, <3>1 DEF StepsTo, zero
    <3>2. CASE s # {}
      <4>1. g[s] = step[g[s \ {pick[s]}]][pick[s]] /\ s \ {pick[s]} \in SUBSET U /\ pick[s] \in U
        BY <1>3, <2>1, <3>2 DEF StepsTo
      <4>2. g[s \ {pick[s]}] \in Nat
        BY <4>1
      <4> QED
        BY <1>3, <2>0, <3>2, <4>1, <4>2
    <3> QED
      BY <3>1, <3>2
  <2> QED
    BY <2>2
<1>6. fold = Body(fold)
  BY <1>5, Zenon
<1>7. Audit!Credits(all, state) = fold[U]
  <2> HIDE DEF U
  <2> QED
    BY <1>1, Zenon DEF Audit!Credits, Audit!FoldLeft, Audit!MapThenFoldSet, More
<1>8. fold[{}] = 0 /\ \A s \in SUBSET U : s # {} => fold[s] = More(fold[s \ {pick[s]}], pick[s])
  <2> HIDE DEF fold, U
  <2> QED
    BY <1>3, <1>6
<1>9. ASSUME NEW s \in SUBSET U, s # {}, fold[s \ {pick[s]}] \in Nat PROVE fold[s] \in Nat
  <2> HIDE DEF fold, pick
  <2>1. pick[s] \in U
    BY <1>3, <1>9
  <2> QED
    BY <1>4, <1>8, <1>9, <2>1
<1>10. fold[U] \in Nat
  <2> HIDE DEF fold, pick, U
  <2>1. fold[{}] \in Nat /\ \A s \in SUBSET U : s # {} => pick[s] \in s
    BY <1>3, <1>8
  <2> QED
    BY <1>2, <1>9, <2>1, FoldStays
<1> QED
  BY <1>7, <1>10, Zenon

\* So is what the children of a requirement add up to.
LEMMA ChildCreditsAre ==
  ASSUME NEW n \in Nat, NEW of, DOMAIN of = 1..n, \A i \in 1..n : of[i].credits \in Nat
  PROVE Audit!FoldLeft(LAMBDA t, r : t + r.credits, 0, of) \in Nat
<1> DEFINE U == 1..n
           More(t, i) == t + of[i].credits
           pick == [s \in SUBSET U |-> Audit!Max(s)]
           step == [t \in Nat |-> [i \in U |-> More(t, i)]]
           Body(g) == [s \in SUBSET U |-> IF s = {} THEN 0 ELSE More(g[s \ {Audit!Max(s)}], Audit!Max(s))]
           fold == CHOOSE g : g = Body(g)
<1>2. IsFiniteSet(U)
  BY FS_Interval
<1>3. \A s \in SUBSET U : s # {} => pick[s] \in s /\ pick[s] = Audit!Max(s)
  BY AuditGreatest
<1>4. \A t \in Nat, i \in U : More(t, i) \in Nat
  OBVIOUS
<1> HIDE DEF More
<1>5. \E g : g = Body(g)
  <2>0. \A t \in Nat, i \in U : step[t][i] \in Nat /\ step[t][i] = More(t, i)
    BY <1>4
  <2> DEFINE zero == 0
  <2>3. zero \in Nat /\ (\A s \in SUBSET U : s # {} => pick[s] \in s) /\ (\A t \in Nat, i \in U : step[t][i] \in Nat)
    BY <1>3, <2>0
  <2> HIDE DEF step, pick, U, zero
  <2>1. PICK g \in [SUBSET U -> Nat] : \A s \in SUBSET U : StepsTo(g, U, pick, zero, step, s)
    BY <1>2, <2>3, FoldExists
  <2>2. ASSUME NEW s \in SUBSET U PROVE g[s] = Body(g)[s]
    <3>1. CASE s = {}
      BY <2>1, <3>1 DEF StepsTo, zero
    <3>2. CASE s # {}
      <4>1. g[s] = step[g[s \ {pick[s]}]][pick[s]] /\ s \ {pick[s]} \in SUBSET U /\ pick[s] \in U
        BY <1>3, <2>1, <3>2 DEF StepsTo
      <4>2. g[s \ {pick[s]}] \in Nat
        BY <4>1
      <4> QED
        BY <1>3, <2>0, <3>2, <4>1, <4>2
    <3> QED
      BY <3>1, <3>2
  <2> QED
    BY <2>2
<1>6. fold = Body(fold)
  BY <1>5, Zenon
<1>7. Audit!FoldLeft(LAMBDA t, r : t + r.credits, 0, of) = fold[U]
  <2> HIDE DEF U
  <2> QED
    BY Zenon DEF Audit!FoldLeft, Audit!MapThenFoldSet, More, U
<1>8. fold[{}] = 0 /\ \A s \in SUBSET U : s # {} => fold[s] = More(fold[s \ {pick[s]}], pick[s])
  <2> HIDE DEF fold, U
  <2> QED
    BY <1>3, <1>6
<1>9. ASSUME NEW s \in SUBSET U, s # {}, fold[s \ {pick[s]}] \in Nat PROVE fold[s] \in Nat
  <2> HIDE DEF fold, pick
  <2>1. pick[s] \in U
    BY <1>3, <1>9
  <2> QED
    BY <1>4, <1>8, <1>9, <2>1
<1>10. fold[U] \in Nat
  <2> HIDE DEF fold, pick, U
  <2>1. fold[{}] \in Nat /\ \A s \in SUBSET U : s # {} => pick[s] \in s
    BY <1>3, <1>8
  <2> QED
    BY <1>2, <1>9, <2>1, FoldStays
<1> QED
  BY <1>7, <1>10, Zenon

\* What the evaluation of a requirement leaves, if what is used goes to others only as shared
ExclusiveOutcome(node, o) ==
  /\ used \subseteq o.taken
  /\ node.type \in Audit!Reserving => \A y \in Audit!ToSet(o.applications) :
       /\ y.candidate.source \in used => node.overlap /\ y.shared
       /\ ~ node.overlap => y.candidate.source \in o.taken
\* And the tables accept it
OutcomeSound(node, o) == ExclusiveOutcome(node, o) /\ Audit!RequirementEvaluation(o)

\* Candidates that are available may be applied.
LEMMA AppliedSound ==
  ASSUME NEW node, node.overlap \in BOOLEAN, NEW status \in AuditStatuses, NEW credits \in Nat, NEW selected, Listed(selected),
         \A i \in DOMAIN selected : Audit!is_available(selected[i].source, node.overlap, used)
  PROVE OutcomeSound(node, Audit!Outcome(status, credits, Audit!Apply(selected, node.overlap, used)))
<1> DEFINE After(n) == Audit!reserve({selected[j].source : j \in 1..n}, node.overlap, used)
           all == [i \in DOMAIN selected |-> [candidate |-> selected[i], shared |-> selected[i].source \in After(i - 1)]]
           o == Audit!Outcome(status, credits, Audit!Apply(selected, node.overlap, used))
<1>1. o.taken = After(Len(selected)) /\ o.applications = all /\ o.status = status /\ o.credits = credits
  <2>1. Audit!Apply(selected, node.overlap, used) = [taken |-> After(Len(selected)), applications |-> all]
    BY Zenon DEF Audit!Apply
  <2> HIDE DEF After, all
  <2> QED
    BY <2>1 DEF Audit!Outcome
<1>2. \A n : used \subseteq After(n)
  BY DEF Audit!reserve
<1>3. ASSUME NEW y \in Audit!ToSet(all)
      PROVE /\ y.candidate.source \in used => node.overlap /\ y.shared
            /\ ~ node.overlap => y.candidate.source \in After(Len(selected))
            /\ Audit!AuditCourseApplication(y)
  <2>1. PICK i \in DOMAIN selected : y = all[i]
    <3> HIDE DEF After
    <3> QED
      BY <1>3 DEF Audit!ToSet
  <2>2. y.candidate = selected[i] /\ y.shared = (selected[i].source \in After(i - 1))
    <3> HIDE DEF After
    <3> QED
      BY <2>1
  <2>3. y.candidate.source \in used => node.overlap
    BY <2>2 DEF Audit!is_available
  <2>4. ~ node.overlap => y.candidate.source \in After(Len(selected))
    <3>1. i \in 1..Len(selected)
      BY DEF Listed, Audit!IsSequence
    <3>2. selected[i].source \in {selected[j].source : j \in 1..Len(selected)}
      BY <3>1
    <3> QED
      BY <2>2, <3>2 DEF Audit!reserve
  <2>5. Audit!AuditCourseApplication(y)
    <3>1. Typed(y.candidate)
      BY <2>2 DEF Listed
    <3>2. y.shared \in BOOLEAN
      <4> HIDE DEF After
      <4> QED
        BY <2>2
    <3> QED
      BY <3>1, <3>2 DEF Typed, Audit!AuditCourseApplication
  <2> HIDE DEF After
  <2> QED
    BY <1>2, <2>2, <2>3, <2>4, <2>5
<1> HIDE DEF After, all, o
<1>4. ExclusiveOutcome(node, o)
  BY <1>1, <1>2, <1>3 DEF ExclusiveOutcome
<1>5. Audit!RequirementEvaluation(o)
  BY <1>1, <1>3, StatusesAre DEF Audit!RequirementEvaluation
<1> QED
  BY <1>4, <1>5 DEF o, OutcomeSound

LEMMA UnusedSound ==
  ASSUME NEW node, NEW status \in AuditStatuses, NEW credits \in Nat
  PROVE OutcomeSound(node, Audit!Outcome(status, credits, Audit!Unused))
<1> DEFINE o == Audit!Outcome(status, credits, Audit!Unused)
<1>1. o.taken = used /\ o.applications = <<>> /\ o.status = status /\ o.credits = credits
  BY DEF Audit!Outcome, Audit!Unused
<1>2. Audit!ToSet(<<>>) = {}
  BY DEF Audit!ToSet
<1> HIDE DEF o
<1>3. ExclusiveOutcome(node, o) /\ Audit!RequirementEvaluation(o)
  BY <1>1, <1>2, StatusesAre DEF ExclusiveOutcome, Audit!RequirementEvaluation
<1> QED
  BY <1>3 DEF OutcomeSound, o

LEMMA ManualReviewSound == \A node : OutcomeSound(node, Audit!manual_review)
<1>1. "MANUAL_REVIEW_REQUIRED" \in AuditStatuses /\ 0 \in Nat
  BY DEF AuditStatuses
<1> QED
  BY <1>1, UnusedSound DEF Audit!manual_review

\* A requirement of the version that is audited
AuditedNode(node) == node \in Audit!Nodes /\ audited \in AuditRequests

LEMMA NodeIs ==
  ASSUME NEW node, AuditedNode(node)
  PROVE /\ audited \in AuditRequests /\ node.overlap \in BOOLEAN /\ node.type \in Audit!RequirementType
        /\ Audit!IsSequence(node.options) /\ DOMAIN node.options = 1..Len(node.options) /\ Len(node.options) \in Nat
<1>1. node \in Audit!ToSet(audited.nodes) /\ audited \in AuditRequests
  BY DEF AuditedNode, Audit!Nodes
<1>2. node.overlap \in BOOLEAN /\ node.type \in Audit!RequirementType /\ Audit!IsSequence(node.options)
  BY <1>1, AuditConstants
<1> QED
  BY <1>1, <1>2 DEF Audit!IsSequence

LEMMA RequiredCourseSound ==
  ASSUME NEW node, AuditedNode(node) PROVE OutcomeSound(node, Audit!required_course(node))
<1> DEFINE waivers == Audit!first_available(Audit!Sorted(Audit!waiver_candidates(node)), node.overlap, used)
           offers == [i \in DOMAIN node.options |->
                        Audit!first_available(Audit!course_candidates(node, node.options[i]), node.overlap, used)]
           offering == {i \in DOMAIN offers : offers[i] # <<>>}
           Using(c) == Audit!Outcome(Audit!leaf_status(c), Audit!Credits(<<c>>, "COMPLETED"),
                                     Audit!Apply(<<c>>, node.overlap, used))
           missing == Audit!Outcome("NOT_SATISFIED", 0, Audit!Unused)
           chosen == offers[Audit!Min(offering)][1]
<1>1. /\ Listed(waivers)
      /\ \A k \in DOMAIN waivers : Audit!is_available(waivers[k].source, node.overlap, used)
  BY NodeIs, WaiversAre, SortedIs, AvailableAre
<1>2. ASSUME NEW i \in DOMAIN node.options
      PROVE /\ Listed(offers[i])
            /\ \A k \in DOMAIN offers[i] : Audit!is_available(offers[i][k].source, node.overlap, used)
  BY NodeIs, CandidatesAre, AvailableAre
<1>3. ASSUME NEW c, Typed(c), Audit!is_available(c.source, node.overlap, used) PROVE OutcomeSound(node, Using(c))
  <2> DEFINE only == <<c>>
  <2>1. only \in Seq({c}) /\ \A i \in DOMAIN only : only[i] = c
    OBVIOUS
  <2> HIDE DEF only
  <2>2. Listed(only)
    <3>1. Audit!IsSequence(only)
      BY <2>1, SeqIs
    <3> QED
      BY <1>3, <2>1, <3>1 DEF Listed
  <2>3. \A i \in DOMAIN only : Audit!is_available(only[i].source, node.overlap, used)
    BY <1>3, <2>1
  <2>4. node.overlap \in BOOLEAN
    BY NodeIs
  <2>5. \A status \in AuditStatuses, credits \in Nat :
          OutcomeSound(node, Audit!Outcome(status, credits, Audit!Apply(only, node.overlap, used)))
    BY <2>2, <2>3, <2>4, AppliedSound
  <2>6. Audit!leaf_status(c) \in AuditStatuses /\ Audit!Credits(only, "COMPLETED") \in Nat
    BY <1>3, <2>2, StatusIs, CreditsAre
  <2> QED
    BY <2>5, <2>6, Zenon DEF only
<1>4. ASSUME NEW s, Listed(s), s # <<>> PROVE 1 \in DOMAIN s /\ Typed(s[1])
  BY <1>4 DEF Listed, Audit!IsSequence
<1>5. CASE waivers # <<>>
  <2>1. OutcomeSound(node, Using(waivers[1]))
    <3> HIDE DEF waivers, Using
    <3> QED
      BY <1>1, <1>3, <1>4, <1>5
  <2>2. Audit!required_course(node) = Using(waivers[1])
    BY <1>5, Zenon DEF Audit!required_course
  <2> QED
    BY <2>1, <2>2, Zenon
<1>6. CASE waivers = <<>> /\ offering # {}
  <2>1. Audit!Min(offering) \in offering
    <3>1. offering \in SUBSET Nat
      BY NodeIs
    <3> HIDE DEF offering
    <3>2. \E i \in offering : \A j \in offering : i <= j
      BY <1>6, <3>1, SmallestTerm
    <3> QED
      BY <3>2, Zenon DEF Audit!Min
  <2>2. OutcomeSound(node, Using(chosen))
    <3>1. Audit!Min(offering) \in DOMAIN node.options /\ offers[Audit!Min(offering)] # <<>>
      BY <2>1
    <3> HIDE DEF offers, offering, Using
    <3> QED
      BY <1>2, <1>3, <1>4, <3>1
  <2>3. Audit!required_course(node) = Using(chosen)
    BY <1>6, Zenon DEF Audit!required_course
  <2> QED
    BY <2>2, <2>3, Zenon
<1>7. CASE waivers = <<>> /\ offering = {}
  <2>1. Audit!required_course(node) \in {Audit!manual_review, missing}
    BY <1>7, Zenon DEF Audit!required_course
  <2>2. "NOT_SATISFIED" \in AuditStatuses /\ 0 \in Nat
    BY DEF AuditStatuses
  <2>3. OutcomeSound(node, missing)
    BY <2>2, UnusedSound
  <2> HIDE DEF missing
  <2> QED
    BY <2>1, <2>3, ManualReviewSound
<1> QED
  BY <1>5, <1>6, <1>7

LEMMA ChooseNSound ==
  ASSUME NEW node, AuditedNode(node) PROVE OutcomeSound(node, Audit!choose_n(node))
<1> DEFINE parts == [i \in DOMAIN node.options |-> Audit!course_candidates(node, node.options[i])]
           offered == Audit!waiver_candidates(node) \o Audit!FlattenSeq(parts)
           open == Audit!first_available(Audit!Sorted(offered), node.overlap, used)
           selected == Audit!FirstOf(node.need, Audit!Distinct(open))
<1>1. Listed(offered)
  <2>1. \A i \in DOMAIN node.options : Listed(Audit!course_candidates(node, node.options[i]))
    BY NodeIs, CandidatesAre
  <2>2. Listed(Audit!FlattenSeq(parts))
    BY <2>1, NodeIs, AllListed
  <2> QED
    BY <2>2, NodeIs, WaiversAre, ListsAre
<1> HIDE DEF offered
<1>2. Listed(open) /\ \A k \in DOMAIN open : Audit!is_available(open[k].source, node.overlap, used)
  BY <1>1, SortedIs, AvailableAre
<1> HIDE DEF open
<1>3. Listed(selected) /\ \A k \in DOMAIN selected : Audit!is_available(selected[k].source, node.overlap, used)
  BY <1>2, DistinctAre, FirstOfAre
<1> HIDE DEF selected
<1>4. OutcomeSound(node, Audit!Outcome(Audit!CountStatus(node.need, selected), Audit!Credits(selected, "COMPLETED"),
                                       Audit!Apply(selected, node.overlap, used)))
  <2>1. Audit!CountStatus(node.need, selected) \in AuditStatuses
    BY StatusIs DEF Audit!CountStatus
  <2> QED
    BY <1>3, <2>1, NodeIs, CreditsAre, AppliedSound
<1>5. Audit!choose_n(node) = Audit!Outcome(Audit!CountStatus(node.need, selected), Audit!Credits(selected, "COMPLETED"),
                                           Audit!Apply(selected, node.overlap, used))
  BY Zenon DEF Audit!choose_n, selected, open, offered
<1> QED
  BY <1>4, <1>5

LEMMA MinimumCoursesSound ==
  ASSUME NEW node, AuditedNode(node) PROVE OutcomeSound(node, Audit!minimum_courses(node))
<1> DEFINE open == Audit!first_available(Audit!all_course_candidates(node.minimum), node.overlap, used)
           distinct == Audit!Distinct(open)
           selected == Audit!FirstOf(node.need, distinct)
           o == Audit!Outcome(Audit!CountStatus(node.need, distinct), Audit!Credits(distinct, "COMPLETED"),
                              Audit!Apply(selected, node.overlap, used))
<1>1. Listed(open) /\ \A k \in DOMAIN open : Audit!is_available(open[k].source, node.overlap, used)
  BY NodeIs, CandidatesAre, AvailableAre
<1>2. Audit!minimum_courses(node) = o
  BY Zenon DEF Audit!minimum_courses
<1> HIDE DEF open
<1>3. /\ Listed(distinct) /\ Listed(selected)
      /\ \A k \in DOMAIN selected : Audit!is_available(selected[k].source, node.overlap, used)
  BY <1>1, DistinctAre, FirstOfAre
<1> HIDE DEF selected, distinct
<1>4. OutcomeSound(node, o)
  <2>1. Audit!CountStatus(node.need, distinct) \in AuditStatuses
    BY StatusIs DEF Audit!CountStatus
  <2> QED
    BY <1>3, <2>1, NodeIs, CreditsAre, AppliedSound
<1> QED
  BY <1>2, <1>4, Zenon

LEMMA TotalCreditsSound ==
  ASSUME NEW node, AuditedNode(node) PROVE OutcomeSound(node, Audit!total_credits(node))
<1> DEFINE all == Audit!Distinct(Audit!all_course_candidates("none"))
           required == IF node.need = None \/ node.need = 0 THEN audited.total ELSE node.need
           o == Audit!Outcome(Audit!CreditStatus(required, all), Audit!Credits(all, "COMPLETED"), Audit!Unused)
<1>1. Listed(all)
  BY NodeIs, CandidatesAre, DistinctAre
<1>2. Audit!total_credits(node) = o
  BY Zenon DEF Audit!total_credits
<1> HIDE DEF all, required
<1>3. OutcomeSound(node, o)
  <2>1. Audit!CreditStatus(required, all) \in AuditStatuses
    BY StatusIs DEF Audit!CreditStatus
  <2> QED
    BY <1>1, <2>1, CreditsAre, UnusedSound
<1> QED
  BY <1>2, <1>3, Zenon

\* A pool that reserves draws on available candidates; another one uses nothing up.
LEMMA CreditPoolSound ==
  ASSUME NEW node, AuditedNode(node), NEW required, NEW reserves \in BOOLEAN, NEW pool, Listed(pool),
         node.type \in Audit!Reserving => reserves
  PROVE OutcomeSound(node, Audit!credit_pool(node, required, reserves, pool))
<1> DEFINE candidates == Audit!Distinct(pool)
           open == IF reserves THEN Audit!first_available(candidates, node.overlap, used) ELSE candidates
           P == {i \in DOMAIN open : Audit!Credits(SubSeq(open, 1, i - 1), "COMPLETED") < required}
           selected == Audit!Only(open, P)
           unshared == [i \in DOMAIN selected |-> [candidate |-> selected[i], shared |-> FALSE]]
           applied == IF reserves THEN Audit!Apply(selected, node.overlap, used)
                      ELSE [taken |-> used, applications |-> unshared]
           status == Audit!CreditStatus(required, candidates)
           credits == Audit!Credits(candidates, "COMPLETED")
           o == Audit!Outcome(status, credits, applied)
<1>1. Audit!credit_pool(node, required, reserves, pool) = o
  BY Zenon DEF Audit!credit_pool
<1>2. Listed(candidates) /\ status \in AuditStatuses /\ credits \in Nat
  <2>1. Listed(candidates)
    BY DistinctAre
  <2> HIDE DEF candidates
  <2> QED
    BY <2>1, StatusIs, CreditsAre DEF Audit!CreditStatus
<1> HIDE DEF status, credits
<1>3. P \subseteq DOMAIN open
  OBVIOUS
<1>4. CASE reserves
  <2>1. Listed(open) /\ \A k \in DOMAIN open : Audit!is_available(open[k].source, node.overlap, used)
    <3> HIDE DEF candidates
    <3> QED
      BY <1>2, <1>4, AvailableAre
  <2> HIDE DEF P, open
  <2>2. Listed(selected) /\ \A k \in DOMAIN selected : \E i \in P : selected[k] = open[i]
    BY <1>3, <2>1, OnlyMembers, PickedIs DEF Listed
  <2>3. \A k \in DOMAIN selected : Audit!is_available(selected[k].source, node.overlap, used)
    <3> HIDE DEF selected
    <3> QED
      BY <1>3, <2>1, <2>2
  <2> HIDE DEF selected
  <2>4. OutcomeSound(node, Audit!Outcome(status, credits, Audit!Apply(selected, node.overlap, used)))
    BY <1>2, <2>2, <2>3, NodeIs, AppliedSound
  <2>5. applied = Audit!Apply(selected, node.overlap, used)
    BY <1>4, Zenon
  <2> HIDE DEF applied
  <2> QED
    BY <1>1, <2>4, <2>5
<1>5. CASE ~ reserves
  <2>1. Listed(selected)
    <3>1. open = candidates
      BY <1>5
    <3> HIDE DEF P, open, candidates
    <3> QED
      BY <1>2, <1>3, <3>1, PickedIs
  <2> HIDE DEF selected
  <2>2. o.taken = used /\ o.applications = unshared /\ o.status = status /\ o.credits = credits
    <3> HIDE DEF unshared
    <3> QED
      BY <1>5 DEF Audit!Outcome
  <2>3. ASSUME NEW a \in Audit!ToSet(unshared) PROVE Audit!AuditCourseApplication(a)
    <3>1. PICK i \in DOMAIN selected : a = unshared[i]
      BY <2>3 DEF Audit!ToSet
    <3>2. a.candidate = selected[i] /\ a.shared = FALSE
      BY <3>1
    <3> QED
      BY <2>1, <3>2 DEF Listed, Typed, Audit!AuditCourseApplication
  <2> HIDE DEF o, unshared
  <2>4. ExclusiveOutcome(node, o)
    BY <1>5, <2>2 DEF ExclusiveOutcome
  <2>5. Audit!RequirementEvaluation(o)
    BY <1>2, <2>2, <2>3, StatusesAre DEF Audit!RequirementEvaluation
  <2> QED
    BY <1>1, <2>4, <2>5, Zenon DEF OutcomeSound
<1> QED
  BY <1>4, <1>5

LEMMA PoolsAre ==
  ASSUME NEW node, AuditedNode(node)
  PROVE Listed(Audit!at_level(node)) /\ Listed(Audit!resident(node))
<1> DEFINE all == Audit!all_course_candidates(node.minimum)
           P == {i \in DOMAIN all : node.level = None \/ Audit!LevelOf(all[i].course) >= node.level}
           R == {i \in DOMAIN all : all[i].source[1] = "attempt"}
<1>1. Audit!at_level(node) = Audit!Only(all, P) /\ P \subseteq DOMAIN all
  BY Zenon DEF Audit!at_level
<1>2. Audit!resident(node) = Audit!Only(all, R) /\ R \subseteq DOMAIN all
  BY Zenon DEF Audit!resident
<1>3. Listed(all)
  BY NodeIs, CandidatesAre
<1> HIDE DEF all, P, R
<1> QED
  BY <1>1, <1>2, <1>3, PickedIs

\* The results so far are of children that a requirement combines, and the tables accept them.
ResultsTyped == \A i \in DOMAIN results : Audit!RequirementEvaluation(results[i].outcome)
Composite(node) == node.type \in {"GROUP", "ALL_OF", "ANY_OF"}

\* No child is left to evaluate only when each has a result.
LEMMA ChildrenDone ==
  ASSUME NEW node, AuditedNode(node), ResultsTyped, Composite(node), Audit!open_children(node) = <<>>
  PROVE LET kids == Audit!children_of(node.id) IN
        /\ DOMAIN kids = 1..Len(kids) /\ Len(kids) \in Nat
        /\ \A i \in DOMAIN kids : Audit!RequirementEvaluation(Audit!ResultOf(kids[i].id))
<1> DEFINE kids == Audit!children_of(node.id)
           P == {i \in DOMAIN kids : kids[i].id \notin Audit!Evaluated}
           ids == {i \in DOMAIN audited.nodes : audited.nodes[i].parent = node.id}
           At(k) == CHOOSE i \in P : Audit!Cardinality({j \in P : j <= i}) = k
<1>1. DOMAIN kids = 1..Len(kids) /\ Len(kids) \in Nat
  <2>1. kids = Audit!Only(audited.nodes, ids) /\ ids \subseteq DOMAIN audited.nodes
    BY Zenon DEF Audit!children_of
  <2> HIDE DEF ids, kids
  <2> QED
    BY <2>1, AuditConstants, OnlyMembers DEF AuditedNode
<1> HIDE DEF kids
<1>2. P = {}
  <2>1. Audit!open_children(node) = Audit!Only(kids, P)
    BY Zenon DEF Audit!open_children, Composite, kids
  <2>2. Audit!Only(kids, P) = [k \in 1..Audit!Cardinality(P) |-> kids[At(k)]]
    BY Zenon DEF Audit!Only
  <2>3. DOMAIN Audit!Only(kids, P) = 1..Audit!Cardinality(P) /\ DOMAIN Audit!Only(kids, P) = {}
    BY <2>1, <2>2
  <2>4. IsFiniteSet(P) /\ Audit!Cardinality(P) = Cardinality(P)
    <3>1. P \subseteq 1..Len(kids) /\ IsFiniteSet(1..Len(kids))
      BY <1>1, FS_Interval
    <3> QED
      BY <3>1, AuditCounts, FS_Subset
  <2>5. Cardinality(P) \in Nat /\ 1 \notin 1..Cardinality(P)
    <3> HIDE DEF P
    <3> QED
      BY <2>3, <2>4, FS_CardinalityType
  <2> HIDE DEF P
  <2> QED
    BY <2>4, <2>5, FS_EmptySet
<1>3. ASSUME NEW i \in DOMAIN kids PROVE Audit!RequirementEvaluation(Audit!ResultOf(kids[i].id))
  <2> DEFINE id == kids[i].id
             first == CHOOSE j \in DOMAIN results : results[j].node = id
  <2>1. \E j \in DOMAIN results : results[j].node = id
    BY <1>2 DEF Audit!Evaluated
  <2>2. first \in DOMAIN results
    BY <2>1
  <2>3. Audit!ResultOf(id) = results[first].outcome
    BY Zenon DEF Audit!ResultOf
  <2> QED
    BY <2>2, <2>3 DEF ResultsTyped
<1> QED
  BY <1>1, <1>3 DEF kids

LEMMA CombinedSound ==
  ASSUME NEW node, AuditedNode(node), ResultsTyped, Composite(node), Audit!open_children(node) = <<>>, NEW all \in BOOLEAN
  PROVE OutcomeSound(node, Audit!combined(node, all))
<1> DEFINE kids == Audit!children_of(node.id)
           of == [i \in DOMAIN kids |-> Audit!ResultOf(kids[i].id)]
           statuses == {of[i].status : i \in DOMAIN of}
           foremost == CHOOSE i \in DOMAIN of : \A j \in DOMAIN of :
                     LET k == Audit!status_rank(of[i].status)  l == Audit!status_rank(of[j].status)
                     IN k < l \/ (k = l /\ i <= j)
           sum == Audit!FoldLeft(LAMBDA t, r : t + r.credits, 0, of)
           every == Audit!Outcome(Audit!all_of_status(statuses), sum, Audit!Unused)
           one == Audit!Outcome(Audit!any_of_status(statuses), of[foremost].credits, Audit!Unused)
<1>1. Audit!combined(node, all) \in {Audit!manual_review, every} \/ (kids # <<>> /\ Audit!combined(node, all) = one)
  BY Zenon DEF Audit!combined
<1>2. /\ DOMAIN kids = 1..Len(kids) /\ Len(kids) \in Nat
      /\ \A i \in DOMAIN kids : Audit!RequirementEvaluation(Audit!ResultOf(kids[i].id))
  BY ChildrenDone
<1>3. DOMAIN of = 1..Len(kids) /\ \A i \in 1..Len(kids) : of[i].status \in AuditStatuses /\ of[i].credits \in Nat
  <2> HIDE DEF kids
  <2> QED
    BY <1>2, StatusesAre DEF Audit!RequirementEvaluation
<1>4. kids # <<>> => Len(kids) # 0
  <2>1. ASSUME Len(kids) = 0 PROVE kids = <<>>
    <3> DEFINE ids == {i \in DOMAIN audited.nodes : audited.nodes[i].parent = node.id}
    <3>1. kids = Audit!Only(audited.nodes, ids) /\ ids \subseteq DOMAIN audited.nodes
      BY Zenon DEF Audit!children_of
    <3> HIDE DEF ids, kids
    <3>2. Audit!IsSequence(kids)
      BY <3>1, AuditConstants, OnlyMembers DEF AuditedNode
    <3> QED
      BY <2>1, <3>2 DEF Audit!IsSequence
  <2> QED
    BY <2>1
<1> DEFINE n == Len(kids)
<1>5. n \in Nat /\ DOMAIN of = 1..n /\ \A i \in 1..n : of[i].credits \in Nat
  BY <1>2, <1>3
<1> HIDE DEF of, n
<1>6. sum \in Nat
  BY <1>5, ChildCreditsAre, Zenon
<1>7. kids # <<>> => foremost \in 1..n
  <2> SUFFICES ASSUME kids # <<>> PROVE foremost \in 1..n
    OBVIOUS
  <2> DEFINE rank == [i \in 1..n |-> Audit!status_rank(of[i].status)]
             ranks == {rank[i] : i \in 1..n}
  <2>1. n # 0 /\ \A i \in 1..n : rank[i] \in Nat /\ rank[i] = Audit!status_rank(of[i].status)
    BY <1>3, <1>4, RankIs DEF n
  <2> HIDE DEF rank
  <2>2. PICK k \in ranks : \A l \in ranks : k <= l
    <3>1. 1 \in 1..n
      BY <1>5, <2>1
    <3>2. ranks \in SUBSET Nat /\ ranks # {}
      BY <2>1, <3>1
    <3> HIDE DEF ranks
    <3> QED
      BY <3>2, SmallestTerm
  <2> DEFINE firsts == {i \in 1..n : rank[i] = k}
  <2>3. PICK i \in firsts : \A j \in firsts : i <= j
    <3>1. firsts \in SUBSET Nat /\ firsts # {}
      BY <2>2
    <3> HIDE DEF firsts
    <3> QED
      BY <3>1, SmallestTerm
  <2>4. ASSUME NEW j \in 1..n PROVE rank[i] < rank[j] \/ (rank[i] = rank[j] /\ i <= j)
    <3>1. rank[i] = k /\ k <= rank[j] /\ rank[j] \in Nat /\ k \in Nat
      BY <2>1, <2>2, <2>3
    <3>2. rank[j] = k => i <= j
      BY <2>3
    <3> HIDE DEF ranks, firsts
    <3> QED
      BY <3>1, <3>2
  <2>5. i \in DOMAIN of /\ \A j \in DOMAIN of :
          LET r == Audit!status_rank(of[i].status)  l == Audit!status_rank(of[j].status) IN r < l \/ (r = l /\ i <= j)
    BY <1>5, <2>1, <2>3, <2>4
  <2>6. foremost \in DOMAIN of
    BY <2>5, Zenon
  <2> QED
    BY <1>5, <2>6
<1> HIDE DEF sum, foremost
<1>8. OutcomeSound(node, every)
  BY <1>6, StatusIs, UnusedSound
<1>9. kids # <<>> => OutcomeSound(node, one)
  BY <1>5, <1>7, AnyStatusIs, UnusedSound
<1> HIDE DEF every, one
<1> QED
  BY <1>1, <1>8, <1>9, ManualReviewSound

\* Evaluating a requirement gives to a later one what is used only as shared.
LEMMA EvaluateSound ==
  ASSUME NEW node, AuditedNode(node), ResultsTyped, Audit!open_children(node) = <<>>
  PROVE OutcomeSound(node, Audit!evaluate(node))
<1>0. node.type \in Audit!RequirementType
  BY NodeIs
<1>2. CASE Audit!Lacks(node)
  <2>1. Audit!evaluate(node) = Audit!manual_review
    BY <1>2 DEF Audit!evaluate, Audit!Lacks
  <2> QED
    BY ManualReviewSound, <2>1
<1>3. CASE ~ Audit!Lacks(node) /\ node.type \in {"REQUIRED_COURSE", "CAPSTONE"}
  <2>1. Audit!evaluate(node) = Audit!required_course(node)
    BY <1>3 DEF Audit!evaluate
  <2> QED
    BY <2>1, RequiredCourseSound
<1>4. CASE ~ Audit!Lacks(node) /\ node.type \in {"GROUP", "ALL_OF", "ANY_OF"}
  <2>1. Audit!evaluate(node) \in {Audit!combined(node, TRUE), Audit!combined(node, FALSE)}
    BY <1>4 DEF Audit!evaluate
  <2>2. Composite(node)
    BY <1>4 DEF Composite
  <2> QED
    BY <2>1, <2>2, CombinedSound
<1>5. CASE ~ Audit!Lacks(node) /\ node.type = "TOTAL_CREDITS"
  <2>1. Audit!evaluate(node) = Audit!total_credits(node)
    BY <1>5 DEF Audit!evaluate
  <2> QED
    BY <2>1, TotalCreditsSound
<1>6. CASE ~ Audit!Lacks(node) /\ node.type = "CHOOSE_N"
  <2>1. Audit!evaluate(node) = Audit!choose_n(node)
    BY <1>6 DEF Audit!evaluate
  <2> QED
    BY <2>1, ChooseNSound
<1>7. CASE ~ Audit!Lacks(node) /\ node.type = "MINIMUM_COURSES"
  <2>1. Audit!evaluate(node) = Audit!minimum_courses(node)
    BY <1>7 DEF Audit!evaluate
  <2> QED
    BY <2>1, MinimumCoursesSound
<1>8. CASE ~ Audit!Lacks(node) /\ node.type = "MINIMUM_CREDITS"
  <2>1. Audit!evaluate(node) = Audit!credit_pool(node, node.need, TRUE, Audit!at_level(node))
    BY <1>8 DEF Audit!evaluate
  <2> QED
    BY <2>1, PoolsAre, CreditPoolSound
<1>9. CASE ~ Audit!Lacks(node) /\ node.type \in {"COURSE_LEVEL", "RESIDENCY"}
  <2>1. \E required, pool :
          /\ Audit!evaluate(node) = Audit!credit_pool(node, required, FALSE, pool)
          /\ pool \in {Audit!at_level(node), Audit!resident(node)}
    <3>1. CASE node.type = "COURSE_LEVEL"
      BY <1>9, <3>1 DEF Audit!evaluate
    <3>2. CASE node.type = "RESIDENCY"
      BY <1>9, <3>2 DEF Audit!evaluate
    <3> QED
      BY <1>9, <3>1, <3>2
  <2>2. node.type \notin Audit!Reserving
    BY <1>9 DEF Audit!Reserving
  <2> QED
    BY <2>1, <2>2, PoolsAre, CreditPoolSound
<1>10. node.type \notin {"MINIMUM_GRADE", "EXCLUSION"} \/ Audit!Lacks(node)
  BY DEF Audit!Lacks
<1> QED
  BY <1>0, <1>2, <1>3, <1>4, <1>5, <1>6, <1>7, <1>8, <1>9, <1>10 DEF Audit!RequirementType

\* The figures of a run: percentages from 0 to 100, and no negative credits.
LEMMA FiguresAre == audited \in AuditRequests => Audit!DegreeAuditRun(Audit!summary)
<1> SUFFICES ASSUME audited \in AuditRequests PROVE Audit!DegreeAuditRun(Audit!summary)
  OBVIOUS
<1> DEFINE all == Audit!Distinct(Audit!all_course_candidates("none"))
           completed == Audit!Credits(all, "COMPLETED")
           begun == Audit!Credits(all, "IN_PROGRESS")
           planning == Audit!Credits(all, "PLANNED")
           part == IF audited.total > 0 THEN (completed * 100) \div audited.total ELSE 0
           figures == [completed |-> completed, in_progress |-> begun, planned |-> planning,
                       remaining |-> IF audited.total > completed THEN audited.total - completed ELSE 0,
                       percentage |-> IF part < 100 THEN part ELSE 100]
<1>1. Audit!summary = figures
  BY Zenon DEF Audit!summary
<1>2. completed \in Nat /\ begun \in Nat /\ planning \in Nat
  <2>1. Listed(all)
    BY CandidatesAre, DistinctAre
  <2> HIDE DEF all
  <2> QED
    BY <2>1, CreditsAre
<1> HIDE DEF completed, begun, planning
<1>3. part \in Nat
  <2>1. audited.total \in Nat \ {0}
    BY AuditConstants
  <2>2. \A n \in Nat, d \in Nat \ {0} : n \div d \in Nat
    OBVIOUS
  <2>3. completed * 100 \in Nat
    BY <1>2
  <2> QED
    BY <2>1, <2>2, <2>3
<1> HIDE DEF part
<1>4. figures.remaining \in Nat /\ figures.percentage \in 0..100
  <2>1. audited.total \in Nat
    BY AuditConstants
  <2> QED
    BY <1>2, <1>3, <2>1
<1> QED
  BY <1>1, <1>2, <1>4 DEF Audit!DegreeAuditRun

\* What a requirement without overlap has used is remembered; ExclusiveUseKept is inductive
\* only together with this.
AuditReserved ==
  \A i \in DOMAIN results :
    LET n == Audit!NodeOf(results[i].node)
    IN n.type \in Audit!Reserving /\ ~ n.overlap =>
         \A x \in Audit!ToSet(results[i].outcome.applications) : x.candidate.source \in used
\* A requirement is evaluated once.
EvaluatedOnce == \A i, j \in DOMAIN results : results[i].node = results[j].node => i = j
AuditRuns == {None, "RUNNING", "REFUSED", "COMPLETED", "FAILED"}
AuditInv ==
  /\ audited \in AuditRequests /\ auditRun \in AuditRuns
  /\ Audit!IsSequence(auditTodo) /\ \A i \in DOMAIN auditTodo : \E n \in Audit!Nodes : n.id = auditTodo[i]
  /\ Audit!IsSequence(results) /\ ResultsTyped /\ EvaluatedOnce
  /\ AuditReserved
  /\ ExclusiveUseKept

\* What ExclusiveUseKept says of two results, given their requirements
KeptBetween(r, s, m, n) ==
  {m.type, n.type} \subseteq Audit!Reserving /\ ~ m.overlap =>
    \A x \in Audit!ToSet(r.outcome.applications), y \in Audit!ToSet(s.outcome.applications) :
      x.candidate.source = y.candidate.source => n.overlap /\ y.shared

LEMMA ExclusiveForm ==
  ExclusiveUseKept = \A i, j \in DOMAIN results : i < j =>
    KeptBetween(results[i], results[j], Audit!NodeOf(results[i].node), Audit!NodeOf(results[j].node))
BY Zenon DEF ExclusiveUseKept, Audit!ExclusiveUseKept, KeptBetween

LEMMA NothingEvaluated == results = <<>> => AuditReserved /\ ExclusiveUseKept /\ ResultsTyped /\ EvaluatedOnce
<1> SUFFICES ASSUME results = <<>> PROVE AuditReserved /\ ExclusiveUseKept /\ ResultsTyped /\ EvaluatedOnce
  OBVIOUS
<1>1. DOMAIN results = {}
  OBVIOUS
<1> QED
  BY <1>1, Zenon DEF AuditReserved, ExclusiveUseKept, Audit!ExclusiveUseKept, ResultsTyped, EvaluatedOnce

LEMMA AuditInit == AdvisingInit => AuditInv
<1> SUFFICES ASSUME AdvisingInit PROVE AuditInv
  OBVIOUS
<1>1. audited \in AuditRequests
  <2>1. AuditRequests # {}
    BY AdvisingConstants, Zenon DEF Audit!AuditAssumption
  <2>2. audited \in AuditRequests \/ audited = OneOf(AuditRequests)
    BY DEF AdvisingInit, Begin
  <2> QED
    BY <2>1, <2>2, Zenon DEF OneOf
<1>2. auditTodo = <<>> /\ results = <<>> /\ auditRun \in AuditRuns
  BY DEF AdvisingInit, Begin, Audit!Init, AuditRuns
<1>3. \A i \in DOMAIN auditTodo : FALSE
  BY <1>2
<1> QED
  BY <1>1, <1>2, <1>3, EmptyIs, NothingEvaluated DEF AuditInv

\* The ids of requirements of the version are ids of requirements of the version.
LEMMA IdsAre ==
  ASSUME NEW nodes, Audit!IsSequence(nodes), \A i \in DOMAIN nodes : nodes[i] \in Audit!Nodes
  PROVE LET ids == Audit!Ids(nodes) IN
        /\ Audit!IsSequence(ids)
        /\ \A i \in DOMAIN ids : \E n \in Audit!Nodes : n.id = ids[i]
<1> DEFINE ids == [i \in DOMAIN nodes |-> nodes[i].id]
<1>1. DOMAIN nodes = 1..Len(nodes) /\ Len(nodes) \in Nat
  BY DEF Audit!IsSequence
<1>2. Audit!IsSequence(ids)
  BY <1>1, ListIs
<1> QED
  BY <1>2, Zenon DEF Audit!Ids

LEMMA ChildrenAre ==
  ASSUME audited \in AuditRequests, NEW id
  PROVE Audit!IsSequence(Audit!children_of(id)) /\ \A i \in DOMAIN Audit!children_of(id) : Audit!children_of(id)[i] \in Audit!Nodes
<1> DEFINE P == {i \in DOMAIN audited.nodes : audited.nodes[i].parent = id}
<1>1. Audit!children_of(id) = Audit!Only(audited.nodes, P) /\ P \subseteq DOMAIN audited.nodes
  BY Zenon DEF Audit!children_of
<1>2. Audit!IsSequence(audited.nodes) /\ \A i \in DOMAIN audited.nodes : audited.nodes[i] \in Audit!Nodes
  BY AuditConstants DEF Audit!Nodes, Audit!ToSet
<1> HIDE DEF P
<1> QED
  BY <1>1, <1>2, OnlyMembers

LEMMA OpenChildrenAre ==
  ASSUME audited \in AuditRequests, NEW node
  PROVE LET kids == Audit!open_children(node) IN Audit!IsSequence(kids) /\ \A i \in DOMAIN kids : kids[i] \in Audit!Nodes
<1> DEFINE all == IF node.type \in {"GROUP", "ALL_OF", "ANY_OF"} THEN Audit!children_of(node.id) ELSE <<>>
           P == {i \in DOMAIN all : all[i].id \notin Audit!Evaluated}
<1>1. Audit!open_children(node) = Audit!Only(all, P) /\ P \subseteq DOMAIN all
  BY Zenon DEF Audit!open_children
<1>2. Audit!IsSequence(all) /\ \A i \in DOMAIN all : all[i] \in Audit!Nodes
  BY ChildrenAre, EmptyIs
<1> HIDE DEF P, all
<1> QED
  BY <1>1, <1>2, OnlyMembers

\* Calls that are added are made before those already asked for.
LEMMA CallsAdded ==
  ASSUME NEW calls, NEW more, Audit!IsSequence(calls), Audit!IsSequence(more),
         \A i \in DOMAIN calls : \E n \in Audit!Nodes : n.id = calls[i],
         \A i \in DOMAIN more : \E n \in Audit!Nodes : n.id = more[i]
  PROVE Audit!IsSequence(more \o calls) /\ \A i \in DOMAIN (more \o calls) : \E n \in Audit!Nodes : n.id = (more \o calls)[i]
<1> DEFINE T == {n.id : n \in Audit!Nodes}
<1>1. calls \in Seq(T) /\ more \in Seq(T)
  <2>1. \A s : Audit!IsSequence(s) /\ (\A i \in DOMAIN s : \E n \in Audit!Nodes : n.id = s[i]) => s \in Seq(T)
    <3> SUFFICES ASSUME NEW s, Audit!IsSequence(s), \A i \in DOMAIN s : \E n \in Audit!Nodes : n.id = s[i] PROVE s \in Seq(T)
      OBVIOUS
    <3>1. \A i \in DOMAIN s : s[i] \in T
      OBVIOUS
    <3>2. s = [i \in 1..Len(s) |-> s[i]] /\ DOMAIN s = 1..Len(s) /\ Len(s) \in Nat
      BY DEF Audit!IsSequence
    <3> HIDE DEF T
    <3> QED
      BY <3>1, <3>2
  <2> QED
    BY <2>1
<1>2. \A s \in Seq(T) : \A i \in DOMAIN s : \E n \in Audit!Nodes : n.id = s[i]
  <2> SUFFICES ASSUME NEW s \in Seq(T), NEW i \in DOMAIN s PROVE \E n \in Audit!Nodes : n.id = s[i]
    OBVIOUS
  <2>1. s[i] \in T
    <3> HIDE DEF T
    <3> QED
      OBVIOUS
  <2> QED
    BY <2>1
<1> HIDE DEF T
<1>3. more \o calls \in Seq(T)
  BY <1>1
<1> QED
  BY <1>2, <1>3, SeqIs

LEMMA CallsLeft ==
  ASSUME NEW calls, Audit!IsSequence(calls), calls # <<>>, \A i \in DOMAIN calls : \E n \in Audit!Nodes : n.id = calls[i]
  PROVE /\ Audit!IsSequence(Tail(calls)) /\ \A i \in DOMAIN Tail(calls) : \E n \in Audit!Nodes : n.id = Tail(calls)[i]
        /\ \E n \in Audit!Nodes : n.id = Head(calls)
<1>1. calls \in Seq(Audit!ToSet(calls)) /\ DOMAIN calls = 1..Len(calls) /\ Len(calls) \in Nat
  BY DEF Audit!IsSequence
<1>2. Tail(calls) \in Seq(Audit!ToSet(calls)) /\ 1 \in DOMAIN calls /\ Head(calls) = calls[1]
  BY <1>1
<1>3. \A i \in DOMAIN Tail(calls) : i + 1 \in DOMAIN calls /\ Tail(calls)[i] = calls[i + 1]
  BY <1>1
<1> QED
  BY <1>2, <1>3, SeqIs

\* The result of the requirement evaluated last goes with those before it.
LEMMA EvaluatedKeeps ==
  ASSUME AuditInv, Audit!evaluate_node PROVE AuditInv'
<1> DEFINE id == Head(auditTodo)
           node == Audit!NodeOf(id)
           o == Audit!evaluate(node)
           row == [node |-> id, outcome |-> [status |-> o.status, credits |-> o.credits, applications |-> o.applications]]
<1>0. /\ auditTodo # <<>> /\ results' = Append(results, row) /\ used' = o.taken
      /\ auditTodo' = Tail(auditTodo) /\ audited' = audited /\ auditRun' = auditRun
      /\ id \notin Audit!Evaluated /\ Audit!open_children(node) = <<>>
  BY Zenon DEF Audit!evaluate_node
<1>1. node \in Audit!Nodes /\ audited \in AuditRequests
  <2>1. \E n \in Audit!Nodes : n.id = id
    BY <1>0, CallsLeft DEF AuditInv
  <2> QED
    BY <2>1, Zenon DEF AuditInv, Audit!NodeOf
<1>2. ExclusiveOutcome(node, o) /\ Audit!RequirementEvaluation(o)
  <2> HIDE DEF node
  <2> QED
    BY <1>0, <1>1, EvaluateSound DEF AuditedNode, AuditInv, OutcomeSound
<1>3. row.node = id /\ row.outcome.applications = o.applications /\ Audit!RequirementEvaluation(row.outcome)
  <2> HIDE DEF o, id
  <2>1. row.outcome.applications = o.applications /\ row.outcome.status = o.status /\ row.outcome.credits = o.credits
    OBVIOUS
  <2> HIDE DEF row
  <2> QED
    BY <1>2, <2>1 DEF Audit!RequirementEvaluation, row
<1> HIDE DEF row, o
<1>4. /\ Audit!IsSequence(results') /\ DOMAIN results' = 1..(Len(results) + 1) /\ Len(results) \in Nat
      /\ results'[Len(results) + 1] = row /\ DOMAIN results = 1..Len(results)
      /\ \A i \in DOMAIN results : results'[i] = results[i]
  <2> DEFINE T == Audit!ToSet(results) \cup {row}
  <2>1. results \in Seq(T) /\ row \in T
    BY DEF AuditInv, Audit!IsSequence
  <2> HIDE DEF T
  <2>2. results' \in Seq(T)
    BY <1>0, <2>1
  <2>3. Audit!IsSequence(results')
    BY <2>2, SeqIs
  <2> QED
    BY <1>0, <2>1, <2>3
<1>5. Audit!Nodes' = Audit!Nodes /\ \A i : Audit!NodeOf(i)' = Audit!NodeOf(i)
  BY <1>0, Zenon DEF Audit!Nodes, Audit!NodeOf
<1>6. AuditReserved'
  <2> SUFFICES ASSUME NEW i \in DOMAIN results', NEW n, n = Audit!NodeOf(results'[i].node),
                      n.type \in Audit!Reserving, ~ n.overlap,
                      NEW x \in Audit!ToSet(results'[i].outcome.applications)
               PROVE x.candidate.source \in used'
    BY <1>5, Zenon DEF AuditReserved
  <2>1. CASE i \in DOMAIN results
    <3>1. x.candidate.source \in used
      BY <1>4, <2>1 DEF AuditInv, AuditReserved
    <3> QED
      BY <1>0, <1>2, <3>1 DEF ExclusiveOutcome
  <2>2. CASE i = Len(results) + 1
    <3>1. n = node /\ results'[i].outcome.applications = o.applications
      BY <1>3, <1>4, <2>2
    <3> QED
      BY <1>0, <1>2, <3>1 DEF ExclusiveOutcome
  <2> QED
    BY <1>4, <2>1, <2>2
<1>7. ExclusiveUseKept'
  <2>1. ASSUME NEW i \in DOMAIN results', NEW j \in DOMAIN results', i < j
        PROVE KeptBetween(results'[i], results'[j], Audit!NodeOf(results'[i].node), Audit!NodeOf(results'[j].node))
    <3>1. i \in DOMAIN results /\ (j \in DOMAIN results \/ j = Len(results) + 1)
      BY <1>4, <2>1
    <3>2. CASE j \in DOMAIN results
      <4>1. KeptBetween(results[i], results[j], Audit!NodeOf(results[i].node), Audit!NodeOf(results[j].node))
        BY <2>1, <3>1, <3>2, ExclusiveForm, Zenon DEF AuditInv
      <4> QED
        BY <1>4, <3>1, <3>2, <4>1, Zenon
    <3>3. CASE j = Len(results) + 1
      <4> DEFINE m == Audit!NodeOf(results[i].node)
      <4>1. m.type \in Audit!Reserving /\ ~ m.overlap =>
              \A x \in Audit!ToSet(results[i].outcome.applications) : x.candidate.source \in used
        BY <3>1, Zenon DEF AuditInv, AuditReserved
      <4>2. results'[j].node = id /\ results'[j].outcome.applications = o.applications /\ results'[i] = results[i]
        BY <1>3, <1>4, <3>1, <3>3
      <4> HIDE DEF m, node
      <4>3. KeptBetween(results[i], results'[j], m, node)
        BY <1>2, <4>1, <4>2 DEF KeptBetween, ExclusiveOutcome
      <4> QED
        BY <4>2, <4>3, Zenon DEF m, node
    <3> QED
      BY <3>1, <3>2, <3>3
  <2>2. ExclusiveUseKept' = \A i, j \in DOMAIN results' : i < j =>
          KeptBetween(results'[i], results'[j], Audit!NodeOf(results'[i].node), Audit!NodeOf(results'[j].node))
    BY <1>5, Zenon DEF ExclusiveUseKept, Audit!ExclusiveUseKept, KeptBetween
  <2> QED
    BY <2>1, <2>2, ZenonT(60)
<1>8. Audit!IsSequence(auditTodo') /\ \A i \in DOMAIN auditTodo' : \E n \in Audit!Nodes' : n.id = auditTodo'[i]
  BY <1>0, <1>5, CallsLeft DEF AuditInv
<1>9. ResultsTyped'
  BY <1>3, <1>4 DEF AuditInv, ResultsTyped, Audit!RequirementEvaluation
<1>10. EvaluatedOnce'
  <2>1. \A i \in DOMAIN results : results[i].node # id
    BY <1>0 DEF Audit!Evaluated
  <2>2. \A i \in DOMAIN results' : i \in DOMAIN results \/ (results'[i].node = id /\ i = Len(results) + 1)
    BY <1>3, <1>4
  <2> HIDE DEF id
  <2> QED
    BY <1>4, <2>1, <2>2 DEF AuditInv, EvaluatedOnce
<1> QED
  BY <1>0, <1>1, <1>4, <1>6, <1>7, <1>8, <1>9, <1>10 DEF AuditInv

LEMMA AuditKeeps == AuditInv /\ [Audit!Next]_(Audit!vars) => AuditInv'
<1> SUFFICES ASSUME AuditInv, [Audit!Next]_(Audit!vars) PROVE AuditInv'
  OBVIOUS
<1>1. ASSUME audited' = audited, results' = results, used' = used, auditRun' \in AuditRuns,
             Audit!IsSequence(auditTodo') /\ \A i \in DOMAIN auditTodo' : \E n \in Audit!Nodes : n.id = auditTodo'[i]
      PROVE AuditInv'
  <2>1. Audit!Nodes' = Audit!Nodes
    BY <1>1 DEF Audit!Nodes
  <2>2. AuditReserved' /\ ExclusiveUseKept'
    <3>1. \A i : Audit!NodeOf(i)' = Audit!NodeOf(i)
      BY <1>1, Zenon DEF Audit!Nodes, Audit!NodeOf
    <3>2. AuditReserved'
      BY <1>1, <3>1, Zenon DEF AuditInv, AuditReserved
    <3>3. ExclusiveUseKept' = \A i, j \in DOMAIN results' : i < j =>
            KeptBetween(results'[i], results'[j], Audit!NodeOf(results'[i].node), Audit!NodeOf(results'[j].node))
      BY <3>1, Zenon DEF ExclusiveUseKept, Audit!ExclusiveUseKept, KeptBetween
    <3>4. ExclusiveUseKept'
      BY <1>1, <3>3, ExclusiveForm, Zenon DEF AuditInv
    <3> QED
      BY <3>2, <3>4
  <2>3. ResultsTyped' /\ EvaluatedOnce'
    BY <1>1, Zenon DEF AuditInv, ResultsTyped, EvaluatedOnce, Audit!RequirementEvaluation
  <2> QED
    BY <1>1, <2>1, <2>2, <2>3 DEF AuditInv
<1>2. CASE Audit!create_audit
  <2>1. audited' = audited /\ results' = results /\ used' = used /\ auditRun' \in AuditRuns
    BY <1>2 DEF Audit!create_audit, AuditRuns
  <2> DEFINE calls == Audit!Ids(Audit!children_of(None)) \o Audit!Ids(audited.nodes)
  <2>2. auditTodo' = auditTodo \/ auditTodo' = calls
    BY <1>2, Zenon DEF Audit!create_audit
  <2>3. Audit!IsSequence(calls) /\ \A i \in DOMAIN calls : \E n \in Audit!Nodes : n.id = calls[i]
    <3>1. audited \in AuditRequests
      BY DEF AuditInv
    <3>2. Audit!IsSequence(audited.nodes) /\ \A i \in DOMAIN audited.nodes : audited.nodes[i] \in Audit!Nodes
      BY <3>1, AuditConstants DEF Audit!Nodes, Audit!ToSet
    <3> DEFINE top == Audit!Ids(Audit!children_of(None))
               each == Audit!Ids(audited.nodes)
    <3>3. Audit!IsSequence(top) /\ \A i \in DOMAIN top : \E n \in Audit!Nodes : n.id = top[i]
      BY <3>1, ChildrenAre, IdsAre
    <3>4. Audit!IsSequence(each) /\ \A i \in DOMAIN each : \E n \in Audit!Nodes : n.id = each[i]
      BY <3>2, IdsAre
    <3> HIDE DEF top, each
    <3>5. Audit!IsSequence(top \o each) /\ \A i \in DOMAIN (top \o each) : \E n \in Audit!Nodes : n.id = (top \o each)[i]
      BY <3>3, <3>4, CallsAdded
    <3> QED
      BY <3>5 DEF top, each
  <2> HIDE DEF calls
  <2> QED
    BY <1>1, <2>1, <2>2, <2>3 DEF AuditInv
<1>3. CASE Audit!known_node
  <2>1. auditTodo # <<>> /\ auditTodo' = Tail(auditTodo) /\ audited' = audited /\ results' = results /\ used' = used /\ auditRun' = auditRun
    BY <1>3 DEF Audit!known_node
  <2> QED
    BY <1>1, <2>1, CallsLeft DEF AuditInv
<1>4. CASE Audit!descend
  <2> DEFINE kids == Audit!open_children(Audit!NodeOf(Head(auditTodo)))
  <2>1. auditTodo' = Audit!Ids(kids) \o auditTodo /\ audited' = audited /\ results' = results /\ used' = used /\ auditRun' = auditRun
    BY <1>4, Zenon DEF Audit!descend
  <2>2. audited \in AuditRequests
    BY DEF AuditInv
  <2>3. Audit!IsSequence(kids) /\ \A i \in DOMAIN kids : kids[i] \in Audit!Nodes
    BY <2>2, OpenChildrenAre
  <2> HIDE DEF kids
  <2> QED
    BY <1>1, <2>1, <2>3, IdsAre, CallsAdded, SMTT(60) DEF AuditInv
<1>5. CASE Audit!evaluate_node
  BY <1>5, EvaluatedKeeps
<1>6. CASE Audit!persist_success
  BY <1>1, <1>6 DEF Audit!persist_success, AuditInv, AuditRuns
<1>7. CASE Audit!fail
  <2>1. audited' = audited /\ auditTodo' = <<>> /\ results' = <<>> /\ auditRun' \in AuditRuns
    BY <1>7 DEF Audit!fail, AuditRuns
  <2>2. AuditReserved' /\ ExclusiveUseKept' /\ ResultsTyped' /\ EvaluatedOnce'
    <3>1. DOMAIN results' = {}
      BY <2>1
    <3> QED
      BY <3>1, Zenon DEF AuditReserved, ExclusiveUseKept, Audit!ExclusiveUseKept, ResultsTyped, EvaluatedOnce
  <2>3. \A i \in DOMAIN auditTodo' : FALSE
    BY <2>1
  <2> QED
    BY <2>1, <2>2, <2>3, EmptyIs DEF AuditInv
<1>8. CASE UNCHANGED Audit!vars
  BY <1>1, <1>8 DEF Audit!vars, AuditInv
<1> QED
  BY <1>2, <1>3, <1>4, <1>5, <1>6, <1>7, <1>8 DEF Audit!Next

(***************************************************************************)
(* A source that a requirement without overlap has used goes to a later    *)
(* requirement only if that one allows overlap, and the application says   *)
(* so (allocation.py), whatever the tree, the order its requirements are   *)
(* evaluated in and the records: an evaluator draws on candidates that are *)
(* available, and reserves what it applies before the next one asks.       *)
(***************************************************************************)
THEOREM ExclusiveUseIsKept == AdvisingSpec => []ExclusiveUseKept
<1>1. AuditInv => ExclusiveUseKept
  BY DEF AuditInv
<1> QED
  BY <1>1, AuditInit, AuditKeeps, EachServiceSteps, PTL DEF AdvisingSpec

\* The tables accept what an audit stores: a requirement is evaluated once, to one of the
\* statuses, from records of a kind the tables know, and a percentage is one of 0 to 100.
LEMMA AuditsAreTyped == AdvisingSpec => []Audit!TypeOK
<1>1. AuditInv => Audit!TypeOK
  <2> SUFFICES ASSUME AuditInv PROVE Audit!TypeOK
    OBVIOUS
  <2>1. auditRun \in AuditRuns /\ Audit!DegreeAuditRun(Audit!summary)
    BY FiguresAre DEF AuditInv
  <2>2. Audit!Unique(results, LAMBDA r : r.node)
    BY Zenon DEF AuditInv, EvaluatedOnce, Audit!Unique
  <2>3. \A r \in Audit!ToSet(results) : Audit!RequirementEvaluation(r.outcome)
    BY Zenon DEF AuditInv, ResultsTyped, Audit!ToSet
  <2> QED
    BY <2>1, <2>2, <2>3, Zenon DEF Audit!TypeOK, AuditRuns
<1> QED
  BY <1>1, AuditInit, AuditKeeps, EachServiceSteps, PTL DEF AdvisingSpec
=============================================================================
