----------------------- MODULE ScheduleOptimizerProofs -----------------------
(***************************************************************************)
(* Proofs about ScheduleOptimizer, for every set of courses, sections,     *)
(* meetings and requests and every value of the three limits: an option    *)
(* breaks no hard constraint, FEASIBLE means full, a list that no limit    *)
(* cut short is complete, options come in the order of their rank, and a   *)
(* run is stored whole.                                                    *)
(***************************************************************************)
EXTENDS ScheduleOptimizer, SearchProofs

\* The credits of a set of sections are a number.
LEMMA CreditsTyped == \A C \in SUBSET Sections : Credits(C) \in Nat
<1> SUFFICES ASSUME NEW C \in SUBSET Sections PROVE Credits(C) \in Nat
  OBVIOUS
<1> DEFINE f == [s \in C |-> creditsOf[s]]
<1>1. IsFiniteSet(C)
  <2>1. SectionCount \in Nat
    BY OptimizerInput DEF ScheduleAssumption
  <2>2. IsFiniteSet(Sections)
    BY <2>1, FS_Interval DEF Sections
  <2> QED
    BY <2>2, FS_Subset
<1>2. \A s \in C : f[s] \in Nat
  BY OptimizerInput DEF ScheduleAssumption
<1>3. Credits(C) = SumFunctionOnSet(f, C)
  BY DEF Credits
<1> HIDE DEF f
<1> QED
  BY <1>1, <1>2, <1>3, SumTyped

\* A set that is not larger than the bound is not cut.
LEMMA FirstShape ==
  ASSUME NEW S, S \subseteq Nat, IsFiniteSet(S), NEW n \in Nat
  PROVE /\ First(S, n) \subseteq S
        /\ n > 0 /\ S # {} => First(S, n) # {}
        /\ Cardinality(S) <= n => First(S, n) = S
<1>1. ASSUME n > 0, S # {} PROVE First(S, n) # {}
  <2>1. Least(S) \in S /\ \A m \in S : Least(S) <= m
    BY <1>1, LeastMember
  <2>2. \A y \in S : ~ (y < Least(S))
    <3>1. TAKE y \in S
    <3>2. y \in Nat /\ Least(S) \in Nat
      BY <2>1, Zenon
    <3>3. Least(S) <= y
      BY <2>1, Zenon
    <3> QED
      BY <3>2, <3>3
  <2>3. {y \in S : y < Least(S)} = {}
    BY <2>2
  <2> DEFINE below == Cardinality({y \in S : y < Least(S)})
  <2>4. below = 0
    BY <2>3, FS_EmptySet, Zenon
  <2>5. below < n
    <3> HIDE DEF below
    <3> QED
      BY <1>1, <2>4
  <2>6. Least(S) \in First(S, n)
    BY <2>1, <2>5, Zenon DEF First
  <2> QED
    BY <2>6
<1>2. ASSUME Cardinality(S) <= n, NEW x \in S PROVE Cardinality({y \in S : y < x}) < n
  <2> DEFINE below == {y \in S : y < x}
  <2>0. x \in Nat
    BY Zenon
  <2>1. below \in SUBSET S /\ x \notin below
    BY <2>0
  <2>2. Cardinality(below) <= Cardinality(S) /\ (Cardinality(S) = Cardinality(below) => S = below)
    BY <2>1, FS_Subset
  <2>3. IsFiniteSet(below)
    BY <2>1, FS_Subset
  <2>4. Cardinality(below) \in Nat /\ Cardinality(S) \in Nat
    BY <2>3, FS_CardinalityType
  <2>5. S # below
    BY <2>1
  <2> HIDE DEF below
  <2>6. Cardinality(below) < n
    BY <1>2, <2>2, <2>4, <2>5
  <2> QED
    BY <2>6 DEF below
<1>3. First(S, n) \subseteq S
  BY DEF First
<1>4. ASSUME Cardinality(S) <= n PROVE First(S, n) = S
  <2>1. \A x \in S : x \in First(S, n)
    BY <1>2, <1>4, Zenon DEF First
  <2> QED
    BY <1>3, <2>1
<1> QED
  BY <1>1, <1>3, <1>4

USE OptimizerInput DEF ScheduleAssumption

(* Sections, groups and combinations *)

LEMMA RequestTyped ==
  ASSUME NEW r \in Requests
  PROVE /\ r \in RequestType
        /\ r.offered \subseteq Sections /\ r.wanted \subseteq Courses
        /\ r.limit \in Int /\ r.count \in Int /\ r.minimum \in Int /\ r.maximum \in Int
        /\ Sections \subseteq Nat /\ Courses \subseteq Nat
        /\ IsFiniteSet(Sections) /\ IsFiniteSet(Courses)
<1>1. r \in RequestType
  OBVIOUS
<1>2. /\ r.offered \subseteq Sections /\ r.wanted \subseteq Courses
      /\ r.limit \in Int /\ r.count \in Int /\ r.minimum \in Int /\ r.maximum \in Int
  BY <1>1 DEF RequestType
<1>3. IsFiniteSet(Sections) /\ IsFiniteSet(Courses)
  BY FS_Interval DEF Sections, Courses
<1>4. Sections \subseteq Nat /\ Courses \subseteq Nat
  <2>1. SectionCount \in Nat /\ CourseCount \in Nat
    OBVIOUS
  <2>2. \A n \in Nat : 1..n \subseteq Nat
    OBVIOUS
  <2> QED
    BY <2>1, <2>2, Zenon DEF Sections, Courses
<1> QED
  BY <1>1, <1>2, <1>3, <1>4

\* An accepted request passed every validation.
LEMMA AcceptedTyped ==
  ASSUME NEW r \in Accepted
  PROVE /\ r \in Requests
        /\ r.limit \in Nat /\ r.limit > 0 /\ r.count \in 1..20
        /\ ScheduleOptimizationRun(r) /\ ScheduleConstraintSet(r)
<1> DEFINE errors == <<validate_credit_inputs(r), validate_phase_6b_inputs(r), validate_student(r), validate_term(r),
                       IF r.sourceAge < 0 THEN "invalid_source_age" ELSE "none", validate_course_state_readiness(r),
                       validate_plan(r), parse_unavailable_blocks(r), validate_section_ids(r)>>
           raised == {i \in DOMAIN errors : errors[i] # "none"}
<1>1. r \in Requests /\ Rejection(r) = "none"
  BY DEF Accepted
<1>2. DOMAIN errors = 1..9
  OBVIOUS
<1>3. errors[1] = validate_credit_inputs(r) /\ errors[2] = validate_phase_6b_inputs(r) /\ errors[8] = parse_unavailable_blocks(r)
  OBVIOUS
<1>4. Rejection(r) = IF raised = {} THEN "none" ELSE errors[Least(raised)]
  BY Zenon DEF Rejection
<1> HIDE DEF errors
<1>5. raised = {}
  <2> SUFFICES ASSUME raised # {} PROVE FALSE
    OBVIOUS
  <2>1. raised \subseteq Nat
    BY <1>2
  <2>2. Least(raised) \in raised
    BY <2>1, LeastMember
  <2>3. errors[Least(raised)] # "none"
    BY <2>2
  <2> QED
    BY <1>1, <1>4, <2>3
<1>6. validate_credit_inputs(r) = "none" /\ validate_phase_6b_inputs(r) = "none" /\ parse_unavailable_blocks(r) = "none"
  BY <1>2, <1>3, <1>5
<1>7. /\ r.limit \in Int /\ r.count \in Int /\ r.minimum \in Int /\ r.maximum \in Int /\ r.preferred \in Int
      /\ r.blocks \subseteq [day : Nat, from : Nat, to : Nat]
  BY <1>1 DEF RequestType
<1>8. r.limit \in Nat /\ r.limit > 0
  BY <1>6, <1>7 DEF validate_phase_6b_inputs
<1>9. ScheduleOptimizationRun(r)
  BY <1>6, <1>7 DEF validate_credit_inputs, ScheduleOptimizationRun
<1>10. ScheduleConstraintSet(r)
  BY <1>6, <1>7 DEF parse_unavailable_blocks, ScheduleConstraintSet
<1> QED
  BY <1>1, <1>8, <1>9, <1>10 DEF ScheduleOptimizationRun

\* The sections that may be held are those the groups are cut from.
LEMMA SelectableIsAllowed ==
  ASSUME NEW r \in Requests, NEW s \in Sections
  PROVE MayHold(r, s) <=> s \in Selectable(r, courseOf[s]) /\ courseOf[s] \in r.wanted
<1>1. r.standing[s] \in Standings
  BY RequestTyped DEF RequestType
<1>2. InTheWay(r, s) <=>
        ~ (\A m \in meetingsOf[s] : m.floating \/ (m.day \notin r.days /\ \A b \in r.blocks : ~ Hits(m, b)))
  BY DEF InTheWay, OnExcludedDay, Blocked, Fixed
<1>3. Refusal(r, s) = "NONE" <=>
        /\ s \notin r.unwanted \cup r.closed
        /\ ~ InTheWay(r, s)
        /\ r.standing[s] \in {"ELIGIBLE", "CONDITIONALLY_ELIGIBLE"} \cup
                             (IF r.allowPermission THEN {"PERMISSION_REQUIRED"} ELSE {})
  BY <1>1 DEF Refusal, Standings
<1>4. s \in Considered(r, courseOf[s]) <=>
        /\ s \in r.offered
        /\ \A t \in r.required : t \in r.offered /\ courseOf[t] = courseOf[s] => s \in r.required
  BY DEF Considered, OfCourse
<1> QED
  BY <1>2, <1>3, <1>4, Zenon DEF MayHold, Selectable

LEMMA SelectableShape ==
  ASSUME NEW r \in Requests, NEW c
  PROVE /\ Selectable(r, c) \subseteq Sections
        /\ \A s \in Selectable(r, c) : courseOf[s] = c
        /\ IsFiniteSet(Selectable(r, c))
<1>1. Selectable(r, c) \subseteq Sections /\ \A s \in Selectable(r, c) : courseOf[s] = c
  BY RequestTyped DEF Selectable, Considered, OfCourse
<1> QED
  BY <1>1, RequestTyped, FS_Subset

LEMMA MenuIsMenu ==
  ASSUME NEW r \in Requests
  PROVE /\ IsMenu(Menu(r), CourseCount)
        /\ DOMAIN Menu(r) = Covered(r) /\ Covered(r) \subseteq Kept(r) /\ Kept(r) \subseteq r.wanted
        /\ \A c \in Covered(r) : Menu(r)[c] \subseteq Selectable(r, c)
<1>1. DOMAIN Menu(r) = Covered(r) /\ Covered(r) \subseteq Kept(r)
  BY DEF Menu, Covered
<1>2. Kept(r) \subseteq r.wanted
  BY DEF Kept, First
<1>3. ASSUME NEW c \in Covered(r)
      PROVE Menu(r)[c] \subseteq Selectable(r, c) /\ Menu(r)[c] # {} /\ Menu(r)[c] \subseteq Nat
  <2>1. Menu(r)[c] = First(Selectable(r, c), MaxSections)
    BY DEF Menu
  <2>2. Selectable(r, c) \subseteq Nat /\ IsFiniteSet(Selectable(r, c)) /\ Selectable(r, c) # {}
    BY SelectableShape, RequestTyped DEF Covered
  <2>3. MaxSections \in Nat /\ MaxSections > 0
    OBVIOUS
  <2> QED
    BY <2>1, <2>2, <2>3, FirstShape
<1>4. Covered(r) \subseteq 1..CourseCount
  BY <1>1, <1>2, RequestTyped DEF Courses
<1> QED
  BY <1>1, <1>2, <1>3, <1>4 DEF IsMenu

\* A combination has one allowed section of each covered course.
LEMMA CombinationShape ==
  ASSUME NEW r \in Requests, NEW q, IsPath(q, Menu(r))
  PROVE /\ Combination(q) \subseteq Sections
        /\ \A s \in Combination(q) : MayHold(r, s)
        /\ \A s, t \in Combination(q) : courseOf[s] = courseOf[t] => s = t
        /\ {courseOf[s] : s \in Combination(q)} = Covered(r)
<1>1. DOMAIN q = Covered(r)
  BY MenuIsMenu DEF IsPath
<1>2. \A c \in Covered(r) : q[c] \in Selectable(r, c) /\ q[c] \in Sections /\ courseOf[q[c]] = c /\ c \in r.wanted
  BY MenuIsMenu, SelectableShape DEF IsPath
<1>3. \A c \in Covered(r) : MayHold(r, q[c])
  BY <1>2, SelectableIsAllowed
<1> QED
  BY <1>1, <1>2, <1>3 DEF Combination

\* Which drafts a list can show: exactly the drafts among all combinations.
LEMMA StatusShape ==
  ASSUME NEW r \in Requests, NEW C \in SUBSET Sections
  PROVE /\ Status(r, C) \in {"PARTIAL", "FEASIBLE", "FEASIBLE_WITH_WARNINGS"}
        /\ Status(r, C) = "PARTIAL" <=> Cardinality(C) < Cardinality(Kept(r)) \/ ~ (Credits(C) >= r.minimum)
<1>1. IsFiniteSet(C) /\ IsFiniteSet(Kept(r))
  <2>1. Kept(r) \subseteq Courses
    BY MenuIsMenu, RequestTyped
  <2> QED
    BY <2>1, RequestTyped, FS_Subset
<1>2. Cardinality(C) \in Nat /\ Cardinality(Kept(r)) \in Nat
  BY <1>1, FS_CardinalityType
<1>3. Credits(C) \in Nat /\ r.minimum \in Int
  BY RequestTyped, CreditsTyped
<1> DEFINE n == Cardinality(C)
           k == Cardinality(Kept(r))
           x == Credits(C)
           low == r.minimum
           good == IF Doubtful(r, C) # {} THEN "FEASIBLE_WITH_WARNINGS" ELSE "FEASIBLE"
<1>4. Status(r, C) = CASE n < k \/ x < low -> "PARTIAL" [] n >= k /\ x >= low -> good
  BY DEF Status
<1>5. good \in {"FEASIBLE", "FEASIBLE_WITH_WARNINGS"}
  OBVIOUS
<1>6. n \in Nat /\ k \in Nat /\ x \in Nat /\ low \in Int
  BY <1>2, <1>3
<1> HIDE DEF n, k, x, low, good
<1>7. Status(r, C) \in {"PARTIAL", "FEASIBLE", "FEASIBLE_WITH_WARNINGS"} /\ (Status(r, C) = "PARTIAL" <=> n < k \/ ~ (x >= low))
  BY <1>4, <1>5, <1>6
<1> QED
  BY <1>7 DEF n, k, x, low

\* A combination has as many sections as there are courses in it.
LEMMA OnePerCourse ==
  ASSUME NEW C \in SUBSET Sections, \A s, t \in C : courseOf[s] = courseOf[t] => s = t
  PROVE Cardinality({courseOf[s] : s \in C}) = Cardinality(C)
<1> DEFINE D == {courseOf[s] : s \in C}
           f == [s \in C |-> courseOf[s]]
<1>1. IsFiniteSet(C)
  <2>1. IsFiniteSet(Sections)
    BY FS_Interval DEF Sections
  <2> QED
    BY <2>1, FS_Subset
<1>2. f \in Bijection(C, D)
  BY DEF Bijection, Injection, Surjection, IsInjective
<1>3. ExistsBijection(C, D)
  BY <1>2, Zenon DEF ExistsBijection
<1> QED
  BY <1>1, <1>3, FS_Bijection

\* A full schedule is no smaller than the courses kept ...
LEMMA FullIsComplete ==
  ASSUME NEW r \in Requests, NEW C \in SUBSET Sections,
         \A s, t \in C : courseOf[s] = courseOf[t] => s = t,
         Full(r, C), Credits(C) >= r.minimum, r.wanted = Kept(r)
  PROVE Status(r, C) # "PARTIAL"
<1>1. Cardinality(C) = Cardinality(Kept(r))
  BY OnePerCourse DEF Full
<1>2. Cardinality(C) \in Nat
  BY RequestTyped, FS_Subset, FS_CardinalityType
<1> QED
  BY <1>1, <1>2, StatusShape

\* ... and a combination that is complete has every course kept.
LEMMA CompleteIsFull ==
  ASSUME NEW r \in Requests, NEW q, IsPath(q, Menu(r)), Status(r, Combination(q)) # "PARTIAL"
  PROVE /\ {courseOf[s] : s \in Combination(q)} = Kept(r)
        /\ Credits(Combination(q)) >= r.minimum
<1> DEFINE C == Combination(q)
<1>1. C \in SUBSET Sections /\ {courseOf[s] : s \in C} = Covered(r) /\ \A s, t \in C : courseOf[s] = courseOf[t] => s = t
  BY CombinationShape
<1>2. Cardinality(Covered(r)) = Cardinality(C)
  <2> HIDE DEF C
  <2> QED
    BY <1>1, OnePerCourse
<1>3. Covered(r) \subseteq Kept(r) /\ IsFiniteSet(Kept(r))
  <2>1. Kept(r) \subseteq Courses
    BY MenuIsMenu, RequestTyped
  <2> QED
    BY <2>1, MenuIsMenu, RequestTyped, FS_Subset
<1>4. /\ Cardinality(Covered(r)) <= Cardinality(Kept(r))
      /\ Cardinality(Kept(r)) = Cardinality(Covered(r)) => Kept(r) = Covered(r)
      /\ IsFiniteSet(Covered(r))
  BY <1>3, FS_Subset
<1>5. Cardinality(Covered(r)) \in Nat /\ Cardinality(Kept(r)) \in Nat
  BY <1>3, <1>4, FS_CardinalityType
<1>6. ~ (Cardinality(C) < Cardinality(Kept(r))) /\ Credits(C) >= r.minimum
  BY <1>1, StatusShape
<1>7. Cardinality(Kept(r)) = Cardinality(Covered(r))
  BY <1>2, <1>4, <1>5, <1>6
<1> QED
  BY <1>1, <1>4, <1>6, <1>7

\* No group is cut and no course dropped.
NothingCut(r) ==
  /\ r.wanted = Kept(r)
  /\ \A c \in Courses : Cardinality({s \in Sections : MayHold(r, s) /\ courseOf[s] = c}) <= MaxSections

LEMMA WholeMenu ==
  ASSUME NEW r \in Requests, NothingCut(r)
  PROVE /\ \A s \in Sections : MayHold(r, s) => courseOf[s] \in Covered(r) /\ s \in Menu(r)[courseOf[s]]
        /\ \A c \in Covered(r) : \E s \in Sections : MayHold(r, s) /\ courseOf[s] = c
<1>1. ASSUME NEW c \in Covered(r) PROVE Menu(r)[c] = Selectable(r, c)
  <2>1. c \in r.wanted /\ c \in Courses
    BY MenuIsMenu, RequestTyped
  <2>2. Selectable(r, c) = {s \in Sections : MayHold(r, s) /\ courseOf[s] = c}
    <3>1. \A s \in Selectable(r, c) : s \in Sections /\ courseOf[s] = c
      BY SelectableShape
    <3>2. \A s \in Sections : courseOf[s] = c => (MayHold(r, s) <=> s \in Selectable(r, c))
      BY <2>1, SelectableIsAllowed
    <3> QED
      BY <3>1, <3>2
  <2>3. Cardinality(Selectable(r, c)) <= MaxSections
    BY <2>1, <2>2 DEF NothingCut
  <2>4. Selectable(r, c) \subseteq Nat /\ IsFiniteSet(Selectable(r, c)) /\ MaxSections \in Nat
    BY SelectableShape, RequestTyped
  <2>5. First(Selectable(r, c), MaxSections) = Selectable(r, c)
    BY <2>3, <2>4, FirstShape
  <2> QED
    BY <2>5 DEF Menu
<1>2. ASSUME NEW s \in Sections, MayHold(r, s)
      PROVE courseOf[s] \in Covered(r) /\ s \in Menu(r)[courseOf[s]]
  <2>1. s \in Selectable(r, courseOf[s]) /\ courseOf[s] \in Kept(r)
    BY <1>2, SelectableIsAllowed DEF NothingCut
  <2>2. courseOf[s] \in Covered(r)
    BY <2>1 DEF Covered
  <2> QED
    BY <1>1, <2>1, <2>2
<1>3. ASSUME NEW c \in Covered(r) PROVE \E s \in Sections : MayHold(r, s) /\ courseOf[s] = c
  <2>1. PICK s \in Selectable(r, c) : TRUE
    BY DEF Covered
  <2>2. s \in Sections /\ courseOf[s] = c /\ c \in r.wanted
    BY <2>1, SelectableShape, MenuIsMenu
  <2> QED
    BY <2>1, <2>2, SelectableIsAllowed
<1> QED
  BY <1>2, <1>3

\* Every schedule that may be shown is a leaf of the search and becomes a draft.
LEMMA ShowableIsFound ==
  ASSUME NEW r \in Requests, NothingCut(r), NEW C \in SUBSET Sections, Showable(r, C)
  PROVE /\ IsDraft(r, C)
        /\ \E q : IsPath(q, Menu(r)) /\ C = Combination(q)
<1>1. /\ \A s \in C : MayHold(r, s)
      /\ \A s, t \in C : courseOf[s] = courseOf[t] => s = t
      /\ ~ Clashes(C) /\ Credits(C) <= r.maximum
      /\ r.allowPartial \/ (Full(r, C) /\ Credits(C) >= r.minimum)
  BY DEF Showable, Legal, Clashes
<1>2. IsDraft(r, C)
  <2>1. Status(r, C) = "PARTIAL" => r.allowPartial
    BY <1>1, FullIsComplete DEF NothingCut
  <2> QED
    BY <1>1, <2>1 DEF IsDraft
<1>3. \A c \in Covered(r) : \E s \in C : courseOf[s] = c
  BY WholeMenu DEF Showable
<1> DEFINE q == [c \in Covered(r) |-> CHOOSE s \in C : courseOf[s] = c]
<1>4. \A c \in Covered(r) : q[c] \in C /\ courseOf[q[c]] = c
  BY <1>3
<1>5. IsPath(q, Menu(r))
  <2>1. DOMAIN Menu(r) = Covered(r)
    BY MenuIsMenu
  <2>2. \A c \in Covered(r) : q[c] \in Sections /\ MayHold(r, q[c])
    BY <1>1, <1>4
  <2>3. \A c \in Covered(r) : q[c] \in Menu(r)[c]
    BY <1>4, <2>2, WholeMenu
  <2>4. q \in [Covered(r) -> Nat]
    BY <2>2, RequestTyped
  <2> HIDE DEF q
  <2> QED
    BY <2>1, <2>3, <2>4 DEF IsPath
<1>6. Combination(q) = C
  <2>1. \A s \in C : courseOf[s] \in Covered(r) /\ q[courseOf[s]] = s
    BY <1>1, <1>4, WholeMenu
  <2>2. DOMAIN q = Covered(r)
    OBVIOUS
  <2> HIDE DEF q
  <2> QED
    BY <1>4, <2>1, <2>2 DEF Combination
<1> QED
  BY <1>2, <1>5, <1>6

(* The invariant *)

InRun == {"created", "searching", "searched", "ranking", "persisted"}

\* All combinations of the search, and those it has completed.
Whole == \A q : IsPath(q, Menu(request)) => Combination(q) \in combinations
SearchInv ==
  /\ request \in Requests /\ evaluated \in Nat
  /\ evaluated > 0 => evaluated <= request.limit
  /\ phase \in InRun \cup {"rolled back", "requested", "done"}
  /\ phase \in InRun \cup {"rolled back"} => request \in Accepted
  /\ \A C \in combinations : \E q : IsPath(q, Menu(request)) /\ C = Combination(q)
  /\ phase \in {"requested", "created"} => evaluated = 0 /\ combinations = {}
  /\ phase = "searching" =>
       /\ IsPath(path, Menu(request)) /\ Covered(request) # {}
       /\ \A q : IsPath(q, Menu(request)) /\ Earlier(q, path) => Combination(q) \in combinations
       /\ evaluated < request.limit
  /\ phase \in {"searched", "ranking", "persisted"} /\ evaluated < request.limit => Covered(request) = {} \/ Whole

\* The drafts are the combinations that may be shown, each ranked once or still to
\* rank, and nothing that is ranked later precedes an option, in standard mode.
Ranked(C) == \E i \in DOMAIN options : options[i] = C
Behind(i, C) == C \in remaining \/ \E j \in DOMAIN options : i < j /\ options[j] = C
RankInv ==
  /\ options \in Seq(SUBSET Sections)
  /\ remaining \subseteq combinations /\ Range(options) \subseteq combinations
  /\ options # <<>> => Len(options) <= request.count
  /\ phase \in {"requested", "created", "searching", "searched"} => remaining = {} /\ options = <<>>
  /\ phase \in {"ranking", "persisted"} =>
       \A C : C \in remaining \/ Ranked(C) <=> C \in combinations /\ IsDraft(request, C)
  /\ \A i \in DOMAIN options : ~ Behind(i, options[i])
  /\ \A i \in DOMAIN options : i = 1 \/ request.diversity # "HIGH" =>
       \A C : Behind(i, C) => Precedes(request, options[i], C)

\* What is warned of.
AtLimit == Note("LIMIT_REACHED", Everything)
NoneFound == Note("NO_FEASIBLE_SCHEDULE_FOUND", Everything)
NoteInv ==
  /\ warnings \subseteq ScheduleWarning /\ conflicts \subseteq ScheduleConflict
  /\ phase \in InRun => Note("NOT_OFFICIAL", Everything) \in warnings
  /\ phase \in {"searching", "searched", "ranking", "persisted"} /\ request.wanted # Kept(request) => AtLimit \in warnings
  /\ phase \in {"ranking", "persisted"} /\ evaluated >= request.limit => AtLimit \in warnings
  /\ phase \in {"requested", "created", "searching", "searched", "ranking"} =>
       \A note \in warnings : note.code # "NO_FEASIBLE_SCHEDULE_FOUND"
  /\ phase = "persisted" => (options = <<>> <=> \E note \in warnings : note.code = "NO_FEASIBLE_SCHEDULE_FOUND")

\* What is flushed before the commit.
Opened == [Row("RUNNING") EXCEPT !.constraints = ConstraintSet(request)]
StoredOptions == IF options = <<>> THEN <<Placeholder>> ELSE [i \in DOMAIN options |-> Stored(options[i])]
Filled(status) ==
  [status |-> status, constraints |-> ConstraintSet(request), options |-> StoredOptions,
   warnings |-> warnings, conflicts |-> conflicts, repairs |-> RepairSuggestions]
RowInv ==
  /\ phase \notin InRun => session = Nothing
  /\ phase \in InRun \ {"persisted"} => session = Opened
  /\ phase = "persisted" => session = Filled("RUNNING") /\ (remaining = {} \/ ~ (Len(options) < request.count))
  /\ phase # "done" => db = Nothing

WorkInv == SearchInv /\ RankInv /\ NoteInv /\ RowInv

LEMMA SearchAlone ==
  ASSUME SearchInv, UNCHANGED <<request, search>>,
         \/ phase' = phase
         \/ phase \in InRun /\ phase' = "rolled back"
         \/ phase' = "done"
         \/ phase = "requested" /\ phase' = "created" /\ request \in Accepted
         \/ phase = "searched" /\ phase' = "ranking"
         \/ phase = "ranking" /\ phase' = "persisted"
  PROVE SearchInv'
BY DEF SearchInv, Whole, search, InRun

LEMMA SearchStarts == SearchInv /\ CollectSections => SearchInv'
<1> SUFFICES ASSUME SearchInv, CollectSections PROVE SearchInv'
  OBVIOUS
<1>1. /\ request' = request /\ combinations' = combinations /\ combinations = {} /\ evaluated' = evaluated
      /\ evaluated = 0 /\ request \in Accepted /\ request \in Requests
  BY DEF SearchInv, CollectSections, InRun
<1>2. CASE Covered(request) = {}
  <2>1. phase' = "searched"
    BY <1>2 DEF CollectSections
  <2> QED
    BY <1>1, <1>2, <2>1 DEF SearchInv, InRun
<1>3. CASE Covered(request) # {}
  <2>1. phase' = "searching" /\ path' = FirstPath(Menu(request))
    BY <1>3 DEF CollectSections
  <2>2. IsMenu(Menu(request), CourseCount)
    BY <1>1, MenuIsMenu
  <2>3. IsPath(path', Menu(request)) /\ \A q : IsPath(q, Menu(request)) => ~ Earlier(q, path')
    BY <2>1, <2>2, FirstIsFirst
  <2>4. evaluated' < request.limit
    BY <1>1, AcceptedTyped
  <2> QED
    BY <1>1, <1>3, <2>1, <2>3, <2>4 DEF SearchInv, InRun
<1> QED
  BY <1>2, <1>3

LEMMA SearchCompletes == SearchInv /\ CompleteCombination => SearchInv'
<1> SUFFICES ASSUME SearchInv, CompleteCombination PROVE SearchInv'
  OBVIOUS
<1> DEFINE menu == Menu(request)
<1>1. /\ request' = request /\ request \in Requests /\ evaluated \in Nat /\ evaluated' = evaluated + 1
      /\ combinations' = combinations \cup {Combination(path)}
      /\ IsPath(path, menu) /\ Covered(request) # {} /\ IsMenu(menu, CourseCount)
      /\ \A C \in combinations : \E q : IsPath(q, menu) /\ C = Combination(q)
  BY MenuIsMenu DEF SearchInv, CompleteCombination
<1>2. \A q : IsPath(q, menu) /\ (q = path \/ Earlier(q, path)) => Combination(q) \in combinations'
  BY <1>1 DEF SearchInv, CompleteCombination
<1>3. evaluated' \in Nat /\ \A C \in combinations' : \E q : IsPath(q, menu) /\ C = Combination(q)
  <2> HIDE DEF menu
  <2> QED
    BY <1>1
<1>4. request \in Accepted /\ request.limit \in Nat /\ evaluated' <= request.limit
  <2>1. request \in Accepted /\ evaluated < request.limit
    BY DEF SearchInv, CompleteCombination, InRun
  <2> QED
    BY <1>1, <2>1, AcceptedTyped
<1>5. CASE Open(path, menu) = {}
  <2>1. phase' = "searched"
    BY <1>5 DEF CompleteCombination
  <2>2. \A q : IsPath(q, menu) => q = path \/ Earlier(q, path)
    BY <1>1, <1>5, LastIsLast
  <2>3. Whole'
    BY <1>1, <1>2, <2>2 DEF Whole
  <2> QED
    BY <1>1, <1>3, <1>4, <2>1, <2>3 DEF SearchInv, InRun
<1>6. CASE Open(path, menu) # {} /\ ~ (evaluated' >= request.limit)
  <2>1. phase' = "searching" /\ path' = NextPath(path, menu)
    BY <1>6 DEF CompleteCombination
  <2>2. /\ IsPath(path', menu)
        /\ \A q : IsPath(q, menu) /\ Earlier(q, path') => q = path \/ Earlier(q, path)
    BY <1>1, <1>6, <2>1, NextIsNext
  <2>3. evaluated' < request.limit
    BY <1>3, <1>4, <1>6
  <2>4. \A q : IsPath(q, menu) /\ Earlier(q, path') => Combination(q) \in combinations'
    BY <1>2, <2>2
  <2> QED
    BY <1>1, <1>3, <1>4, <2>1, <2>2, <2>3, <2>4 DEF SearchInv, InRun
<1>7. CASE evaluated' >= request.limit
  <2>1. phase' = "searched"
    BY <1>7 DEF CompleteCombination
  <2>2. ~ (evaluated' < request'.limit)
    BY <1>1, <1>3, <1>4, <1>7
  <2> QED
    BY <1>1, <1>3, <1>4, <2>1, <2>2 DEF SearchInv, InRun
<1> QED
  BY <1>5, <1>6, <1>7

LEMMA SearchNext == SearchInv /\ [Next]_vars => SearchInv'
<1> SUFFICES ASSUME SearchInv, [Next]_vars PROVE SearchInv'
  OBVIOUS
<1>1. CASE RejectRequest
  BY <1>1, SearchAlone DEF RejectRequest
<1>2. CASE CreateRun
  <2>1. request \in Accepted
    BY <1>2 DEF CreateRun, Accepted, SearchInv
  <2> QED
    BY <1>2, <2>1, SearchAlone DEF CreateRun
<1>3. CASE CollectSections
  BY <1>3, SearchStarts
<1>4. CASE CompleteCombination
  BY <1>4, SearchCompletes
<1>5. CASE BuildDrafts
  BY <1>5, SearchAlone DEF BuildDrafts
<1>6. CASE RankOption
  BY <1>6, SearchAlone DEF RankOption
<1>7. CASE PersistRun
  BY <1>7, SearchAlone DEF PersistRun
<1>8. CASE CommitRun
  BY <1>8, SearchAlone DEF CommitRun
<1>9. CASE RollBack
  BY <1>9, SearchAlone DEF RollBack, InRun
<1>10. CASE RecordFailure
  BY <1>10, SearchAlone DEF RecordFailure
<1>11. CASE Crash
  BY <1>11, SearchAlone DEF Crash
<1>12. CASE UNCHANGED vars
  BY <1>12, SearchAlone DEF vars, search
<1> QED
  BY <1>1, <1>2, <1>3, <1>4, <1>5, <1>6, <1>7, <1>8, <1>9, <1>10, <1>11, <1>12 DEF Next, Done

LEMMA CombinationsTyped ==
  ASSUME SearchInv, NEW C \in combinations
  PROVE C \in SUBSET Sections
<1>1. PICK q : IsPath(q, Menu(request)) /\ C = Combination(q)
  BY DEF SearchInv
<1> QED
  BY <1>1, CombinationShape DEF SearchInv

\* The ranking stands still.
LEMMA RankAlone ==
  ASSUME RankInv, UNCHANGED <<request, combinations, ranking>>,
         \/ phase' = phase
         \/ phase' \in {"rolled back", "done"}
         \/ phase \in {"requested", "created"} /\ phase' \in {"created", "searching", "searched"}
         \/ phase = "ranking" /\ phase' = "persisted"
  PROVE RankInv'
BY DEF RankInv, ranking, Ranked, Behind

\* A draft moves from those that remain to the end of the list: neither is lost,
\* none is listed twice, and the order is kept.
LEMMA RankMoves == SearchInv /\ RankInv /\ RankOption => RankInv'
<1> SUFFICES ASSUME SearchInv, RankInv, RankOption PROVE RankInv'
  OBVIOUS
<1>1. PICK A \in remaining : /\ remaining' = remaining \ {A} /\ options' = Append(options, A)
                             /\ \A B \in remaining \ {A} : Before(A, B)
  BY DEF RankOption
<1>2. /\ phase = "ranking" /\ phase' = "ranking" /\ request' = request /\ combinations' = combinations
      /\ options \in Seq(SUBSET Sections) /\ Len(options) < request.count /\ request.count \in Int
  BY RequestTyped DEF RankOption, Ranks, search, RankInv, SearchInv
<1>3. A \in combinations /\ A \in SUBSET Sections
  BY <1>2, CombinationsTyped DEF RankInv
<1>4. PICK n \in Nat : n = Len(options)
  BY <1>2
<1>5. /\ DOMAIN options = 1..n /\ DOMAIN options' = 1..(n + 1) /\ Len(options') = n + 1
      /\ options'[n + 1] = A /\ \A i \in 1..n : options'[i] = options[i]
      /\ options' \in Seq(SUBSET Sections)
  BY <1>1, <1>2, <1>3, <1>4
<1>6. /\ n + 1 \in 1..(n + 1) /\ \A i : i \in 1..(n + 1) <=> i \in 1..n \/ i = n + 1
      /\ \A i \in 1..n : i < n + 1 /\ ~ (n + 1 < i)
      /\ ~ (n + 1 < n + 1)
  BY <1>4
<1>7. \A C : Ranked(C)' <=> Ranked(C) \/ C = A
  <2>1. \A C : (\E i \in DOMAIN options' : options'[i] = C) <=> (\E i \in DOMAIN options : options[i] = C) \/ C = A
    BY <1>5, <1>6, Zenon
  <2> QED
    BY <2>1, Zenon DEF Ranked
<1>8. Range(options') \subseteq combinations' /\ remaining' \subseteq combinations'
  <2>1. \A i \in DOMAIN options' : options'[i] \in combinations
    BY <1>3, <1>5, <1>6 DEF RankInv, Range
  <2> QED
    BY <1>1, <1>2, <2>1 DEF RankInv, Range
<1>9. \A C : C \in remaining' \/ Ranked(C)' <=> C \in combinations' /\ IsDraft(request', C)
  <2>1. \A C : C \in remaining \/ Ranked(C) <=> C \in remaining' \/ Ranked(C)'
    BY <1>1, <1>7
  <2> QED
    BY <1>2, <2>1 DEF RankInv
<1>10. Len(options') <= request.count
  BY <1>2, <1>4, <1>5
<1>11. ASSUME NEW i \in 1..n, NEW C PROVE Behind(i, C)' <=> Behind(i, C)
  <2>1. (\E j \in DOMAIN options' : i < j /\ options'[j] = C) <=>
          (\E j \in DOMAIN options : i < j /\ options[j] = C) \/ C = A
    BY <1>5, <1>6, Zenon
  <2> QED
    BY <1>1, <2>1 DEF Behind
<1>12. \A C : Behind(n + 1, C)' => C \in remaining \ {A}
  <2> SUFFICES ASSUME NEW C, Behind(n + 1, C)' PROVE C \in remaining'
    BY <1>1
  <2>1. ~ \E j \in DOMAIN options' : n + 1 < j /\ options'[j] = C
    BY <1>5, <1>6, Zenon
  <2> QED
    BY <2>1 DEF Behind
<1>13. ASSUME NEW i \in DOMAIN options' PROVE ~ Behind(i, options[i])'
  <2>1. CASE i \in 1..n
    BY <1>5, <1>11, <2>1 DEF RankInv
  <2>2. CASE i = n + 1
    BY <1>5, <1>12, <2>2
  <2> QED
    BY <1>5, <1>6, <2>1, <2>2
<1>14. \A i \in DOMAIN options' : i = 1 \/ request.diversity # "HIGH" =>
         \A C : Behind(i, C)' => Precedes(request, options'[i], C)
  <2> SUFFICES ASSUME NEW i \in DOMAIN options', i = 1 \/ request.diversity # "HIGH", NEW C, Behind(i, C)'
               PROVE Precedes(request, options'[i], C)
    OBVIOUS
  <2>1. CASE i \in 1..n
    BY <1>5, <1>11, <2>1 DEF RankInv
  <2>2. CASE i = n + 1
    <3>1. options'[i] = A /\ Before(A, C)
      BY <1>1, <1>5, <1>12, <2>2
    <3>2. options = <<>> \/ request.diversity # "HIGH"
      <4>1. i = 1 => n = 0
        BY <1>4, <2>2
      <4> QED
        BY <1>2, <1>4, <4>1
    <3> QED
      BY <3>1, <3>2 DEF Before
  <2> QED
    BY <1>5, <1>6, <2>1, <2>2
<1> QED
  BY <1>2, <1>5, <1>8, <1>9, <1>10, <1>13, <1>14 DEF RankInv

LEMMA RankNext == SearchInv /\ RankInv /\ [Next]_vars => RankInv'
<1> SUFFICES ASSUME SearchInv, RankInv, [Next]_vars PROVE RankInv'
  OBVIOUS
<1>1. CASE RejectRequest
  BY <1>1, RankAlone DEF RejectRequest, search
<1>2. CASE CreateRun
  BY <1>2, RankAlone DEF CreateRun, search
<1>3. CASE CollectSections
  BY <1>3, RankAlone DEF CollectSections
<1>4. CASE CompleteCombination
  <2>1. remaining = {} /\ options = <<>> /\ remaining' = {} /\ options' = <<>>
    BY <1>4 DEF CompleteCombination, RankInv, ranking
  <2>2. phase' \in {"searching", "searched"}
    BY <1>4 DEF CompleteCombination
  <2> QED
    BY <2>1, <2>2 DEF RankInv, Range, Behind
<1>5. CASE BuildDrafts
  <2>1. /\ remaining' = {C \in combinations : IsDraft(request, C)} /\ options' = options /\ options = <<>>
        /\ request' = request /\ combinations' = combinations /\ phase' = "ranking"
    BY <1>5 DEF BuildDrafts, RankInv, search
  <2>2. \A C : ~ Ranked(C)'
    BY <2>1 DEF Ranked
  <2>3. DOMAIN options' = {} /\ Range(options') = {}
    BY <2>1 DEF Range
  <2> QED
    BY <2>1, <2>2, <2>3 DEF RankInv
<1>6. CASE RankOption
  BY <1>6, RankMoves
<1>7. CASE PersistRun
  BY <1>7, RankAlone DEF PersistRun, search
<1>8. CASE CommitRun
  BY <1>8, RankAlone DEF CommitRun, search
<1>9. CASE RollBack
  BY <1>9, RankAlone DEF RollBack, search
<1>10. CASE RecordFailure
  BY <1>10, RankAlone DEF RecordFailure, search
<1>11. CASE Crash
  BY <1>11, RankAlone DEF Crash, search
<1>12. CASE UNCHANGED vars
  BY <1>12, RankAlone DEF vars, ranking
<1> QED
  BY <1>1, <1>2, <1>3, <1>4, <1>5, <1>6, <1>7, <1>8, <1>9, <1>10, <1>11, <1>12 DEF Next, Done

(* The notes and the rows *)

LEMMA AskedTyped ==
  ASSUME request \in Requests
  PROVE /\ \A codes : Refused(codes) \subseteq Sections
        /\ Uncovered \subseteq Courses /\ request.required \subseteq Sections
<1>1. Asked \subseteq Sections
  BY RequestTyped DEF Asked, Considered, OfCourse
<1>2. Uncovered \subseteq Courses
  BY RequestTyped, MenuIsMenu DEF Uncovered
<1>3. request.required \subseteq Sections
  BY RequestTyped DEF RequestType
<1> QED
  BY <1>1, <1>2, <1>3 DEF Refused

\* What the first look at the sections warns of.
LEMMA NoteStarts == SearchInv /\ NoteInv /\ CollectSections => NoteInv'
<1> SUFFICES ASSUME SearchInv, NoteInv, CollectSections PROVE NoteInv'
  OBVIOUS
<1> DEFINE sections == {Note("NO_SECTION_AVAILABLE", c) : c \in Uncovered}
           refusals == {Note(Refusal(request, s), s) : s \in Refused({"CLOSED", "MANUAL_REVIEW_REQUIRED", "PERMISSION_REQUIRED"})}
           dropped == {AtLimit : c \in request.wanted \ Kept(request)}
<1>1. /\ request' = request /\ request \in Requests /\ phase = "created" /\ phase' \in {"searching", "searched"}
      /\ warnings' = warnings \cup dropped \cup sections \cup refusals
  BY DEF CollectSections, SearchInv, AtLimit
<1>2. Refused({"CLOSED", "MANUAL_REVIEW_REQUIRED", "PERMISSION_REQUIRED"}) \subseteq Sections /\ Uncovered \subseteq Courses
  BY <1>1, AskedTyped
<1>3. ASSUME NEW note \in dropped \cup sections \cup refusals
      PROVE note \in ScheduleWarning /\ note.code # "NO_FEASIBLE_SCHEDULE_FOUND"
  <2>1. CASE note \in dropped
    BY <2>1 DEF ScheduleWarning, AtLimit, Note
  <2>2. CASE note \in sections
    BY <1>2, <2>2 DEF ScheduleWarning, Note
  <2>3. CASE note \in refusals
    <3>1. PICK s \in Refused({"CLOSED", "MANUAL_REVIEW_REQUIRED", "PERMISSION_REQUIRED"}) : note = Note(Refusal(request, s), s)
      BY <2>3
    <3>2. s \in Sections /\ Refusal(request, s) \in {"CLOSED", "MANUAL_REVIEW_REQUIRED", "PERMISSION_REQUIRED"}
      BY <1>2, <3>1 DEF Refused
    <3> HIDE DEF refusals
    <3> QED
      BY <3>1, <3>2 DEF ScheduleWarning, Note
  <2> QED
    BY <1>3, <2>1, <2>2, <2>3
<1>4. request.wanted # Kept(request) => AtLimit \in warnings'
  <2>1. request.wanted # Kept(request) => request.wanted \ Kept(request) # {}
    BY <1>1, MenuIsMenu
  <2> QED
    BY <1>1, <2>1
<1>5. conflicts' \subseteq ScheduleConflict
  <2>1. \A codes : Refused(codes) \subseteq Sections
    BY <1>1, AskedTyped
  <2>2. \A s \in Sections, code \in {"EXCLUDED_DAY", "UNAVAILABLE_TIME", "ELIGIBILITY_BLOCKED", "MANUAL_REVIEW_REQUIRED"} :
          Note(code, s) \in ScheduleConflict
    BY DEF ScheduleConflict, Note
  <2>3. Note("NO_SECTION_AVAILABLE", Everything) \in ScheduleConflict
    BY DEF ScheduleConflict, Note
  <2> QED
    BY <2>1, <2>2, <2>3 DEF CollectSections
<1> HIDE DEF sections, refusals, dropped
<1>6. /\ \A note \in warnings' : note \in ScheduleWarning /\ note.code # "NO_FEASIBLE_SCHEDULE_FOUND"
      /\ Note("NOT_OFFICIAL", Everything) \in warnings'
  BY <1>1, <1>3 DEF NoteInv, InRun
<1> QED
  BY <1>1, <1>4, <1>5, <1>6 DEF NoteInv

LEMMA NoteBuilds == SearchInv /\ NoteInv /\ BuildDrafts => NoteInv'
<1> SUFFICES ASSUME SearchInv, NoteInv, BuildDrafts PROVE NoteInv'
  OBVIOUS
<1>1. /\ request' = request /\ evaluated' = evaluated /\ phase = "searched" /\ phase' = "ranking"
      /\ warnings' = warnings \cup {AtLimit : flag \in {LimitReached} \cap {TRUE}}
      /\ conflicts' = conflicts \cup
           {Note(IF Clashes(C) THEN "TIME_OVERLAP" ELSE "CREDIT_LIMIT", Everything) :
              C \in {C \in combinations : Clashes(C) \/ Credits(C) > request.maximum}}
  BY DEF BuildDrafts, AtLimit, search
<1>2. AtLimit \in ScheduleWarning /\ AtLimit.code # "NO_FEASIBLE_SCHEDULE_FOUND"
  BY DEF AtLimit, Note, ScheduleWarning
<1>3. \A C : Note(IF Clashes(C) THEN "TIME_OVERLAP" ELSE "CREDIT_LIMIT", Everything) \in ScheduleConflict
  BY DEF Note, ScheduleConflict
<1>4. warnings' \subseteq ScheduleWarning /\ warnings \subseteq warnings' /\ \A note \in warnings' : note.code # "NO_FEASIBLE_SCHEDULE_FOUND"
  BY <1>1, <1>2 DEF NoteInv
<1>5. conflicts' \subseteq ScheduleConflict
  BY <1>1, <1>3 DEF NoteInv
<1>6. evaluated >= request.limit => AtLimit \in warnings'
  BY <1>1 DEF LimitReached
<1> QED
  BY <1>1, <1>4, <1>5, <1>6 DEF NoteInv, InRun

LEMMA NotePersists == SearchInv /\ NoteInv /\ PersistRun => NoteInv'
<1> SUFFICES ASSUME SearchInv, NoteInv, PersistRun PROVE NoteInv'
  OBVIOUS
<1>1. /\ request' = request /\ evaluated' = evaluated /\ options' = options /\ conflicts' = conflicts
      /\ phase = "ranking" /\ phase' = "persisted"
      /\ warnings' = IF options = <<>> THEN warnings \cup {NoneFound} ELSE warnings
  BY DEF PersistRun, NoneFound, search, ranking
<1>2. NoneFound \in ScheduleWarning /\ NoneFound.code = "NO_FEASIBLE_SCHEDULE_FOUND"
  BY DEF NoneFound, Note, ScheduleWarning
<1>3. /\ warnings' \subseteq ScheduleWarning /\ warnings \subseteq warnings'
      /\ options = <<>> <=> \E note \in warnings' : note.code = "NO_FEASIBLE_SCHEDULE_FOUND"
  BY <1>1, <1>2 DEF NoteInv
<1> QED
  BY <1>1, <1>3 DEF NoteInv, InRun

LEMMA NoteNext == SearchInv /\ RankInv /\ NoteInv /\ [Next]_vars => NoteInv'
<1> SUFFICES ASSUME SearchInv, RankInv, NoteInv, [Next]_vars PROVE NoteInv'
  OBVIOUS
<1>1. CASE RejectRequest
  BY <1>1 DEF RejectRequest, NoteInv, notes, InRun
<1>2. CASE CreateRun
  <2>1. warnings' \subseteq ScheduleWarning /\ \A note \in warnings' : note.code # "NO_FEASIBLE_SCHEDULE_FOUND"
    BY <1>2 DEF CreateRun, ScheduleWarning, Note
  <2>2. Note("NOT_OFFICIAL", Everything) \in warnings' /\ conflicts' = conflicts /\ phase' = "created"
    BY <1>2 DEF CreateRun
  <2> QED
    BY <2>1, <2>2 DEF NoteInv
<1>3. CASE CollectSections
  BY <1>3, NoteStarts
<1>4. CASE CompleteCombination
  BY <1>4 DEF CompleteCombination, NoteInv, notes, InRun
<1>5. CASE BuildDrafts
  BY <1>5, NoteBuilds
<1>6. CASE RankOption
  BY <1>6 DEF RankOption, Ranks, NoteInv, notes, search, InRun
<1>7. CASE PersistRun
  BY <1>7, NotePersists
<1>8. CASE CommitRun
  BY <1>8 DEF CommitRun, NoteInv, notes, InRun
<1>9. CASE RollBack
  BY <1>9 DEF RollBack, NoteInv, notes, InRun
<1>10. CASE RecordFailure
  BY <1>10 DEF RecordFailure, NoteInv, notes, InRun
<1>11. CASE Crash
  BY <1>11 DEF Crash, NoteInv, notes, InRun
<1>12. CASE UNCHANGED vars
  BY <1>12 DEF vars, NoteInv
<1> QED
  BY <1>1, <1>2, <1>3, <1>4, <1>5, <1>6, <1>7, <1>8, <1>9, <1>10, <1>11, <1>12 DEF Next, Done

\* The rows of the open transaction are those of the run, and become visible whole.
LEMMA RowNext == RowInv /\ [Next]_vars => RowInv'
<1> SUFFICES ASSUME RowInv, [Next]_vars PROVE RowInv'
  OBVIOUS
<1>1. CASE RejectRequest
  BY <1>1 DEF RejectRequest, RowInv, InRun
<1>2. CASE CreateRun
  BY <1>2 DEF CreateRun, RowInv, Opened, InRun
<1>3. CASE CollectSections
  BY <1>3 DEF CollectSections, RowInv, Opened, InRun
<1>4. CASE CompleteCombination
  BY <1>4 DEF CompleteCombination, RowInv, Opened, InRun
<1>5. CASE BuildDrafts
  BY <1>5 DEF BuildDrafts, RowInv, Opened, InRun
<1>6. CASE RankOption
  BY <1>6 DEF RankOption, Ranks, RowInv, Opened, InRun
<1>7. CASE PersistRun
  <2>1. /\ phase = "ranking" /\ phase' = "persisted" /\ request' = request /\ options' = options /\ remaining' = remaining
        /\ conflicts' = conflicts /\ db' = db /\ session = Opened /\ db = Nothing
    BY <1>7 DEF PersistRun, RowInv, InRun, ranking
  <2>2. session' = [session EXCEPT !.options = StoredOptions, !.warnings = warnings', !.conflicts = conflicts, !.repairs = RepairSuggestions]
    BY <1>7 DEF PersistRun, StoredOptions
  <2>3. StoredOptions' = StoredOptions /\ RepairSuggestions' = RepairSuggestions
    BY <2>1 DEF StoredOptions, Stored, RepairSuggestions, About
  <2>4. session' = Filled("RUNNING")'
    BY <2>1, <2>2, <2>3 DEF Filled, Opened, Row
  <2>5. remaining = {} \/ ~ (Len(options) < request.count)
    BY <1>7 DEF PersistRun, Ranks
  <2> QED
    BY <2>1, <2>4, <2>5 DEF RowInv, InRun
<1>8. CASE CommitRun
  BY <1>8 DEF CommitRun, RowInv, InRun
<1>9. CASE RollBack
  BY <1>9 DEF RollBack, RowInv, InRun
<1>10. CASE RecordFailure
  BY <1>10 DEF RecordFailure, RowInv, InRun
<1>11. CASE Crash
  BY <1>11 DEF Crash, RowInv, InRun
<1>12. CASE UNCHANGED vars
  <2>1. StoredOptions' = StoredOptions /\ RepairSuggestions' = RepairSuggestions
    BY <1>12 DEF vars, StoredOptions, Stored, RepairSuggestions, About
  <2>2. Filled("RUNNING")' = Filled("RUNNING") /\ Opened' = Opened
    BY <1>12, <2>1 DEF vars, Filled, Opened
  <2> QED
    BY <1>12, <2>2 DEF vars, RowInv
<1> QED
  BY <1>1, <1>2, <1>3, <1>4, <1>5, <1>6, <1>7, <1>8, <1>9, <1>10, <1>11, <1>12 DEF Next, Done

LEMMA WorkNext == WorkInv /\ [Next]_vars => WorkInv'
BY SearchNext, RankNext, NoteNext, RowNext DEF WorkInv

LEMMA Init_Work == Init => WorkInv
<1> SUFFICES ASSUME Init PROVE WorkInv
  OBVIOUS
<1>1. options = <<>> /\ DOMAIN options = {} /\ Range(options) = {}
  BY DEF Init, Range
<1>2. SearchInv
  BY DEF Init, SearchInv, InRun
<1>3. RankInv
  BY <1>1 DEF Init, RankInv
<1>4. NoteInv /\ RowInv
  BY DEF Init, NoteInv, RowInv, InRun
<1> QED
  BY <1>2, <1>3, <1>4 DEF WorkInv

(* The tables accept what is flushed *)

LEMMA RepairsTyped ==
  ASSUME request \in Accepted, conflicts \subseteq ScheduleConflict
  PROVE RepairSuggestions \subseteq ScheduleRepairSuggestion
<1>1. \A codes : About(codes) \subseteq {Everything} \cup Sections
  BY DEF About, ScheduleConflict
<1>2. request.required \subseteq Sections /\ ~ (request.minimum > request.maximum)
  <2>1. request \in Requests /\ ScheduleOptimizationRun(request)
    BY AcceptedTyped
  <2> QED
    BY <2>1, AskedTyped, RequestTyped DEF ScheduleOptimizationRun
<1>3. \A x \in {Everything} \cup Sections :
        \A code \in {"RELAX_EXCLUDED_DAY", "ALLOW_PERMISSION_REQUIRED", "INCREASE_MAX_CREDITS", "RELAX_UNAVAILABLE_BLOCK",
                     "REMOVE_REQUIRED_SECTION"} : Note(code, x) \in ScheduleRepairSuggestion
  BY DEF Note, ScheduleRepairSuggestion
<1> QED
  BY <1>1, <1>2, <1>3 DEF RepairSuggestions

LEMMA StoredTyped ==
  ASSUME request \in Requests, NEW C \in combinations, SearchInv
  PROVE /\ Stored(C) \in ScheduleOption /\ ScheduleOptionSection(Stored(C))
        /\ Stored(C).sections = C /\ Stored(C).status = Status(request, C) /\ Stored(C).status # "INFEASIBLE"
<1>1. PICK q : IsPath(q, Menu(request)) /\ C = Combination(q)
  BY DEF SearchInv
<1>2. C \in SUBSET Sections /\ \A s, t \in C : courseOf[s] = courseOf[t] => s = t
  BY <1>1, CombinationShape
<1>3. Status(request, C) \in {"FEASIBLE", "FEASIBLE_WITH_WARNINGS", "PARTIAL"} /\ Doubtful(request, C) \in SUBSET Sections
  BY <1>2, StatusShape DEF Doubtful
<1> QED
  BY <1>2, <1>3 DEF Stored, ScheduleOption, ScheduleOptionSection

\* The options of the rows are the list, or the placeholder when the list is empty.
LEMMA OptionsShape ==
  ASSUME options \in Seq(SUBSET Sections)
  PROVE /\ options = <<>> => /\ StoredOptions = <<Placeholder>> /\ DOMAIN StoredOptions = {1} /\ Len(StoredOptions) = 1
                             /\ DOMAIN options = {} /\ Len(options) = 0
        /\ options # <<>> => /\ DOMAIN StoredOptions = DOMAIN options /\ Len(StoredOptions) = Len(options)
                             /\ Len(options) > 0 /\ 1 \in DOMAIN options
                             /\ \A i \in DOMAIN options : StoredOptions[i] = Stored(options[i])
        /\ StoredOptions # <<>> /\ Len(options) \in Nat /\ DOMAIN options = 1..Len(options)
<1>1. CASE options = <<>>
  BY <1>1 DEF StoredOptions
<1>2. CASE options # <<>>
  <2>1. PICK n \in Nat : n = Len(options) /\ DOMAIN options = 1..n
    OBVIOUS
  <2>2. n > 0
    BY <1>2, <2>1
  <2>3. StoredOptions = [i \in 1..n |-> Stored(options[i])]
    BY <1>2, <2>1 DEF StoredOptions
  <2>4. DOMAIN StoredOptions = 1..n /\ Len(StoredOptions) = n /\ StoredOptions # <<>>
    BY <2>1, <2>2, <2>3, SMTT(60)
  <2> QED
    BY <1>2, <2>1, <2>2, <2>3, <2>4
<1> QED
  BY <1>1, <1>2

LEMMA FilledInsertable ==
  ASSUME WorkInv, request \in Accepted, NEW status \in {"RUNNING", "COMPLETED", "COMPLETED_WITH_WARNINGS"}
  PROVE Insertable(Filled(status))
<1>1. /\ request \in Requests /\ options \in Seq(SUBSET Sections) /\ Range(options) \subseteq combinations /\ SearchInv
      /\ warnings \subseteq ScheduleWarning /\ conflicts \subseteq ScheduleConflict
  BY DEF WorkInv, SearchInv, RankInv, NoteInv
<1>2. ASSUME NEW i \in DOMAIN StoredOptions
      PROVE StoredOptions[i] \in ScheduleOption /\ ScheduleOptionSection(StoredOptions[i])
  <2>1. CASE options = <<>>
    <3>1. StoredOptions[i] = Placeholder
      BY <1>1, <2>1, OptionsShape
    <3> QED
      BY <3>1 DEF Placeholder, ScheduleOption, ScheduleOptionSection
  <2>2. CASE options # <<>>
    <3>1. StoredOptions[i] = Stored(options[i]) /\ options[i] \in combinations
      BY <1>1, <2>2, OptionsShape DEF Range
    <3> QED
      BY <1>1, <3>1, StoredTyped
  <2> QED
    BY <2>1, <2>2
<1>3. ScheduleConstraintSet(request) /\ ScheduleOptimizationRun(request)
  BY AcceptedTyped
<1>4. RepairSuggestions \subseteq ScheduleRepairSuggestion
  BY <1>1, RepairsTyped
<1> DEFINE rows == Filled(status)
<1>5. /\ rows.status = status /\ rows.options = StoredOptions /\ rows.warnings = warnings /\ rows.conflicts = conflicts
      /\ rows.repairs = RepairSuggestions
  BY DEF Filled
<1> HIDE DEF rows
<1>6. Insertable(rows)
  BY <1>1, <1>2, <1>3, <1>4, <1>5 DEF Insertable
<1> QED
  BY <1>6 DEF rows

(* What is committed *)

Inv ==
  /\ WorkInv
  /\ db # Nothing => request \in Accepted /\ Insertable(db)
  /\ HardConstraintsHold /\ FeasibleIsFull /\ ShortListIsAll /\ BestComeFirst /\ RunStoredWhole

\* The options of a run are the ranked drafts, or the placeholder when there are none.
LEMMA CommitsOptions ==
  ASSUME WorkInv, CommitRun
  PROVE /\ request' = request /\ request \in Accepted /\ request \in Requests /\ phase = "persisted"
        /\ \E status \in {"COMPLETED", "COMPLETED_WITH_WARNINGS"} : db' = Filled(status)
        /\ db'.options = StoredOptions /\ warnings = db'.warnings /\ db'.constraints = ConstraintSet(request)
        /\ options \in Seq(SUBSET Sections)
        /\ \A i \in DOMAIN options : Stored(options[i]).sections = options[i]
        /\ Proposed' = {Stored(options[i]) : i \in DOMAIN options}
        /\ \A option \in Proposed' : \E q : /\ IsPath(q, Menu(request)) /\ option = Stored(Combination(q))
                                            /\ IsDraft(request, Combination(q))
<1>1. /\ phase = "persisted" /\ session = Filled("RUNNING") /\ request' = request /\ request \in Accepted
      /\ options \in Seq(SUBSET Sections) /\ request \in Requests /\ SearchInv /\ Range(options) \subseteq combinations
  BY DEF WorkInv, SearchInv, RankInv, RowInv, CommitRun, InRun
<1>2. PICK status \in {"COMPLETED", "COMPLETED_WITH_WARNINGS"} : db' = [session EXCEPT !.status = status]
  BY DEF CommitRun
<1>3. db' = Filled(status)
  BY <1>1, <1>2 DEF Filled
<1>4. db'.options = StoredOptions /\ warnings = db'.warnings /\ db'.constraints = ConstraintSet(request)
  BY <1>3 DEF Filled
<1>5. ASSUME NEW i \in DOMAIN options
      PROVE options[i] \in combinations /\ Stored(options[i]).sections = options[i] /\ Stored(options[i]).status # "INFEASIBLE"
  <2>1. options[i] \in combinations
    BY <1>1 DEF Range
  <2> QED
    BY <1>1, <2>1, StoredTyped
<1>6. Proposed' = {option \in {StoredOptions[i] : i \in DOMAIN StoredOptions} : option.status # "INFEASIBLE"}
  <2>1. Proposed' = {option \in {db'.options[i] : i \in DOMAIN db'.options} : option.status # "INFEASIBLE"}
    BY DEF Proposed
  <2> QED
    BY <1>4, <2>1
<1>7. Proposed' = {Stored(options[i]) : i \in DOMAIN options}
  <2>1. CASE options = <<>>
    <3>1. DOMAIN StoredOptions = {1} /\ StoredOptions[1] = Placeholder /\ DOMAIN options = {}
      BY <1>1, <2>1, OptionsShape
    <3>2. Placeholder.status = "INFEASIBLE"
      BY DEF Placeholder
    <3> QED
      BY <1>6, <3>1, <3>2
  <2>2. CASE options # <<>>
    <3>1. DOMAIN StoredOptions = DOMAIN options /\ \A i \in DOMAIN options : StoredOptions[i] = Stored(options[i])
      BY <1>1, <2>2, OptionsShape
    <3> QED
      BY <1>5, <1>6, <3>1
  <2> QED
    BY <2>1, <2>2
<1>8. ASSUME NEW option \in Proposed'
      PROVE \E q : /\ IsPath(q, Menu(request)) /\ option = Stored(Combination(q))
                   /\ IsDraft(request, Combination(q))
  <2>1. PICK i \in DOMAIN options : option = Stored(options[i])
    BY <1>7
  <2>2. options[i] \in combinations /\ IsDraft(request, options[i])
    BY <1>1 DEF WorkInv, RankInv, Ranked
  <2>3. PICK q : IsPath(q, Menu(request)) /\ options[i] = Combination(q)
    BY <2>2 DEF WorkInv, SearchInv
  <2> QED
    BY <2>1, <2>2, <2>3
<1> QED
  BY <1>1, <1>3, <1>4, <1>5, <1>7, <1>8

LEMMA DraftIsLegal ==
  ASSUME NEW r \in Requests, NEW q, IsPath(q, Menu(r)), IsDraft(r, Combination(q))
  PROVE Legal(r, Combination(q))
<1> DEFINE C == Combination(q)
<1>1. /\ \A s \in C : MayHold(r, s) /\ s \in Sections
      /\ \A s, t \in C : courseOf[s] = courseOf[t] => s = t
  BY CombinationShape
<1>2. ~ Clashes(C) /\ Credits(C) <= r.maximum
  BY DEF IsDraft
<1> HIDE DEF C
<1>3. Legal(r, C)
  BY <1>1, <1>2 DEF Legal, Clashes
<1> QED
  BY <1>3 DEF C

\* A required section that binds is the only one its course offers to the search.
LEMMA RequiredIsHeld ==
  ASSUME NEW r \in Requests, NEW q, IsPath(q, Menu(r)), NEW s \in Sections, Binding(r, s),
         {courseOf[t] : t \in Combination(q)} = Kept(r)
  PROVE s \in Combination(q)
<1>1. PICK t \in Combination(q) : courseOf[t] = courseOf[s]
  BY DEF Binding
<1>2. t \in Sections /\ MayHold(r, t)
  BY <1>1, CombinationShape
<1>3. t \in r.required /\ t \in r.offered
  BY <1>1, <1>2 DEF Binding, MayHold
<1>4. t = s
  BY <1>1, <1>3 DEF Binding
<1> QED
  BY <1>1, <1>4

LEMMA CommitsLegal == WorkInv /\ CommitRun => HardConstraintsHold'
<1> SUFFICES ASSUME WorkInv, CommitRun, NEW option \in Proposed'
             PROVE /\ Legal(request, option.sections)'
                   /\ option.status # "PARTIAL" =>
                        \A s \in Sections : Binding(request, s)' => s \in option.sections
  BY DEF HardConstraintsHold
<1>1. PICK q : IsPath(q, Menu(request)) /\ option = Stored(Combination(q)) /\ IsDraft(request, Combination(q))
  BY CommitsOptions
<1>2. /\ option.sections = Combination(q) /\ option.status = Status(request, Combination(q))
      /\ request' = request /\ request \in Requests
  BY <1>1, CommitsOptions DEF Stored
<1>3. Legal(request, Combination(q))
  BY <1>1, <1>2, DraftIsLegal
<1>4. ASSUME option.status # "PARTIAL", NEW s \in Sections, Binding(request, s) PROVE s \in Combination(q)
  <2>1. {courseOf[t] : t \in Combination(q)} = Kept(request)
    BY <1>1, <1>2, <1>4, CompleteIsFull
  <2> QED
    BY <1>1, <1>2, <1>4, <2>1, RequiredIsHeld
<1> QED
  BY <1>2, <1>3, <1>4

LEMMA CommitsFull == WorkInv /\ CommitRun => FeasibleIsFull'
<1> SUFFICES ASSUME WorkInv, CommitRun, NEW option \in Proposed', option.status # "PARTIAL"
             PROVE /\ Full(request, option.sections)' \/ Warned("LIMIT_REACHED")'
                   /\ Credits(option.sections) >= request.minimum
  BY DEF FeasibleIsFull, CommitRun
<1>1. PICK q : IsPath(q, Menu(request)) /\ option = Stored(Combination(q))
  BY CommitsOptions
<1>2. /\ option.sections = Combination(q) /\ Status(request, Combination(q)) # "PARTIAL"
      /\ request' = request /\ request \in Requests
  BY <1>1, CommitsOptions DEF Stored
<1>3. {courseOf[s] : s \in Combination(q)} = Kept(request) /\ Credits(Combination(q)) >= request.minimum
  BY <1>1, <1>2, CompleteIsFull
<1>4. request.wanted = Kept(request) \/ AtLimit \in db'.warnings
  BY CommitsOptions DEF WorkInv, NoteInv
<1>5. AtLimit \in db'.warnings => Warned("LIMIT_REACHED")'
  BY DEF AtLimit, Note, Warned
<1>6. request.wanted = Kept(request) => Full(request, Combination(q))
  BY <1>3 DEF Full
<1> QED
  BY <1>2, <1>3, <1>4, <1>5, <1>6

\* With no limit reported, what may be shown is remaining or ranked.
LEMMA ShowableIsRanked ==
  ASSUME WorkInv, CommitRun, SearchedAll', NEW C \in SUBSET Sections, Showable(request, C), C # {}
  PROVE C \in remaining \/ Ranked(C)
<1>1. /\ request \in Requests /\ request \in Accepted /\ request' = request /\ phase = "persisted"
      /\ options \in Seq(SUBSET Sections) /\ db'.warnings = warnings
  BY CommitsOptions
<1>2. AtLimit \notin warnings
  BY <1>1 DEF SearchedAll, Warned, AtLimit, Note
<1>3. NothingCut(request) /\ evaluated < request.limit
  <2>1. request.wanted = Kept(request) /\ ~ (evaluated >= request.limit)
    BY <1>1, <1>2 DEF WorkInv, NoteInv
  <2>2. evaluated \in Nat /\ request.limit \in Int
    BY <1>1, RequestTyped DEF WorkInv, SearchInv
  <2>3. \A c \in Courses : Cardinality({s \in Sections : MayHold(request, s) /\ courseOf[s] = c}) <= MaxSections
    BY <1>1 DEF SearchedAll
  <2> QED
    BY <2>1, <2>2, <2>3 DEF NothingCut
<1>4. PICK q : IsPath(q, Menu(request)) /\ C = Combination(q)
  BY <1>1, <1>3, ShowableIsFound
<1>5. Covered(request) # {}
  <2>1. {courseOf[s] : s \in C} = Covered(request)
    BY <1>1, <1>4, CombinationShape
  <2>2. PICK s : s \in C
    OBVIOUS
  <2>3. courseOf[s] \in {courseOf[t] : t \in C}
    BY <2>2, Zenon
  <2> QED
    BY <2>1, <2>3, Zenon
<1>6. Whole
  BY <1>1, <1>3, <1>5 DEF WorkInv, SearchInv
<1>7. C \in combinations /\ IsDraft(request, C)
  BY <1>1, <1>3, <1>4, <1>6, ShowableIsFound DEF Whole
<1> QED
  BY <1>1, <1>7 DEF WorkInv, RankInv

\* Nothing remains unless the list has as many options as asked for.
LEMMA NothingRemains ==
  ASSUME WorkInv, CommitRun, options = <<>> \/ Len(options) < request.count
  PROVE remaining = {}
<1>1. remaining = {} \/ ~ (Len(options) < request.count)
  BY CommitsOptions DEF WorkInv, RowInv
<1>2. options = <<>> => Len(options) < request.count
  <2>1. request.count \in 1..20
    BY CommitsOptions, AcceptedTyped
  <2> QED
    BY <2>1, SMTT(60)
<1> QED
  BY <1>1, <1>2

LEMMA CommitsAll == WorkInv /\ CommitRun => ShortListIsAll'
<1> SUFFICES ASSUME WorkInv, CommitRun, SearchedAll', Proposed' = {} \/ (Len(db.options) < request.count)',
                    NEW C \in SUBSET Sections, Showable(request, C), C # {}
             PROVE \E option \in Proposed' : option.sections = C
  BY CommitsOptions DEF ShortListIsAll
<1>1. /\ request' = request /\ db'.options = StoredOptions /\ options \in Seq(SUBSET Sections)
      /\ Proposed' = {Stored(options[i]) : i \in DOMAIN options}
      /\ \A i \in DOMAIN options : Stored(options[i]).sections = options[i]
  BY CommitsOptions
<1>2. options = <<>> \/ Len(options) < request.count
  <2>1. options # <<>> => Proposed' # {} /\ Len(StoredOptions) = Len(options)
    BY <1>1, OptionsShape
  <2> QED
    BY <1>1, <2>1
<1>3. Ranked(C)
  BY <1>2, ShowableIsRanked, NothingRemains
<1>4. PICK i \in DOMAIN options : options[i] = C
  BY <1>3 DEF Ranked
<1> QED
  BY <1>1, <1>4

(* The order of the list *)

LEMMA KeyTyped ==
  ASSUME NEW r \in Requests, NEW C \in SUBSET Sections
  PROVE /\ Key(r, C) \in [1..3 -> Int] /\ r.score[C] \in Nat /\ Credits(C) \in Nat
        /\ StatusRank(Status(r, C)) \in Nat
        /\ Key(r, C)[1] = StatusRank(Status(r, C)) /\ Key(r, C)[2] = - r.score[C] /\ Key(r, C)[3] = - Credits(C)
<1>1. r.score[C] \in Nat
  BY DEF RequestType
<1>2. Credits(C) \in Nat
  BY CreditsTyped
<1>3. StatusRank(Status(r, C)) \in Nat
  BY StatusShape DEF StatusRank
<1> DEFINE a == StatusRank(Status(r, C))
           b == - r.score[C]
           c == - Credits(C)
<1>4. a \in Int /\ b \in Int /\ c \in Int
  BY <1>1, <1>2, <1>3
<1>5. Key(r, C) = [i \in 1..3 |-> CASE i = 1 -> a [] i = 2 -> b [] i = 3 -> c]
  BY DEF Key
<1> HIDE DEF a, b, c
<1>6. Key(r, C) \in [1..3 -> Int] /\ Key(r, C)[1] = a /\ Key(r, C)[2] = b /\ Key(r, C)[3] = c
  BY <1>4, <1>5
<1> QED
  BY <1>1, <1>2, <1>3, <1>6 DEF a, b, c

\* What outranks an option is not sorted behind it.
LEMMA OutranksIsBefore ==
  ASSUME NEW r \in Requests, NEW A \in SUBSET Sections, NEW B \in SUBSET Sections, Outranks(r, A, B)
  PROVE ~ Precedes(r, B, A) /\ A # B
<1> DEFINE x == Key(r, A)
           y == Key(r, B)
<1>1. x \in [1..3 -> Int] /\ y \in [1..3 -> Int]
  BY KeyTyped
<1>2. \/ x[1] < y[1]
      \/ x[1] = y[1] /\ x[2] < y[2]
      \/ x[1] = y[1] /\ x[2] = y[2] /\ x[3] < y[3]
  <2>1. /\ r.score[A] \in Nat /\ r.score[B] \in Nat /\ Credits(A) \in Nat /\ Credits(B) \in Nat
        /\ x[1] = StatusRank(Status(r, A)) /\ x[2] = - r.score[A] /\ x[3] = - Credits(A)
        /\ y[1] = StatusRank(Status(r, B)) /\ y[2] = - r.score[B] /\ y[3] = - Credits(B)
    BY KeyTyped
  <2> HIDE DEF x, y
  <2>2. \/ x[1] < y[1]
        \/ x[1] = y[1] /\ r.score[A] > r.score[B]
        \/ x[1] = y[1] /\ r.score[A] = r.score[B] /\ Credits(A) > Credits(B)
    BY <2>1 DEF Outranks
  <2>3. r.score[A] > r.score[B] => x[2] < y[2]
    BY <2>1
  <2>4. Credits(A) > Credits(B) => x[3] < y[3]
    BY <2>1
  <2> QED
    BY <2>1, <2>2, <2>3, <2>4
<1>3. x # y /\ ~ Earlier(y, x)
  <2> HIDE DEF x, y
  <2>1. x # y
    BY <1>1, <1>2
  <2>2. ASSUME NEW g \in 1..3, y[g] < x[g], \A h \in 1..3 : h < g => y[h] = x[h] PROVE FALSE
    <3>1. g = 1 \/ g = 2 \/ g = 3
      OBVIOUS
    <3>2. x[1] \in Int /\ x[2] \in Int /\ x[3] \in Int /\ y[1] \in Int /\ y[2] \in Int /\ y[3] \in Int
      BY <1>1
    <3> QED
      BY <1>2, <2>2, <3>1, <3>2
  <2> QED
    BY <1>1, <2>1, <2>2 DEF Earlier
<1> QED
  BY <1>3 DEF Precedes

LEMMA CommitsBest == WorkInv /\ CommitRun => BestComeFirst'
<1> SUFFICES ASSUME WorkInv, CommitRun PROVE BestComeFirst'
  OBVIOUS
<1>0. request' = request
  BY CommitsOptions
<1> SUFFICES ASSUME SearchedAll', NEW i \in DOMAIN db'.options, i = 1 \/ request.diversity # "HIGH",
                    NEW C \in SUBSET Sections, Showable(request, C), C # {}, Outranks(request, C, db'.options[i].sections)
             PROVE \E j \in 1..(i - 1) : C = db'.options[j].sections
  BY <1>0 DEF BestComeFirst
<1>1. /\ request \in Requests /\ db'.options = StoredOptions /\ options \in Seq(SUBSET Sections)
      /\ \A j \in DOMAIN options : Stored(options[j]).sections = options[j]
  BY CommitsOptions
<1>2. C \in remaining \/ Ranked(C)
  BY ShowableIsRanked
<1>3. options # <<>>
  <2> SUFFICES ASSUME options = <<>> PROVE FALSE
    OBVIOUS
  <2>1. remaining = {}
    BY NothingRemains
  <2>2. ~ Ranked(C)
    BY DEF Ranked
  <2> QED
    BY <1>2, <2>1, <2>2
<1>4. PICK n \in Nat : n = Len(options) /\ DOMAIN options = 1..n
  BY <1>1
<1>5. /\ i \in 1..n /\ \A j \in 1..n : db'.options[j].sections = options[j]
      /\ options[i] \in SUBSET Sections
  <2>1. DOMAIN StoredOptions = 1..n /\ \A j \in 1..n : StoredOptions[j] = Stored(options[j])
    BY <1>1, <1>3, <1>4, OptionsShape
  <2>2. \A j \in 1..n : options[j] \in SUBSET Sections
    BY <1>1, <1>4
  <2> QED
    BY <1>1, <1>4, <2>1, <2>2
<1>6. ~ Precedes(request, options[i], C) /\ C # options[i]
  BY <1>1, <1>5, OutranksIsBefore
<1>7. ~ Behind(i, C)
  BY <1>4, <1>5, <1>6 DEF WorkInv, RankInv
<1>8. PICK j \in 1..n : options[j] = C
  BY <1>2, <1>4, <1>7 DEF Ranked, Behind
<1>9. ~ (i < j) /\ j # i
  BY <1>4, <1>6, <1>7, <1>8 DEF Behind
<1>10. j \in 1..(i - 1)
  BY <1>5, <1>9, SMTT(60)
<1> QED
  BY <1>5, <1>8, <1>10

\* A committed run has its constraints, its options once each, and its warnings.
LEMMA CommitsWhole == WorkInv /\ CommitRun => RunStoredWhole' /\ Insertable(db)' /\ (request \in Accepted)'
<1> SUFFICES ASSUME WorkInv, CommitRun PROVE RunStoredWhole' /\ Insertable(db)' /\ (request \in Accepted)'
  OBVIOUS
<1>1. /\ request' = request /\ request \in Accepted /\ request \in Requests /\ phase = "persisted"
      /\ db'.options = StoredOptions /\ warnings = db'.warnings /\ db'.constraints = ConstraintSet(request)
      /\ options \in Seq(SUBSET Sections)
      /\ \A i \in DOMAIN options : Stored(options[i]).sections = options[i]
      /\ Proposed' = {Stored(options[i]) : i \in DOMAIN options}
  BY CommitsOptions
<1>2. PICK status \in {"COMPLETED", "COMPLETED_WITH_WARNINGS"} : db' = Filled(status)
  BY CommitsOptions
<1>3. Insertable(db)'
  <2>1. Insertable(Filled(status))
    BY <1>1, FilledInsertable
  <2>2. Insertable(db') <=> Insertable(db)'
    BY <1>1 DEF Insertable
  <2> QED
    BY <1>2, <2>1, <2>2 DEF Insertable
<1>4. db' = Nothing \/ Completed'
  <2>1. db'.status = status
    BY <1>2 DEF Filled
  <2> QED
    BY <2>1 DEF Completed
<1>5. PICK n \in Nat : n = Len(options) /\ DOMAIN options = 1..n
  BY <1>1
<1>6. \A i, j \in DOMAIN options : i # j => options[i] # options[j]
  <2>1. \A i, j \in 1..n : i # j => i < j \/ j < i
    OBVIOUS
  <2>2. \A i, j \in DOMAIN options : i < j => options[i] # options[j]
    BY DEF WorkInv, RankInv, Behind
  <2> QED
    BY <1>5, <2>1, <2>2
<1>7. \A i, j \in DOMAIN db'.options : i # j => db'.options[i].sections # db'.options[j].sections
  <2>1. CASE options = <<>>
    BY <1>1, <2>1, OptionsShape
  <2>2. CASE options # <<>>
    <3>1. DOMAIN StoredOptions = DOMAIN options /\ \A i \in DOMAIN options : StoredOptions[i].sections = options[i]
      BY <1>1, <2>2, OptionsShape
    <3> QED
      BY <1>1, <1>6, <3>1
  <2> QED
    BY <2>1, <2>2
<1>8. Len(db'.options) \in 1..request.count
  <2>1. request.count \in 1..20 /\ (options # <<>> => Len(options) <= request.count)
    BY <1>1, AcceptedTyped DEF WorkInv, RankInv
  <2>2. Len(StoredOptions) = IF options = <<>> THEN 1 ELSE n
    BY <1>1, <1>5, OptionsShape
  <2>3. options # <<>> => n > 0
    BY <1>1, <1>5
  <2> QED
    BY <1>1, <1>5, <2>1, <2>2, <2>3, SMTT(60)
<1>9. Proposed' = {} <=> options = <<>>
  BY <1>1, <1>5
<1>10. Warned("NO_FEASIBLE_SCHEDULE_FOUND")' <=> options = <<>>
  BY <1>1 DEF Warned, WorkInv, NoteInv
<1>11. OptionsDistinct'
  BY <1>1, <1>7, <1>8, <1>9, <1>10 DEF OptionsDistinct
<1>12. db'.options # <<>> /\ Note("NOT_OFFICIAL", Everything) \in db'.warnings /\ Rejection(request) = "none"
  BY <1>1, OptionsShape DEF WorkInv, NoteInv, InRun, Accepted
<1> QED
  BY <1>1, <1>3, <1>4, <1>11, <1>12 DEF RunStoredWhole

LEMMA Init_Inv == Init => Inv
<1> SUFFICES ASSUME Init PROVE Inv
  OBVIOUS
<1>1. WorkInv
  BY Init_Work
<1>2. ~ Completed /\ db = Nothing
  BY DEF Init, Completed
<1> QED
  BY <1>1, <1>2 DEF Inv, HardConstraintsHold, FeasibleIsFull, ShortListIsAll, BestComeFirst, RunStoredWhole, OptionsDistinct

LEMMA Inv_Next == Inv /\ [Next]_vars => Inv'
<1> SUFFICES ASSUME Inv, [Next]_vars PROVE Inv'
  OBVIOUS
<1>1. WorkInv'
  BY WorkNext DEF Inv
<1>2. CASE CommitRun
  BY <1>1, <1>2, CommitsLegal, CommitsFull, CommitsAll, CommitsBest, CommitsWhole DEF Inv
<1>3. CASE RecordFailure
  <2>1. db' = Row("FAILED") /\ request' = request /\ request \in Accepted
    BY <1>3 DEF RecordFailure, Inv, WorkInv, SearchInv
  <2>2. ~ Completed'
    BY <2>1 DEF Completed, Row
  <2>3. Insertable(db)'
    <3>1. ScheduleConstraintSet(request) /\ ScheduleOptimizationRun(request)
      BY <2>1, AcceptedTyped
    <3> QED
      BY <2>1, <3>1 DEF Insertable, Row
  <2>4. RunStoredWhole'
    BY <2>1, <2>2 DEF RunStoredWhole, OptionsDistinct, Accepted
  <2> QED
    BY <1>1, <2>1, <2>2, <2>3, <2>4 DEF Inv, HardConstraintsHold, FeasibleIsFull, ShortListIsAll, BestComeFirst
<1>4. CASE UNCHANGED <<request, db>>
  <2>1. Completed' = Completed /\ Proposed' = Proposed /\ SearchedAll' = SearchedAll
    BY <1>4 DEF Completed, Proposed, SearchedAll, Warned
  <2>2. HardConstraintsHold' /\ FeasibleIsFull' /\ ShortListIsAll'
    BY <1>4, <2>1 DEF Inv, HardConstraintsHold, FeasibleIsFull, ShortListIsAll, Warned
  <2>3. BestComeFirst'
    BY <1>4, <2>1 DEF Inv, BestComeFirst
  <2>4. RunStoredWhole' /\ (db # Nothing => request \in Accepted /\ Insertable(db))'
    BY <1>4, <2>1 DEF Inv, RunStoredWhole, OptionsDistinct, Warned, Insertable
  <2> QED
    BY <1>1, <2>2, <2>3, <2>4 DEF Inv
<1>5. CommitRun \/ RecordFailure \/ UNCHANGED <<request, db>>
  BY DEF Next, vars, RejectRequest, CreateRun, CollectSections, CompleteCombination, BuildDrafts, RankOption, PersistRun, RollBack,
         Crash, Done
<1> QED
  BY <1>2, <1>3, <1>4, <1>5

LEMMA OpenedInsertable ==
  ASSUME request \in Accepted
  PROVE Insertable(Opened)
<1>1. ScheduleConstraintSet(request) /\ ScheduleOptimizationRun(request)
  BY AcceptedTyped
<1>2. /\ Opened.status = "RUNNING" /\ Opened.options = <<>> /\ Opened.warnings = {} /\ Opened.conflicts = {}
      /\ Opened.repairs = {}
  BY DEF Opened, Row
<1> QED
  BY <1>1, <1>2 DEF Insertable

LEMMA InvIsTyped == Inv => TypeOK
<1> SUFFICES ASSUME Inv PROVE TypeOK
  OBVIOUS
<1>1. \A rows \in {session, db} \ {Nothing} : Insertable(rows)
  <2>1. phase \in InRun => request \in Accepted
    BY DEF Inv, WorkInv, SearchInv
  <2>2. session = Nothing \/ Insertable(session)
    <3>1. CASE phase = "persisted"
      BY <2>1, <3>1, FilledInsertable DEF Inv, WorkInv, RowInv, InRun
    <3>2. CASE phase \in InRun \ {"persisted"}
      BY <2>1, <3>2, OpenedInsertable DEF Inv, WorkInv, RowInv
    <3>3. CASE phase \notin InRun
      BY <3>3 DEF Inv, WorkInv, RowInv
    <3> QED
      BY <3>1, <3>2, <3>3
  <2> QED
    BY <2>2 DEF Inv
<1>2. combinations \cup remaining \subseteq SUBSET Sections
  BY CombinationsTyped DEF Inv, WorkInv, RankInv
<1> QED
  BY <1>1, <1>2 DEF Inv, WorkInv, SearchInv, RankInv, TypeOK, InRun

\* For every set of courses, sections and requests and every value of the limits,
\* the variables keep their ranges and the tables accept every row of a run.
THEOREM TypesHold == Spec => []TypeOK
BY InvIsTyped, Init_Inv, Inv_Next, PTL DEF Spec

\* No stored option breaks a hard constraint, as the code reads them: online and
\* arranged meetings float, and an option that is not called partial holds a required
\* section when it is offered, its course is looked at, and it is the only one
\* required of it (the exemptions are those of HardConstraintsHold).
THEOREM OptionsLegal == Spec => []HardConstraintsHold
<1>1. Inv => HardConstraintsHold
  BY DEF Inv
<1> QED
  BY <1>1, Init_Inv, Inv_Next, PTL DEF Spec

\* An option that is not called partial has a section of every course wanted,
\* unless the limit of the courses is reported.
THEOREM FeasibleOptionsFull == Spec => []FeasibleIsFull
<1>1. Inv => FeasibleIsFull
  BY DEF Inv
<1> QED
  BY <1>1, Init_Inv, Inv_Next, PTL DEF Spec

\* A list that is shorter than asked for and reports no limit is complete: the
\* backtracking loses no schedule.
THEOREM ShortListsComplete == Spec => []ShortListIsAll
<1>1. Inv => ShortListIsAll
  BY DEF Inv
<1> QED
  BY <1>1, Init_Inv, Inv_Next, PTL DEF Spec

\* With no limit reported, no schedule that could be shown outranks the first
\* option, nor in standard mode a later one: the search, the sort and the choice of
\* the next option lose and misplace nothing.
THEOREM BestOptionsFirst == Spec => []BestComeFirst
<1>1. Inv => BestComeFirst
  BY DEF Inv
<1> QED
  BY <1>1, Init_Inv, Inv_Next, PTL DEF Spec

\* A run is committed whole or as FAILED, lists no schedule twice, and a request
\* that a validation refuses has none.
THEOREM RunsStoredWhole == Spec => []RunStoredWhole
<1>1. Inv => RunStoredWhole
  BY DEF Inv
<1> QED
  BY <1>1, Init_Inv, Inv_Next, PTL DEF Spec
=============================================================================
