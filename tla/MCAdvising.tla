------------------------------ MODULE MCAdvising ------------------------------
(***************************************************************************)
(* An instance of Advising. The eligibility of a planned course is what    *)
(* CourseEligibility computes.                                             *)
(***************************************************************************)
EXTENDS MCAcademicScenario, Advising, TLC

-----------------------------------------------------------------------------
\* Eligibility: expressions by operator and leaf
Blank == [course |-> None, minimum |-> "none", credits |-> None, standing |-> "none", program |-> None, campus |-> None]
Leaf(node, with) == with @@ [node |-> node, parent |-> 0] @@ Blank
Taken(course) == <<Leaf("COMPLETED_COURSE", [course |-> course])>>
Grade(course, minimum) == <<Leaf("MINIMUM_GRADE", [course |-> course, minimum |-> minimum])>>
Credits(least) == <<Leaf("MINIMUM_COMPLETED_CREDITS", [credits |-> least])>>
Standing(least) == <<Leaf("CLASS_STANDING", [standing |-> least])>>
Permission == <<Leaf("PERMISSION_REQUIRED", <<>>)>>
Within == <<Leaf("PROGRAM_RESTRICTION", [program |-> "P"])>>
There == <<Leaf("CAMPUS_RESTRICTION", [campus |-> "K"])>>
\* The expressions of two operands, or of one, and the operator above them
Shifted(tree, by, top) ==
  [i \in DOMAIN tree |-> [tree[i] EXCEPT !.parent = IF @ = 0 THEN top ELSE @ + by]]
Both(node, a, b) ==
  LET top == Len(a) + Len(b) + 1
  IN Shifted(a, 0, top) \o Shifted(b, Len(a), top) \o <<Leaf(node, <<>>)>>
Not(a) == Shifted(a, 0, Len(a) + 1) \o <<Leaf("NOT", <<>>)>>
CourseRule(type, tree) == [type |-> type, sectional |-> FALSE, tree |-> tree]
SectionRule(type, tree) == [type |-> type, sectional |-> TRUE, tree |-> tree]
StoredRules == {
  <<>>,
  <<CourseRule("PREREQUISITE", Both("OR", Taken("A"), Both("AND", Grade("B", "C"), Permission))),
    CourseRule("COREQUISITE", Taken("B"))>>,
  <<CourseRule("PREREQUISITE", Not(Both("OR", Taken("B"), Grade("A", "C")))), SectionRule("COREQUISITE", Permission)>>,
  <<CourseRule("PREREQUISITE", Both("AND", Grade("A", "B"), Credits(4)))>>,
  <<CourseRule("PREREQUISITE", Both("OR", Not(Taken("A")), Both("OR", <<Leaf("AND", <<>>)>>, Standing("JUNIOR"))))>>,
  <<CourseRule("REGISTRATION_RESTRICTION", Both("AND", Within, There)), CourseRule("PREREQUISITE", <<>>)>>,
  <<CourseRule("PREREQUISITE", Grade("A", "B")), CourseRule("PREREQUISITE", Grade("A", "C"))>>,
  <<CourseRule("PREREQUISITE", Both("NOT", Taken("A"), Taken("B")))>>}
Rows(name) ==
  LET New(course, status, grade) ==
        [course |-> course, status |-> status, grade |-> grade, credits |-> IF grade = "B" THEN 4 ELSE 3]
  IN CASE name = "retake" -> {New("A", "COMPLETED", "B"), New("A", "COMPLETED", "C"), New("A", "COMPLETED", "F")}
       [] name = "begun" -> {New("A", "CURRENT", "none"), New("A", "COMPLETED", "D"), New("B", "PLANNED", "none")}
       [] name = "passed" -> {New("A", "COMPLETED", "I"), New("B", "COMPLETED", "P"), New("A", "COMPLETED", "A")}
NoReview == [state |-> "MISSING", definition |-> None]
Reviewed(prerequisites, corequisites) ==
  [state |-> "ACTIVE", definition |-> [prerequisites |-> prerequisites, corequisites |-> corequisites]]
Student(rules, reviewed) ==
  [mode |-> "REGISTRATION", snapshot |-> FALSE, section |-> FALSE, attempts |-> <<>>, transfers |-> <<>>, planned |-> {},
   standing |-> "SENIOR", programs |-> {"P"}, campus |-> "K", rules |-> rules, reviewed |-> reviewed, incoming |-> {}]
Imported(q) == [q EXCEPT !.snapshot = TRUE, !.transfers = "A" :> 3, !.attempts =
  <<[course |-> "B", status |-> "IN_PROGRESS", grade |-> "none", credits |-> 3, imported |-> TRUE]>>]
Asked(rules, reviewed) ==
  LET base == {[Student(rules, reviewed) EXCEPT !.mode = mode, !.section = (mode = "CURRENT"), !.incoming = Rows(name),
                                              !.planned = IF name = "passed" THEN {"B"} ELSE {}] :
                 mode \in {"CURRENT", "REGISTRATION"}, name \in {"retake", "begun", "passed"}}
  IN base \cup {Imported(q) : q \in base}
ChecksAsked ==
  UNION {Asked(rules, NoReview) : rules \in StoredRules} \cup
  UNION {Asked(<<>>, r) : r \in {Reviewed(<<"A">>, <<"B">>), Reviewed(<<"A", None>>, <<>>),
                                 [state |-> "CONFLICT", definition |-> None]}}
-----------------------------------------------------------------------------
\* Degree audits
Node(id, parent, type, need, overlap, options) ==
  [id |-> id, parent |-> parent, type |-> type, need |-> need, overlap |-> overlap, level |-> None,
   minimum |-> "none", options |-> [i \in DOMAIN options |-> [course |-> options[i], minimum |-> "none"]]]
ProgramVersions == {
  <<Node(1, None, "ALL_OF", None, FALSE, <<>>), Node(2, 1, "REQUIRED_COURSE", None, FALSE, <<"A">>),
    Node(3, 1, "CHOOSE_N", 2, FALSE, <<"A", "B", "C">>), Node(4, 1, "MINIMUM_CREDITS", 6, TRUE, <<>>),
    [Node(5, None, "COURSE_LEVEL", 3, FALSE, <<>>) EXCEPT !.level = 200], Node(6, None, "TOTAL_CREDITS", None, FALSE, <<>>)>>,
  <<Node(1, None, "ANY_OF", None, FALSE, <<>>), Node(2, 1, "CHOOSE_N", 1, FALSE, <<"A", "B">>),
    [Node(3, 1, "REQUIRED_COURSE", None, TRUE, <<"C", "A">>) EXCEPT !.minimum = "B"], Node(4, 9, "MINIMUM_COURSES", 2, FALSE, <<>>),
    Node(5, None, "RESIDENCY", 3, FALSE, <<>>), Node(6, 4, "MINIMUM_CREDITS", 3, FALSE, <<>>)>>,
  <<Node(1, None, "GROUP", None, FALSE, <<>>), Node(2, None, "CAPSTONE", None, FALSE, <<>>),
    Node(3, None, "EXCLUSION", None, FALSE, <<>>), Node(4, None, "CHOOSE_N", None, FALSE, <<"A">>)>>}
Try(id, course, status, grade) == [id |-> id, course |-> course, status |-> status, grade |-> grade, credits |-> 3]
AuditHistories == {
  <<Try(1, "A", "COMPLETED", "C"), Try(2, "A", "COMPLETED", "B"), Try(3, "B", "IN_PROGRESS", "none"), Try(4, "C", "PLANNED", "none")>>,
  <<Try(1, "A", "COMPLETED", "B"), Try(2, "B", "COMPLETED", "P"), Try(3, "C", "WITHDRAWN", "W")>>,
  <<Try(1, "A", "COMPLETED", "A")>>}
AuditsAsked ==
  {[declared |-> declared, nodes |-> nodes, attempts |-> attempts, total |-> 9,
    transfers |-> IF extra THEN <<[id |-> 6, course |-> "B", grade |-> "C", credits |-> 3]>> ELSE <<>>,
    waivers |-> IF extra THEN <<[id |-> 7, node |-> 2]>> ELSE <<>>,
    substitutions |-> IF extra THEN <<[id |-> 8, node |-> 3, original |-> "C", substitute |-> "A"]>> ELSE <<>>,
    equivalencies |-> <<[from |-> "A", to |-> "B"]>>] :
     declared, extra \in BOOLEAN, nodes \in ProgramVersions, attempts \in AuditHistories}
Levels == <<[id |-> "A", level |-> 100], [id |-> "B", level |-> 300], [id |-> "C", level |-> 200]>>
-----------------------------------------------------------------------------
\* Plans: X fills a term; B needs A, G needs B; C and D go together, as two leaves say; E asks
\* for a program; H may not be repeated; the reviewed rule of I names D twice.
RulesOf(course) ==
  CASE course = "B" -> <<CourseRule("PREREQUISITE", Taken("A"))>>
    [] course = "C" -> <<CourseRule("COREQUISITE", Both("AND", Taken("D"), Taken("D")))>>
    [] course = "E" -> <<CourseRule("REGISTRATION_RESTRICTION", <<Leaf("PROGRAM_RESTRICTION", [program |-> "Q"])>>)>>
    [] course = "F" -> <<CourseRule("PREREQUISITE", Permission)>>
    [] course = "G" -> <<CourseRule("PREREQUISITE", Taken("B"))>>
    [] course = "H" -> <<CourseRule("REPEAT_RESTRICTION", Not(Taken("H")))>>
    [] OTHER -> <<>>
ReviewOf(course) == IF course = "I" THEN Reviewed(<<>>, <<"D", "D">>) ELSE NoReview
PlannedCourses == <<"A", "B", "C", "D", "E", "F", "G", "H", "I", "X">>
CourseData == [c \in {PlannedCourses[i] : i \in DOMAIN PlannedCourses} |->
  [credits |-> IF c = "X" THEN 6 ELSE 3, text |-> CHOOSE i \in DOMAIN PlannedCourses : PlannedCourses[i] = c,
   unlocks |-> IF c \in {"A", "B", "D"} THEN 1 ELSE 0,
   verdict |-> Eligibility!evaluate(Student(RulesOf(c), ReviewOf(c)))]]
OpenNode(node, status, type, courses) ==
  [node |-> node, order |-> node, status |-> status, type |-> type, required |-> TRUE,
   options |-> [i \in DOMAIN courses |-> [course |-> courses[i], credits |-> IF courses[i] = "X" THEN 6 ELSE 3]]]
OpenRequirements == {
  <<OpenNode(1, "NOT_SATISFIED", "REQUIRED_COURSE", <<"X">>), OpenNode(2, "NOT_SATISFIED", "REQUIRED_COURSE", <<"A">>),
    OpenNode(3, "NOT_SATISFIED", "REQUIRED_COURSE", <<"B">>)>>,
  <<OpenNode(1, "PARTIALLY_SATISFIED", "CHOOSE_N", <<"B", "C">>), OpenNode(2, "WAIVED", "REQUIRED_COURSE", <<"X">>),
    OpenNode(3, "NOT_SATISFIED", "REQUIRED_COURSE", <<"D">>), OpenNode(4, "NOT_SATISFIED", "MINIMUM_CREDITS", <<>>)>>,
  <<OpenNode(1, "NOT_SATISFIED", "CAPSTONE", <<"E">>), OpenNode(2, "NOT_SATISFIED", "REQUIRED_COURSE", <<"G", "F", "H", "I">>),
    OpenNode(3, "NOT_SATISFIED", "CHOOSE_N", <<>>)>>}
Inputs == [terms_to_plan |-> 3, minimum |-> 3, maximum |-> 6, preferred |-> 3, mode |-> "CURRENT_PROGRAM", declared |-> TRUE,
           scenario |-> None, readiness |-> None, terms |-> 3]
PlanInputs ==
  {[Inputs EXCEPT !.maximum = max, !.terms = terms] : max \in {3, 5, 6, 9}, terms \in 0..3} \cup
  {[Inputs EXCEPT !.preferred = 7], [Inputs EXCEPT !.declared = FALSE], [Inputs EXCEPT !.readiness = "BLOCKED"],
   [Inputs EXCEPT !.mode = "WHAT_IF_SCENARIO", !.scenario = [own |-> TRUE, listed |-> FALSE]]}
PlansAsked ==
  {inputs @@ [requirements |-> open, occupied |-> occupied] :
     inputs \in PlanInputs, open \in OpenRequirements, occupied \in {{}, {"X", "C"}}}
-----------------------------------------------------------------------------
\* Sections s and t; a content is a status, one further field and the raw payload.
Shown(status, value, raw) == [status |-> status, values |-> [f \in {"f"} |-> value], raw |-> raw]
Capture(section, content, target, id) == [section |-> section, content |-> content, target |-> target, id |-> id]
Captures ==
  {Capture("s", Shown("OPEN", 1, 1), "own", 1), Capture("s", Shown("CLOSED", 1, 1), "own", 1),
   Capture("s", Shown("OPEN", 2, 2), "own", 1), Capture("s", Shown("CLOSED", 1, 1), "own", 2),
   Capture("s", Shown("OPEN", 2, 2), "other", 2), Capture("s", Shown("OPEN", 1, 2), "own", 1),
   Capture("t", Shown("OPEN", 1, 1), "own", 1), Capture("t", Shown("CLOSED", 1, 1), "unknown", 1)}
Shows == {c.content : c \in Captures}
-----------------------------------------------------------------------------
\* Section schedules: code 1 is new, 2 was imported before, 3 is official; term V is
\* another institution's, Z a course that is not in the catalogue.
Line(on, start, end) == [days |-> on, start |-> start, end |-> end, place |-> "hall", room |-> "r", timeless |-> FALSE]
ScheduleRow(code, completeness, lines) ==
  [course |-> "A", term |-> "T", campus |-> "K", code |-> code, state |-> "AUTO_VERIFIED",
   completeness |-> completeness, meetings |-> lines]
Upload(rows) == [student |-> TRUE, source |-> "BROWSER_EXTENSION", named |-> TRUE, size |-> 2, rows |-> rows]
Schedules ==
  <<Upload(<<ScheduleRow("1", "PARTIAL", <<Line({"MON", "WED"}, 9, 10)>>),
             ScheduleRow("1", "COMPLETE", <<Line({"MON"}, 9, 10), Line({"MON"}, 9, 10), Line({}, None, None)>>)>>),
    Upload(<<ScheduleRow("2", "COMPLETE", <<Line({"TUE"}, 9, 10)>>), ScheduleRow("2", "PARTIAL", <<Line({"TUE"}, None, None)>>)>>),
    Upload(<<ScheduleRow("3", "COMPLETE", <<Line({"TUE"}, 9, 10)>>), [ScheduleRow("1", "PARTIAL", <<>>) EXCEPT !.term = "V"],
             [ScheduleRow("1", "UNCERTAIN", <<>>) EXCEPT !.course = "Z", !.state = "FAILED"]>>),
    [Upload(<<>>) EXCEPT !.size = 9], [Upload(<<>>) EXCEPT !.source = "OFFICIAL"]>>
Meeting(source, official) ==
  [source |-> source, official |-> official, campus |-> "K",
   meetings |-> {[at |-> <<"MON", 9, 10, "hall">>, room |-> "r", from |-> <<0, 0, 0>>]}]
NotOffered == [source |-> None, official |-> FALSE, campus |-> None, meetings |-> {}]
ImportEdits == {[code |-> "2"]}
Timetable ==
  [k \in {<<"A", "T", c>> : c \in {"1", "2", "3"}} |->
     CASE k[3] = "1" -> NotOffered [] k[3] = "2" -> Meeting("IMPORTED", FALSE) [] OTHER -> Meeting("KEAN", TRUE)]

\* A choice of n that is satisfied rests on n records.
ChoicesAreDistinct == Audit!ChoicesAreDistinct
=============================================================================
