------------------------- MODULE MCScheduleOptimizer -------------------------
(***************************************************************************)
(* Requests over four courses of which three are kept. Course 1 has one    *)
(* section more than a group holds, sections of courses 1 and 3 overlap,   *)
(* sections 4 and 6 meet back to back, section 7 has no fixed time.        *)
(***************************************************************************)
EXTENDS ScheduleOptimizer

CourseOf == <<1, 1, 1, 2, 2, 3, 3, 4>>
CreditsOf == <<3, 3, 4, 3, 3, 3, 1, 3>>
TextRank == <<2, 1, 3, 4, 5, 6, 7, 8>>
Meet(day, from, to) == [day |-> day, from |-> from, to |-> to, floating |-> FALSE]
MeetingsOf ==
  <<{Meet(1, 9, 11), Meet(3, 9, 11)}, {Meet(1, 14, 16)}, {Meet(2, 9, 11)}, {Meet(1, 11, 13)}, {Meet(2, 10, 12)},
    {Meet(1, 13, 14), Meet(3, 10, 12)}, {[day |-> 1, from |-> 9, to |-> 11, floating |-> TRUE]}, {Meet(4, 9, 11)}>>

Anything == [S \in SUBSET Sections |-> Cardinality(S)]
LikesLater == [S \in SUBSET Sections |-> Cardinality(S \cap {2, 5, 7})]
LikesLess == [S \in SUBSET Sections |-> Cardinality(Sections \ S) + (IF 3 \in S THEN 2 ELSE 0)]
Everyone == [s \in Sections |-> "ELIGIBLE"]
Mixed == [Everyone EXCEPT ![2] = "PERMISSION_REQUIRED", ![4] = "CONDITIONALLY_ELIGIBLE", ![6] = "NOT_ELIGIBLE"]
Gated == [Everyone EXCEPT ![2] = "PERMISSION_REQUIRED", ![5] = "MANUAL_REVIEW_REQUIRED"]

Basic ==
  [wanted |-> {1, 2, 3}, offered |-> Sections, required |-> {}, unwanted |-> {}, closed |-> {}, noted |-> {7}, known |-> Sections,
   standing |-> Everyone, allowPermission |-> FALSE, days |-> {}, blocks |-> {},
   minimum |-> 0, maximum |-> 12, preferred |-> 6, weights |-> {1}, sourceAge |-> 0,
   allowPartial |-> TRUE, score |-> Anything, count |-> 3, diversity |-> "STANDARD", limit |-> 5000,
   student |-> "known", term |-> "known", readiness |-> "none", planRequired |-> FALSE, plan |-> "none"]

Valid ==
  {[Basic EXCEPT !.wanted = w, !.unwanted = u, !.score = f, !.count = n, !.diversity = h] :
     w \in {{}, {3}, {1, 3}, {1, 2, 3}, {1, 2, 3, 4}}, u \in {{}, {2}, {3}, {1, 4, 5}},
     f \in {Anything, LikesLater, LikesLess}, n \in {1, 3, 9}, h \in {"STANDARD", "HIGH"}} \cup
  {[Basic EXCEPT !.unwanted = {1}, !.standing = e, !.allowPermission = a, !.closed = c, !.minimum = m, !.allowPartial = p, !.count = 9] :
     e \in {Everyone, Mixed, Gated}, a \in BOOLEAN, c \in {{}, {4}, {4, 5}}, m \in {0, 8, 9}, p \in BOOLEAN} \cup
  {[Basic EXCEPT !.unwanted = {3}, !.required = q, !.days = d, !.blocks = b, !.maximum = x, !.count = 9] :
     q \in {{}, {1}, {2, 6}, {8}}, d \in {{}, {3}},
     b \in {{}, {[day |-> 1, from |-> 0, to |-> 11]}, {[day |-> 1, from |-> 13, to |-> 24]}}, x \in {6, 7, 12}} \cup
  {[Basic EXCEPT !.unwanted = {3}, !.limit = l, !.count = n] : l \in {1, 3, 7, 8, 9}, n \in {2, 9}} \cup
  {[Basic EXCEPT !.planRequired = p, !.plan = "good", !.readiness = e] : p \in BOOLEAN, e \in {"READY", "READY_WITH_WARNINGS"}} \cup
  {[Basic EXCEPT !.plan = "other term", !.sourceAge = 5]}
\* One thing wrong in each
Invalid ==
  {[Basic EXCEPT !.minimum = m, !.maximum = x, !.preferred = p] : m \in {-1, 7}, x \in {-1, 6}, p \in {-1, 7}} \cup
  {[Basic EXCEPT !.count = n] : n \in {0, 21}} \cup {[Basic EXCEPT !.weights = {-1, 1}]} \cup
  {[Basic EXCEPT !.diversity = "OTHER"]} \cup {[Basic EXCEPT !.limit = l] : l \in {0, 5001}} \cup
  {[Basic EXCEPT !.student = "missing"]} \cup {[Basic EXCEPT !.term = t] : t \in {"missing", "foreign"}} \cup
  {[Basic EXCEPT !.sourceAge = -1]} \cup {[Basic EXCEPT !.readiness = "BLOCKED"]} \cup
  {[Basic EXCEPT !.planRequired = TRUE, !.plan = p] : p \in {"none", "missing", "foreign", "other term"}} \cup
  {[Basic EXCEPT !.blocks = {[day |-> 1, from |-> 9, to |-> 9]}]} \cup
  {[Basic EXCEPT !.required = {8}, !.known = Sections \ {8}]} \cup {[Basic EXCEPT !.unwanted = {8}, !.known = Sections \ {8}]}
MCRequests == Valid \cup Invalid
=============================================================================
