-------------------------- MODULE MCAcademicScenario --------------------------
(***************************************************************************)
(* Scenarios of a major P with a minor S and a certificate T, three        *)
(* courses and eight applications. Courses 1 and 2 compete for a node of   *)
(* P, 1 can be shared with S or with T, 2 and 3 with S only.               *)
(***************************************************************************)
EXTENDS AcademicScenario

Requirement == [p1 |-> "P", p2 |-> "P", s1 |-> "S", s2 |-> "S", t1 |-> "T"]
CourseOf == <<1, 2, 2, 3, 1, 2, 3, 1>>
RequirementOf == <<"p1", "p1", "p2", "p2", "s1", "s1", "s2", "t1">>
TextOrder == <<1, 2, 4, 3, 7, 8, 5, 6>>

Rule(max, min, double, confirm) ==
  [sharedMax |-> max, uniqueMin |-> min, doubleCounting |-> double, confirm |-> confirm]
MinorRules == {NoRule, Rule(3, 4, TRUE, FALSE), Rule(7, 3, TRUE, TRUE), Rule(2, 0, TRUE, FALSE), Rule(9, 0, FALSE, FALSE)}
CertificateRules == {NoRule, Rule(3, 3, TRUE, TRUE)}
Everywhere == [p1 |-> TRUE, p2 |-> TRUE, s1 |-> TRUE, s2 |-> TRUE, t1 |-> TRUE]
Overlaps == {Everywhere, [Everywhere EXCEPT !.p1 = FALSE], [Everywhere EXCEPT !.s1 = FALSE]}
Histories == {[earned |-> <<TRUE, TRUE, TRUE>>, credit |-> <<3, 4, 3>>, remaining |-> 2, notices |-> 0],
              [earned |-> <<TRUE, FALSE, TRUE>>, credit |-> <<1, 3, 3>>, remaining |-> 9, notices |-> 2],
              [earned |-> <<TRUE, TRUE, FALSE>>, credit |-> <<3, 3, 3>>, remaining |-> 5, notices |-> 0]}

Ask(o, v, h, s, t, n) ==
  [offered |-> o, overlap |-> v, earned |-> h.earned, credit |-> h.credit,
   policy |-> [S |-> s, T |-> t], limit |-> n,
   remaining |-> h.remaining, notices |-> h.notices, completed |-> 10, required |-> 20]
MCRequests ==
  {Ask(Candidates \ {2, 4}, v, h, s, t, 4096) : v \in Overlaps, h \in Histories, s \in MinorRules, t \in CertificateRules} \cup
  {Ask(Candidates, v, h, s, NoRule, n) : v \in Overlaps, h \in Histories, s \in {Rule(7, 3, TRUE, TRUE)}, n \in {20, 4096}} \cup
  {Ask({1, 4, 5, 7}, v, h, s, NoRule, 4096) : v \in Overlaps, h \in Histories, s \in MinorRules} \cup
  {Ask({1, 2, 7}, v, h, s, NoRule, 4096) : v \in Overlaps, h \in Histories, s \in MinorRules} \cup
  {Ask({1, 3, 5}, v, h, s, NoRule, n) : v \in Overlaps, h \in Histories, s \in MinorRules, n \in {0, 1, 7, 8}} \cup
  {[Ask({1, 5}, Everywhere, h, NoRule, NoRule, 4096) EXCEPT !.completed = 21, !.required = w] : h \in Histories, w \in {0, 20}} \cup
  {Ask({}, v, h, s, NoRule, 4096) : v \in Overlaps, h \in Histories, s \in MinorRules}
=============================================================================
