----------------------------- MODULE GradePolicy -----------------------------
(***************************************************************************)
(* The grade policy that degree audits and eligibility checks share        *)
(* (degree_audit/grade_policy.py). A grade or minimum that is absent is    *)
(* "none"; grades are trimmed and in upper case.                           *)
(***************************************************************************)
EXTENDS Naturals, Sequences

grade_order == <<"A", "A-", "B+", "B", "B-", "C+", "C", "C-", "D+", "D", "D-", "F">>
Letters == {grade_order[i] : i \in DOMAIN grade_order}
rank(grade) == CHOOSE i \in DOMAIN grade_order : grade_order[i] = grade

\* satisfies_minimum: whether the grade is enough, and whether a warning asks for review
satisfies_minimum(grade, minimum) ==
  LET Decided(ok) == [ok |-> ok, review |-> FALSE]
      Review == [ok |-> FALSE, review |-> TRUE]
  IN CASE grade \in {"none", "P", "S", "CR"} -> IF minimum = "none" THEN Decided(TRUE) ELSE Review
       [] grade \in {"W", "AU", "NC"} -> Decided(FALSE)
       [] grade \notin Letters \cup {"none", "P", "S", "CR", "W", "AU", "NC"} -> Review   \* "I" and unknown grades
       [] grade \in Letters /\ minimum = "none" -> Decided(grade # "F")
       [] grade \in Letters /\ minimum \notin Letters \cup {"none"} -> Review
       [] OTHER -> Decided(rank(grade) <= rank(minimum))

\* best_grade_key: what is no letter comes after every letter.
best_grade_key(grade) == IF grade \in Letters THEN rank(grade) ELSE Len(grade_order) + 2
=============================================================================
