----------------------------- MODULE MCDataReview -----------------------------
(***************************************************************************)
(* Instances of DataReview: two MyProgress imports "p" and "q" and a       *)
(* transcript "t" of one student, one course with two codes, two terms.    *)
(***************************************************************************)
EXTENDS DataReview, TLC

Row(code, status, term, flagged) ==
  [code |-> code, status |-> status, term |-> term, grade |-> "A", credits |-> 3, flagged |-> flagged]
Done1 == Row("FIN300", "COMPLETED", "fall", FALSE)
Now1 == Row("FIN300", "IN_PROGRESS", "fall", FALSE)
Done2 == Row("FIN350", "COMPLETED", "fall", FALSE)
Absent == Row("FIN350", "NOT_STARTED", "unlisted", FALSE)
Failed2 == [Done2 EXCEPT !.grade = "F"]
SpringB == [Done1 EXCEPT !.term = "spring", !.grade = "B"]

Mock == {[row |-> Nothing, snapshot |-> Nothing, course |-> "fin300", term |-> "spring",
                grade |-> "C", credits |-> 3, number |-> 1]}
Threads == Permutations(Requests)

\* One MyProgress page with two rows of one code that conflict; the reviewer can
\* give the first another code.
PageRows == {1, 2}
PageImportOf == [row \in PageRows |-> "p"]
PageExtracted == <<Done1, Now1>>
PageEdits == <<{Done2}, {}>>
PageCandidates == [row \in PageRows |-> {}]
PageMapped == [row \in PageRows |-> "fin300"]
OneReviewOf == [v \in {"v"} |-> "p"]
PageReviewOf == [v \in {"v", "w"} |-> "p"]

\* Four imports of one course: the pages "p" and "q", the transcript "t" with two
\* rows, and the page "o" whose rows can be edited into each outcome: history,
\* duplicate, conflict, flagged, nonpassing, unlisted term, requirement option.
AllRows == 1..8
AllImportOf == <<"p", "p", "q", "t", "t", "o", "o", "o">>
AllExtracted ==
  <<Done1, Now1, Done2, SpringB, [Done1 EXCEPT !.grade = "B"],
    Done1, Now1, [Done1 EXCEPT !.flagged = TRUE]>>
AllEdits ==
  <<{}, {}, {}, {Done1}, {},
    {Absent}, {Failed2, Absent}, {Done1, [Done2 EXCEPT !.term = "unlisted"]}>>
AllCandidates == [row \in AllRows |-> {}]
AllMapped == [row \in AllRows |-> "fin300"]
AllReviewOf == [v \in {"vp", "vq", "vt", "vo"} |->
  CASE v = "vp" -> "p" [] v = "vq" -> "q" [] v = "vt" -> "t" [] OTHER -> "o"]

\* Two uses of the service: "p", "q" and "t" in turn, and "o" alone with its rows
\* decided in every way.
InUse == ({v \in Reviews : review[v] # Nothing} \cup {request[r].review : r \in Requests}) \ {Nothing}
Deferred(v) == \E row \in Rows : entry[v][row].decision = "NEEDS_ADVISOR_REVIEW"
InTurn == InUse \subseteq {"vp", "vq", "vt"} /\ \A v \in InUse : ~ Deferred(v)
EveryOutcome == InUse \subseteq {"vo"}
\* A state outside of both is checked and not continued.
InTurns == InTurn \/ EveryOutcome
=============================================================================
