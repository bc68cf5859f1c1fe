----------------------------- MODULE CourseLedger -----------------------------
(***************************************************************************)
(* What the review workflow promises about an imported row (docs/          *)
(* DOMAIN_RULES.md sections 16 and 17): until an explicit application it   *)
(* is staged; applied, it counts as course history, is kept as evidence,   *)
(* or is an exception; and from then on its only move is to an exception.  *)
(* One application moves any number of rows at once, and nothing else      *)
(* moves a row.                                                            *)
(***************************************************************************)
CONSTANT Rows
VARIABLE ledger   \* row -> its standing

Standing == {"staged", "history", "evidence", "exception"}
Move == {<<x, x>> : x \in Standing} \cup ({"staged"} \X Standing)
          \cup ({"history", "evidence"} \X {"exception"})

Init == ledger = [row \in Rows |-> "staged"]
Next == /\ ledger' \in [Rows -> Standing]
        /\ \A row \in Rows : <<ledger[row], ledger'[row]>> \in Move
Spec == Init /\ [][Next]_ledger
=============================================================================
