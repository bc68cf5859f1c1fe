----------------------------- MODULE RestoreOnce -----------------------------
(***************************************************************************)
(* What the restore workflow promises of a confirmed request, whatever     *)
(* crashes or fails: it is attempted by one start at most, one request at  *)
(* a time, and a candidate reaches the active database only from a request *)
(* that was confirmed and taken.                                           *)
(***************************************************************************)
CONSTANT Requests
VARIABLE phase   \* request -> its phase

Phase == {"unused", "pending", "taken", "installed", "settled"}
Active == {"pending", "taken", "installed"}

Init == phase = [q \in Requests |-> "unused"]

Become(q, next) == phase' = [phase EXCEPT ![q] = next]

ConfirmRequest(q) ==
  /\ phase[q] = "unused" /\ \A r \in Requests : phase[r] \notin Active
  /\ Become(q, "pending")
Take(q) == phase[q] = "pending" /\ Become(q, "taken")
Install(q) == phase[q] = "taken" /\ Become(q, "installed")
Settle(q) == phase[q] \in {"taken", "installed"} /\ Become(q, "settled")

Next == \E q \in Requests : ConfirmRequest(q) \/ Take(q) \/ Install(q) \/ Settle(q)
Spec == Init /\ [][Next]_phase
=============================================================================
