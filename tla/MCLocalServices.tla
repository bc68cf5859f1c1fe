--------------------------- MODULE MCLocalServices ---------------------------
(***************************************************************************)
(* A small instance of LocalServices, with the requests the boundary gets  *)
(* and the registries of the migration command.                            *)
(***************************************************************************)
EXTENDS LocalServices, TLC

\* One good request of the paired extension, and what can differ in it.
Good == [host |-> "ok", path |-> "api", origin |-> "x", bearer |-> FALSE, credential |-> "k",
         malformed |-> "none", nonce |-> 1, sent |-> 1]
ReceivedRequests ==
  {Good, [Good EXCEPT !.nonce = 2], [Good EXCEPT !.nonce = 3, !.sent = 0],
   [Good EXCEPT !.credential = "l"], [Good EXCEPT !.bearer = TRUE],
   [Good EXCEPT !.malformed = "nonce"], [Good EXCEPT !.malformed = "timestamp"],
   [Good EXCEPT !.host = "malformed"], [Good EXCEPT !.host = "wrongPort"],
   [Good EXCEPT !.path = "probe"], [Good EXCEPT !.path = "pairing", !.origin = "y"],
   [Good EXCEPT !.origin = "desktop"], [Good EXCEPT !.origin = "desktop", !.credential = "none"]}
\* A registry of two upgrades, one with two ways from version 1, one without a way,
\* and one out of order.
Declared ==
  {<<<<1, 2>>, <<2, 3>>>>, <<<<1, 2>>, <<1, 3>>, <<2, 3>>>>, <<<<2, 3>>>>, <<<<2, 3>>, <<1, 2>>>>}

\* Nothing is said of a state after an owner was overtaken, and no step takes that
\* back: such states are checked and not continued.
NotOvertaken == ~ raced
\* Of the removal, a state where a third actor has begun, or with the receipts of two
\* backups, is checked and not continued.
TwoAtOnce ==
  /\ Cardinality({t \in Threads : removing[t].pc # "idle"})
       + Cardinality({h \in Helpers : helper[h].pc # "idle"}) <= 2
  /\ Cardinality(receipts) <= 1
\* With every nonce given out and no plan that a helper could still execute, nothing more
\* is deleted: such states are checked and not continued.
StillExecutable ==
  \/ \E n \in Nonces : ~ history[n].issued
  \/ plan \in Removal!DeletionPlan /\ plan.state = "READY"
  \/ \E t \in Threads : removing[t].pc = "fill"
  \/ \E h \in Helpers : helper[h].pc \in {"check", "merge", "consume", "mark"}
\* Threads and helpers are interchangeable; every invariant treats them alike.
Interchangeable == Permutations(Threads) \cup Permutations(Helpers)
=============================================================================
