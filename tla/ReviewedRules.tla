---------------------------- MODULE ReviewedRules ----------------------------
(***************************************************************************)
(* Rule sets of a catalog identity (institution, program, catalog year):   *)
(* staged, reviewed, activated and superseded by requests of the API       *)
(* (api/v1/academic.py, reviewed_rules/engine.py), and what a reader of an *)
(* identity resolves (reviewed_rules/resolution.py).                       *)
(*                                                                         *)
(* A request reads a record, decides, and commits only the columns that    *)
(* differ from what it read; others commit in between. No constraint of    *)
(* the table limits the ACTIVE rule sets of an identity. Of the payload,   *)
(* only its lifecycle changes.                                             *)
(***************************************************************************)
EXTENDS Naturals, FiniteSets

CONSTANTS
  Threads, RuleSets, Identities,
  None

VARIABLES
  records,    \* of each rule set: its row, or None
  request,    \* of each thread: what it has read
  overtaken   \* identities whose last activation had not seen an ACTIVE rule set

vars == <<records, request, overtaken>>

RuleLifecycle == {"DRAFT", "REQUIRES_REVIEW", "REVIEWED", "ACTIVE", "SUPERSEDED"}
\* What validate_rule_set finds in the text
Findings == {"errors", "warnings", "none"}
Record == [identity : Identities, supersedes : RuleSets \cup {None}, findings : Findings,
           lifecycle : RuleLifecycle, payload : RuleLifecycle, confirmed : BOOLEAN,
           validation : {"INVALID", "REQUIRES_REVIEW", "VALID"}]
\* No row is the absent one.
RulesAssumption == None \notin Record
Idle == [pc |-> "idle"]

\* validate_rule_set
validate_rule_set(findings, lifecycle) ==
  CASE findings = "errors" -> "INVALID"
    [] findings = "warnings" \/ lifecycle \in {"DRAFT", "REQUIRES_REVIEW"} -> "REQUIRES_REVIEW"
    [] OTHER -> "VALID"

ActiveOf(identity) ==
  {r \in RuleSets : records[r] # None /\ records[r].identity = identity /\ records[r].lifecycle = "ACTIVE"}

\* resolve_for_program_version
resolve(identity) ==
  IF \E r, s \in ActiveOf(identity) : r # s THEN "CONFLICT"
  ELSE IF ActiveOf(identity) = {} THEN "MISSING" ELSE "ACTIVE"

Init ==
  /\ records = [r \in RuleSets |-> None] /\ request = [t \in Threads |-> Idle] /\ overtaken = {}
-----------------------------------------------------------------------------
\* stage_reviewed_rule_set: a draft, whatever lifecycle the request names
Stage(r) ==
  /\ records[r] = None
  /\ \E identity \in Identities, supersedes \in (RuleSets \ {r}) \cup {None},
        findings \in Findings, lifecycle \in RuleLifecycle :
       records' = [records EXCEPT ![r] =
         [identity |-> identity, supersedes |-> supersedes, findings |-> findings,
          lifecycle |-> "DRAFT", payload |-> "DRAFT", confirmed |-> FALSE,
          validation |-> validate_rule_set(findings, lifecycle)]]
  /\ UNCHANGED <<request, overtaken>>

\* mutant: a text with errors is reviewed
ReadForReviewUnchecked(t, r) ==
  /\ request[t] = Idle /\ records[r] # None
  /\ request' = [request EXCEPT ![t] = [pc |-> "review", id |-> r, seen |-> records[r]]]
  /\ UNCHANGED <<records, overtaken>>
\* review_staged_rule_set: no lifecycle is refused, only a text with errors.
ReadForReview(t, r) ==
  /\ request[t] = Idle /\ records[r] # None
  /\ records[r].findings # "errors"
  /\ request' = [request EXCEPT ![t] = [pc |-> "review", id |-> r, seen |-> records[r]]]
  /\ UNCHANGED <<records, overtaken>>
\* A column is written when its value differs from the one read.
Written(seen, new, now) == IF seen = new THEN now ELSE new
CommitReview(t) ==
  /\ request[t].pc = "review"
  /\ LET q == request[t]
         row == records[q.id]
         valid == validate_rule_set(row.findings, "REVIEWED")
     IN records' = [records EXCEPT ![q.id] =
          [identity |-> row.identity, supersedes |-> row.supersedes, findings |-> row.findings,
           lifecycle |-> Written(q.seen.lifecycle, "REVIEWED", row.lifecycle),
           payload |-> Written(q.seen.payload, "REVIEWED", row.payload),
           confirmed |-> Written(q.seen.confirmed, TRUE, row.confirmed),
           validation |-> Written(q.seen.validation, valid, row.validation)]]
  /\ request' = [request EXCEPT ![t] = Idle]
  /\ UNCHANGED overtaken

\* activate_reviewed_rule_set: the record, then the ACTIVE ones of its identity
ReadForActivation(t, r) ==
  /\ request[t] = Idle /\ records[r] # None
  /\ records[r].lifecycle = "REVIEWED" /\ records[r].confirmed
  /\ request' = [request EXCEPT ![t] = [pc |-> "activate", id |-> r, seen |-> records[r]]]
  /\ UNCHANGED <<records, overtaken>>
\* An ACTIVE rule set must be named as superseded.
MayReplace(seen, active) == active = {} \/ seen.supersedes \in active
\* ReviewedRuleService.activate asks the payload for its lifecycle.
IsActivatable(seen, active) == MayReplace(seen, active) /\ seen.payload = "REVIEWED"
ReadActive(t) ==
  /\ request[t].pc = "activate"
  /\ LET q == request[t]  active == ActiveOf(q.seen.identity)
     IN request' = [request EXCEPT ![t] =
          IF IsActivatable(q.seen, active)
          THEN [pc |-> "commit", id |-> q.id, seen |-> q.seen, active |-> active]
          ELSE Idle]
  /\ UNCHANGED <<records, overtaken>>
\* mutant: the rule set that is replaced stays as it is
SupersededNone(q) == {}
\* Every ACTIVE rule set that was found is superseded.
Superseded(q) == q.active
CommitActivation(t) ==
  /\ request[t].pc = "commit"
  /\ LET q == request[t]
         unseen == ActiveOf(q.seen.identity) \ (q.active \cup {q.id})
     IN /\ records' = [r \in RuleSets |->
              IF r = q.id THEN [records[r] EXCEPT !.lifecycle = "ACTIVE", !.payload = "ACTIVE"]
              ELSE IF r \in Superseded(q) THEN [records[r] EXCEPT !.lifecycle = "SUPERSEDED"]
              ELSE records[r]]
        /\ overtaken' = IF unseen = {} THEN overtaken \ {q.seen.identity}
                        ELSE overtaken \cup {q.seen.identity}
  /\ request' = [request EXCEPT ![t] = Idle]

Next ==
  \/ \E r \in RuleSets : Stage(r)
  \/ \E t \in Threads :
       \/ \E r \in RuleSets : ReadForReview(t, r) \/ ReadForActivation(t, r)
       \/ CommitReview(t) \/ ReadActive(t) \/ CommitActivation(t)
Spec == Init /\ [][Next]_vars
-----------------------------------------------------------------------------
TypeOK ==
  /\ records \in [RuleSets -> Record \cup {None}]
  /\ overtaken \subseteq Identities

\* What readers use was reviewed: an ACTIVE rule set has no errors and a reviewer's
\* confirmation, whatever requests interleave.
ActiveIsReviewed ==
  \A r \in RuleSets : records[r] # None /\ records[r].lifecycle = "ACTIVE" =>
    records[r].confirmed /\ records[r].findings # "errors"

\* An identity has two ACTIVE rule sets, so that every reader finds a conflict, only
\* when its last activation committed over one that was activated after it had
\* looked; the next activation that looks at all of them ends it.
OneActiveUnlessOvertaken ==
  \A identity \in Identities \ overtaken : resolve(identity) # "CONFLICT"
=============================================================================
