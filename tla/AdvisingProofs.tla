---------------------------- MODULE AdvisingProofs ----------------------------
(***************************************************************************)
(* What eligibility checks, audits, plans, reviewed rules, imported        *)
(* sections and section monitoring keep, in every behaviour of their       *)
(* composition: a behaviour of the composition is one of each service, as  *)
(* every step is a step of one service and leaves the others alone.        *)
(***************************************************************************)
EXTENDS EvaluationProofs, AcademicScenarioProofs

-----------------------------------------------------------------------------
(* Reviewed rules *)

Review == [pc : {"review"}, id : RuleSets, seen : Rules!Record]
Activate == [pc : {"activate"}, id : RuleSets, seen : Rules!Record]
Commit == [pc : {"commit"}, id : RuleSets, seen : Rules!Record, active : SUBSET RuleSets]
RulesTyped == Rules!TypeOK /\ reviewing \in [Threads -> {Rules!Idle} \cup Review \cup Activate \cup Commit]

\* The text and the identity of a rule set stay what a reviewing has read, and an
\* activation is only begun, and so only ends, with a confirmed one.
ReadsHold ==
  \A t \in Threads : reviewing[t] # Rules!Idle =>
    LET q == reviewing[t] IN
    /\ records[q.id] # None
    /\ records[q.id].identity = q.seen.identity
    /\ records[q.id].findings = q.seen.findings
    /\ q.pc = "review" => q.seen.findings # "errors"
    /\ q.pc \in {"activate", "commit"} => records[q.id].confirmed
    /\ q.pc = "commit" => \A r \in q.active : records[r] # None /\ records[r].identity = q.seen.identity
ConfirmedIsSound ==
  \A r \in RuleSets : records[r] # None /\ records[r].confirmed => records[r].findings # "errors"
ActiveIsConfirmed ==
  \A r \in RuleSets : records[r] # None /\ records[r].lifecycle = "ACTIVE" => records[r].confirmed
Single == \A identity \in Identities \ overtaken : \A r, s \in Rules!ActiveOf(identity) : r = s
RulesInv == RulesTyped /\ ReadsHold /\ ConfirmedIsSound /\ ActiveIsConfirmed /\ Single
-----------------------------------------------------------------------------
LEMMA RulesInit == Rules!Init => RulesInv
  BY DEF Rules!Init, RulesInv, RulesTyped, Rules!TypeOK, ReadsHold, ConfirmedIsSound, ActiveIsConfirmed, Single, Rules!ActiveOf, Rules!Idle

LEMMA RulesValidation ==
  \A findings \in Rules!Findings, lifecycle \in Rules!RuleLifecycle :
    Rules!validate_rule_set(findings, lifecycle) \in {"INVALID", "REQUIRES_REVIEW", "VALID"}
  BY DEF Rules!validate_rule_set, Rules!Findings

\* A thread that does something has read a row, which is still there.
LEMMA RulesRead ==
  ASSUME RulesInv, NEW t \in Threads, reviewing[t] # Rules!Idle
  PROVE  /\ reviewing[t] \in Review \cup Activate \cup Commit
         /\ reviewing[t].id \in RuleSets /\ reviewing[t].seen \in Rules!Record
         /\ records[reviewing[t].id] \in Rules!Record
         /\ records[reviewing[t].id].identity = reviewing[t].seen.identity
         /\ records[reviewing[t].id].findings = reviewing[t].seen.findings
<1>1. reviewing[t] \in Review \cup Activate \cup Commit
  BY DEF RulesInv, RulesTyped
<1>2. reviewing[t].id \in RuleSets /\ reviewing[t].seen \in Rules!Record
  BY <1>1 DEF Review, Activate, Commit
<1>3. QED
  BY <1>1, <1>2 DEF RulesInv, RulesTyped, Rules!TypeOK, ReadsHold

LEMMA RulesStage ==
  ASSUME Rules!RulesAssumption, RulesInv, NEW r \in RuleSets, Rules!Stage(r) PROVE RulesInv'
<1>1. PICK new \in Rules!Record : /\ records' = [records EXCEPT ![r] = new]
                            /\ new.lifecycle = "DRAFT" /\ ~ new.confirmed
  <2>1. PICK identity \in Identities, supersedes \in (RuleSets \ {r}) \cup {None},
             findings \in Rules!Findings, lifecycle \in Rules!RuleLifecycle :
             records' = [records EXCEPT ![r] =
               [identity |-> identity, supersedes |-> supersedes, findings |-> findings,
                lifecycle |-> "DRAFT", payload |-> "DRAFT", confirmed |-> FALSE,
                validation |-> Rules!validate_rule_set(findings, lifecycle)]]
    BY DEF Rules!Stage
  <2> DEFINE new == [identity |-> identity, supersedes |-> supersedes, findings |-> findings,
                     lifecycle |-> "DRAFT", payload |-> "DRAFT", confirmed |-> FALSE,
                     validation |-> Rules!validate_rule_set(findings, lifecycle)]
  <2>2. new \in Rules!Record
    BY RulesValidation DEF Rules!Record, Rules!RuleLifecycle
  <2>3. records' = [records EXCEPT ![r] = new] /\ new.lifecycle = "DRAFT" /\ ~ new.confirmed
    BY <2>1
  <2>4. QED
    BY <2>2, <2>3
<1>2. records[r] = None /\ new # None /\ UNCHANGED <<reviewing, overtaken>>
  BY SMTT(60) DEF Rules!Stage, Rules!RulesAssumption
<1>3. \A i \in Identities : Rules!ActiveOf(i)' = Rules!ActiveOf(i)
  BY <1>1, <1>2, SMTT(60) DEF Rules!ActiveOf, RulesInv, RulesTyped, Rules!TypeOK
<1>4. QED
  BY <1>1, <1>2, <1>3 DEF RulesInv, RulesTyped, Rules!TypeOK, ReadsHold, ConfirmedIsSound, ActiveIsConfirmed, Single, Rules!Idle,
     Review, Activate, Commit

LEMMA RulesReads ==
  ASSUME RulesInv, NEW t \in Threads, NEW r \in RuleSets, Rules!ReadForReview(t, r) \/ Rules!ReadForActivation(t, r) PROVE RulesInv'
  BY DEF Rules!ReadForReview, Rules!ReadForActivation, RulesInv, RulesTyped, Rules!TypeOK, ReadsHold, ConfirmedIsSound, ActiveIsConfirmed,
     Single, Rules!ActiveOf, Rules!Idle, Review, Activate, Commit

LEMMA RulesReadActive ==
  ASSUME RulesInv, NEW t \in Threads, Rules!ReadActive(t) PROVE RulesInv'
<1> DEFINE q == reviewing[t]  active == Rules!ActiveOf(q.seen.identity)
           next == [pc |-> "commit", id |-> q.id, seen |-> q.seen, active |-> active]
<1>1. reviewing[t] # Rules!Idle /\ q.pc = "activate" /\ UNCHANGED <<records, overtaken>>
  BY DEF Rules!ReadActive, Rules!Idle
<1>2. /\ q.id \in RuleSets /\ q.seen \in Rules!Record /\ records[q.id] # None /\ records[q.id].confirmed
      /\ records[q.id].identity = q.seen.identity /\ records[q.id].findings = q.seen.findings
  BY <1>1, RulesRead DEF RulesInv, ReadsHold
<1>3. active \subseteq RuleSets /\ \A r \in active : records[r] # None /\ records[r].identity = q.seen.identity
  BY DEF Rules!ActiveOf
<1>4. PICK new \in {Rules!Idle, next} : reviewing' = [reviewing EXCEPT ![t] = new]
  BY DEF Rules!ReadActive
<1>5. next \in Commit
  BY <1>2, <1>3 DEF Commit
<1>6. RulesTyped'
  BY <1>1, <1>4, <1>5, SMTT(60) DEF RulesInv, RulesTyped, Rules!TypeOK
<1>7. ReadsHold'
  <2> SUFFICES ASSUME NEW u \in Threads, reviewing'[u] # Rules!Idle
               PROVE  (LET p == reviewing[u] IN
                       /\ records[p.id] # None
                       /\ records[p.id].identity = p.seen.identity
                       /\ records[p.id].findings = p.seen.findings
                       /\ p.pc = "review" => p.seen.findings # "errors"
                       /\ p.pc \in {"activate", "commit"} => records[p.id].confirmed
                       /\ p.pc = "commit" => \A r \in p.active : records[r] # None /\ records[r].identity = p.seen.identity)'
    BY DEF ReadsHold
  <2>1. CASE u = t
    <3>1. reviewing'[u] = next
      BY <1>4, <2>1 DEF RulesInv, RulesTyped
    <3>2. QED
      BY <1>1, <1>2, <1>3, <3>1
  <2>2. CASE u # t
    <3>1. reviewing'[u] = reviewing[u]
      BY <1>4, <2>2 DEF RulesInv, RulesTyped
    <3>2. QED
      BY <1>1, <3>1 DEF RulesInv, ReadsHold
  <2>3. QED
    BY <2>1, <2>2
<1>8. (ConfirmedIsSound /\ ActiveIsConfirmed /\ Single)'
  BY <1>1 DEF RulesInv, ConfirmedIsSound, ActiveIsConfirmed, Single, Rules!ActiveOf
<1>9. QED
  BY <1>6, <1>7, <1>8 DEF RulesInv

\* What threads have read stays true when one of them ends with a commit that changes
\* neither identity nor text and takes no confirmation back.
LEMMA RulesOthers ==
  ASSUME RulesInv, NEW t \in Threads, reviewing' = [reviewing EXCEPT ![t] = Rules!Idle],
         \A r \in RuleSets : records[r] # None =>
           /\ records'[r] # None
           /\ records'[r].identity = records[r].identity
           /\ records'[r].findings = records[r].findings
           /\ records[r].confirmed => records'[r].confirmed
  PROVE  ReadsHold'
<1> SUFFICES ASSUME NEW u \in Threads, reviewing'[u] # Rules!Idle
             PROVE  (LET p == reviewing[u] IN
                     /\ records[p.id] # None
                     /\ records[p.id].identity = p.seen.identity
                     /\ records[p.id].findings = p.seen.findings
                     /\ p.pc = "review" => p.seen.findings # "errors"
                     /\ p.pc \in {"activate", "commit"} => records[p.id].confirmed
                     /\ p.pc = "commit" => \A r \in p.active : records[r] # None /\ records[r].identity = p.seen.identity)'
  BY DEF ReadsHold
<1>1. reviewing'[u] = reviewing[u] /\ reviewing[u] # Rules!Idle
  BY DEF RulesInv, RulesTyped
<1>2. reviewing[u].id \in RuleSets /\ records[reviewing[u].id] # None
  BY <1>1, RulesRead DEF RulesInv, ReadsHold
<1>3. reviewing[u].pc = "commit" => reviewing[u].active \subseteq RuleSets
  BY <1>1, RulesRead DEF Review, Activate, Commit
<1>4. QED
  BY <1>1, <1>2, <1>3 DEF RulesInv, ReadsHold

\* A review changes the lifecycle, the confirmation and the validation of its row:
\* the lifecycle to REVIEWED or not at all, the confirmation to TRUE or not at all.
LEMMA RulesReview ==
  ASSUME Rules!RulesAssumption, RulesInv, NEW t \in Threads, Rules!CommitReview(t) PROVE RulesInv'
<1> DEFINE q == reviewing[t]  row == records[q.id]
<1>0. q # Rules!Idle /\ q.pc = "review"
  BY DEF Rules!CommitReview, Rules!Idle
<1>1. /\ q.id \in RuleSets /\ q.seen \in Rules!Record /\ row \in Rules!Record /\ q.seen.findings # "errors"
      /\ row.identity = q.seen.identity /\ row.findings = q.seen.findings
  BY <1>0, RulesRead, SMTT(60) DEF RulesInv, ReadsHold
<1>2. PICK new \in Rules!Record : 
        /\ records' = [records EXCEPT ![q.id] = new]
        /\ new.identity = row.identity /\ new.findings = row.findings
        /\ new.lifecycle \in {"REVIEWED", row.lifecycle}
        /\ new.confirmed \in {TRUE, row.confirmed}
  <2> DEFINE valid == Rules!validate_rule_set(row.findings, "REVIEWED")
             new == [identity |-> row.identity, supersedes |-> row.supersedes, findings |-> row.findings,
                     lifecycle |-> Rules!Written(q.seen.lifecycle, "REVIEWED", row.lifecycle),
                     payload |-> Rules!Written(q.seen.payload, "REVIEWED", row.payload),
                     confirmed |-> Rules!Written(q.seen.confirmed, TRUE, row.confirmed),
                     validation |-> Rules!Written(q.seen.validation, valid, row.validation)]
  <2>1. records' = [records EXCEPT ![q.id] = new]
    BY DEF Rules!CommitReview
  <2>2. valid \in {"INVALID", "REQUIRES_REVIEW", "VALID"}
    BY <1>1, RulesValidation DEF Rules!Record, Rules!RuleLifecycle
  <2>3. new \in Rules!Record /\ new.lifecycle \in {"REVIEWED", row.lifecycle} /\ new.confirmed \in {TRUE, row.confirmed}
    BY <1>1, <2>2 DEF Rules!Written, Rules!Record, Rules!RuleLifecycle
  <2>4. QED
    BY <2>1, <2>3
<1>3. new # None /\ reviewing' = [reviewing EXCEPT ![t] = Rules!Idle] /\ overtaken' = overtaken
  BY DEF Rules!CommitReview, Rules!RulesAssumption
<1>4. \A i \in Identities : Rules!ActiveOf(i)' \subseteq Rules!ActiveOf(i)
  BY <1>1, <1>2, <1>3 DEF Rules!ActiveOf, RulesInv, RulesTyped, Rules!TypeOK, Rules!RulesAssumption
<1>a. \A r \in RuleSets :
        /\ records[r] # None => records'[r] # None
        /\ records[r] # None => /\ records'[r].identity = records[r].identity
                                /\ records'[r].findings = records[r].findings
                                /\ records[r].confirmed => records'[r].confirmed
  BY <1>1, <1>2, <1>3 DEF RulesInv, RulesTyped, Rules!TypeOK
<1>b. RulesTyped'
  BY <1>2, <1>3 DEF RulesInv, RulesTyped, Rules!TypeOK
<1>5. ReadsHold'
  BY <1>3, <1>a, RulesRead, RulesOthers DEF RulesInv
<1>6. (ConfirmedIsSound /\ ActiveIsConfirmed)'
  BY <1>1, <1>2, <1>3 DEF RulesInv, RulesTyped, Rules!TypeOK, ConfirmedIsSound, ActiveIsConfirmed, Rules!RulesAssumption
<1>7. Single'
  BY <1>3, <1>4 DEF RulesInv, Single
<1>8. QED
  BY <1>b, <1>5, <1>6, <1>7 DEF RulesInv

\* A row that is made ACTIVE, or superseded, keeps its identity, text and confirmation.
LEMMA RulesRows ==
  ASSUME NEW row \in Rules!Record
  PROVE  LET a == [row EXCEPT !.lifecycle = "ACTIVE", !.payload = "ACTIVE"]
             b == [row EXCEPT !.lifecycle = "SUPERSEDED"]
         IN /\ a \in Rules!Record /\ a.identity = row.identity /\ a.findings = row.findings /\ a.confirmed = row.confirmed
            /\ b \in Rules!Record /\ b.identity = row.identity /\ b.findings = row.findings /\ b.confirmed = row.confirmed
            /\ b.lifecycle = "SUPERSEDED"
  BY DEF Rules!Record, Rules!RuleLifecycle

\* After an activation the identity has its rule set ACTIVE, and those nobody saw.
LEMMA RulesActivate ==
  ASSUME Rules!RulesAssumption, RulesInv, NEW t \in Threads, Rules!CommitActivation(t) PROVE RulesInv'
<1> DEFINE q == reviewing[t]
           unseen == Rules!ActiveOf(q.seen.identity) \ (q.active \cup {q.id})
<1>0. q # Rules!Idle /\ q.pc = "commit"
  <2>1. q.pc = "commit"
    BY Zenon DEF Rules!CommitActivation
  <2>2. QED
    BY <2>1 DEF Rules!Idle
<1>a. q.id \in RuleSets /\ q.active \subseteq RuleSets
  BY <1>0, RulesRead DEF Review, Activate, Commit
<1>1. /\ records[q.id] \in Rules!Record /\ records[q.id].confirmed
      /\ records[q.id].identity = q.seen.identity
      /\ \A r \in q.active : records[r] \in Rules!Record /\ records[r].identity = q.seen.identity
  BY <1>0, <1>a, RulesRead, SMTT(60) DEF RulesInv, RulesTyped, Rules!TypeOK, ReadsHold
<1>4. /\ records' = [r \in RuleSets |->
              IF r = q.id THEN [records[r] EXCEPT !.lifecycle = "ACTIVE", !.payload = "ACTIVE"]
              ELSE IF r \in q.active THEN [records[r] EXCEPT !.lifecycle = "SUPERSEDED"]
              ELSE records[r]]
      /\ overtaken' = IF unseen = {} THEN overtaken \ {q.seen.identity} ELSE overtaken \cup {q.seen.identity}
      /\ reviewing' = [reviewing EXCEPT ![t] = Rules!Idle]
  BY DEF Rules!CommitActivation, Rules!Superseded
<1>5. \A r \in RuleSets :
        /\ records'[r] # None <=> records[r] # None
        /\ records'[r] \in Rules!Record \cup {None}
        /\ records[r] # None => /\ records'[r].identity = records[r].identity
                                /\ records'[r].findings = records[r].findings
                                /\ records'[r].confirmed = records[r].confirmed
        /\ r # q.id /\ r \in q.active => records'[r].lifecycle = "SUPERSEDED"
        /\ r # q.id /\ r \notin q.active => records'[r] = records[r]
  <2> SUFFICES ASSUME NEW r \in RuleSets
               PROVE  /\ records'[r] # None <=> records[r] # None
                      /\ records'[r] \in Rules!Record \cup {None}
                      /\ records[r] # None => /\ records'[r].identity = records[r].identity
                                              /\ records'[r].findings = records[r].findings
                                              /\ records'[r].confirmed = records[r].confirmed
                      /\ r # q.id /\ r \in q.active => records'[r].lifecycle = "SUPERSEDED"
                      /\ r # q.id /\ r \notin q.active => records'[r] = records[r]
    OBVIOUS
  <2>1. CASE r = q.id
    <3>1. records'[r] = [records[r] EXCEPT !.lifecycle = "ACTIVE", !.payload = "ACTIVE"]
      BY <1>4, <2>1
    <3>2. QED
      <4>1. /\ records'[r] \in Rules!Record /\ records'[r].identity = records[r].identity
            /\ records'[r].findings = records[r].findings /\ records'[r].confirmed = records[r].confirmed
        <5>1. records[r] \in Rules!Record
          BY <1>1, <2>1
        <5>2. QED
          BY <3>1, <5>1, RulesRows, ZenonT(60)
      <4>2. QED
        BY <4>1, <1>1, <2>1 DEF Rules!RulesAssumption
  <2>2. CASE r # q.id /\ r \in q.active
    <3>1. records'[r] = [records[r] EXCEPT !.lifecycle = "SUPERSEDED"]
      BY <1>4, <2>2, ZenonT(60)
    <3>2. QED
      <4>1. /\ records'[r] \in Rules!Record /\ records'[r].identity = records[r].identity
            /\ records'[r].findings = records[r].findings /\ records'[r].confirmed = records[r].confirmed
            /\ records'[r].lifecycle = "SUPERSEDED"
        <5>1. records[r] \in Rules!Record
          BY <1>1, <2>2, SMTT(60)
        <5>2. QED
          BY <3>1, <5>1, RulesRows, ZenonT(60)
      <4>2. QED
        BY <4>1, <1>1, <2>2 DEF Rules!RulesAssumption
  <2>3. CASE r # q.id /\ r \notin q.active
    BY <1>4, <2>3, ZenonT(60) DEF RulesInv, RulesTyped, Rules!TypeOK
  <2>4. QED
    BY <2>1, <2>2, <2>3
<1>6. (RulesTyped /\ ReadsHold)'
  <2>1. records' \in [RuleSets -> Rules!Record \cup {None}]
    BY <1>4, <1>5, ZenonT(60)
  <2>2. overtaken' \subseteq Identities
    BY <1>4, <1>0, RulesRead, ZenonT(60) DEF RulesInv, RulesTyped, Rules!TypeOK, Rules!Record
  <2>3. reviewing' \in [Threads -> {Rules!Idle} \cup Review \cup Activate \cup Commit]
    BY <1>4, ZenonT(60) DEF RulesInv, RulesTyped
  <2>4. ReadsHold'
    BY <1>4, <1>5, RulesOthers, ZenonT(60)
  <2>5. QED
    BY <2>1, <2>2, <2>3, <2>4, SMTT(60) DEF RulesTyped, Rules!TypeOK
<1>7. (ConfirmedIsSound /\ ActiveIsConfirmed)'
  BY <1>1, <1>5 DEF RulesInv, ConfirmedIsSound, ActiveIsConfirmed
<1>8. Single'
  <2> SUFFICES ASSUME NEW i \in Identities, i \notin overtaken', NEW r \in Rules!ActiveOf(i)', NEW s \in Rules!ActiveOf(i)'
               PROVE r = s
    BY SMTT(60) DEF Single
  <2>1. CASE i = q.seen.identity
    <3>1. unseen = {}
      BY <2>1, <1>4
    <3>2. Rules!ActiveOf(i)' \subseteq {q.id}
      BY <1>1, <1>5, <2>1, <3>1 DEF Rules!ActiveOf
    <3>3. QED
      BY <3>2, SMTT(60)
  <2>2. CASE i # q.seen.identity
    <3>1. Rules!ActiveOf(i)' \subseteq Rules!ActiveOf(i)
      BY <1>1, <1>5, <2>2, SMTT(60) DEF Rules!ActiveOf
    <3>2. i \notin overtaken
      BY <1>4, <2>2
    <3>3. QED
      BY <3>1, <3>2 DEF RulesInv, Single
  <2>3. QED
    BY <2>1, <2>2
<1>9. QED
  BY <1>6, <1>7, <1>8 DEF RulesInv

LEMMA RulesKeep == Rules!RulesAssumption /\ RulesInv /\ [Rules!Next]_(Rules!vars) => RulesInv'
<1> SUFFICES ASSUME Rules!RulesAssumption, RulesInv, [Rules!Next]_(Rules!vars) PROVE RulesInv' OBVIOUS
<1>1. CASE UNCHANGED Rules!vars
  BY <1>1 DEF Rules!vars, RulesInv, RulesTyped, Rules!TypeOK, ReadsHold, ConfirmedIsSound, ActiveIsConfirmed, Single, Rules!ActiveOf
<1>2. QED
  BY <1>1, RulesStage, RulesReads, RulesReadActive, RulesReview, RulesActivate DEF Rules!Next

\* Whatever requests interleave, an ACTIVE rule set was confirmed by a reviewer and its
\* text has no errors.
THEOREM ActiveWasReviewed == AdvisingSpec => []ActiveIsReviewed
<1>1. RulesInv => ActiveIsReviewed
  BY DEF RulesInv, ConfirmedIsSound, ActiveIsConfirmed, ActiveIsReviewed, Rules!ActiveIsReviewed
<1>2. RulesInv /\ [Rules!Next]_(Rules!vars) => RulesInv'
  BY RulesKeep, AdvisingConstants
<1>3. QED
  BY RulesInit, EachServiceRuns, <1>1, <1>2, PTL DEF Rules!Spec

\* Readers of an identity find a conflict only after an activation was overtaken.
THEOREM ConflictMeansOvertaken == AdvisingSpec => []OneActiveUnlessOvertaken
<1>1. RulesInv => OneActiveUnlessOvertaken
  BY DEF RulesInv, Single, OneActiveUnlessOvertaken, Rules!OneActiveUnlessOvertaken, Rules!resolve
<1>2. RulesInv /\ [Rules!Next]_(Rules!vars) => RulesInv'
  BY RulesKeep, AdvisingConstants
<1>3. QED
  BY RulesInit, EachServiceRuns, <1>1, <1>2, PTL DEF Rules!Spec
-----------------------------------------------------------------------------
(* Section monitoring *)

LEMMA MonitorGreatest ==
  ASSUME NEW n \in Nat, NEW s, s \subseteq 1..n, s # {}
  PROVE Monitor!Max(s) \in s /\ \A k \in s : k <= Monitor!Max(s)
<1>1. Greatest(s) \in s /\ \A k \in s : Greatest(s) >= k
  BY GreatestMember
<1> QED
  BY <1>1, Zenon DEF Monitor!Max

LEMMA BatchStays ==
  ASSUME NEW T, NEW base \in T, NEW P, NEW n \in Nat, NEW batch \in [1..n -> P],
         \A t \in T, p \in P : Monitor!CompareOne(t, p) \in T
  PROVE Monitor!FoldLeft(Monitor!CompareOne, base, batch) \in T
<1> DEFINE U == 1..n
           pick == [s \in SUBSET U |-> Monitor!Max(s)]
           step == [t \in T |-> [x \in U |-> Monitor!CompareOne(t, batch[x])]]
           Body(g) == [s \in SUBSET U |-> IF s = {} THEN base
                                          ELSE Monitor!CompareOne(g[s \ {Monitor!Max(s)}], batch[Monitor!Max(s)])]
           c == CHOOSE g : g = Body(g)
<1>1. IsFiniteSet(U)
  BY FS_Interval
<1>2. \A s \in SUBSET U : s # {} => pick[s] \in s /\ pick[s] = Monitor!Max(s)
  BY MonitorGreatest
<1>3. \A t \in T, x \in U : step[t][x] \in T
  OBVIOUS
<1>4. \E g : g = Body(g)
  <2> HIDE DEF step, pick, U
  <2>1. PICK g \in [SUBSET U -> T] : \A s \in SUBSET U : StepsTo(g, U, pick, base, step, s)
    BY <1>1, <1>2, <1>3, FoldExists
  <2>2. ASSUME NEW s \in SUBSET U PROVE g[s] = Body(g)[s]
    <3>1. CASE s = {}
      BY <2>1, <3>1 DEF StepsTo
    <3>2. CASE s # {}
      <4>1. g[s] = step[g[s \ {pick[s]}]][pick[s]] /\ s \ {pick[s]} \in SUBSET U /\ pick[s] \in U
        BY <1>2, <2>1, <3>2 DEF StepsTo
      <4>2. g[s \ {pick[s]}] \in T
        BY <4>1
      <4> QED
        BY <1>2, <3>2, <4>1, <4>2 DEF step
    <3> QED
      BY <3>1, <3>2
  <2> QED
    BY <2>2
<1>5. c = Body(c)
  BY <1>4, Zenon
<1>6. Monitor!FoldLeft(Monitor!CompareOne, base, batch) = c[U]
  <2>1. DOMAIN batch = U
    OBVIOUS
  <2> HIDE DEF U
  <2> QED
    BY <2>1, Zenon DEF Monitor!FoldLeft, Monitor!MapThenFoldSet
<1>7. c[{}] \in T
  BY <1>5
<1>8. ASSUME NEW s \in SUBSET U, s # {}, c[s \ {pick[s]}] \in T PROVE c[s] \in T
  <2>1. c[s] = Monitor!CompareOne(c[s \ {Monitor!Max(s)}], batch[Monitor!Max(s)])
    <3> HIDE DEF c
    <3> QED
      BY <1>5, <1>8
  <2>2. pick[s] = Monitor!Max(s) /\ batch[Monitor!Max(s)] \in P
    BY <1>2, <1>8
  <2> QED
    BY <1>8, <2>1, <2>2
<1>9. c[U] \in T
  <2> HIDE DEF c, pick, U
  <2> QED
    BY <1>1, <1>2, <1>7, <1>8, FoldStays
<1> QED
  BY <1>6, <1>9

AlertTypes == {"SECTION_OPENED", "SECTION_CLOSED", "STATUS_CHANGED", "CHANGED", "UNKNOWN_CHANGE"}
Specs == AlertTypes \X ({"status", "raw_payload"} \cup Fields)
Alert == [target : Monitored, previous : Nat, current : Nat, spec : Specs, seen : BOOLEAN]
EarlierIn(table, i) == {j \in 1..(i - 1) : table[j].section = table[i].section}
\* Index j is that of the only latest one among the earlier snapshots of the section.
LastBefore(table, j, i) == \A k \in EarlierIn(table, i) : k # j => table[k].at < table[j].at
SpecsAt(rows, i) == {a.spec : a \in {b \in rows : b.current = i}}

\* What every payload of a request leaves as it found it, unless it fails.
AlertsInPlace(t) ==
  \A a \in t.alerts : /\ a.current \in DOMAIN t.snapshots
                      /\ a.previous \in EarlierIn(t.snapshots, a.current)
                      /\ a.target = t.snapshots[a.current].target
                      /\ t.targets[a.target] # None
AlertsOfChanges(t) ==
  \A i \in DOMAIN t.snapshots : \A j \in EarlierIn(t.snapshots, i) :
    LastBefore(t.snapshots, j, i) =>
      SpecsAt(t.alerts, i) = Monitor!alert_specs(t.snapshots[j].content, t.snapshots[i].content)
HashesUnique(t) ==
  \A i, j \in DOMAIN t.snapshots :
    t.snapshots[i].section = t.snapshots[j].section /\ t.snapshots[i].content = t.snapshots[j].content => i = j
MonitorSound(t) ==
  HashesUnique(t) /\ Monitor!SectionMonitorAlerts(t.alerts) /\ AlertsInPlace(t) /\ AlertsOfChanges(t)
MonitorTables ==
  {t \in [targets : [Monitored -> Monitor!SectionMonitorTarget], snapshots : Seq(Monitor!Snapshot) \cup {None},
          alerts : SUBSET Alert] : t.snapshots # None => MonitorSound(t)}
MonitorInv ==
  /\ targets \in [Monitored -> Monitor!SectionMonitorTarget]
  /\ snapshots \in Seq(Monitor!Snapshot) /\ alerts \in SUBSET Alert /\ clock \in 0..MonitorTime
  /\ MonitorSound(Monitor!Tables)

LEMMA MonitorConstants ==
  /\ MonitorTime \in Nat /\ None # "none" /\ \A c \in Contents : c.status # None
  /\ \A p \in Payloads : /\ p.section \in Monitored /\ p.content \in Contents
                         /\ p.target \in {"own", "other", "unknown"} /\ p.id \in Monitor!Ids
  BY AdvisingConstants DEF Monitor!MonitoringAssumption, Monitor!Payload

\* Each of the changes has its type and its field.
LEMMA SpecsTyped ==
  ASSUME NEW c, NEW d PROVE Monitor!alert_specs(c, d) \subseteq Specs
<1>1. Monitor!StatusType(c.status, d.status) \in {"SECTION_OPENED", "SECTION_CLOSED", "STATUS_CHANGED"}
  BY Zenon DEF Monitor!StatusType
<1>2. Monitor!StatusType(c.status, d.status) \in AlertTypes
  BY <1>1 DEF AlertTypes
<1>3. \A f \in Fields : <<"CHANGED", f>> \in Specs
  BY DEF Specs, AlertTypes
<1>4. <<Monitor!StatusType(c.status, d.status), "status">> \in Specs /\ <<"UNKNOWN_CHANGE", "raw_payload">> \in Specs
  BY <1>2 DEF Specs, AlertTypes
<1> QED
  BY <1>3, <1>4, Zenon DEF Monitor!alert_specs

LEMMA ResolvesTo ==
  ASSUME NEW t, NEW p \in Payloads, Monitor!resolve_target(t, p) # None
  PROVE Monitor!resolve_target(t, p) \in Monitored
<1>1. p.section \in Monitored
  BY MonitorConstants
<1>2. CASE p.target = "own"
  BY <1>1, <1>2 DEF Monitor!resolve_target
<1>3. CASE p.target # "own" /\ p.target = "other" /\ \E s \in Monitored : s # p.section /\ t.targets[s] # None
  <2>1. Monitor!resolve_target(t, p) = CHOOSE s \in Monitored : s # p.section /\ t.targets[s] # None
    BY <1>3 DEF Monitor!resolve_target
  <2>2. (CHOOSE s \in Monitored : s # p.section /\ t.targets[s] # None) \in Monitored
    BY <1>3, Zenon
  <2> QED
    BY <2>1, <2>2
<1>4. CASE p.target # "own" /\ ~ (p.target = "other" /\ \E s \in Monitored : s # p.section /\ t.targets[s] # None)
  BY <1>4 DEF Monitor!resolve_target
<1> QED
  BY <1>2, <1>3, <1>4

\* The snapshot found as the previous one is the last before the new one, if there is
\* only one of the latest time.
LEMMA PreviousIsLast ==
  ASSUME NEW table \in Seq(Monitor!Snapshot), NEW i \in Nat, i = Len(table)
  PROVE /\ Monitor!previous_snapshot(table, i) \subseteq EarlierIn(table, i)
        /\ \A j \in EarlierIn(table, i) : LastBefore(table, j, i) => Monitor!previous_snapshot(table, i) = {j}
<1> DEFINE others == {j \in DOMAIN table : j # i /\ table[j].section = table[i].section}
           Newer(a, b) == table[a].at > table[b].at \/ (table[a].at = table[b].at /\ table[a].id > table[b].id)
<1>1. DOMAIN table = 1..i
  OBVIOUS
<1>2. others = EarlierIn(table, i)
  BY <1>1 DEF EarlierIn
<1>3. Monitor!previous_snapshot(table, i) = {j \in others : \A k \in others : ~ Newer(k, j)}
  BY DEF Monitor!previous_snapshot
<1>4. \A j \in others : table[j].at \in Int /\ table[j].id \in Int
  <2>1. \A j \in others : table[j] \in Monitor!Snapshot
    BY <1>1, ElementOfSeq
  <2> QED
    BY <2>1, MonitorConstants DEF Monitor!Snapshot, Monitor!Ids
<1>5. ASSUME NEW j \in EarlierIn(table, i), LastBefore(table, j, i)
      PROVE Monitor!previous_snapshot(table, i) = {j}
  <2> HIDE DEF others
  <2>1. \A k \in others : k # j => table[k].at < table[j].at
    BY <1>2, <1>5 DEF LastBefore
  <2>2. j \in others
    BY <1>2, <1>5
  <2>3. \A k \in others : ~ Newer(k, j)
    BY <1>4, <2>1, <2>2
  <2>4. \A k \in others : k # j => Newer(j, k)
    BY <1>4, <2>1, <2>2
  <2> HIDE DEF Newer
  <2> QED
    BY <1>3, <2>2, <2>3, <2>4
<1> QED
  BY <1>2, <1>3, <1>5

\* A new payload adds its snapshot with the alerts of its change.
LEMMA StoreStays ==
  ASSUME clock \in 0..MonitorTime, NEW t \in MonitorTables, NEW p \in Payloads,
         t.snapshots # None, ~ Monitor!Known(t, p), Monitor!resolve_target(t, p) # None
  PROVE Monitor!store_snapshot(t, p) \in MonitorTables
<1> DEFINE s == Monitor!resolve_target(t, p)
           new == [section |-> p.section, target |-> s, content |-> p.content, at |-> clock, id |-> p.id]
           old == t.snapshots
           table == Append(old, new)
           i == Len(table)
           Raised(j) == {[target |-> s, previous |-> j, current |-> i, spec |-> spec, seen |-> FALSE] :
                           spec \in Monitor!alert_specs(table[j].content, p.content)}
           raised == UNION {Raised(j) : j \in Monitor!previous_snapshot(table, i)}
           u == [targets |-> Monitor!Retarget(t, s, p.content), snapshots |-> table, alerts |-> t.alerts \cup raised]
<1>1. /\ old \in Seq(Monitor!Snapshot) /\ t.targets \in [Monitored -> Monitor!SectionMonitorTarget]
      /\ t.alerts \subseteq Alert /\ MonitorSound(t)
  BY DEF MonitorTables
<1>2. s \in Monitored
  BY ResolvesTo
<1>3. new \in Monitor!Snapshot
  BY <1>2, MonitorConstants DEF Monitor!Snapshot
<1>4. /\ table \in Seq(Monitor!Snapshot) /\ i \in Nat /\ i = Len(old) + 1 /\ table[i] = new
      /\ DOMAIN table = 1..i /\ DOMAIN old = 1..(i - 1)
      /\ \A j \in 1..(i - 1) : table[j] = old[j]
  <2> HIDE DEF new
  <2> QED
    BY <1>1, <1>3
<1>5. /\ EarlierIn(table, i) = {j \in 1..(i - 1) : old[j].section = p.section}
      /\ \A k \in 1..(i - 1) : EarlierIn(table, k) = EarlierIn(old, k)
      /\ \A k \in 1..(i - 1) : \A j \in EarlierIn(old, k) : LastBefore(table, j, k) <=> LastBefore(old, j, k)
  <2>1. EarlierIn(table, i) = {j \in 1..(i - 1) : old[j].section = p.section}
    <3>1. \A j \in 1..(i - 1) : table[j].section = table[i].section <=> old[j].section = p.section
      BY <1>4
    <3> HIDE DEF table, i, new
    <3> QED
      BY <3>1 DEF EarlierIn
  <2>2. ASSUME NEW k \in 1..(i - 1) PROVE EarlierIn(table, k) = EarlierIn(old, k)
    <3>1. table[k] = old[k] /\ \A j \in 1..(k - 1) : table[j] = old[j]
      <4>1. i \in Nat
        BY <1>4
      <4> HIDE DEF i, table
      <4>2. \A j \in 1..(k - 1) : j \in 1..(i - 1)
        BY <4>1
      <4> QED
        BY <1>4, <4>2
    <3> HIDE DEF table, new
    <3> QED
      BY <3>1 DEF EarlierIn
  <2>3. ASSUME NEW k \in 1..(i - 1), NEW j \in EarlierIn(old, k)
        PROVE LastBefore(table, j, k) <=> LastBefore(old, j, k)
    <3>1. i \in Nat
      BY <1>4
    <3> HIDE DEF table, i, new
    <3>2. \A l \in EarlierIn(old, k) : l \in 1..(i - 1)
      BY <3>1 DEF EarlierIn
    <3>3. \A l \in EarlierIn(old, k) : table[l] = old[l]
      BY <1>4, <3>2
    <3> QED
      BY <2>2, <3>3 DEF LastBefore
  <2> QED
    BY <2>1, <2>2, <2>3
<1>6. Monitor!previous_snapshot(table, i) \subseteq EarlierIn(table, i)
  <2> HIDE DEF table
  <2> QED
    BY <1>4, PreviousIsLast
<1>7. \A a \in raised : /\ a \in Alert /\ a.current = i /\ a.previous \in EarlierIn(table, i) /\ a.target = s
                        /\ a.previous \in Monitor!previous_snapshot(table, i)
                        /\ a = [target |-> s, previous |-> a.previous, current |-> i, spec |-> a.spec, seen |-> FALSE]
  <2> SUFFICES ASSUME NEW j \in Monitor!previous_snapshot(table, i),
                      NEW spec \in Monitor!alert_specs(table[j].content, p.content)
               PROVE /\ j \in EarlierIn(table, i)
                     /\ [target |-> s, previous |-> j, current |-> i, spec |-> spec, seen |-> FALSE] \in Alert
    <3> HIDE DEF table, i, s
    <3> QED
      OBVIOUS
  <2>1. j \in EarlierIn(table, i) /\ spec \in Specs
    BY <1>6, SpecsTyped
  <2>2. j \in Nat /\ i \in Nat
    BY <1>4, <2>1 DEF EarlierIn
  <2> HIDE DEF table, i, s
  <2> QED
    BY <1>2, <2>1, <2>2 DEF Alert
<1> DEFINE retargeted == Monitor!Retarget(t, s, p.content)
<1>8. /\ retargeted \in [Monitored -> Monitor!SectionMonitorTarget] /\ retargeted[s] # None
      /\ \A m \in Monitored : t.targets[m] # None => retargeted[m] # None
  <2> HIDE DEF s
  <2>1. p.content \in Contents
    BY MonitorConstants
  <2> QED
    BY <1>1, <1>2, <2>1, MonitorConstants DEF Monitor!Retarget, Monitor!SectionMonitorTarget
<1> HIDE DEF retargeted
<1>9. u \in [targets : [Monitored -> Monitor!SectionMonitorTarget], snapshots : Seq(Monitor!Snapshot) \cup {None},
            alerts : SUBSET Alert]
  <2>1. raised \subseteq Alert
    BY <1>7
  <2> HIDE DEF table, raised
  <2> QED
    BY <1>1, <1>4, <1>8, <2>1 DEF retargeted
<1>10. HashesUnique(u)
  <2>1. \A k \in 1..(i - 1) : ~ (old[k].section = p.section /\ old[k].content = p.content)
    BY <1>4 DEF Monitor!Known
  <2>2. \A k \in 1..(i - 1) : ~ (table[k].section = table[i].section /\ table[k].content = table[i].content)
    BY <1>4, <2>1
  <2>3. HashesUnique(t)
    BY <1>1 DEF MonitorSound
  <2>4. \A k \in DOMAIN table : k \in 1..(i - 1) \/ k = i
    BY <1>4
  <2> HIDE DEF table, i, new
  <2> QED
    BY <1>4, <2>2, <2>3, <2>4, SMTT(60) DEF HashesUnique
<1>11. Monitor!SectionMonitorAlerts(u.alerts)
  <2>1. Monitor!SectionMonitorAlerts(t.alerts) /\ \A a \in t.alerts : a.current \in 1..(i - 1)
    BY <1>1, <1>4 DEF MonitorSound, AlertsInPlace
  <2>2. \A a \in t.alerts : a.current # i
    BY <1>4, <2>1
  <2> HIDE DEF raised, table, i
  <2>3. \A a, b \in raised : a.previous = b.previous /\ a.spec = b.spec => a = b
    BY <1>7, Zenon
  <2>4. \A a, b \in t.alerts : a.previous = b.previous /\ a.current = b.current /\ a.spec = b.spec => a = b
    BY <2>1 DEF Monitor!SectionMonitorAlerts
  <2>5. \A a, b \in t.alerts \cup raised :
          a.previous = b.previous /\ a.current = b.current /\ a.spec = b.spec => a = b
    BY <1>7, <2>2, <2>3, <2>4
  <2> QED
    BY <2>5 DEF Monitor!SectionMonitorAlerts
<1>12. AlertsInPlace(u)
  <2>1. AlertsInPlace(t)
    BY <1>1 DEF MonitorSound
  <2>2. ASSUME NEW a \in t.alerts
        PROVE /\ a.current \in DOMAIN table /\ a.previous \in EarlierIn(table, a.current)
              /\ a.target = table[a.current].target /\ retargeted[a.target] # None
    <3>1. /\ a.current \in 1..(i - 1) /\ a.previous \in EarlierIn(old, a.current)
          /\ a.target = old[a.current].target /\ t.targets[a.target] # None
      BY <1>4, <2>1 DEF AlertsInPlace
    <3>2. a.target \in Monitored
      BY <1>1 DEF Alert
    <3>3. a.current \in DOMAIN table
      BY <1>4, <3>1
    <3> HIDE DEF table, i, new
    <3> QED
      BY <1>4, <1>5, <1>8, <3>1, <3>2, <3>3
  <2>3. ASSUME NEW a \in raised
        PROVE /\ a.current \in DOMAIN table /\ a.previous \in EarlierIn(table, a.current)
              /\ a.target = table[a.current].target /\ retargeted[a.target] # None
    <3>1. i \in DOMAIN table /\ table[i].target = s
      BY <1>4
    <3> HIDE DEF table, i, new, raised, s
    <3> QED
      BY <1>7, <1>8, <2>3, <3>1
  <2> HIDE DEF table, raised, s
  <2> QED
    BY <2>2, <2>3 DEF AlertsInPlace, retargeted
<1>13. AlertsOfChanges(u)
  <2>1. AlertsInPlace(t) /\ AlertsOfChanges(t)
    BY <1>1 DEF MonitorSound
  <2>2. \A a \in t.alerts : a.current \in 1..(i - 1)
    BY <1>4, <2>1 DEF AlertsInPlace
  <2>3. ASSUME NEW k \in 1..(i - 1), NEW j \in EarlierIn(table, k), LastBefore(table, j, k)
        PROVE SpecsAt(t.alerts \cup raised, k) = Monitor!alert_specs(table[j].content, table[k].content)
    <3>0. i \in Nat /\ k # i
      BY <1>4
    <3> HIDE DEF table, i, new, raised
    <3>1. SpecsAt(t.alerts \cup raised, k) = SpecsAt(t.alerts, k)
      BY <1>7, <3>0 DEF SpecsAt
    <3>2. j \in EarlierIn(old, k) /\ LastBefore(old, j, k)
      BY <1>5, <2>3
    <3>3. j \in 1..(i - 1)
      BY <3>0, <3>2 DEF EarlierIn
    <3> QED
      BY <1>4, <2>1, <3>1, <3>2, <3>3 DEF AlertsOfChanges
  <2>4. ASSUME NEW j \in EarlierIn(table, i), LastBefore(table, j, i)
        PROVE SpecsAt(t.alerts \cup raised, i) = Monitor!alert_specs(table[j].content, table[i].content)
    <3>1. Monitor!previous_snapshot(table, i) = {j}
      <4> HIDE DEF table
      <4> QED
        BY <1>4, <2>4, PreviousIsLast
    <3>2. raised = Raised(j)
      BY <3>1, ZenonT(60)
    <3>3. {a.spec : a \in Raised(j)} = Monitor!alert_specs(table[j].content, p.content)
      <4> DEFINE specs == Monitor!alert_specs(table[j].content, p.content)
                 AlertFor(spec) == [target |-> s, previous |-> j, current |-> i, spec |-> spec, seen |-> FALSE]
      <4>1. Raised(j) = {AlertFor(spec) : spec \in specs}
        OBVIOUS
      <4>2. \A spec : AlertFor(spec).spec = spec
        OBVIOUS
      <4> HIDE DEF AlertFor, Raised, specs
      <4>3. {a.spec : a \in Raised(j)} = specs
        BY <4>1, <4>2
      <4> QED
        BY <4>3 DEF specs
    <3>4. \A a \in t.alerts : a.current # i
      BY <1>4, <2>2
    <3>5. \A a \in Raised(j) : a.current = i
      BY <1>7, <3>2
    <3>6. SpecsAt(t.alerts \cup raised, i) = {a.spec : a \in Raised(j)}
      <4> HIDE DEF Raised, raised, i
      <4> QED
        BY <3>2, <3>4, <3>5 DEF SpecsAt
    <3>7. table[i].content = p.content
      BY <1>4
    <3> QED
      BY <3>3, <3>6, <3>7
  <2>5. \A k \in DOMAIN table : k \in 1..(i - 1) \/ k = i
    BY <1>4
  <2> HIDE DEF table, raised, i
  <2> QED
    BY <2>3, <2>4, <2>5 DEF AlertsOfChanges
<1>14. Monitor!store_snapshot(t, p) = u
  BY DEF Monitor!store_snapshot
<1> QED
  <2> HIDE DEF u
  <2> QED
    BY <1>9, <1>10, <1>11, <1>12, <1>13, <1>14 DEF MonitorTables, MonitorSound

\* One payload, and with it a batch, stays within sound tables or fails.
LEMMA CompareStays ==
  ASSUME MonitorInv, NEW t \in MonitorTables, NEW p \in Payloads
  PROVE Monitor!CompareOne(t, p) \in MonitorTables
<1>1. CASE t.snapshots = None \/ (t.snapshots # None /\ Monitor!Known(t, p))
  BY <1>1 DEF Monitor!CompareOne
<1>2. CASE t.snapshots # None /\ ~ Monitor!Known(t, p)
  <2>1. Monitor!CompareOne(t, p) = Monitor!store_snapshot(t, p)
    BY <1>2 DEF Monitor!CompareOne
  <2>2. CASE Monitor!resolve_target(t, p) # None
    BY <1>2, <2>1, <2>2, StoreStays DEF MonitorInv
  <2>3. CASE Monitor!resolve_target(t, p) = None
    <3>1. Monitor!store_snapshot(t, p) = Monitor!Failed
      BY <2>3 DEF Monitor!store_snapshot
    <3>2. Monitor!Failed \in MonitorTables
      BY DEF MonitorInv, Monitor!Failed, Monitor!Tables, MonitorTables
    <3> QED
      BY <2>1, <3>1, <3>2
  <2> QED
    BY <2>2, <2>3
<1> QED
  BY <1>1, <1>2

LEMMA TablesSound == ASSUME MonitorInv PROVE Monitor!Tables \in MonitorTables
  BY DEF MonitorInv, Monitor!Tables, MonitorTables

LEMMA MonitorInit == Monitor!Init => MonitorInv
<1> SUFFICES ASSUME Monitor!Init PROVE MonitorInv
  OBVIOUS
<1>1. targets \in [Monitored -> Monitor!SectionMonitorTarget] /\ clock \in 0..MonitorTime
  BY MonitorConstants DEF Monitor!Init, Monitor!SectionMonitorTarget
<1>2. snapshots \in Seq(Monitor!Snapshot) /\ DOMAIN snapshots = {} /\ alerts = {}
  BY DEF Monitor!Init
<1>3. MonitorSound(Monitor!Tables)
  BY <1>2 DEF MonitorSound, Monitor!Tables, HashesUnique, Monitor!SectionMonitorAlerts, AlertsInPlace, AlertsOfChanges
<1> QED
  BY <1>1, <1>2, <1>3 DEF MonitorInv

LEMMA MonitorCompare ==
  ASSUME MonitorInv, NEW batch \in Monitor!Batches, Monitor!compare_snapshots(batch) PROVE MonitorInv'
<1> DEFINE t == Monitor!FoldLeft(Monitor!CompareOne, Monitor!Tables, batch)
<1>1. PICK n \in 1..MaxBatch : batch \in [1..n -> Payloads]
  BY DEF Monitor!Batches
<1>2. n \in Nat
  OBVIOUS
<1>3. t \in MonitorTables
  BY <1>1, <1>2, TablesSound, CompareStays, BatchStays
<1>4. t.snapshots # None /\ targets' = t.targets /\ snapshots' = t.snapshots /\ alerts' = t.alerts /\ clock' = clock
  BY Zenon DEF Monitor!compare_snapshots
<1> HIDE DEF t
<1>5. /\ t.targets \in [Monitored -> Monitor!SectionMonitorTarget] /\ t.snapshots \in Seq(Monitor!Snapshot)
      /\ t.alerts \in SUBSET Alert /\ MonitorSound(t)
      /\ t = [targets |-> t.targets, snapshots |-> t.snapshots, alerts |-> t.alerts]
  BY <1>3, <1>4 DEF MonitorTables
<1>6. Monitor!Tables' = t
  BY <1>4, <1>5 DEF Monitor!Tables
<1>7. MonitorSound(Monitor!Tables')
  BY <1>5, <1>6
<1> QED
  BY <1>4, <1>5, <1>7 DEF MonitorInv

\* A target changes its status, and stays.
LEMMA MonitorTarget ==
  ASSUME MonitorInv, NEW s \in Monitored, Monitor!create_target(s) \/ Monitor!update_target(s) PROVE MonitorInv'
<1>1. PICK status \in Monitor!SectionMonitorTarget :
        status # None /\ targets' = [targets EXCEPT ![s] = status] /\ UNCHANGED <<snapshots, alerts, clock>>
  BY MonitorConstants DEF Monitor!create_target, Monitor!update_target, Monitor!SectionMonitorTarget
<1>2. targets' \in [Monitored -> Monitor!SectionMonitorTarget]
  BY <1>1 DEF MonitorInv
<1>3. AlertsInPlace(Monitor!Tables')
  <2>1. \A a \in alerts : a.target \in Monitored
    BY DEF MonitorInv, Alert
  <2>2. \A m \in Monitored : targets[m] # None => targets'[m] # None
    BY <1>1 DEF MonitorInv
  <2> QED
    BY <1>1, <2>1, <2>2 DEF MonitorInv, MonitorSound, AlertsInPlace, Monitor!Tables
<1>4. (HashesUnique(Monitor!Tables) /\ Monitor!SectionMonitorAlerts(alerts) /\ AlertsOfChanges(Monitor!Tables))'
  BY <1>1 DEF MonitorInv, MonitorSound, HashesUnique, AlertsOfChanges, Monitor!SectionMonitorAlerts, Monitor!Tables
<1>5. MonitorSound(Monitor!Tables)'
  BY <1>3, <1>4 DEF MonitorSound, Monitor!Tables
<1> QED
  BY <1>1, <1>2, <1>5 DEF MonitorInv

LEMMA MonitorAcknowledge ==
  ASSUME MonitorInv, NEW a \in alerts, Monitor!acknowledge_alert(a) PROVE MonitorInv'
<1> DEFINE b == [a EXCEPT !.seen = ~ @]
<1>1. a \in Alert /\ alerts \subseteq Alert /\ UNCHANGED <<targets, snapshots, clock>> /\ alerts' = (alerts \ {a}) \cup {b}
  BY DEF MonitorInv, Monitor!acknowledge_alert
<1>2. /\ b \in Alert /\ b.target = a.target /\ b.previous = a.previous /\ b.current = a.current /\ b.spec = a.spec
  BY <1>1 DEF Alert
<1> HIDE DEF b
<1>3. AlertsInPlace(Monitor!Tables)'
  <2>1. \A c \in alerts : /\ c.current \in DOMAIN snapshots /\ c.previous \in EarlierIn(snapshots, c.current)
                          /\ c.target = snapshots[c.current].target /\ targets[c.target] # None
    BY DEF MonitorInv, MonitorSound, AlertsInPlace, Monitor!Tables
  <2>2. \A c \in alerts' : /\ c.current \in DOMAIN snapshots /\ c.previous \in EarlierIn(snapshots, c.current)
                           /\ c.target = snapshots[c.current].target /\ targets[c.target] # None
    BY <1>1, <1>2, <2>1
  <2> QED
    BY <1>1, <2>2 DEF AlertsInPlace, Monitor!Tables
<1>4. AlertsOfChanges(Monitor!Tables)'
  <2>1. \A i : SpecsAt(alerts, i)' = SpecsAt(alerts, i)
    BY <1>1, <1>2 DEF SpecsAt
  <2>2. \A i \in DOMAIN snapshots : \A j \in EarlierIn(snapshots, i) :
          LastBefore(snapshots, j, i) =>
            SpecsAt(alerts, i) = Monitor!alert_specs(snapshots[j].content, snapshots[i].content)
    BY DEF MonitorInv, MonitorSound, AlertsOfChanges, Monitor!Tables
  <2> QED
    BY <1>1, <2>1, <2>2 DEF AlertsOfChanges, Monitor!Tables
<1>5. Monitor!SectionMonitorAlerts(alerts')
  <2>1. \A c, d \in alerts : c.previous = d.previous /\ c.current = d.current /\ c.spec = d.spec => c = d
    BY DEF MonitorInv, MonitorSound, Monitor!SectionMonitorAlerts, Monitor!Tables
  <2>2. \A c, d \in alerts' : c.previous = d.previous /\ c.current = d.current /\ c.spec = d.spec => c = d
    BY <1>1, <1>2, <2>1
  <2> QED
    BY <2>2 DEF Monitor!SectionMonitorAlerts
<1>6. MonitorSound(Monitor!Tables)'
  <2>1. HashesUnique(Monitor!Tables)'
    BY <1>1 DEF MonitorInv, MonitorSound, HashesUnique, Monitor!Tables
  <2> QED
    BY <1>3, <1>4, <1>5, <2>1 DEF MonitorSound, Monitor!Tables
<1> QED
  BY <1>1, <1>2, <1>6 DEF MonitorInv

LEMMA MonitorKeeps == MonitorInv /\ [Monitor!Next]_(Monitor!vars) => MonitorInv'
<1> SUFFICES ASSUME MonitorInv, [Monitor!Next]_(Monitor!vars) PROVE MonitorInv'
  OBVIOUS
<1>1. ASSUME UNCHANGED <<targets, snapshots, alerts>>, clock' \in 0..MonitorTime PROVE MonitorInv'
  <2>1. Monitor!Tables' = Monitor!Tables
    BY <1>1 DEF Monitor!Tables
  <2>2. MonitorSound(Monitor!Tables')
    BY <2>1 DEF MonitorInv
  <2> QED
    BY <1>1, <2>2 DEF MonitorInv
<1>2. CASE UNCHANGED Monitor!vars
  BY <1>1, <1>2 DEF Monitor!vars, MonitorInv
<1>3. ASSUME NEW batch \in Monitor!Batches, Monitor!compare_refused(batch) PROVE MonitorInv'
  BY <1>2, <1>3 DEF Monitor!compare_refused
<1>4. CASE Monitor!Tick
  BY <1>1, <1>4, MonitorConstants DEF Monitor!Tick, MonitorInv
<1> QED
  BY <1>2, <1>3, <1>4, MonitorCompare, MonitorTarget, MonitorAcknowledge DEF Monitor!Next

\* The newest snapshot of a section has the alerts of its changes, for any number of
\* sections, snapshots and payloads in a request, in whatever order they come; every
\* stored row is one that the tables accept.
THEOREM ChangesAreTold == AdvisingSpec => [](Monitor!TypeOK /\ AlertsTellTheChange)
<1>1. MonitorInv => Monitor!TypeOK
  <2> SUFFICES ASSUME MonitorInv PROVE Monitor!TypeOK
    OBVIOUS
  <2>1. \A i \in DOMAIN snapshots : snapshots[i] \in Monitor!Snapshot
    BY ElementOfSeq DEF MonitorInv
  <2> QED
    BY <2>1 DEF MonitorInv, Monitor!TypeOK, MonitorSound, HashesUnique, AlertsInPlace, Monitor!Tables,
                Monitor!SectionMonitorSnapshots
<1>2. MonitorInv => AlertsTellTheChange
  BY ZenonT(60) DEF MonitorInv, MonitorSound, AlertsInPlace, AlertsOfChanges, Monitor!Tables, SpecsAt, EarlierIn, LastBefore,
         AlertsTellTheChange, Monitor!AlertsTellTheChange, Monitor!Earlier
<1>3. QED
  BY MonitorInit, EachServiceRuns, MonitorKeeps, <1>1, <1>2, PTL DEF Monitor!Spec
-----------------------------------------------------------------------------
(* Imported sections *)

LEMMA ImportsConstants ==
  /\ MaxSteps \in Nat
  /\ \A run \in SectionImport!Runs : /\ Len(SectionImport!RowsOf(run)) \in Nat
                                     /\ DOMAIN SectionImport!RowsOf(run) = 1..Len(SectionImport!RowsOf(run))
  BY AdvisingConstants DEF SectionImport!ImportsAssumption

LEMMA ImportGreatest ==
  ASSUME NEW n \in Nat, NEW s, s \subseteq 1..n, s # {}
  PROVE SectionImport!Max(s) \in s
<1>1. Greatest(s) \in s /\ \A k \in s : Greatest(s) >= k
  BY GreatestMember
<1> QED
  BY <1>1, Zenon DEF SectionImport!Max

\* Tables that every row of an application keeps are kept by the application.
LEMMA OutcomeStays ==
  ASSUME NEW q, NEW T, [sections |-> sections, wanted |-> wanted] \in T,
         NEW n \in Nat, DOMAIN SectionImport!RowsOf(q.run) = 1..n,
         \A t \in T, i \in 1..n : SectionImport!ApplyRow(t, q.run, i, q.entry[i], q.allow) \in T
  PROVE SectionImport!Outcome(q) \in T
<1> DEFINE U == 1..n
           base == [sections |-> sections, wanted |-> wanted]
           seq == [i \in DOMAIN SectionImport!RowsOf(q.run) |-> i]
           Op(t, i) == SectionImport!ApplyRow(t, q.run, i, q.entry[i], q.allow)
           pick == [s \in SUBSET U |-> SectionImport!Max(s)]
           step == [t \in T |-> [x \in U |-> Op(t, x)]]
           Body(g) == [s \in SUBSET U |-> IF s = {} THEN base
                                          ELSE Op(g[s \ {SectionImport!Max(s)}], seq[SectionImport!Max(s)])]
           c == CHOOSE g : g = Body(g)
<1>1. IsFiniteSet(U)
  BY FS_Interval
<1>2. \A s \in SUBSET U : s # {} => /\ pick[s] \in s /\ pick[s] = SectionImport!Max(s)
                                    /\ pick[s] \in U /\ seq[pick[s]] = pick[s]
  BY ImportGreatest
<1>3. \A t \in T, x \in U : step[t][x] \in T /\ step[t][x] = Op(t, x) /\ Op(t, x) \in T
  OBVIOUS
<1>0. base \in T
  OBVIOUS
<1>4. \E g : g = Body(g)
  <2> HIDE DEF step, pick, U, seq, base, Op
  <2>1. PICK g \in [SUBSET U -> T] : \A s \in SUBSET U : StepsTo(g, U, pick, base, step, s)
    BY <1>0, <1>1, <1>2, <1>3, FoldExists
  <2>2. ASSUME NEW s \in SUBSET U PROVE g[s] = Body(g)[s]
    <3>1. CASE s = {}
      BY <2>1, <3>1 DEF StepsTo
    <3>2. CASE s # {}
      <4>1. g[s] = step[g[s \ {pick[s]}]][pick[s]] /\ s \ {pick[s]} \in SUBSET U
        BY <1>2, <2>1, <3>2 DEF StepsTo
      <4>2. g[s \ {pick[s]}] \in T
        BY <4>1
      <4> QED
        BY <1>2, <1>3, <3>2, <4>1, <4>2, ZenonT(60)
    <3> QED
      BY <3>1, <3>2
  <2> QED
    BY <2>2
<1>5. c = Body(c)
  BY <1>4, Zenon
<1>6. SectionImport!Outcome(q) = c[U]
  <2>1. DOMAIN seq = U
    OBVIOUS
  <2> HIDE DEF U
  <2> QED
    BY <2>1, Zenon DEF SectionImport!Outcome, SectionImport!FoldLeft, SectionImport!MapThenFoldSet
<1>7. c[{}] \in T
  BY <1>5
<1>8. ASSUME NEW s \in SUBSET U, s # {}, c[s \ {pick[s]}] \in T PROVE c[s] \in T
  <2> HIDE DEF c, seq, base, Op, step
  <2>1. c[s] = Op(c[s \ {SectionImport!Max(s)}], seq[SectionImport!Max(s)])
    BY <1>5, <1>8
  <2>2. c[s] = Op(c[s \ {pick[s]}], pick[s]) /\ pick[s] \in U
    BY <1>2, <1>8, <2>1
  <2> HIDE DEF pick, U
  <2> QED
    BY <1>3, <1>8, <2>2
<1>9. c[U] \in T
  <2> HIDE DEF c, pick, U
  <2> QED
    BY <1>1, <1>2, <1>7, <1>8, FoldStays
<1> QED
  BY <1>6, <1>9

Timely(at) == at[2] = None \/ at[3] = None \/ at[2] < at[3]
PayloadOf(q, n) == SectionImport!review_payload(q.run, n, q.entry[n])
MeetingOf(q, n, d) ==
  [at |-> SectionImport!identity(PayloadOf(q, n), d), room |-> PayloadOf(q, n).meetings[d.n].room, from |-> <<q.run, n, d>>]
\* The values that an application can write.
AppliedRows(q) == DOMAIN SectionImport!RowsOf(q.run)
MeetingsBefore == UNION {sections[k].meetings : k \in SectionImport!Keys}
RowMeetings(q, n) == {MeetingOf(q, n, d) : d \in SectionImport!desired(PayloadOf(q, n))}
AppliedMeetings(q) == MeetingsBefore \cup UNION {RowMeetings(q, n) : n \in AppliedRows(q)}
AppliedSections(q) ==
  {sections[k] : k \in SectionImport!Keys} \cup
  [source : {sections[k].source : k \in SectionImport!Keys} \cup {"BROWSER_EXTENSION"}, official : {FALSE},
   campus : {PayloadOf(q, n).campus : n \in AppliedRows(q)}, meetings : SUBSET AppliedMeetings(q)]
RowTimes(q, n) == SectionImport!identities(PayloadOf(q, n))
TimesBefore == UNION {wanted[k] : k \in SectionImport!Keys}
AppliedTimes(q) == TimesBefore \cup UNION {RowTimes(q, n) : n \in AppliedRows(q)}

RowsFollowed(t) ==
  \A k \in SectionImport!Keys :
    /\ IF SectionImport!Protected(Existing[k]) THEN t.sections[k] = Existing[k]
       ELSE {m.at : m \in t.sections[k].meetings} = t.wanted[k]
    /\ \A m \in t.sections[k].meetings : Timely(m.at)
AppliedTables(q) ==
  {None} \cup {t \in [sections : [SectionImport!Keys -> AppliedSections(q)],
                      wanted : [SectionImport!Keys -> SUBSET AppliedTimes(q)]] : RowsFollowed(t)}

\* A section meets after a row as the row says, and as it did before unless the row is complete.
LEMMA MeetingsFollow ==
  ASSUME NEW before, NEW p, NEW run, NEW n
  PROVE {m.at : m \in SectionImport!apply_section_meetings(before, p, run, n)} =
          SectionImport!identities(p) \cup (IF p.completeness = "COMPLETE" THEN {} ELSE {m.at : m \in before})
<1> DEFINE kept == {m \in before : p.completeness = "COMPLETE" => m.at \in SectionImport!identities(p)}
           Brought(d) == [at |-> SectionImport!identity(p, d), room |-> p.meetings[d.n].room, from |-> <<run, n, d>>]
           new == {Brought(d) : d \in SectionImport!added(before, p)}
           all == kept \cup new
<1>1. SectionImport!apply_section_meetings(before, p, run, n) = all
  BY DEF SectionImport!apply_section_meetings
<1>2. \A d : Brought(d).at = SectionImport!identity(p, d)
  OBVIOUS
<1>3. SectionImport!added(before, p) =
        {d \in SectionImport!desired(p) : \A m \in before : m.at # SectionImport!identity(p, d)}
  BY DEF SectionImport!added
<1>4. SectionImport!identities(p) = {SectionImport!identity(p, d) : d \in SectionImport!desired(p)}
  BY DEF SectionImport!identities
<1> HIDE DEF Brought
<1>5. \A at \in SectionImport!identities(p) : \E m \in all : m.at = at
  <2> SUFFICES ASSUME NEW d \in SectionImport!desired(p)
               PROVE \E m \in all : m.at = SectionImport!identity(p, d)
    BY <1>4
  <2>1. CASE \E m \in before : m.at = SectionImport!identity(p, d)
    <3>1. PICK m \in before : m.at = SectionImport!identity(p, d)
      BY <2>1
    <3>2. m \in kept
      BY <1>4, <3>1
    <3> QED
      BY <3>1, <3>2
  <2>2. CASE \A m \in before : m.at # SectionImport!identity(p, d)
    <3>1. Brought(d) \in all
      BY <1>3, <2>2
    <3> QED
      BY <1>2, <3>1
  <2> QED
    BY <2>1, <2>2
<1>6. \A m \in new : m.at \in SectionImport!identities(p)
  BY <1>2, <1>3, <1>4
<1> HIDE DEF new
<1>7. CASE p.completeness = "COMPLETE"
  BY <1>1, <1>5, <1>6, <1>7
<1>8. CASE p.completeness # "COMPLETE"
  <2>1. kept = before
    BY <1>8
  <2> HIDE DEF kept
  <2> QED
    BY <1>1, <1>5, <1>6, <1>8, <2>1
<1> QED
  BY <1>7, <1>8

\* A row is left out, fails the application, or changes its section and what is wanted
\* of it alike.
LEMMA RowStays ==
  ASSUME NEW q, NEW t \in AppliedTables(q), NEW n \in AppliedRows(q)
  PROVE SectionImport!ApplyRow(t, q.run, n, q.entry[n], q.allow) \in AppliedTables(q)
<1> DEFINE p == PayloadOf(q, n)
           key == SectionImport!Key(q.run, n, p)
           row == SectionImport!ApplyRow(t, q.run, n, q.entry[n], q.allow)
           before == t.sections[key].meetings
           section == SectionImport!Updated(t, q.run, n, p)
           times == SectionImport!identities(p) \cup (IF p.completeness = "COMPLETE" THEN {} ELSE t.wanted[key])
           u == [sections |-> [t.sections EXCEPT ![key] = section], wanted |-> [t.wanted EXCEPT ![key] = times]]
<1>1. CASE t = None \/ ~ SectionImport!Applies(t, q.run, n, q.entry[n], q.allow)
  <2>1. row \in {None, t}
    BY <1>1, Zenon DEF SectionImport!ApplyRow
  <2> QED
    BY <2>1 DEF AppliedTables
<1>2. CASE /\ t # None /\ SectionImport!Applies(t, q.run, n, q.entry[n], q.allow)
           /\ ~ \A d \in SectionImport!added(before, p) : SectionImport!Storable(p, d)
  <2>1. row = None
    BY <1>2, Zenon DEF SectionImport!ApplyRow, PayloadOf
  <2> QED
    BY <2>1 DEF AppliedTables
<1>3. CASE /\ t # None /\ SectionImport!Applies(t, q.run, n, q.entry[n], q.allow)
           /\ \A d \in SectionImport!added(before, p) : SectionImport!Storable(p, d)
  <2>1. row = u
    BY <1>3, Zenon DEF SectionImport!ApplyRow, PayloadOf
  <2>2. /\ t \in [sections : [SectionImport!Keys -> AppliedSections(q)],
                  wanted : [SectionImport!Keys -> SUBSET AppliedTimes(q)]]
        /\ RowsFollowed(t)
    BY <1>3 DEF AppliedTables
  <2>3. ~ SectionImport!Protected(t.sections[key])
    BY <1>3, Zenon DEF SectionImport!Applies, PayloadOf
  <2>4. section = [source |-> IF t.sections[key] = SectionImport!NoSection THEN "BROWSER_EXTENSION"
                              ELSE t.sections[key].source,
                   official |-> FALSE, campus |-> p.campus,
                   meetings |-> SectionImport!apply_section_meetings(before, p, q.run, n)]
    BY Zenon DEF SectionImport!Updated
  <2>5. key \in SectionImport!Keys => section \in AppliedSections(q)
    <3> SUFFICES ASSUME key \in SectionImport!Keys PROVE section \in AppliedSections(q)
      OBVIOUS
    <3>1. t.sections[key] \in AppliedSections(q)
      BY <2>2
    <3>2. before \subseteq AppliedMeetings(q)
      BY <3>1 DEF AppliedSections, AppliedMeetings, MeetingsBefore
    <3>3. t.sections[key].source \in {sections[k].source : k \in SectionImport!Keys} \cup {"BROWSER_EXTENSION"}
      BY <3>1 DEF AppliedSections
    <3>4. SectionImport!apply_section_meetings(before, p, q.run, n) \subseteq AppliedMeetings(q)
      <4>1. SectionImport!apply_section_meetings(before, p, q.run, n) \subseteq
              before \cup {MeetingOf(q, n, d) : d \in SectionImport!desired(p)}
        BY DEF SectionImport!apply_section_meetings, SectionImport!added, MeetingOf
      <4> QED
        <5>1. {MeetingOf(q, n, d) : d \in SectionImport!desired(p)} \subseteq AppliedMeetings(q)
          <6>1. RowMeetings(q, n) \subseteq AppliedMeetings(q)
            BY DEF AppliedMeetings
          <6> QED
            BY <6>1, Zenon DEF RowMeetings
        <5> QED
          BY <3>2, <4>1, <5>1
    <3> HIDE DEF before, p
    <3> QED
      BY <2>4, <3>3, <3>4 DEF AppliedSections, p
  <2>6. key \in SectionImport!Keys => times \subseteq AppliedTimes(q)
    <3>1. SectionImport!identities(p) \subseteq AppliedTimes(q)
      <4>1. RowTimes(q, n) \subseteq AppliedTimes(q)
        BY DEF AppliedTimes
      <4> QED
        BY <4>1, Zenon DEF RowTimes
    <3>2. key \in SectionImport!Keys => t.wanted[key] \subseteq AppliedTimes(q)
      BY <2>2
    <3> QED
      BY <3>1, <3>2
  <2> HIDE DEF times, section, before, p, key
  <2>7. u \in [sections : [SectionImport!Keys -> AppliedSections(q)],
               wanted : [SectionImport!Keys -> SUBSET AppliedTimes(q)]]
    BY <2>2, <2>5, <2>6
  <2>8. ASSUME NEW k \in SectionImport!Keys
        PROVE /\ IF SectionImport!Protected(Existing[k]) THEN u.sections[k] = Existing[k]
                 ELSE {m.at : m \in u.sections[k].meetings} = u.wanted[k]
              /\ \A m \in u.sections[k].meetings : Timely(m.at)
    <3>1. /\ IF SectionImport!Protected(Existing[k]) THEN t.sections[k] = Existing[k]
             ELSE {m.at : m \in t.sections[k].meetings} = t.wanted[k]
          /\ \A m \in t.sections[k].meetings : Timely(m.at)
      BY <2>2 DEF RowsFollowed
    <3>2. CASE k # key
      <4>1. u.sections[k] = t.sections[k] /\ u.wanted[k] = t.wanted[k]
        BY <2>2, <3>2
      <4> QED
        BY <3>1, <4>1
    <3>3. CASE k = key
      <4>1. u.sections[k] = section /\ u.wanted[k] = times
        BY <2>2, <3>3
      <4>2. ~ SectionImport!Protected(Existing[k])
        BY <2>3, <3>1, <3>3
      <4>3. section.meetings = SectionImport!apply_section_meetings(before, p, q.run, n)
        BY <2>4
      <4>4. {m.at : m \in before} = t.wanted[k]
        BY <3>1, <3>3, <4>2 DEF before
      <4>5. {m.at : m \in section.meetings} = times
        <5>1. {m.at : m \in section.meetings} =
                SectionImport!identities(p) \cup
                  (IF p.completeness = "COMPLETE" THEN {} ELSE {m.at : m \in before})
          <6>1. {m.at : m \in SectionImport!apply_section_meetings(before, p, q.run, n)} =
                  SectionImport!identities(p) \cup
                    (IF p.completeness = "COMPLETE" THEN {} ELSE {m.at : m \in before})
            BY MeetingsFollow, Zenon
          <6> QED
            BY <4>3, <6>1, Zenon
        <5> QED
          BY <3>3, <4>4, <5>1 DEF times
      <4>6. \A m \in section.meetings : Timely(m.at)
        <5>1. \A m \in before : Timely(m.at)
          BY <3>1, <3>3 DEF before
        <5>2. \A d \in SectionImport!added(before, p) : Timely(SectionImport!identity(p, d))
          BY <1>3 DEF before, p, SectionImport!Storable, SectionImport!identity, Timely
        <5>3. \A m \in section.meetings :
                m \in before \/ \E d \in SectionImport!added(before, p) : m.at = SectionImport!identity(p, d)
          BY <4>3 DEF SectionImport!apply_section_meetings
        <5> QED
          BY <5>1, <5>2, <5>3
      <4> QED
        BY <4>1, <4>2, <4>5, <4>6
    <3> QED
      BY <3>2, <3>3
  <2> HIDE DEF u
  <2> QED
    BY <2>1, <2>7, <2>8 DEF AppliedTables, RowsFollowed
<1> QED
  BY <1>1, <1>2, <1>3

ImportTables == [sections |-> sections, wanted |-> wanted]
\* The summary of a run counts its rows.
SummaryCounts(s) ==
  Len(s.rows) = s.summary.records /\ s.summary.valid + s.summary.errors <= s.summary.records
\* The sections are what the applied rows left there, the loads are of runs.
ImportInv ==
  /\ sections = [k \in SectionImport!Keys |-> sections[k]]
  /\ wanted = [k \in SectionImport!Keys |-> wanted[k]]
  /\ RowsFollowed(ImportTables)
  /\ staged = [run \in SectionImport!Runs |-> staged[run]]
  /\ \A run \in SectionImport!Runs : staged[run] # None => SummaryCounts(staged[run])
  /\ loaded = [t \in Importers |-> loaded[t]]
  /\ \A t \in Importers : loaded[t] = None \/ loaded[t].run \in SectionImport!Runs
  /\ steps \in 0..MaxSteps

LEMMA ImportInit == SectionImport!Init => ImportInv
<1> SUFFICES ASSUME SectionImport!Init PROVE ImportInv
  OBVIOUS
<1>1. sections = Existing /\ wanted = [k \in SectionImport!Keys |-> {m.at : m \in Existing[k].meetings}]
  BY DEF SectionImport!Init
<1>2. RowsFollowed(ImportTables)
  BY <1>1, AdvisingConstants DEF RowsFollowed, ImportTables, Timely, SectionImport!ImportsAssumption
<1>3. /\ sections = [k \in SectionImport!Keys |-> sections[k]]
      /\ wanted = [k \in SectionImport!Keys |-> wanted[k]]
  BY <1>1, AdvisingConstants DEF SectionImport!ImportsAssumption
<1>4. /\ staged = [run \in SectionImport!Runs |-> None] /\ loaded = [t \in Importers |-> None]
      /\ steps \in 0..MaxSteps
  BY ImportsConstants DEF SectionImport!Init
<1> QED
  BY <1>2, <1>3, <1>4 DEF ImportInv

LEMMA ImportCounts == \A S : SectionImport!Cardinality(S) = Cardinality(S)
  BY Zenon DEF SectionImport!Cardinality, Cardinality

\* A row is valid or invalid, and not both, so the summary counts no more than there are.
LEMMA SummaryWhole ==
  ASSUME NEW rows, Len(rows) \in Nat, DOMAIN rows = 1..Len(rows)
  PROVE /\ SectionImport!Summary(rows).records = Len(rows)
        /\ SectionImport!Summary(rows).valid + SectionImport!Summary(rows).errors <= Len(rows)
<1> DEFINE valid == {n \in DOMAIN rows : SectionImport!record_status(rows[n]) \in {"VALID_WITH_WARNINGS"}}
           errors == {n \in DOMAIN rows : SectionImport!record_status(rows[n]) \in {"INVALID"}}
<1>1. /\ SectionImport!Summary(rows).records = Len(rows)
      /\ SectionImport!Summary(rows).valid = Cardinality(valid)
      /\ SectionImport!Summary(rows).errors = Cardinality(errors)
  <2> DEFINE told == (IF rows = <<>> THEN 2 ELSE 1) + Cardinality({n \in DOMAIN rows : SectionImport!Warnings(rows[n]) # {}})
             v == Cardinality(valid)
             e == Cardinality(errors)
  <2>1. SectionImport!Summary(rows) = [records |-> Len(rows), valid |-> v, errors |-> e, warnings |-> told]
    BY ImportCounts, Zenon DEF SectionImport!Summary
  <2> HIDE DEF told, v, e
  <2>2. /\ SectionImport!Summary(rows).records = Len(rows)
        /\ SectionImport!Summary(rows).valid = v /\ SectionImport!Summary(rows).errors = e
    BY <2>1
  <2> QED
    BY <2>2 DEF v, e
<1>2. IsFiniteSet(1..Len(rows)) /\ Cardinality(1..Len(rows)) = Len(rows)
  <2> DEFINE n == Len(rows)
  <2>1. n \in Nat
    OBVIOUS
  <2> HIDE DEF n
  <2>2. IsFiniteSet(1..n) /\ Cardinality(1..n) = n
    BY <2>1, FS_Interval, SMTT(60)
  <2> QED
    BY <2>2 DEF n
<1>3. valid \subseteq 1..Len(rows) /\ errors \subseteq 1..Len(rows) /\ valid \cap errors = {}
  OBVIOUS
<1> HIDE DEF valid, errors
<1>4. /\ IsFiniteSet(valid) /\ IsFiniteSet(errors)
      /\ IsFiniteSet(valid \cup errors) /\ Cardinality(valid \cup errors) <= Len(rows)
  BY <1>2, <1>3, FS_Subset, valid \cup errors \subseteq 1..Len(rows), ZenonT(60)
<1>5. Cardinality(valid \cup errors) = Cardinality(valid) + Cardinality(errors) - Cardinality(valid \cap errors)
  BY <1>4, FS_Union
<1>6. Cardinality(valid \cap errors) = 0
  BY <1>3, FS_EmptySet
<1>7. Cardinality(valid) \in Nat /\ Cardinality(errors) \in Nat
  BY <1>4, FS_CardinalityType
<1> QED
  BY <1>1, <1>4, <1>5, <1>6, <1>7

LEMMA ImportStages ==
  ASSUME ImportInv, NEW run \in SectionImport!Runs, SectionImport!Stage(run)
  PROVE ImportInv'
<1> DEFINE rows == [n \in DOMAIN SectionImport!RowsOf(run) |->
                     [status |-> SectionImport!record_status(SectionImport!RowsOf(run)[n]),
                      course |-> SectionImport!selected_course(SectionImport!RowsOf(run)[n]),
                      term |-> SectionImport!term_candidate(SectionImport!RowsOf(run)[n])]]
           new == [rows |-> rows, summary |-> SectionImport!Summary(SectionImport!RowsOf(run))]
<1>1. staged' = [staged EXCEPT ![run] = new] /\ UNCHANGED <<entry, loaded, sections, wanted, steps>>
  BY DEF SectionImport!Stage
<1>2. Len(rows) = Len(SectionImport!RowsOf(run))
  BY ImportsConstants
<1>3. SummaryCounts(new)
  BY <1>2, ImportsConstants, SummaryWhole DEF SummaryCounts
<1> HIDE DEF new
<1>4. ImportTables' = ImportTables
  BY <1>1 DEF ImportTables
<1>5. RowsFollowed(ImportTables')
  BY <1>4 DEF ImportInv
<1>6. /\ staged' = [r \in SectionImport!Runs |-> staged'[r]]
      /\ \A r \in SectionImport!Runs : staged'[r] # None => SummaryCounts(staged'[r])
  BY <1>1, <1>3 DEF ImportInv
<1> QED
  BY <1>1, <1>5, <1>6 DEF ImportInv

LEMMA ImportApplies ==
  ASSUME ImportInv, NEW t \in Importers, SectionImport!Apply(t)
  PROVE ImportInv'
<1> DEFINE q == loaded[t]
           tables == SectionImport!Outcome(q)
<1>1. /\ loaded' = [loaded EXCEPT ![t] = None] /\ UNCHANGED <<staged, entry, steps>>
      /\ q # None /\ q.run \in SectionImport!Runs
      /\ \/ UNCHANGED <<sections, wanted>>
         \/ tables # None /\ sections' = tables.sections /\ wanted' = tables.wanted
  BY DEF SectionImport!Apply, ImportInv
<1>2. ImportTables \in AppliedTables(q)
  <2>1. sections \in [SectionImport!Keys -> AppliedSections(q)]
    <3>1. \A k \in SectionImport!Keys : sections[k] \in AppliedSections(q)
      BY DEF AppliedSections
    <3> QED
      BY <3>1 DEF ImportInv
  <2>2. wanted \in [SectionImport!Keys -> SUBSET AppliedTimes(q)]
    <3>1. \A k \in SectionImport!Keys : wanted[k] \subseteq AppliedTimes(q)
      BY DEF AppliedTimes, TimesBefore
    <3> QED
      BY <3>1 DEF ImportInv
  <2> QED
    BY <2>1, <2>2 DEF AppliedTables, ImportTables, ImportInv
<1>3. tables \in AppliedTables(q)
  <2>1. PICK n \in Nat : DOMAIN SectionImport!RowsOf(q.run) = 1..n
    BY <1>1, ImportsConstants
  <2>2. \A s \in AppliedTables(q), i \in 1..n :
          SectionImport!ApplyRow(s, q.run, i, q.entry[i], q.allow) \in AppliedTables(q)
    BY <2>1, RowStays DEF AppliedRows
  <2> HIDE DEF q
  <2> QED
    BY <1>2, <2>1, <2>2, OutcomeStays DEF ImportTables
<1> HIDE DEF tables, q
<1>4. CASE UNCHANGED <<sections, wanted>>
  <2>1. ImportTables' = ImportTables
    BY <1>4 DEF ImportTables
  <2>2. RowsFollowed(ImportTables')
    BY <2>1 DEF ImportInv
  <2> QED
    BY <1>1, <1>4, <2>2 DEF ImportInv
<1>5. CASE tables # None /\ sections' = tables.sections /\ wanted' = tables.wanted
  <2>1. /\ tables \in [sections : [SectionImport!Keys -> AppliedSections(q)],
                       wanted : [SectionImport!Keys -> SUBSET AppliedTimes(q)]]
        /\ RowsFollowed(tables)
    BY <1>3, <1>5 DEF AppliedTables
  <2>2. tables = ImportTables'
    BY <1>5, <2>1 DEF ImportTables
  <2>3. RowsFollowed(ImportTables')
    BY <2>1, <2>2
  <2>4. /\ sections' = [k \in SectionImport!Keys |-> sections'[k]]
        /\ wanted' = [k \in SectionImport!Keys |-> wanted'[k]]
    BY <1>5, <2>1
  <2> QED
    BY <1>1, <2>3, <2>4 DEF ImportInv
<1> QED
  BY <1>1, <1>4, <1>5

LEMMA ImportKeeps == ImportInv /\ [SectionImport!Next]_(SectionImport!vars) => ImportInv'
<1> SUFFICES ASSUME ImportInv, [SectionImport!Next]_(SectionImport!vars) PROVE ImportInv'
  OBVIOUS
<1>1. ASSUME UNCHANGED <<staged, sections, wanted>>, steps' \in 0..MaxSteps,
             loaded' = [t \in Importers |-> loaded'[t]],
             \A t \in Importers : loaded'[t] = None \/ loaded'[t].run \in SectionImport!Runs
      PROVE ImportInv'
  <2>1. ImportTables' = ImportTables
    BY <1>1 DEF ImportTables
  <2>2. RowsFollowed(ImportTables')
    BY <2>1 DEF ImportInv
  <2> QED
    BY <1>1, <2>2 DEF ImportInv
<1>2. CASE UNCHANGED SectionImport!vars
  BY <1>1, <1>2 DEF SectionImport!vars, ImportInv
<1>3. ASSUME NEW run \in SectionImport!Runs, NEW n \in DOMAIN SectionImport!RowsOf(run), SectionImport!Decide(run, n)
      PROVE ImportInv'
  BY <1>1, <1>3, ImportsConstants DEF SectionImport!Decide, ImportInv
<1>4. ASSUME NEW t \in Importers, NEW run \in SectionImport!Runs, NEW allow \in BOOLEAN,
             SectionImport!Load(t, run, allow)
      PROVE ImportInv'
  <2>1. loaded' = [loaded EXCEPT ![t] = [run |-> run, entry |-> entry[run], allow |-> allow]]
    BY <1>4 DEF SectionImport!Load
  <2>2. /\ loaded' = [s \in Importers |-> loaded'[s]]
        /\ \A s \in Importers : loaded'[s] = None \/ loaded'[s].run \in SectionImport!Runs
    BY <2>1 DEF ImportInv
  <2>3. steps' \in 0..MaxSteps /\ UNCHANGED <<staged, sections, wanted>>
    BY <1>4, ImportsConstants DEF SectionImport!Load, ImportInv
  <2> QED
    BY <1>1, <2>2, <2>3
<1> QED
  BY <1>2, <1>3, <1>4, ImportStages, ImportApplies DEF SectionImport!Next

\* However reviewed rows are edited, repeated and applied side by side, an imported section
\* meets as the rows say that were applied to it since its last complete row; official,
\* mock and foreign sections stay. For any uploads, any number of requests and any edits.
THEOREM RowsAreFollowed == AdvisingSpec => [](SectionImport!TypeOK /\ SectionsFollowTheirRows)
<1>1. ImportInv => SectionImport!TypeOK
  <2> SUFFICES ASSUME ImportInv PROVE SectionImport!TypeOK
    OBVIOUS
  <2>1. DOMAIN sections = SectionImport!Keys /\ DOMAIN wanted = SectionImport!Keys
    BY DEF ImportInv
  <2> QED
    BY <2>1 DEF ImportInv, SectionImport!TypeOK, SummaryCounts, RowsFollowed, ImportTables, Timely
<1>2. ImportInv => SectionsFollowTheirRows
  BY DEF ImportInv, RowsFollowed, ImportTables, SectionsFollowTheirRows, SectionImport!SectionsFollowTheirRows
<1>3. QED
  BY ImportInit, EachServiceRuns, ImportKeeps, <1>1, <1>2, PTL DEF SectionImport!Spec
-----------------------------------------------------------------------------
(* Academic plans *)

PlanRow == [course : DOMAIN PlanCatalog, credits : Nat,
            status : {"PLANNED", "CONDITIONALLY_PLANNED", "BLOCKED", "MANUAL_REVIEW_REQUIRED"},
            reason : {"PREREQUISITE_UNLOCK", "COREQUISITE_PAIR", "REQUIREMENT_REMAINING", "PREREQUISITE_PLANNED_EARLIER"}]
PlanTerm == [credits : Int, status : {"PLANNED", "PARTIAL", "BLOCKED"}, courses : Seq(PlanRow)]
PlanNotes == {"MANUAL_REVIEW_REQUIREMENT_POOL", "NO_ELIGIBLE_COURSE_FOUND", "PLANNING_HORIZON_TRUNCATED",
              "PREREQUISITE_CHAIN_BLOCKS_COMPLETION", "ELIGIBILITY_CHECK_FAILED", "CREDIT_LIMIT_PREVENTS_PLACEMENT",
              "MINIMUM_CREDITS_NOT_MET", "PARTIAL_PLAN_HORIZON_INSUFFICIENT"}
Excused(course) == Planner!NamesItself(course) \/ Planner!PairedTwice(course)

\* PlanKeepsLimits, of the terms of any plan.
TermsFull(terms) ==
  \A t \in DOMAIN terms :
    terms[t].credits <= planned.maximum /\ terms[t].credits = Planner!CreditsIn(terms[t].courses)
CoursesOnce(terms) ==
  \A t, u \in DOMAIN terms : \A i \in DOMAIN terms[t].courses, j \in DOMAIN terms[u].courses :
    terms[t].courses[i].course = terms[u].courses[j].course =>
      (t = u /\ i = j) \/ Excused(terms[t].courses[i].course)
SoundPlans(n) == {terms \in [1..n -> PlanTerm] : TermsFull(terms) /\ CoursesOnce(terms)}
PlanInv ==
  /\ planned \in PlanRequests /\ warnings \in SUBSET PlanNotes
  /\ \E n \in Nat : plan \in SoundPlans(n)
  /\ \A c \in planTodo : c.course \in DOMAIN PlanCatalog /\ c.credits \in Nat

LEMMA PlanSum == \A f, S : Planner!SumFunctionOnSet(f, S) = SumFunctionOnSet(f, S)
  BY Zenon DEF Planner!SumFunctionOnSet, Planner!FoldFunctionOnSet, Planner!MapThenFoldSet,
               SumFunctionOnSet, FoldFunctionOnSet, MapThenFoldSet

LEMMA PlanRows ==
  ASSUME NEW rows \in Seq(PlanRow)
  PROVE /\ Len(rows) \in Nat /\ DOMAIN rows = 1..Len(rows) /\ IsFiniteSet(DOMAIN rows)
        /\ \A i \in DOMAIN rows : rows[i] \in PlanRow /\ rows[i].credits \in Nat
<1>1. Len(rows) \in Nat /\ DOMAIN rows = 1..Len(rows) /\ \A i \in DOMAIN rows : rows[i] \in PlanRow
  OBVIOUS
<1>2. IsFiniteSet(1..Len(rows))
  BY <1>1, FS_Interval
<1>3. \A row \in PlanRow : row.credits \in Nat
  BY DEF PlanRow
<1> QED
  BY <1>1, <1>2, <1>3

LEMMA PlanCreditsTyped ==
  ASSUME NEW rows \in Seq(PlanRow) PROVE Planner!CreditsIn(rows) \in Nat
<1> DEFINE f == [i \in DOMAIN rows |-> rows[i].credits]
<1>1. IsFiniteSet(DOMAIN rows) /\ \A i \in DOMAIN rows : f[i] \in Nat
  BY PlanRows
<1>2. Planner!CreditsIn(rows) = SumFunctionOnSet(f, DOMAIN rows)
  BY PlanSum DEF Planner!CreditsIn
<1> HIDE DEF f
<1> QED
  BY <1>1, <1>2, SumTyped

\* The credits of one row, and of rows added to others.
LEMMA CreditsOfOne ==
  ASSUME NEW row \in PlanRow PROVE <<row>> \in Seq(PlanRow) /\ Planner!CreditsIn(<<row>>) = row.credits
<1> DEFINE f == [i \in DOMAIN <<row>> |-> <<row>>[i].credits]
<1>1. <<row>> \in Seq(PlanRow) /\ DOMAIN <<row>> = {} \cup {1} /\ f[1] = row.credits /\ row.credits \in Nat
  BY DEF PlanRow
<1>2. Planner!CreditsIn(<<row>>) = SumFunctionOnSet(f, {} \cup {1})
  BY <1>1, PlanSum DEF Planner!CreditsIn
<1>3. IsFiniteSet({}) /\ 1 \notin {} /\ \A y \in {} \cup {1} : f[y] \in Int
  BY <1>1, FS_EmptySet
<1> HIDE DEF f
<1>4. SumFunctionOnSet(f, {} \cup {1}) = f[1] + SumFunctionOnSet(f, {})
  BY <1>3, SumInsert
<1> QED
  BY <1>1, <1>2, <1>4, SumEmpty

LEMMA CreditsAdded ==
  ASSUME NEW a \in Seq(PlanRow), NEW b \in Seq(PlanRow)
  PROVE Planner!CreditsIn(a \o b) = Planner!CreditsIn(a) + Planner!CreditsIn(b)
<1> DEFINE m == Len(a)  n == Len(b)
           f == [i \in 1..(m + n) |-> (a \o b)[i].credits]
           g == [i \in 1..m |-> a[i].credits]  h == [i \in 1..n |-> b[i].credits]
           A == 1..m  B == (m + 1)..(m + n)
<1>1. /\ m \in Nat /\ n \in Nat /\ DOMAIN a = A /\ DOMAIN b = 1..n
      /\ (\A i \in 1..m : a[i].credits \in Nat) /\ \A i \in 1..n : b[i].credits \in Nat
  BY PlanRows
<1>2. /\ DOMAIN (a \o b) = 1..(m + n)
      /\ \A i \in 1..m : (a \o b)[i] = a[i]
      /\ \A i \in 1..n : (a \o b)[m + i] = b[i]
  BY <1>1
<1>3. /\ IsFiniteSet(A) /\ IsFiniteSet(B) /\ IsFiniteSet(1..n)
      /\ A \cap B = {} /\ A \cup B = 1..(m + n)
  <2>1. {1, m, n, m + 1, m + n} \subseteq Int
    BY <1>1
  <2>2. IsFiniteSet(A) /\ IsFiniteSet(B) /\ IsFiniteSet(1..n)
    BY <2>1, FS_Interval
  <2> QED
    BY <1>1, <2>2
<1>4. \A i \in A \cup B : f[i] \in Int
  <2>1. \A i \in A : f[i] \in Int
    BY <1>1, <1>2
  <2>2. ASSUME NEW i \in B PROVE f[i] \in Int
    <3>1. i - m \in 1..n /\ i = m + (i - m) /\ i \in 1..(m + n)
      BY <1>1
    <3>2. (a \o b)[m + (i - m)].credits \in Nat
      BY <1>1, <1>2, <3>1
    <3> QED
      BY <3>1, <3>2
  <2> QED
    BY <2>1, <2>2
<1>5. /\ Planner!CreditsIn(a \o b) = SumFunctionOnSet(f, A \cup B)
      /\ Planner!CreditsIn(a) = SumFunctionOnSet(g, A)
      /\ Planner!CreditsIn(b) = SumFunctionOnSet(h, 1..n)
  BY <1>1, <1>2, <1>3, PlanSum DEF Planner!CreditsIn
<1>6. SumFunctionOnSet(g, A) = SumFunctionOnSet(f, A)
  <2>1. \A x \in 1..m : f[0 + x] \in Int /\ g[x] = f[0 + x]
    BY <1>1, <1>2
  <2>2. 0 + 1 = 1 /\ 0 + m = m
    BY <1>1
  <2> HIDE DEF f, g, m
  <2>3. SumFunctionOnSet(g, 1..m) = SumFunctionOnSet(f, (0 + 1)..(0 + m))
    BY <1>1, <2>1, SumShift
  <2> QED
    BY <2>2, <2>3
<1>7. SumFunctionOnSet(h, 1..n) = SumFunctionOnSet(f, B)
  <2>1. \A x \in 1..n : f[m + x] \in Int /\ h[x] = f[m + x]
    BY <1>1, <1>2
  <2> HIDE DEF f, h, m, n
  <2> QED
    BY <1>1, <2>1, SumShift
<1>8. SumFunctionOnSet(f, A \cup B) = SumFunctionOnSet(f, A) + SumFunctionOnSet(f, B)
  <2> HIDE DEF f, A, B
  <2> QED
    BY <1>3, <1>4, SumUnion
<1> QED
  BY <1>5, <1>6, <1>7, <1>8

LEMMA PlanConstants ==
  /\ \A c \in DOMAIN PlanCatalog :
       /\ PlanCatalog[c].credits \in Nat
       /\ Planner!Verdict(c).missing \in Seq(DOMAIN PlanCatalog)
       /\ Planner!Verdict(c).to_add \in Seq(DOMAIN PlanCatalog)
  /\ \A q \in PlanRequests :
       /\ q.terms \in Int /\ q.terms_to_plan \in Int /\ q.maximum \in Int
       /\ \A r \in Planner!ToSet(q.requirements) : \A o \in Planner!ToSet(r.options) :
            o.course \in DOMAIN PlanCatalog /\ o.credits \in Nat
  BY AdvisingConstants DEF Planner!PlanningAssumption

LEMMA PlanGreatest ==
  ASSUME NEW n \in Nat, NEW s, s \subseteq 1..n, s # {}
  PROVE Planner!Max(s) \in s /\ \A k \in s : k <= Planner!Max(s)
<1>1. Greatest(s) \in s /\ \A k \in s : Greatest(s) >= k
  BY GreatestMember
<1> QED
  BY <1>1, Zenon DEF Planner!Max

LEMMA PlanRowTyped ==
  ASSUME NEW c \in DOMAIN PlanCatalog, NEW credits \in Nat,
         NEW status \in {"PLANNED", "CONDITIONALLY_PLANNED", "BLOCKED", "MANUAL_REVIEW_REQUIRED"},
         NEW reason \in {"PREREQUISITE_UNLOCK", "COREQUISITE_PAIR", "REQUIREMENT_REMAINING",
                         "PREREQUISITE_PLANNED_EARLIER"}
  PROVE /\ Planner!PlanCourse(c, credits, status, reason) \in PlanRow
        /\ Planner!PlanCourse(c, credits, status, reason).course = c
        /\ Planner!PlanCourse(c, credits, status, reason).credits = credits
BY DEF Planner!PlanCourse, PlanRow

\* The first k rows of a course and its corequisites, those of the numbers in s.
PairedSoFar(rows, s, row, terms) ==
  LET to_add == Planner!Verdict(row.course).to_add IN
  /\ Len(rows) >= 1 /\ rows[1] = row
  /\ \A i \in 2..Len(rows) : \E k \in s : rows[i].course = to_add[k] /\ to_add[k] \notin Planner!Courses(terms)
  /\ \A i, j \in 1..Len(rows) : rows[i].course = rows[j].course => i = j \/ Excused(rows[i].course)

LEMMA PairStays ==
  ASSUME NEW row \in PlanRow, NEW terms, NEW rows \in Seq(PlanRow), NEW s, NEW k,
         s \cup {k} \subseteq DOMAIN Planner!Verdict(row.course).to_add, k \notin s,
         PairedSoFar(rows, s, row, terms)
  PROVE LET after == Planner!Pair(rows, Planner!Verdict(row.course).to_add[k], terms)
        IN after \in Seq(PlanRow) /\ PairedSoFar(after, s \cup {k}, row, terms)
<1> DEFINE to_add == Planner!Verdict(row.course).to_add
           c == to_add[k]
           new == Planner!PlanCourse(c, Planner!CreditsOf(c), "CONDITIONALLY_PLANNED", "COREQUISITE_PAIR")
           after == Planner!Pair(rows, c, terms)
<1>1. row.course \in DOMAIN PlanCatalog /\ to_add \in Seq(DOMAIN PlanCatalog)
  BY PlanConstants DEF PlanRow
<1>2. c \in DOMAIN PlanCatalog
  BY <1>1
<1>3. new \in PlanRow /\ new.course = c
  BY <1>2, PlanConstants, PlanRowTyped DEF Planner!CreditsOf
<1>4. CASE c \in Planner!Courses(terms)
  BY <1>4, Zenon DEF Planner!Pair, PairedSoFar
<1>5. CASE c \notin Planner!Courses(terms)
  <2> HIDE DEF to_add, new
  <2>1. after = Append(rows, new)
    BY <1>5 DEF Planner!Pair, new
  <2>2. /\ after \in Seq(PlanRow) /\ Len(after) = Len(rows) + 1 /\ Len(rows) \in Nat
        /\ after[Len(rows) + 1] = new /\ \A i \in 1..Len(rows) : after[i] = rows[i]
    BY <1>3, <2>1
  <2>3. /\ Len(rows) >= 1 /\ rows[1] = row
        /\ \A i \in 2..Len(rows) : \E l \in s : rows[i].course = to_add[l] /\ to_add[l] \notin Planner!Courses(terms)
        /\ \A i, j \in 1..Len(rows) : rows[i].course = rows[j].course => i = j \/ Excused(rows[i].course)
    BY DEF PairedSoFar, to_add
  <2>4. ASSUME NEW i \in 1..Len(rows), rows[i].course = c PROVE Excused(c)
    <3>1. CASE i = 1
      <4>1. c = row.course /\ c \in {to_add[l] : l \in DOMAIN to_add}
        BY <2>3, <2>4, <3>1 DEF to_add
      <4> QED
        BY <4>1 DEF Excused, Planner!NamesItself, Planner!ToSet, to_add
    <3>2. CASE i # 1
      <4>1. PICK l \in s : rows[i].course = to_add[l]
        BY <2>2, <2>3, <3>2
      <4>2. l # k /\ l \in DOMAIN to_add /\ k \in DOMAIN to_add /\ to_add[l] = c /\ to_add[k] = c
        BY <2>4, <4>1 DEF to_add
      <4> QED
        BY <1>1, <4>2 DEF Excused, Planner!PairedTwice, to_add
    <3> QED
      BY <3>1, <3>2
  <2>5. ASSUME NEW i \in 2..Len(after)
        PROVE \E l \in s \cup {k} : after[i].course = to_add[l] /\ to_add[l] \notin Planner!Courses(terms)
    <3>1. CASE i = Len(rows) + 1
      BY <1>3, <1>5, <2>2, <3>1
    <3>2. CASE i # Len(rows) + 1
      <4>1. i \in 2..Len(rows) /\ after[i] = rows[i]
        BY <2>2, <2>5, <3>2
      <4> QED
        BY <2>3, <4>1
    <3> QED
      BY <3>1, <3>2
  <2>6. ASSUME NEW i \in 1..Len(after), NEW j \in 1..Len(after), after[i].course = after[j].course
        PROVE i = j \/ Excused(after[i].course)
    <3>1. i \in 1..Len(rows) \/ i = Len(rows) + 1
      BY <2>2
    <3>2. j \in 1..Len(rows) \/ j = Len(rows) + 1
      BY <2>2
    <3>3. CASE i \in 1..Len(rows) /\ j \in 1..Len(rows)
      BY <2>2, <2>3, <2>6, <3>3
    <3>4. CASE i \in 1..Len(rows) /\ j = Len(rows) + 1
      BY <1>3, <2>2, <2>4, <2>6, <3>4
    <3>5. CASE i = Len(rows) + 1 /\ j \in 1..Len(rows)
      BY <1>3, <2>2, <2>4, <2>6, <3>5
    <3> QED
      BY <3>1, <3>2, <3>3, <3>4, <3>5
  <2>7. Len(after) >= 1 /\ after[1] = row
    BY <2>2, <2>3
  <2> HIDE DEF after
  <2> QED
    BY <2>2, <2>5, <2>6, <2>7, Zenon DEF PairedSoFar, to_add, after
<1> QED
  BY <1>4, <1>5

LEMMA PairsStay ==
  ASSUME NEW row \in PlanRow, NEW terms
  PROVE LET to_add == Planner!Verdict(row.course).to_add
            rows == Planner!WithCorequisites(row, to_add, terms)
        IN rows \in Seq(PlanRow) /\ PairedSoFar(rows, DOMAIN to_add, row, terms)
<1> DEFINE to_add == Planner!Verdict(row.course).to_add
           U == 1..Len(to_add)
           T == Seq(PlanRow)
           base == <<row>>
           Kept == [s \in SUBSET U |-> {rows \in T : PairedSoFar(rows, s, row, terms)}]
           pick == [s \in SUBSET U |-> Planner!Max(s)]
           step == [rows \in T |-> [x \in U |-> Planner!Pair(rows, to_add[x], terms)]]
           Body(g) == [s \in SUBSET U |-> IF s = {} THEN base
                                          ELSE Planner!Pair(g[s \ {Planner!Max(s)}], to_add[Planner!Max(s)], terms)]
           fold == CHOOSE g : g = Body(g)
<1>1. to_add \in Seq(DOMAIN PlanCatalog) /\ Len(to_add) \in Nat /\ DOMAIN to_add = U
  <2>1. row.course \in DOMAIN PlanCatalog
    BY DEF PlanRow
  <2>2. to_add \in Seq(DOMAIN PlanCatalog)
    BY <2>1, PlanConstants
  <2> QED
    BY <2>2
<1>2. IsFiniteSet(U)
  BY <1>1, FS_Interval
<1>3. \A s \in SUBSET U : s # {} => pick[s] \in s /\ pick[s] = Planner!Max(s)
  <2> HIDE DEF to_add
  <2> QED
    BY <1>1, PlanGreatest
<1>4. \A rows \in T, x \in U : step[rows][x] \in T
  <2>1. ASSUME NEW rows \in T, NEW x \in U PROVE Planner!Pair(rows, to_add[x], terms) \in T
    <3>1. to_add[x] \in DOMAIN PlanCatalog
      BY <1>1
    <3>2. Planner!PlanCourse(to_add[x], Planner!CreditsOf(to_add[x]), "CONDITIONALLY_PLANNED", "COREQUISITE_PAIR") \in PlanRow
      BY <3>1, PlanConstants, PlanRowTyped, SMTT(60) DEF Planner!CreditsOf
    <3> HIDE DEF to_add
    <3> QED
      BY <3>2 DEF Planner!Pair
  <2> QED
    BY <2>1
<1>5. base \in T
  OBVIOUS
<1>6. \E g : g = Body(g)
  <2> HIDE DEF step, pick, T, U, base
  <2>0. \A s \in SUBSET U : s # {} => pick[s] \in s
    BY <1>3
  <2>1. PICK g \in [SUBSET U -> T] : \A s \in SUBSET U : StepsTo(g, U, pick, base, step, s)
    BY <1>2, <1>4, <1>5, <2>0, FoldExists
  <2>2. ASSUME NEW s \in SUBSET U PROVE g[s] = Body(g)[s]
    <3>1. CASE s = {}
      BY <2>1, <3>1 DEF StepsTo
    <3>2. CASE s # {}
      <4>1. g[s] = step[g[s \ {pick[s]}]][pick[s]] /\ s \ {pick[s]} \in SUBSET U /\ pick[s] \in U
        BY <1>3, <2>1, <3>2 DEF StepsTo
      <4>2. g[s \ {pick[s]}] \in T
        BY <4>1
      <4> QED
        BY <1>3, <3>2, <4>1, <4>2 DEF step
    <3> QED
      BY <3>1, <3>2
  <2> QED
    BY <2>2
<1>7. fold = Body(fold)
  BY <1>6, Zenon
<1>8. Planner!WithCorequisites(row, to_add, terms) = fold[U]
  <2> HIDE DEF U, to_add
  <2> QED
    BY <1>1, Zenon DEF Planner!WithCorequisites, Planner!FoldLeft, Planner!MapThenFoldSet
<1>9. fold[{}] \in Kept[{}]
  <2>1. fold[{}] = <<row>>
    <3> HIDE DEF fold
    <3> QED
      BY <1>7
  <2>2. PairedSoFar(<<row>>, {}, row, terms)
    BY DEF PairedSoFar
  <2> HIDE DEF fold
  <2> QED
    BY <1>5, <2>1, <2>2
<1>10. ASSUME NEW s \in SUBSET U, s # {}, fold[s \ {pick[s]}] \in Kept[s \ {pick[s]}]
       PROVE fold[s] \in Kept[s]
  <2> DEFINE k == pick[s]
             rest == s \ {k}
  <2>1. fold[s] = Planner!Pair(fold[rest], to_add[k], terms) /\ k \in s
    <3> HIDE DEF fold, to_add
    <3> QED
      BY <1>3, <1>7, <1>10
  <2>2. rest \in SUBSET U /\ rest \cup {k} = s /\ s \subseteq DOMAIN to_add /\ k \notin rest
    BY <1>1, <2>1
  <2> HIDE DEF fold, k
  <2>3. fold[rest] \in T /\ PairedSoFar(fold[rest], rest, row, terms)
    BY <1>10, <2>2 DEF k
  <2> DEFINE before == fold[rest]
             after == Planner!Pair(before, to_add[k], terms)
  <2>4. before \in Seq(PlanRow) /\ PairedSoFar(before, rest, row, terms)
    BY <2>3
  <2>5. rest \cup {k} \subseteq DOMAIN Planner!Verdict(row.course).to_add
    BY <2>2
  <2> HIDE DEF rest, U, before
  <2>6. after \in Seq(PlanRow) /\ PairedSoFar(after, rest \cup {k}, row, terms)
    BY <2>2, <2>4, <2>5, PairStays
  <2>7. fold[s] = after
    BY <2>1 DEF before
  <2> HIDE DEF after
  <2> QED
    BY <2>2, <2>6, <2>7
<1>11. fold[U] \in Kept[U]
  <2> HIDE DEF fold, pick, U, Kept
  <2> QED
    BY <1>2, <1>3, <1>9, <1>10, FoldStaysIn
<1> HIDE DEF fold
<1> QED
  BY <1>1, <1>8, <1>11

LEMMA InCourses ==
  ASSUME NEW terms, NEW c
  PROVE c \in Planner!Courses(terms) <=>
          \E t \in DOMAIN terms : \E i \in DOMAIN terms[t].courses : terms[t].courses[i].course = c
BY DEF Planner!Courses, Planner!ToSet

LEMMA PlanTerms ==
  ASSUME NEW n \in Nat, NEW terms \in SoundPlans(n), NEW t \in 1..n
  PROVE /\ terms \in [1..n -> PlanTerm] /\ DOMAIN terms = 1..n /\ TermsFull(terms) /\ CoursesOnce(terms)
        /\ terms[t] \in PlanTerm /\ terms[t].credits \in Int /\ terms[t].courses \in Seq(PlanRow)
        /\ DOMAIN terms[t].courses = 1..Len(terms[t].courses) /\ Len(terms[t].courses) \in Nat
<1>1. terms \in [1..n -> PlanTerm] /\ TermsFull(terms) /\ CoursesOnce(terms)
  BY DEF SoundPlans
<1>2. terms[t] \in PlanTerm
  BY <1>1
<1>3. terms[t].credits \in Int /\ terms[t].courses \in Seq(PlanRow)
  BY <1>2 DEF PlanTerm
<1> QED
  BY <1>1, <1>2, <1>3

\* What adding rows to term t of a plan of n terms makes of it: a row of that term is one that it
\* had, or one of those added.
RowsAdded(n, terms, after, t, rows) ==
  LET old == terms[t].courses
      m == Len(old) IN
  /\ after \in [1..n -> PlanTerm]
  /\ after[t].credits = terms[t].credits + Planner!CreditsIn(rows)
  /\ after[t].courses = old \o rows
  /\ \A u \in 1..n : u # t => after[u] = terms[u]
  /\ \A u \in 1..n : \A i \in DOMAIN after[u].courses :
       \/ i \in DOMAIN terms[u].courses /\ after[u].courses[i] = terms[u].courses[i]
       \/ /\ u = t /\ i \notin DOMAIN old /\ i - m \in 1..Len(rows)
          /\ after[u].courses[i] = rows[i - m]

LEMMA AddedRows ==
  ASSUME NEW n \in Nat, NEW terms \in SoundPlans(n), NEW t \in 1..n, NEW rows \in Seq(PlanRow)
  PROVE RowsAdded(n, terms, Planner!add_plan_courses(terms, t, rows), t, rows)
<1> DEFINE old == terms[t].courses
           m == Len(old)
           after == Planner!add_plan_courses(terms, t, rows)
<1>1. terms \in [1..n -> PlanTerm] /\ terms[t] \in PlanTerm /\ old \in Seq(PlanRow) /\ terms[t].credits \in Int
  BY PlanTerms
<1>2. Planner!CreditsIn(rows) \in Nat /\ old \o rows \in Seq(PlanRow)
  BY <1>1, PlanCreditsTyped
<1>3. after = [terms EXCEPT ![t].credits = terms[t].credits + Planner!CreditsIn(rows), ![t].courses = old \o rows]
  <2>1. terms[t].credits + Planner!CreditsIn(rows) \in Int
    BY <1>1, <1>2
  <2> QED
    BY <1>1, <2>1 DEF Planner!add_plan_courses, PlanTerm
<1> HIDE DEF after, old
<1>4. after[t] = [terms[t] EXCEPT !.credits = terms[t].credits + Planner!CreditsIn(rows), !.courses = old \o rows]
  BY <1>1, <1>3
<1>5. /\ after[t] \in PlanTerm /\ after[t].courses = old \o rows
      /\ after[t].credits = terms[t].credits + Planner!CreditsIn(rows)
  <2> DEFINE sum == Planner!CreditsIn(rows)
             all == old \o rows
  <2>1. terms[t].credits + sum \in Int /\ all \in Seq(PlanRow)
    BY <1>1, <1>2
  <2>2. after[t] = [terms[t] EXCEPT !.credits = terms[t].credits + sum, !.courses = all]
    BY <1>4
  <2> HIDE DEF sum, all
  <2>3. after[t] \in PlanTerm /\ after[t].courses = all /\ after[t].credits = terms[t].credits + sum
    BY <1>1, <2>1, <2>2 DEF PlanTerm
  <2> QED
    BY <2>3 DEF sum, all
<1>6. after \in [1..n -> PlanTerm] /\ \A u \in 1..n : u # t => after[u] = terms[u]
  BY <1>1, <1>3, <1>4, <1>5
<1>7. ASSUME NEW i \in DOMAIN (old \o rows)
      PROVE \/ i \in DOMAIN old /\ (old \o rows)[i] = old[i]
            \/ i \notin DOMAIN old /\ i - m \in 1..Len(rows) /\ (old \o rows)[i] = rows[i - m]
  <2>1. m \in Nat /\ Len(rows) \in Nat /\ DOMAIN old = 1..m
    BY <1>1
  <2>2. DOMAIN (old \o rows) = 1..(m + Len(rows))
    BY <1>1, <2>1
  <2>3. i \in 1..(m + Len(rows)) /\ (old \o rows)[i] = IF i <= m THEN old[i] ELSE rows[i - m]
    BY <1>1, <1>7, <2>2
  <2> QED
    BY <2>1, <2>3
<1>8. ASSUME NEW u \in 1..n, NEW i \in DOMAIN after[u].courses
      PROVE \/ i \in DOMAIN terms[u].courses /\ after[u].courses[i] = terms[u].courses[i]
            \/ /\ u = t /\ i \notin DOMAIN old /\ i - m \in 1..Len(rows)
               /\ after[u].courses[i] = rows[i - m]
  <2>1. CASE u = t
    BY <1>5, <1>7, <1>8, <2>1 DEF old
  <2>2. CASE u # t
    BY <1>6, <1>8, <2>2
  <2> QED
    BY <2>1, <2>2
<1>9. RowsAdded(n, terms, after, t, rows)
  BY <1>5, <1>6, <1>8, SMTT(60) DEF RowsAdded, old
<1> QED
  BY <1>9 DEF after

\* Rows that fit, and of courses that are new, may be added.
LEMMA AddSound ==
  ASSUME NEW n \in Nat, NEW terms \in SoundPlans(n), NEW t \in 1..n, NEW rows \in Seq(PlanRow),
         terms[t].credits + Planner!CreditsIn(rows) <= planned.maximum,
         \A i \in 1..Len(rows) : rows[i].course \notin Planner!Courses(terms) \/ Excused(rows[i].course),
         \A i, j \in 1..Len(rows) : rows[i].course = rows[j].course => i = j \/ Excused(rows[i].course)
  PROVE LET after == Planner!add_plan_courses(terms, t, rows) IN
        /\ after \in SoundPlans(n)
        /\ Planner!Courses(after) \subseteq Planner!Courses(terms) \cup {rows[i].course : i \in 1..Len(rows)}
<1> DEFINE old == terms[t].courses
           m == Len(old)
           after == Planner!add_plan_courses(terms, t, rows)
<1>1. /\ DOMAIN terms = 1..n /\ TermsFull(terms) /\ CoursesOnce(terms)
      /\ old \in Seq(PlanRow) /\ m \in Nat /\ DOMAIN old = 1..m
  BY PlanTerms
<1>2. /\ after \in [1..n -> PlanTerm]
      /\ after[t].credits = terms[t].credits + Planner!CreditsIn(rows)
      /\ after[t].courses = old \o rows
      /\ \A u \in 1..n : u # t => after[u] = terms[u]
      /\ \A u \in 1..n : \A i \in DOMAIN after[u].courses :
           \/ i \in DOMAIN terms[u].courses /\ after[u].courses[i] = terms[u].courses[i]
           \/ /\ u = t /\ i \notin DOMAIN old /\ i - m \in 1..Len(rows)
              /\ after[u].courses[i] = rows[i - m]
  <2>1. RowsAdded(n, terms, after, t, rows)
    BY AddedRows
  <2> HIDE DEF after
  <2> QED
    BY <2>1 DEF RowsAdded
<1>3. DOMAIN after = 1..n
  <2> HIDE DEF after
  <2> QED
    BY <1>2
<1> HIDE DEF after, m, old
<1>4. TermsFull(after)
  <2>1. Planner!CreditsIn(old \o rows) = Planner!CreditsIn(old) + Planner!CreditsIn(rows)
    BY <1>1, CreditsAdded
  <2>2. terms[t].credits = Planner!CreditsIn(old)
    BY <1>1 DEF TermsFull, old
  <2>3. ASSUME NEW u \in 1..n
        PROVE after[u].credits <= planned.maximum /\ after[u].credits = Planner!CreditsIn(after[u].courses)
    <3>1. CASE u = t
      BY <1>2, <2>1, <2>2, <3>1
    <3>2. CASE u # t
      BY <1>1, <1>2, <3>2 DEF TermsFull
    <3> QED
      BY <3>1, <3>2
  <2> QED
    BY <1>3, <2>3 DEF TermsFull
<1>5. \A u \in 1..n : \A i \in DOMAIN terms[u].courses : terms[u].courses[i].course \in Planner!Courses(terms)
  BY <1>1, InCourses
<1>6. ASSUME NEW u \in 1..n, NEW v \in 1..n, NEW i \in DOMAIN after[u].courses, NEW j \in DOMAIN after[v].courses,
             after[u].courses[i].course = after[v].courses[j].course
      PROVE (u = v /\ i = j) \/ Excused(after[u].courses[i].course)
  <2>1. CASE i \in DOMAIN terms[u].courses /\ after[u].courses[i] = terms[u].courses[i]
    <3>1. CASE j \in DOMAIN terms[v].courses /\ after[v].courses[j] = terms[v].courses[j]
      BY <1>1, <1>6, <2>1, <3>1, Zenon DEF CoursesOnce
    <3>2. CASE v = t /\ j - m \in 1..Len(rows) /\ after[v].courses[j] = rows[j - m]
      BY <1>5, <1>6, <2>1, <3>2
    <3> QED
      BY <1>2, <3>1, <3>2
  <2>2. CASE u = t /\ i \notin DOMAIN old /\ i - m \in 1..Len(rows) /\ after[u].courses[i] = rows[i - m]
    <3>1. CASE j \in DOMAIN terms[v].courses /\ after[v].courses[j] = terms[v].courses[j]
      BY <1>5, <1>6, <2>2, <3>1
    <3>2. CASE v = t /\ j - m \in 1..Len(rows) /\ after[v].courses[j] = rows[j - m]
      <4>1. i - m = j - m \/ Excused(rows[i - m].course)
        BY <1>6, <2>2, <3>2
      <4>2. i \in Int /\ j \in Int
        <5>1. i \in DOMAIN (old \o rows) /\ j \in DOMAIN (old \o rows)
          BY <1>2, <2>2, <3>2
        <5>2. DOMAIN (old \o rows) = 1..(Len(old) + Len(rows))
          BY <1>1
        <5> QED
          BY <1>1, <5>1, <5>2
      <4> QED
        BY <1>1, <2>2, <3>2, <4>1, <4>2
    <3> QED
      BY <1>2, <3>1, <3>2
  <2> QED
    BY <1>2, <2>1, <2>2
<1>7. ASSUME NEW c \in Planner!Courses(after)
      PROVE c \in Planner!Courses(terms) \cup {rows[i].course : i \in 1..Len(rows)}
  <2>1. PICK u \in 1..n : \E i \in DOMAIN after[u].courses : after[u].courses[i].course = c
    BY <1>3, <1>7, InCourses
  <2>2. PICK i \in DOMAIN after[u].courses : after[u].courses[i].course = c
    BY <2>1
  <2> QED
    BY <1>2, <1>5, <2>2, ZenonT(60)
<1>8. after \in SoundPlans(n)
  BY <1>2, <1>3, <1>4, <1>6 DEF SoundPlans, CoursesOnce
<1> QED
  BY <1>7, <1>8 DEF after

\* A row that fits, and of a course that is new, may be added.
LEMMA AddOneSound ==
  ASSUME NEW n \in Nat, NEW terms \in SoundPlans(n), NEW t \in 1..n, NEW row \in PlanRow,
         terms[t].credits + row.credits <= planned.maximum,
         row.course \notin Planner!Courses(terms) \/ Excused(row.course)
  PROVE LET after == Planner!add_plan_courses(terms, t, <<row>>) IN
        after \in SoundPlans(n) /\ Planner!Courses(after) \subseteq Planner!Courses(terms) \cup {row.course}
<1> DEFINE rows == <<row>>
           after == Planner!add_plan_courses(terms, t, rows)
<1>1. rows \in Seq(PlanRow) /\ Planner!CreditsIn(rows) = row.credits
  BY CreditsOfOne
<1>2. /\ \A i \in 1..Len(rows) : i = 1 /\ rows[i] = row
      /\ {rows[i].course : i \in 1..Len(rows)} = {row.course}
  OBVIOUS
<1> HIDE DEF rows
<1>3. /\ terms[t].credits + Planner!CreditsIn(rows) <= planned.maximum
      /\ \A i \in 1..Len(rows) : rows[i].course \notin Planner!Courses(terms) \/ Excused(rows[i].course)
      /\ \A i, j \in 1..Len(rows) : rows[i].course = rows[j].course => i = j \/ Excused(rows[i].course)
  BY <1>1, <1>2
<1>4. /\ after \in SoundPlans(n)
      /\ Planner!Courses(after) \subseteq Planner!Courses(terms) \cup {rows[i].course : i \in 1..Len(rows)}
  BY ONLY <1>1, <1>3, AddSound, n \in Nat, terms \in SoundPlans(n), t \in 1..n
<1> QED
  BY <1>2, <1>4 DEF rows

LEMMA StatusTyped ==
  \A overall : Planner!planning_status(overall) \in {"PLANNED", "CONDITIONALLY_PLANNED", "BLOCKED", "MANUAL_REVIEW_REQUIRED"}
BY Zenon DEF Planner!planning_status

PlacedBefore(n) == [plan : SoundPlans(n), ok : BOOLEAN, noted : SUBSET PlanNotes]

LEMMA PrerequisiteStays ==
  ASSUME NEW n \in Nat, NEW t \in 1..n, NEW acc \in PlacedBefore(n), NEW p \in DOMAIN PlanCatalog
  PROVE LET after == Planner!PlacePrerequisite(acc, p, t) IN
        after \in PlacedBefore(n) /\ Planner!Courses(after.plan) \subseteq Planner!Courses(acc.plan) \cup {p}
<1> DEFINE fit == {i \in 1..(t - 1) : Planner!can_fit(acc.plan, i, Planner!CreditsOf(p))}
           allowed == Planner!Verdict(p).overall \in {"ELIGIBLE", "CONDITIONALLY_ELIGIBLE"}
           first == CHOOSE i \in fit : \A j \in fit : i <= j
           status == Planner!planning_status(Planner!Verdict(p).overall)
           row == Planner!PlanCourse(p, Planner!CreditsOf(p), status, "PREREQUISITE_UNLOCK")
           added == Planner!add_plan_courses(acc.plan, first, <<row>>)
           after == Planner!PlacePrerequisite(acc, p, t)
<1>1. acc.plan \in SoundPlans(n) /\ acc.noted \in SUBSET PlanNotes /\ acc.ok \in BOOLEAN
  BY DEF PlacedBefore
<1>2. row \in PlanRow /\ row.course = p /\ row.credits = Planner!CreditsOf(p)
  <2>1. Planner!CreditsOf(p) \in Nat
    BY PlanConstants DEF Planner!CreditsOf
  <2> QED
    BY <2>1, StatusTyped, PlanRowTyped, SMTT(60)
<1> HIDE DEF row
<1>3. CASE ~ acc.ok \/ p \in Planner!Courses(acc.plan)
  <2>1. after = acc
    BY <1>3, Zenon DEF Planner!PlacePrerequisite
  <2> HIDE DEF after
  <2> QED
    BY <2>1 DEF after
<1>4. CASE acc.ok /\ p \notin Planner!Courses(acc.plan) /\ (fit = {} \/ ~ allowed)
  <2>1. after = [acc EXCEPT !.ok = FALSE, !.noted = @ \cup {"PREREQUISITE_CHAIN_BLOCKS_COMPLETION"}]
    BY <1>4, Zenon DEF Planner!PlacePrerequisite
  <2> HIDE DEF after
  <2>2. after \in PlacedBefore(n) /\ after.plan = acc.plan
    <3>1. acc \in [plan : SoundPlans(n), ok : BOOLEAN, noted : SUBSET PlanNotes]
      BY DEF PlacedBefore
    <3>2. acc.noted \cup {"PREREQUISITE_CHAIN_BLOCKS_COMPLETION"} \in SUBSET PlanNotes
      BY <1>1 DEF PlanNotes
    <3> HIDE DEF PlacedBefore
    <3>3. after = [acc EXCEPT !.ok = FALSE, !.noted = acc.noted \cup {"PREREQUISITE_CHAIN_BLOCKS_COMPLETION"}]
      BY <2>1, <3>1
    <3>4. after \in [plan : SoundPlans(n), ok : BOOLEAN, noted : SUBSET PlanNotes] /\ after.plan = acc.plan
      BY <3>1, <3>2, <3>3
    <3> QED
      BY <3>4 DEF PlacedBefore
  <2> QED
    BY <2>2 DEF after
<1>5. CASE acc.ok /\ p \notin Planner!Courses(acc.plan) /\ fit # {} /\ allowed
  <2>1. after = [acc EXCEPT !.plan = added]
    BY <1>5, Zenon DEF Planner!PlacePrerequisite, row
  <2>2. first \in fit
    <3>1. \E i \in fit : \A j \in fit : i <= j
      <4>1. fit \subseteq Nat
        OBVIOUS
      <4> HIDE DEF fit
      <4> QED
        BY <1>5, <4>1, SmallestTerm
    <3> HIDE DEF fit
    <3> QED
      BY <3>1, Zenon
  <2>3. first \in 1..n /\ acc.plan[first].credits + row.credits <= planned.maximum
    <3>1. first \in 1..(t - 1) /\ Planner!can_fit(acc.plan, first, row.credits)
      <4> HIDE DEF first
      <4> QED
        BY <1>2, <2>2
    <3> HIDE DEF first
    <3> QED
      BY <3>1 DEF Planner!can_fit
  <2> HIDE DEF after, added, first, fit
  <2>4. added \in SoundPlans(n) /\ Planner!Courses(added) \subseteq Planner!Courses(acc.plan) \cup {p}
    <3> DEFINE terms == acc.plan
               result == Planner!add_plan_courses(terms, first, <<row>>)
    <3>1. /\ terms \in SoundPlans(n) /\ first \in 1..n /\ row \in PlanRow /\ row.course = p
          /\ terms[first].credits + row.credits <= planned.maximum
          /\ row.course \notin Planner!Courses(terms) \/ Excused(row.course)
      BY <1>1, <1>2, <1>5, <2>3
    <3>2. added = result
      BY DEF added
    <3> HIDE DEF terms
    <3>3. result \in SoundPlans(n) /\ Planner!Courses(result) \subseteq Planner!Courses(terms) \cup {row.course}
      BY ONLY <3>1, AddOneSound, n \in Nat
    <3> HIDE DEF result
    <3> QED
      BY <3>1, <3>2, <3>3 DEF terms
  <2>5. after \in PlacedBefore(n) /\ after.plan = added
    BY <1>1, <2>1, <2>4 DEF PlacedBefore
  <2> QED
    BY <2>4, <2>5 DEF after
<1> QED
  BY <1>3, <1>4, <1>5

\* All the missing prerequisites of a course, one after the other.
LEMMA PrerequisitesStay ==
  ASSUME NEW n \in Nat, NEW t \in 1..n, NEW terms \in SoundPlans(n), NEW noted \in SUBSET PlanNotes,
         NEW missing \in Seq(DOMAIN PlanCatalog)
  PROVE LET after == Planner!place_prerequisites(terms, t, missing, noted) IN
        /\ after \in PlacedBefore(n)
        /\ Planner!Courses(after.plan) \subseteq Planner!Courses(terms) \cup Planner!ToSet(missing)
<1> DEFINE U == 1..Len(missing)
           T == {acc \in PlacedBefore(n) : Planner!Courses(acc.plan) \subseteq Planner!Courses(terms) \cup Planner!ToSet(missing)}
           base == [plan |-> terms, ok |-> TRUE, noted |-> noted]
           pick == [s \in SUBSET U |-> Planner!Max(s)]
           step == [acc \in T |-> [x \in U |-> Planner!PlacePrerequisite(acc, missing[x], t)]]
           Body(g) == [s \in SUBSET U |-> IF s = {} THEN base
                         ELSE Planner!PlacePrerequisite(g[s \ {Planner!Max(s)}], missing[Planner!Max(s)], t)]
           fold == CHOOSE g : g = Body(g)
<1>1. /\ Len(missing) \in Nat /\ DOMAIN missing = U
      /\ \A x \in U : missing[x] \in DOMAIN PlanCatalog /\ missing[x] \in Planner!ToSet(missing)
  BY DEF Planner!ToSet
<1>2. IsFiniteSet(U)
  BY <1>1, FS_Interval
<1>3. \A s \in SUBSET U : s # {} => pick[s] \in s /\ pick[s] = Planner!Max(s)
  BY <1>1, PlanGreatest
<1>4. ASSUME NEW acc \in T, NEW x \in U PROVE Planner!PlacePrerequisite(acc, missing[x], t) \in T
  <2> DEFINE p == missing[x]
             after == Planner!PlacePrerequisite(acc, p, t)
  <2>1. acc \in PlacedBefore(n) /\ p \in DOMAIN PlanCatalog /\ p \in Planner!ToSet(missing)
    BY <1>1
  <2>2. Planner!Courses(acc.plan) \subseteq Planner!Courses(terms) \cup Planner!ToSet(missing)
    OBVIOUS
  <2> HIDE DEF p
  <2>3. after \in PlacedBefore(n) /\ Planner!Courses(after.plan) \subseteq Planner!Courses(acc.plan) \cup {p}
    BY <2>1, PrerequisiteStays
  <2> HIDE DEF after
  <2>4. after \in T
    BY <2>1, <2>2, <2>3
  <2> QED
    BY <2>4 DEF after, p
<1>5. base \in T
  BY DEF PlacedBefore
<1>6. \E g : g = Body(g)
  <2>0. (\A s \in SUBSET U : s # {} => pick[s] \in s) /\ \A acc \in T, x \in U : step[acc][x] \in T
    BY <1>3, <1>4
  <2> HIDE DEF step, pick, T, U, base
  <2>1. PICK g \in [SUBSET U -> T] : \A s \in SUBSET U : StepsTo(g, U, pick, base, step, s)
    BY <1>2, <1>5, <2>0, FoldExists
  <2>2. ASSUME NEW s \in SUBSET U PROVE g[s] = Body(g)[s]
    <3>1. CASE s = {}
      BY <2>1, <3>1 DEF StepsTo
    <3>2. CASE s # {}
      <4>1. g[s] = step[g[s \ {pick[s]}]][pick[s]] /\ s \ {pick[s]} \in SUBSET U /\ pick[s] \in U
        BY <1>3, <2>1, <3>2 DEF StepsTo
      <4>2. g[s \ {pick[s]}] \in T
        BY <4>1
      <4> QED
        BY <1>3, <3>2, <4>1, <4>2 DEF step
    <3> QED
      BY <3>1, <3>2
  <2> QED
    BY <2>2
<1>7. fold = Body(fold)
  BY <1>6, Zenon
<1>8. Planner!place_prerequisites(terms, t, missing, noted) = fold[U]
  <2> HIDE DEF U
  <2> QED
    BY <1>1, Zenon DEF Planner!place_prerequisites, Planner!FoldLeft, Planner!MapThenFoldSet
<1> HIDE DEF fold, base
<1>9. fold[{}] \in T
  BY <1>5, <1>7
<1>10. ASSUME NEW s \in SUBSET U, s # {}, fold[s \ {pick[s]}] \in T PROVE fold[s] \in T
  <2>1. fold[s] = Planner!PlacePrerequisite(fold[s \ {pick[s]}], missing[pick[s]], t) /\ pick[s] \in U
    <3> HIDE DEF T
    <3> QED
      BY <1>3, <1>7, <1>10
  <2> HIDE DEF T, U, pick
  <2> QED
    BY <1>4, <1>10, <2>1
<1>11. fold[U] \in T
  <2> HIDE DEF pick, U, T
  <2> QED
    BY <1>2, <1>3, <1>9, <1>10, FoldStays
<1> QED
  BY <1>8, <1>11

\* What is known while terms are tried: a course that has no place is not planned.
Trying(n, course) ==
  {acc \in [plan : SoundPlans(n), done : BOOLEAN, noted : SUBSET PlanNotes] :
     ~ acc.done => course \notin Planner!Courses(acc.plan) \/ Excused(course)}

LEMMA TermStays ==
  ASSUME NEW n \in Nat, NEW t \in 1..n, NEW c, c.course \in DOMAIN PlanCatalog, c.credits \in Nat,
         NEW acc \in Trying(n, c.course)
  PROVE Planner!TryTerm(acc, t, c) \in Trying(n, c.course)
<1> DEFINE v == Planner!Verdict(c.course)
           earlier == Planner!place_prerequisites(acc.plan, t, v.missing, acc.noted)
           row == Planner!PlanCourse(c.course, c.credits, Planner!planning_status(v.overall), "REQUIREMENT_REMAINING")
           late == Planner!PlanCourse(c.course, c.credits, "CONDITIONALLY_PLANNED", "PREREQUISITE_PLANNED_EARLIER")
           beside == Planner!WithCorequisites(row, v.to_add, acc.plan)
           after == Planner!TryTerm(acc, t, c)
<1>1. /\ acc.plan \in SoundPlans(n) /\ acc.noted \in SUBSET PlanNotes /\ acc.done \in BOOLEAN
      /\ ~ acc.done => c.course \notin Planner!Courses(acc.plan) \/ Excused(c.course)
      /\ acc \in [plan : SoundPlans(n), done : BOOLEAN, noted : SUBSET PlanNotes]
  BY DEF Trying
<1>0. t = 1 <=> ~ (t > 1)
  OBVIOUS
<1>2. /\ row \in PlanRow /\ row.course = c.course /\ row.credits = c.credits
      /\ late \in PlanRow /\ late.course = c.course /\ late.credits = c.credits
  <2> DEFINE status == Planner!planning_status(v.overall)
  <2>1. status \in {"PLANNED", "CONDITIONALLY_PLANNED", "BLOCKED", "MANUAL_REVIEW_REQUIRED"}
    BY StatusTyped
  <2> HIDE DEF v
  <2>2. row \in PlanRow /\ row.course = c.course /\ row.credits = c.credits
    BY <2>1 DEF Planner!PlanCourse, PlanRow
  <2>3. late \in PlanRow /\ late.course = c.course /\ late.credits = c.credits
    BY DEF Planner!PlanCourse, PlanRow
  <2> QED
    BY <2>2, <2>3
<1>3. v.missing \in Seq(DOMAIN PlanCatalog) /\ v.to_add \in Seq(DOMAIN PlanCatalog)
  BY PlanConstants
<1>4. /\ earlier.plan \in SoundPlans(n) /\ earlier.noted \in SUBSET PlanNotes
      /\ Planner!Courses(earlier.plan) \subseteq Planner!Courses(acc.plan) \cup Planner!ToSet(v.missing)
  <2> DEFINE terms == acc.plan
             noted == acc.noted
             missing == v.missing
  <2>1. terms \in SoundPlans(n) /\ noted \in SUBSET PlanNotes /\ missing \in Seq(DOMAIN PlanCatalog)
    BY <1>1, <1>3
  <2> HIDE DEF terms, noted, missing
  <2> DEFINE done == Planner!place_prerequisites(terms, t, missing, noted)
  <2>2. done \in PlacedBefore(n) /\ Planner!Courses(done.plan) \subseteq Planner!Courses(terms) \cup Planner!ToSet(missing)
    BY ONLY <2>1, n \in Nat, t \in 1..n, PrerequisitesStay
  <2>3. earlier = done
    BY DEF terms, noted, missing
  <2> HIDE DEF done, earlier
  <2>4. done.plan \in SoundPlans(n) /\ done.noted \in SUBSET PlanNotes
    BY <2>2 DEF PlacedBefore
  <2> QED
    BY <2>2, <2>3, <2>4 DEF terms, missing
<1>5. c.course \in Planner!ToSet(v.missing) \cup Planner!ToSet(v.to_add) => Excused(c.course)
  BY DEF Excused, Planner!NamesItself
<1>6. CASE acc.done \/ (v.missing # <<>> /\ t = 1)
  <2>1. after = acc
    BY <1>0, <1>6, Zenon DEF Planner!TryTerm
  <2> QED
    BY <2>1
<1>7. CASE ~ acc.done /\ v.missing # <<>> /\ t > 1
  <2> DEFINE terms == earlier.plan
             placed == Planner!add_plan_courses(terms, t, <<late>>)
  <2>1. terms \in SoundPlans(n) /\ (c.course \notin Planner!Courses(terms) \/ Excused(c.course))
    BY <1>1, <1>4, <1>5, <1>7
  <2>2. CASE earlier.ok /\ Planner!can_fit(earlier.plan, t, c.credits)
    <3>1. after = [done |-> TRUE, plan |-> placed, noted |-> earlier.noted]
      BY <1>0, <1>7, <2>2, Zenon DEF Planner!TryTerm
    <3>2. terms[t].credits + late.credits <= planned.maximum
      <4> HIDE DEF earlier, late
      <4> QED
        BY <1>2, <2>2 DEF Planner!can_fit
    <3>3. placed \in SoundPlans(n)
      <4> HIDE DEF late, terms
      <4>1. placed \in SoundPlans(n) /\ Planner!Courses(placed) \subseteq Planner!Courses(terms) \cup {late.course}
        <5>1. late.course \notin Planner!Courses(terms) \/ Excused(late.course)
          BY <1>2, <2>1
        <5> QED
          BY ONLY <1>2, <2>1, <3>2, <5>1, n \in Nat, t \in 1..n, AddOneSound
      <4> QED
        BY <4>1
    <3> HIDE DEF after, placed, earlier
    <3>4. after \in Trying(n, c.course)
      BY <1>4, <3>1, <3>3 DEF Trying
    <3> QED
      BY <3>4 DEF after
  <2>3. CASE ~ (earlier.ok /\ Planner!can_fit(earlier.plan, t, c.credits))
    <3>1. after = [acc EXCEPT !.plan = earlier.plan, !.noted = earlier.noted]
      BY <1>0, <1>7, <2>3, Zenon DEF Planner!TryTerm
    <3> HIDE DEF after, earlier
    <3>2. after \in Trying(n, c.course)
      BY <1>1, <1>4, <2>1, <3>1 DEF Trying
    <3> QED
      BY <3>2 DEF after
  <2> QED
    BY <2>2, <2>3
<1>8. CASE ~ acc.done /\ v.missing = <<>>
  <2> DEFINE terms == acc.plan
             placed == Planner!add_plan_courses(terms, t, beside)
  <2>1. beside \in Seq(PlanRow) /\ PairedSoFar(beside, DOMAIN v.to_add, row, terms)
    <3> HIDE DEF row, terms
    <3> DEFINE rows == Planner!WithCorequisites(row, Planner!Verdict(row.course).to_add, terms)
    <3>1. rows \in Seq(PlanRow) /\ PairedSoFar(rows, DOMAIN Planner!Verdict(row.course).to_add, row, terms)
      BY ONLY <1>2, PairsStay
    <3> HIDE DEF rows
    <3> QED
      BY <1>2, <3>1 DEF rows, terms
  <2>2. /\ terms \in SoundPlans(n)
        /\ \A i \in 1..Len(beside) : beside[i].course \notin Planner!Courses(terms) \/ Excused(beside[i].course)
        /\ \A i, j \in 1..Len(beside) : beside[i].course = beside[j].course => i = j \/ Excused(beside[i].course)
    <3> HIDE DEF beside, row, v
    <3>1. /\ Len(beside) \in Nat /\ Len(beside) >= 1 /\ beside[1] = row
          /\ \A i \in 2..Len(beside) : beside[i].course \notin Planner!Courses(terms)
          /\ \A i, j \in 1..Len(beside) : beside[i].course = beside[j].course => i = j \/ Excused(beside[i].course)
      BY <2>1, <1>2, SMTT(60) DEF PairedSoFar, v
    <3>2. \A i \in 1..Len(beside) : i = 1 \/ i \in 2..Len(beside)
      BY <3>1
    <3> QED
      BY <1>1, <1>2, <1>8, <3>1, <3>2
  <2>3. CASE ~ Planner!can_fit(acc.plan, t, Planner!CreditsIn(beside))
    <3>1. after = acc
      BY <1>0, <1>8, <2>3, Zenon DEF Planner!TryTerm
    <3> QED
      BY <3>1
  <2>4. CASE Planner!can_fit(acc.plan, t, Planner!CreditsIn(beside)) /\ v.overall = "NOT_ELIGIBLE"
    <3>1. after = [acc EXCEPT !.noted = @ \cup {"ELIGIBILITY_CHECK_FAILED"}]
      BY <1>0, <1>8, <2>4, Zenon DEF Planner!TryTerm
    <3> HIDE DEF after
    <3>2. after = [acc EXCEPT !.noted = acc.noted \cup {"ELIGIBILITY_CHECK_FAILED"}]
      BY <1>1, <3>1
    <3>3. acc.noted \cup {"ELIGIBILITY_CHECK_FAILED"} \in SUBSET PlanNotes
      BY <1>1 DEF PlanNotes
    <3>4. after \in Trying(n, c.course)
      BY <1>1, <3>2, <3>3 DEF Trying
    <3> QED
      BY <3>4 DEF after
  <2>5. CASE Planner!can_fit(acc.plan, t, Planner!CreditsIn(beside)) /\ v.overall # "NOT_ELIGIBLE"
    <3>1. after = [done |-> TRUE, plan |-> placed, noted |-> acc.noted]
      BY <1>0, <1>8, <2>5, ZenonT(60) DEF Planner!TryTerm
    <3>2. terms[t].credits + Planner!CreditsIn(beside) <= planned.maximum
      <4> HIDE DEF beside
      <4> QED
        BY <2>5, SMTT(60) DEF Planner!can_fit
    <3>3. placed \in SoundPlans(n)
      <4> DEFINE rows == beside
                 result == Planner!add_plan_courses(terms, t, rows)
      <4>1. /\ terms \in SoundPlans(n) /\ rows \in Seq(PlanRow)
            /\ terms[t].credits + Planner!CreditsIn(rows) <= planned.maximum
            /\ \A i \in 1..Len(rows) : rows[i].course \notin Planner!Courses(terms) \/ Excused(rows[i].course)
            /\ \A i, j \in 1..Len(rows) : rows[i].course = rows[j].course => i = j \/ Excused(rows[i].course)
        BY <2>1, <2>2, <3>2
      <4>2. placed = result
        OBVIOUS
      <4> HIDE DEF rows, terms
      <4>3. /\ result \in SoundPlans(n)
            /\ Planner!Courses(result) \subseteq Planner!Courses(terms) \cup {rows[i].course : i \in 1..Len(rows)}
        BY ONLY <4>1, n \in Nat, t \in 1..n, AddSound, SMTT(60)
      <4> QED
        BY <4>2, <4>3, SMTT(60)
    <3> HIDE DEF after, placed
    <3>4. after \in Trying(n, c.course)
      BY <1>1, <3>1, <3>3 DEF Trying
    <3> QED
      BY <3>4 DEF after
  <2> QED
    BY <2>3, <2>4, <2>5
<1> QED
  BY <1>6, <1>7, <1>8

\* All the terms of the plan, one after the other.
LEMMA PlaceStays ==
  ASSUME NEW n \in Nat, plan \in SoundPlans(n), warnings \in SUBSET PlanNotes,
         NEW c, c.course \in DOMAIN PlanCatalog, c.credits \in Nat, c.course \notin Planner!Courses(plan)
  PROVE Planner!place_single_candidate(c) \in Trying(n, c.course)
<1> DEFINE terms == [t \in DOMAIN plan |-> t]
           U == 1..n
           T == Trying(n, c.course)
           base == [plan |-> plan, done |-> FALSE, noted |-> warnings]
           pick == [s \in SUBSET U |-> Planner!Max(s)]
           step == [acc \in T |-> [x \in U |-> Planner!TryTerm(acc, terms[x], c)]]
           Body(g) == [s \in SUBSET U |-> IF s = {} THEN base
                         ELSE Planner!TryTerm(g[s \ {Planner!Max(s)}], terms[Planner!Max(s)], c)]
           fold == CHOOSE g : g = Body(g)
<1>1. DOMAIN plan = U /\ DOMAIN terms = U /\ \A x \in U : terms[x] = x
  BY DEF SoundPlans
<1>2. IsFiniteSet(U)
  BY ONLY n \in Nat, FS_Interval
<1>3. \A s \in SUBSET U : s # {} => pick[s] \in s /\ pick[s] = Planner!Max(s)
  BY PlanGreatest
<1> HIDE DEF terms
<1>4. \A acc \in T, x \in U : Planner!TryTerm(acc, terms[x], c) \in T
  <2> HIDE DEF T
  <2>1. ASSUME NEW acc \in T, NEW x \in U PROVE Planner!TryTerm(acc, x, c) \in T
    BY TermStays DEF T
  <2> QED
    BY <1>1, <2>1
<1>5. base \in T
  BY DEF Trying
<1>6. \E g : g = Body(g)
  <2>0. (\A s \in SUBSET U : s # {} => pick[s] \in s) /\ \A acc \in T, x \in U : step[acc][x] \in T
    <3> HIDE DEF T
    <3> QED
      BY <1>3, <1>4
  <2> HIDE DEF step, pick, T, U, base
  <2>1. PICK g \in [SUBSET U -> T] : \A s \in SUBSET U : StepsTo(g, U, pick, base, step, s)
    BY <1>2, <1>5, <2>0, FoldExists
  <2>2. ASSUME NEW s \in SUBSET U PROVE g[s] = Body(g)[s]
    <3>1. CASE s = {}
      BY <2>1, <3>1 DEF StepsTo
    <3>2. CASE s # {}
      <4>1. g[s] = step[g[s \ {pick[s]}]][pick[s]] /\ s \ {pick[s]} \in SUBSET U /\ pick[s] \in U
        BY <1>3, <2>1, <3>2 DEF StepsTo
      <4>2. g[s \ {pick[s]}] \in T
        BY <4>1
      <4> QED
        BY <1>3, <3>2, <4>1, <4>2 DEF step
    <3> QED
      BY <3>1, <3>2
  <2> HIDE DEF Trying
  <2> QED
    BY ONLY <2>2, g \in [SUBSET U -> T]
<1>7. fold = Body(fold)
  BY <1>6, Zenon
<1>8. Planner!place_single_candidate(c) = fold[U]
  <2> HIDE DEF U
  <2> QED
    BY <1>1, Zenon DEF Planner!place_single_candidate, Planner!FoldLeft, Planner!MapThenFoldSet, terms
<1> HIDE DEF fold, base, T
<1>9. fold[{}] \in T
  BY <1>5, <1>7
<1>10. ASSUME NEW s \in SUBSET U, s # {}, fold[s \ {pick[s]}] \in T PROVE fold[s] \in T
  <2>1. fold[s] = Planner!TryTerm(fold[s \ {pick[s]}], terms[pick[s]], c) /\ pick[s] \in U
    BY <1>3, <1>7, <1>10
  <2> HIDE DEF U, pick
  <2> QED
    BY <1>4, <1>10, <2>1
<1>11. fold[U] \in T
  <2> HIDE DEF pick, U
  <2> QED
    BY <1>2, <1>3, <1>9, <1>10, FoldStays
<1> QED
  BY <1>8, <1>11 DEF T

\* A plan without courses.
LEMMA EmptyPlans ==
  ASSUME NEW n \in Nat, n > 0 => planned.maximum >= 0, planned.maximum \in Int
  PROVE [t \in 1..n |-> [credits |-> 0, status |-> "PLANNED", courses |-> <<>>]] \in SoundPlans(n)
<1> DEFINE term == [credits |-> 0, status |-> "PLANNED", courses |-> <<>>]
           terms == [t \in 1..n |-> term]
<1>1. Planner!CreditsIn(<<>>) = 0
  <2> DEFINE f == [i \in DOMAIN <<>> |-> <<>>[i].credits]
  <2>1. DOMAIN <<>> = {}
    OBVIOUS
  <2>2. Planner!CreditsIn(<<>>) = SumFunctionOnSet(f, {})
    BY <2>1, PlanSum DEF Planner!CreditsIn
  <2> HIDE DEF f
  <2> QED
    BY <2>2, SumEmpty
<1>2. term \in PlanTerm /\ term.credits = 0 /\ term.courses = <<>> /\ DOMAIN term.courses = {}
  BY DEF PlanTerm
<1> HIDE DEF term
<1>3. terms \in [1..n -> PlanTerm] /\ DOMAIN terms = 1..n /\ \A t \in 1..n : terms[t] = term
  BY <1>2
<1>4. \A t \in 1..n : n > 0
  OBVIOUS
<1> HIDE DEF terms
<1>5. TermsFull(terms)
  BY <1>1, <1>2, <1>3, <1>4 DEF TermsFull
<1>6. CoursesOnce(terms)
  BY <1>2, <1>3 DEF CoursesOnce
<1>7. terms \in SoundPlans(n)
  BY <1>3, <1>5, <1>6 DEF SoundPlans
<1> QED
  BY <1>7 DEF terms, term

LEMMA EmptyPlan == planned \in PlanRequests => <<>> \in SoundPlans(0)
<1> SUFFICES ASSUME planned \in PlanRequests PROVE <<>> \in SoundPlans(0)
  OBVIOUS
<1> DEFINE n == 0
           terms == [t \in 1..n |-> [credits |-> 0, status |-> "PLANNED", courses |-> <<>>]]
<1>1. terms \in SoundPlans(n)
  <2>1. n \in Nat /\ (n > 0 => planned.maximum >= 0) /\ planned.maximum \in Int
    BY PlanConstants
  <2> HIDE DEF n
  <2> QED
    BY ONLY <2>1, EmptyPlans
<1>2. terms = <<>>
  OBVIOUS
<1> QED
  BY <1>1, <1>2

LEMMA PlanInit == AdvisingInit => PlanInv
<1> SUFFICES ASSUME AdvisingInit PROVE PlanInv
  OBVIOUS
<1>1. planned \in PlanRequests
  <2>1. PlanRequests # {}
    BY AdvisingConstants DEF Planner!PlanningAssumption
  <2>2. planned \in PlanRequests \/ planned = OneOf(PlanRequests)
    BY DEF AdvisingInit, Begin
  <2> QED
    BY <2>1, <2>2, Zenon DEF OneOf
<1>2. planTodo = {} /\ plan = <<>> /\ warnings = {}
  BY DEF AdvisingInit, Begin, Planner!Init
<1> QED
  BY <1>1, <1>2, EmptyPlan DEF PlanInv

LEMMA CandidatesTyped ==
  ASSUME NEW q \in PlanRequests, NEW c \in Planner!planner_candidates(q)
  PROVE c.course \in DOMAIN PlanCatalog /\ c.credits \in Nat
<1>1. PICK r \in Planner!ToSet(q.requirements) :
        \E option \in Planner!ToSet(r.options) : c = Planner!Candidate(r, option)
  BY Zenon DEF Planner!planner_candidates
<1>2. PICK option \in Planner!ToSet(r.options) : c = Planner!Candidate(r, option)
  BY <1>1
<1>3. option.course \in DOMAIN PlanCatalog /\ option.credits \in Nat
  BY PlanConstants
<1>4. c.course = option.course /\ c.credits = option.credits
  BY <1>2 DEF Planner!Candidate
<1> QED
  BY <1>3, <1>4

LEMMA PlanKeeps == PlanInv /\ [Planner!Next]_(Planner!vars) => PlanInv'
<1> SUFFICES ASSUME PlanInv, [Planner!Next]_(Planner!vars) PROVE PlanInv'
  OBVIOUS
<1>1. /\ planned \in PlanRequests /\ warnings \in SUBSET PlanNotes
      /\ \A c \in planTodo : c.course \in DOMAIN PlanCatalog /\ c.credits \in Nat
  BY DEF PlanInv
<1>2. PICK n \in Nat : plan \in SoundPlans(n)
  BY DEF PlanInv
<1>3. planned' = planned
  BY DEF Planner!Next, Planner!create_plan, Planner!place_candidate, Planner!finish, Planner!fail, Planner!vars
<1>4. \A k : SoundPlans(k)' = SoundPlans(k)
  BY <1>3 DEF SoundPlans, TermsFull, CoursesOnce
<1>5. ASSUME NEW k \in Nat, plan' \in SoundPlans(k), warnings' \in SUBSET PlanNotes,
             \A c \in planTodo' : c.course \in DOMAIN PlanCatalog /\ c.credits \in Nat
      PROVE PlanInv'
  <2>1. plan' \in SoundPlans(k)'
    BY <1>4, <1>5
  <2> QED
    BY <1>1, <1>3, <1>5, <2>1 DEF PlanInv
<1>6. CASE Planner!create_plan
  <2> DEFINE k == Planner!target_terms(planned)
             terms == [t \in 1..k |-> [credits |-> 0, status |-> "PLANNED", courses |-> <<>>]]
             ok == Planner!credit_inputs_valid(planned) /\ Planner!scope_valid(planned) /\ Planner!ready(planned) /\ planned.terms > 0
  <2>1. CASE ok
    <3>1. /\ planTodo' = Planner!planner_candidates(planned) /\ plan' = terms
          /\ warnings' = Planner!candidate_warnings(planned) \cup
               (IF planned.terms < planned.terms_to_plan THEN {"PLANNING_HORIZON_TRUNCATED"} ELSE {})
      BY <1>6, <2>1, Zenon DEF Planner!create_plan
    <3>2. k \in Nat /\ planned.maximum \in Int /\ planned.maximum >= 0
      <4>1. planned.terms \in Int /\ planned.terms_to_plan \in Int /\ planned.maximum \in Int
        BY <1>1, PlanConstants
      <4>2. planned.terms > 0 /\ planned.terms_to_plan > 0 /\ planned.maximum >= 0
        BY <2>1 DEF Planner!credit_inputs_valid
      <4> QED
        BY <4>1, <4>2 DEF Planner!target_terms
    <3> HIDE DEF k
    <3>3. terms \in SoundPlans(k)
      BY ONLY <3>2, EmptyPlans
    <3>4. Planner!candidate_warnings(planned) \in SUBSET PlanNotes
      BY DEF Planner!candidate_warnings, PlanNotes
    <3>5. warnings' \in SUBSET PlanNotes
      BY <3>1, <3>4 DEF PlanNotes
    <3>6. \A c \in planTodo' : c.course \in DOMAIN PlanCatalog /\ c.credits \in Nat
      BY <1>1, <3>1, CandidatesTyped
    <3> HIDE DEF terms
    <3> QED
      BY <1>5, <3>1, <3>2, <3>3, <3>5, <3>6
  <2>2. CASE ~ ok
    <3>1. UNCHANGED <<planTodo, plan, warnings>>
      BY <1>6, <2>2, Zenon DEF Planner!create_plan
    <3> QED
      BY <1>1, <1>2, <1>5, <3>1
  <2> QED
    BY <2>1, <2>2
<1>7. CASE Planner!place_candidate
  <2>1. PICK c \in planTodo :
          /\ planTodo' = planTodo \ {c}
          /\ IF c.course \in Planner!Courses(plan) THEN covered' = covered \cup {c.node} /\ UNCHANGED <<plan, warnings>>
             ELSE LET placed == Planner!place_single_candidate(c) IN
                  /\ plan' = placed.plan
                  /\ covered' = IF placed.done THEN covered \cup {c.node} ELSE covered
                  /\ warnings' = placed.noted \cup (IF placed.done THEN {} ELSE {"CREDIT_LIMIT_PREVENTS_PLACEMENT"})
    BY <1>7, Zenon DEF Planner!place_candidate
  <2>2. \A d \in planTodo' : d.course \in DOMAIN PlanCatalog /\ d.credits \in Nat
    BY <1>1, <2>1
  <2>3. CASE c.course \in Planner!Courses(plan)
    <3>1. UNCHANGED <<plan, warnings>>
      BY <2>1, <2>3
    <3> QED
      BY <1>1, <1>2, <1>5, <2>2, <3>1
  <2>4. CASE c.course \notin Planner!Courses(plan)
    <3> DEFINE placed == Planner!place_single_candidate(c)
    <3>1. plan' = placed.plan /\ warnings' = placed.noted \cup (IF placed.done THEN {} ELSE {"CREDIT_LIMIT_PREVENTS_PLACEMENT"})
      BY <2>1, <2>4
    <3>2. placed \in Trying(n, c.course)
      <4>1. c.course \in DOMAIN PlanCatalog /\ c.credits \in Nat
        BY <1>1
      <4> QED
        BY ONLY <1>1, <1>2, <2>4, <4>1, PlaceStays
    <3> HIDE DEF placed
    <3>3. placed.plan \in SoundPlans(n) /\ placed.noted \in SUBSET PlanNotes
      BY <3>2 DEF Trying
    <3>4. warnings' \in SUBSET PlanNotes
      BY <3>1, <3>3 DEF PlanNotes
    <3> QED
      BY <1>2, <1>5, <2>2, <3>1, <3>3, <3>4
  <2> QED
    BY <2>3, <2>4
<1>8. CASE Planner!finish
  <2> DEFINE Marked(t) == CASE plan[t].credits >= planned.minimum -> plan[t].status
                            [] OTHER -> IF plan[t].credits > 0 THEN "PARTIAL" ELSE "BLOCKED"
  <2>1. planTodo' = planTodo /\ DOMAIN plan = 1..n /\ plan \in [1..n -> PlanTerm] /\ TermsFull(plan) /\ CoursesOnce(plan)
    BY <1>2, <1>8 DEF Planner!finish, SoundPlans
  <2>2. plan' = [t \in 1..n |-> [plan[t] EXCEPT !.status = Marked(t)]]
    <3>1. plan' = [t \in DOMAIN plan |-> [plan[t] EXCEPT !.status =
                CASE plan[t].credits >= planned.minimum -> @
                  [] OTHER -> IF plan[t].credits > 0 THEN "PARTIAL" ELSE "BLOCKED"]]
      BY <1>8, Zenon DEF Planner!finish
    <3> QED
      BY <2>1, <3>1 DEF PlanTerm
  <2>3. \A t \in 1..n : Marked(t) \in {plan[t].status, "PARTIAL", "BLOCKED"}
    BY Zenon
  <2> HIDE DEF Marked
  <2>4. \A t \in 1..n : plan'[t] \in PlanTerm /\ plan'[t].credits = plan[t].credits /\ plan'[t].courses = plan[t].courses
    BY <2>1, <2>2, <2>3 DEF PlanTerm
  <2>5. plan' \in [1..n -> PlanTerm] /\ DOMAIN plan' = 1..n
    BY <2>2, <2>4
  <2>6. TermsFull(plan')
    BY <2>1, <2>4, <2>5 DEF TermsFull
  <2>7. CoursesOnce(plan')
    BY <2>1, <2>4, <2>5, SMTT(60) DEF CoursesOnce
  <2>8. plan' \in SoundPlans(n)
    BY <2>5, <2>6, <2>7 DEF SoundPlans
  <2>9. warnings' \in SUBSET PlanNotes
    BY <1>1, <1>8 DEF Planner!finish, PlanNotes
  <2> QED
    BY <1>1, <1>2, <1>5, <2>1, <2>8, <2>9
<1>9. CASE Planner!fail
  <2>1. planTodo' = {} /\ plan' = <<>> /\ warnings' = {}
    BY <1>9 DEF Planner!fail
  <2>2. <<>> \in SoundPlans(0)
    BY <1>1, EmptyPlan
  <2> QED
    BY <1>5, <2>1, <2>2
<1>10. CASE UNCHANGED Planner!vars
  BY <1>1, <1>2, <1>5, <1>10 DEF Planner!vars
<1> QED
  BY <1>6, <1>7, <1>8, <1>9, <1>10 DEF Planner!Next

(***************************************************************************)
(* A term of a plan holds exactly the credits of its courses and no more   *)
(* than the maximum, and a course stands in the plan once, unless a rule   *)
(* asks for the course that it restricts, or twice for one corequisite:    *)
(* can_fit is asked of the same rows that are then added, and a course is  *)
(* placed, or paired, only while no term has it.                           *)
(***************************************************************************)
THEOREM PlansKeepLimits == AdvisingSpec => []PlanKeepsLimits
<1>1. PlanInv => PlanKeepsLimits
  <2> SUFFICES ASSUME PlanInv PROVE PlanKeepsLimits
    OBVIOUS
  <2>1. TermsFull(plan) /\ CoursesOnce(plan)
    BY DEF PlanInv, SoundPlans
  <2>2. ASSUME NEW s \in Planner!Slots, NEW u \in Planner!Slots, Planner!CourseAt(s) = Planner!CourseAt(u)
        PROVE s = u \/ Excused(Planner!CourseAt(s))
    <3>1. \A x \in Planner!Slots : \E t \in DOMAIN plan : \E i \in DOMAIN plan[t].courses : x = <<t, i>>
      BY DEF Planner!Slots
    <3>2. PICK t \in DOMAIN plan : \E i \in DOMAIN plan[t].courses : s = <<t, i>>
      BY <3>1
    <3>3. PICK v \in DOMAIN plan : \E j \in DOMAIN plan[v].courses : u = <<v, j>>
      BY <3>1
    <3>4. PICK i \in DOMAIN plan[t].courses : s = <<t, i>>
      BY <3>2
    <3>5. PICK j \in DOMAIN plan[v].courses : u = <<v, j>>
      BY <3>3
    <3>6. plan[t].courses[i].course = plan[v].courses[j].course /\ Planner!CourseAt(s) = plan[t].courses[i].course
      BY <2>2, <3>4, <3>5 DEF Planner!CourseAt
    <3>7. (t = v /\ i = j) \/ Excused(plan[t].courses[i].course)
      BY <2>1, <3>6, Zenon DEF CoursesOnce
    <3> QED
      BY <3>4, <3>5, <3>6, <3>7
  <2> QED
    BY <2>1, <2>2, Zenon DEF PlanKeepsLimits, Planner!PlanKeepsLimits, TermsFull, Excused
<1> QED
  BY <1>1, PlanInit, PlanKeeps, EachServiceSteps, PTL DEF AdvisingSpec
-----------------------------------------------------------------------------
(* The rows of every service *)

\* A plan is stored only for inputs that pass the guards, with the courses of its terms
\* once each, and it covers requirements of the audit it was made from.
PlanRuns == {None, "RUNNING", "REFUSED", "COMPLETED_WITH_WARNINGS", "FAILED"}
Wanted(node) == \E r \in Planner!ToSet(planned.requirements) : r.node = node
PlanStored ==
  /\ planRun \in PlanRuns
  /\ planRun \notin {None, "REFUSED"} => Planner!AcademicPlanRun(planned)
  /\ planRun = "COMPLETED_WITH_WARNINGS" => Planner!OncePerTerm(plan)
  /\ \A c \in planTodo : Wanted(c.node)
  /\ \A node \in covered : Wanted(node)

LEMMA PlanStoredInit == AdvisingInit => PlanStored
<1> SUFFICES ASSUME AdvisingInit PROVE PlanStored
  OBVIOUS
<1>1. planRun = None /\ plan = <<>> /\ planTodo = {} /\ covered = {}
  BY DEF AdvisingInit, Begin, Planner!Init
<1>2. DOMAIN plan = {}
  BY <1>1
<1> QED
  BY <1>1, <1>2 DEF PlanStored, PlanRuns, Planner!OncePerTerm

LEMMA CandidatesWanted ==
  ASSUME NEW c \in Planner!planner_candidates(planned) PROVE Wanted(c.node)
<1>1. PICK r \in Planner!ToSet(planned.requirements) :
        \E option \in Planner!ToSet(r.options) : c = Planner!Candidate(r, option)
  BY Zenon DEF Planner!planner_candidates
<1>2. c.node = r.node
  BY <1>1 DEF Planner!Candidate
<1> QED
  BY <1>2 DEF Wanted

LEMMA PlanStoredKeeps == PlanInv /\ PlanStored /\ [Planner!Next]_(Planner!vars) => PlanStored'
<1> SUFFICES ASSUME PlanInv, PlanStored, [Planner!Next]_(Planner!vars) PROVE PlanStored'
  OBVIOUS
<1>1. planned' = planned
  BY DEF Planner!Next, Planner!create_plan, Planner!place_candidate, Planner!finish, Planner!fail, Planner!vars
<1>2. \A node : Wanted(node)' = Wanted(node)
  BY <1>1 DEF Wanted
<1>3. Planner!AcademicPlanRun(planned)' = Planner!AcademicPlanRun(planned)
  BY <1>1 DEF Planner!AcademicPlanRun
<1>4. None # "RUNNING"
  BY AdvisingConstants DEF Planner!PlanningAssumption
<1>5. CASE Planner!create_plan
  <2> DEFINE ok == Planner!credit_inputs_valid(planned) /\ Planner!scope_valid(planned) /\ Planner!ready(planned) /\ planned.terms > 0
  <2>1. CASE ok
    <3>1. planTodo' = Planner!planner_candidates(planned) /\ planRun' = "RUNNING" /\ covered' = covered
      BY <1>5, <2>1, Zenon DEF Planner!create_plan
    <3>2. Planner!AcademicPlanRun(planned)
      <4>1. planned.maximum \in Int
        BY PlanConstants DEF PlanInv
      <4> QED
        BY <2>1, <4>1 DEF Planner!AcademicPlanRun, Planner!credit_inputs_valid, Planner!scope_valid
    <3>3. \A c \in planTodo' : Wanted(c.node)
      BY <3>1, CandidatesWanted
    <3> HIDE DEF ok
    <3> QED
      BY <1>2, <1>3, <3>1, <3>2, <3>3 DEF PlanStored, PlanRuns
  <2>2. CASE ~ ok
    <3>1. planRun' = "REFUSED" /\ UNCHANGED <<planTodo, plan, covered>>
      BY <1>5, <2>2, Zenon DEF Planner!create_plan
    <3> QED
      BY <1>2, <1>3, <3>1 DEF PlanStored, PlanRuns
  <2> QED
    BY <2>1, <2>2
<1>6. CASE Planner!place_candidate
  <2>1. planRun = "RUNNING" /\ planRun' = planRun
    BY <1>6 DEF Planner!place_candidate
  <2>2. PICK c \in planTodo : planTodo' = planTodo \ {c} /\ covered' \in {covered, covered \cup {c.node}}
    BY <1>6, Zenon DEF Planner!place_candidate
  <2>3. Planner!AcademicPlanRun(planned)
    BY <1>4, <2>1 DEF PlanStored
  <2> QED
    BY <1>2, <1>3, <2>1, <2>2, <2>3 DEF PlanStored, PlanRuns
<1>7. CASE Planner!finish
  <2>1. planRun = "RUNNING" /\ planRun' = "COMPLETED_WITH_WARNINGS" /\ planTodo' = planTodo /\ covered' = covered
    BY <1>7 DEF Planner!finish
  <2>2. Planner!AcademicPlanRun(planned)
    BY <1>4, <2>1 DEF PlanStored
  <2>3. Planner!OncePerTerm(plan')
    <3> DEFINE Marked(t) == CASE plan[t].credits >= planned.minimum -> plan[t].status
                              [] OTHER -> IF plan[t].credits > 0 THEN "PARTIAL" ELSE "BLOCKED"
    <3>1. PICK n \in Nat : plan \in [1..n -> PlanTerm] /\ DOMAIN plan = 1..n
      BY DEF PlanInv, SoundPlans
    <3>2. plan' = [t \in DOMAIN plan |-> [plan[t] EXCEPT !.status =
                CASE plan[t].credits >= planned.minimum -> @
                  [] OTHER -> IF plan[t].credits > 0 THEN "PARTIAL" ELSE "BLOCKED"]]
      BY <1>7, Zenon DEF Planner!finish
    <3>3. plan' = [t \in 1..n |-> [plan[t] EXCEPT !.status = Marked(t)]]
      BY <3>1, <3>2 DEF PlanTerm
    <3> HIDE DEF Marked
    <3>4. DOMAIN plan' = 1..n /\ \A t \in 1..n : plan'[t].courses = plan[t].courses
      BY <3>1, <3>3 DEF PlanTerm
    <3>5. Planner!OncePerTerm(plan)
      BY <1>7 DEF Planner!finish
    <3> QED
      BY <3>1, <3>4, <3>5, Zenon DEF Planner!OncePerTerm
  <2> QED
    BY <1>2, <1>3, <2>1, <2>2, <2>3 DEF PlanStored, PlanRuns
<1>8. CASE Planner!fail
  <2>1. planRun = "RUNNING" /\ planRun' = "FAILED" /\ planTodo' = {} /\ covered' = {}
    BY <1>8 DEF Planner!fail
  <2>2. Planner!AcademicPlanRun(planned)
    BY <1>4, <2>1 DEF PlanStored
  <2> QED
    BY <1>2, <1>3, <2>1, <2>2 DEF PlanStored, PlanRuns
<1>9. CASE UNCHANGED Planner!vars
  <2>1. UNCHANGED <<planRun, plan, planTodo, covered>>
    BY <1>9 DEF Planner!vars
  <2> QED
    BY <1>2, <1>3, <2>1 DEF PlanStored
<1> QED
  BY <1>5, <1>6, <1>7, <1>8, <1>9 DEF Planner!Next

LEMMA PlansAreTyped == AdvisingSpec => []Planner!TypeOK
<1>1. PlanInv /\ PlanStored => Planner!TypeOK
  <2> SUFFICES ASSUME PlanInv, PlanStored PROVE Planner!TypeOK
    OBVIOUS
  <2>1. PICK n \in Nat : plan \in [1..n -> PlanTerm] /\ DOMAIN plan = 1..n /\ TermsFull(plan)
    BY DEF PlanInv, SoundPlans
  <2>2. ASSUME NEW t \in DOMAIN plan PROVE Planner!AcademicPlanTerm(plan[t])
    <3>1. plan[t] \in PlanTerm
      BY <2>1
    <3>2. plan[t].status \in {"PLANNED", "PARTIAL", "BLOCKED"} /\ plan[t].courses \in Seq(PlanRow)
      BY <3>1 DEF PlanTerm
    <3>3. plan[t].credits \in Nat
      <4>1. plan[t].credits = Planner!CreditsIn(plan[t].courses)
        BY <2>1 DEF TermsFull
      <4> QED
        BY <3>2, <4>1, PlanCreditsTyped
    <3>4. \A c \in Planner!ToSet(plan[t].courses) : Planner!AcademicPlanCourse(c)
      <4>1. \A i \in DOMAIN plan[t].courses : plan[t].courses[i] \in PlanRow
        BY <3>2, PlanRows
      <4>2. \A c \in PlanRow : Planner!AcademicPlanCourse(c)
        BY DEF PlanRow, Planner!AcademicPlanCourse
      <4> QED
        BY <4>1, <4>2 DEF Planner!ToSet
    <3> QED
      BY <3>2, <3>3, <3>4 DEF Planner!AcademicPlanTerm
  <2> QED
    BY <2>2, Zenon DEF PlanStored, PlanRuns, Wanted, Planner!TypeOK
<1> QED
  BY <1>1, PlanInit, PlanKeeps, PlanStoredInit, PlanStoredKeeps, EachServiceSteps, PTL DEF AdvisingSpec

(***************************************************************************)
(* The tables accept every row that a service stores: no evaluation stored *)
(* twice, no snapshot, alert or course of a term repeated, only states,    *)
(* credits and percentages in their ranges.                                *)
(***************************************************************************)
THEOREM RowsAreAccepted == AdvisingSpec => []RowsAccepted
<1>1. AdvisingSpec => []TypeOK
  BY EachServiceRuns, ScenarioTyped, PTL
<1>2. AdvisingSpec => []Eligibility!TypeOK
  <2>1. Eligibility!Init => CheckInv
    BY CheckInit, AdvisingConstants
  <2>2. CheckInv => Eligibility!TypeOK
    BY DEF CheckInv
  <2> QED
    BY CheckKeeps, EachServiceRuns, <2>1, <2>2, PTL DEF Eligibility!Spec
<1>3. AdvisingSpec => []Rules!TypeOK
  <2>1. RulesInv /\ [Rules!Next]_(Rules!vars) => RulesInv'
    BY RulesKeep, AdvisingConstants
  <2>2. RulesInv => Rules!TypeOK
    BY DEF RulesInv, RulesTyped
  <2> QED
    BY RulesInit, EachServiceRuns, <2>1, <2>2, PTL DEF Rules!Spec
<1> QED
  BY <1>1, <1>2, <1>3, AuditsAreTyped, PlansAreTyped, ChangesAreTold, RowsAreFollowed, PTL DEF RowsAccepted
=============================================================================
