--------------------------- MODULE AcademicScenario ---------------------------
(***************************************************************************)
(* One what-if scenario request: AcademicScenarioEngine.evaluate with the  *)
(* bounded search of DeterministicMultiProgramAllocator.allocate inside.   *)
(*                                                                         *)
(* The whole request is one transaction of one session. "session" is what  *)
(* it has flushed, "db" what is committed of this scenario; any step of    *)
(* the request may raise, and the process may die between two steps. One   *)
(* step of the search is one leaf of visit.                                *)
(***************************************************************************)
EXTENDS ScenarioRules

CONSTANT Nothing

VARIABLES
  request,      \* the candidates and policies, fixed by the request
  phase,        \* where evaluate stands
  session,      \* the rows flushed in the open transaction
  db,           \* the committed rows of the scenario, or Nothing
  path,         \* the leaf visit reaches next
  evaluated, limit_reached, best   \* the search

vars == <<request, phase, session, db, path, evaluated, limit_reached, best>>
search == <<path, evaluated, limit_reached, best>>

Codes == {"MISSING_RULE", "RULE_NEEDS_REVIEW", "LIMIT_REACHED", "UNIQUE_CREDITS_NOT_MET", "ESTIMATE"}
Everyone == "scenario"   \* the warnings that belong to no program
Warning(code, program) == [code |-> code, program |-> program]
Kinds == {"UNALLOCATED", "SHARED", "PRIMARY", "UNIQUE_SECONDARY"}

\* The rows of one scenario: itself, its audits, allocations, warnings and comparison.
Row(status) == [status |-> status, audits |-> {}, allocations |-> <<>>, warnings |-> {}, comparison |-> Nothing]

Init ==
  /\ request \in Requests
  /\ phase = "requested"
  /\ session = Nothing
  /\ db = Nothing
  /\ path = <<>> /\ evaluated = 0 /\ limit_reached = FALSE /\ best = {}

\* The scenario row is flushed as RUNNING, with its programs.
CreateScenario ==
  /\ phase = "requested"
  /\ session' = Row("RUNNING")
  /\ phase' = "created"
  /\ UNCHANGED <<request, db, search>>

\* mutant: storing the audits commits the transaction
AuditProgramsCommitted ==
  /\ phase = "created"
  /\ session' = [session EXCEPT !.audits = Programs]
  /\ db' = session'
  /\ phase' = "audited"
  /\ UNCHANGED <<request, search>>

\* One degree audit per program is stored in the same transaction.
AuditPrograms ==
  /\ phase = "created"
  /\ session' = [session EXCEPT !.audits = Programs]
  /\ phase' = "audited"
  /\ UNCHANGED <<request, db, search>>

MissingRules == {p \in Secondary : request.policy[p] = NoRule}
ReviewRules == {p \in Secondary \ MissingRules : request.policy[p].confirm}

\* _load_combination_policies, then allocate starts; without candidates it returns.
LoadPolicies ==
  /\ phase = "audited"
  /\ session' = [session EXCEPT !.warnings = @ \cup
       {Warning("MISSING_RULE", p) : p \in MissingRules} \cup
       {Warning("RULE_NEEDS_REVIEW", p) : p \in ReviewRules}]
  /\ phase' = IF request.offered = {} THEN "allocated" ELSE "searching"
  /\ path' = FirstPath(Menu(request))
  /\ UNCHANGED <<request, db, evaluated, limit_reached, best>>

\* mutant: among equal scores the first one visited stays
ReplacesOnScore(C) ==
  IsValidSelection(request, C) /\ Earlier(Score(request, best), Score(request, C))

Replaces(C) == IsValidSelection(request, C) /\ Beats(request, C, best)

\* mutant: the flag is set when the count meets the limit, as in _build_options
VisitLeafFlagsLimit ==
  /\ phase = "searching"
  /\ evaluated < request.limit
  /\ evaluated' = evaluated + 1
  /\ limit_reached' = (evaluated' >= request.limit)
  /\ LET C == Selection(request, path) IN best' = IF Replaces(C) THEN C ELSE best
  /\ IF Open(path, Menu(request)) = {}
       THEN phase' = "allocated" /\ path' = path
       ELSE phase' = phase /\ path' = NextPath(path, Menu(request))
  /\ UNCHANGED <<request, session, db>>

\* visit reaches a leaf, and goes on to the next one or returns from the root.
VisitLeaf ==
  /\ phase = "searching"
  /\ evaluated < request.limit
  /\ evaluated' = evaluated + 1
  /\ LET C == Selection(request, path) IN best' = IF Replaces(C) THEN C ELSE best
  /\ IF Open(path, Menu(request)) = {}
       THEN phase' = "allocated" /\ path' = path
       ELSE phase' = phase /\ path' = NextPath(path, Menu(request))
  /\ UNCHANGED <<request, session, db, limit_reached>>

\* The limit is met with a leaf still to visit.
StopAtLimit ==
  /\ phase = "searching"
  /\ evaluated >= request.limit
  /\ limit_reached' = TRUE
  /\ phase' = "allocated"
  /\ UNCHANGED <<request, session, db, path, evaluated, best>>

\* The type of the row allocate returns for a candidate.
KindOf(c) ==
  CASE c \notin best -> "UNALLOCATED"
    [] c \in best /\ sourceOf[c] \in SharedSources(best) -> "SHARED"
    [] c \in best /\ sourceOf[c] \notin SharedSources(best) /\ IsPrimary(c) -> "PRIMARY"
    [] c \in best /\ sourceOf[c] \notin SharedSources(best) /\ ~ IsPrimary(c) -> "UNIQUE_SECONDARY"

UniqueCredits(p) == CandidateCredits(request, {c \in UniqueCandidates(request, best) : ProgramOf(c) = p})
ShortOfUnique == {p \in Secondary \ MissingRules : UniqueCredits(p) < request.policy[p].uniqueMin}

\* The table refuses a completion above 100 percent, and nothing caps it before.
CompletionFits == request.required > 0 => request.completed <= request.required

\* _persist_comparison counts the warnings that are stored by then, all of which ask for
\* an advisor; the columns that copy an audit's figure are left out.
Comparison(warnings) ==
  LET o == Objective(request, best)
  IN [shared |-> o.shared, unique |-> o.unique,
      additional |-> IF request.remaining > o.shared THEN request.remaining - o.shared ELSE 0,
      manual |-> request.notices + Cardinality(warnings)]

\* _persist_allocations, _add_policy_warnings, _add_estimate_warning, _persist_comparison.
PersistResult ==
  /\ phase = "allocated" /\ CompletionFits
  /\ LET warnings == session.warnings \cup {Warning("ESTIMATE", Everyone)} \cup
           {Warning("LIMIT_REACHED", Everyone) : flag \in {limit_reached} \cap {TRUE}} \cup
           {Warning("UNIQUE_CREDITS_NOT_MET", p) : p \in ShortOfUnique}
     IN session' = [session EXCEPT
          !.allocations = [c \in request.offered |-> KindOf(c)],
          !.warnings = warnings,
          !.comparison = Comparison(warnings)]
  /\ phase' = "persisted"
  /\ UNCHANGED <<request, db, search>>

CommitResult ==
  /\ phase = "persisted"
  /\ db' = [session EXCEPT !.status =
       IF session.warnings = {} THEN "COMPLETED" ELSE "COMPLETED_WITH_WARNINGS"]
  /\ session' = Nothing
  /\ phase' = "done"
  /\ UNCHANGED <<request, search>>

\* Anything raised after the first flush rolls the transaction back ...
RollBack ==
  /\ phase \in {"created", "audited", "searching", "allocated", "persisted"}
  /\ session' = Nothing
  /\ phase' = "rolled_back"
  /\ UNCHANGED <<request, db, search>>

\* ... and a second transaction stores the scenario as FAILED.
RecordFailure ==
  /\ phase = "rolled_back"
  /\ db' = Row("FAILED")
  /\ phase' = "done"
  /\ UNCHANGED <<request, session, search>>

\* The process dies: what is not committed is gone.
Crash ==
  /\ phase # "done"
  /\ session' = Nothing
  /\ phase' = "done"
  /\ UNCHANGED <<request, db, search>>

Done == phase = "done" /\ UNCHANGED vars

Next ==
  \/ CreateScenario \/ AuditPrograms \/ LoadPolicies
  \/ VisitLeaf \/ StopAtLimit
  \/ PersistResult \/ CommitResult
  \/ RollBack \/ RecordFailure \/ Crash
  \/ Done

Spec == Init /\ [][Next]_vars
-----------------------------------------------------------------------------
\* The rows that the tables accept (models/academic.py)
AcademicPlanScenario == {"RUNNING", "COMPLETED", "COMPLETED_WITH_WARNINGS", "FAILED"}
ScenarioWarning == [code : Codes, program : Secondary \cup {Everyone}]
ScenarioCourseAllocation == UNION {[C -> Kinds] : C \in {{}, request.offered}}
ScenarioComparisonSnapshot == [shared : Nat, unique : Nat, additional : Nat, manual : Nat]
ASSUME NothingAssumption == Nothing \notin ScenarioComparisonSnapshot

TypeOK ==
  /\ phase \in {"requested", "created", "audited", "searching", "allocated", "persisted", "rolled_back", "done"}
  /\ limit_reached \in BOOLEAN
  /\ evaluated \in 0..request.limit
  /\ best \subseteq request.offered
  /\ phase = "searching" => IsPath(path, Menu(request))
  /\ \A rows \in {session, db} \ {Nothing} :
       /\ rows.status \in AcademicPlanScenario
       /\ rows.audits \subseteq Programs
       /\ rows.allocations \in ScenarioCourseAllocation
       /\ rows.warnings \subseteq ScenarioWarning
       /\ rows.comparison = Nothing \/ rows.comparison \in ScenarioComparisonSnapshot

Completed == db # Nothing /\ db.status \in {"COMPLETED", "COMPLETED_WITH_WARNINGS"}
Selected == {c \in DOMAIN db.allocations : db.allocations[c] # "UNALLOCATED"}

\* What the domain rules allow a scenario to count: a requirement once, a
\* course twice only for a primary and a secondary requirement that both allow
\* overlap, under a rule that allows double counting, up to its shared credits.
MayShare(r, c, d) ==
  /\ IsPrimary(c) # IsPrimary(d)
  /\ r.overlap[nodeOf[c]] /\ r.overlap[nodeOf[d]] /\ r.earned[sourceOf[c]]
  /\ \A p \in {ProgramOf(c), ProgramOf(d)} \ {primaryProgram} :
       r.policy[p] # NoRule /\ r.policy[p].doubleCounting

SharesIn(C) == {c \in C : \E d \in C : d # c /\ sourceOf[d] = sourceOf[c]}

Lawful(r, C) ==
  /\ \A c, d \in C : c # d => nodeOf[c] # nodeOf[d]
  /\ \A c, d \in C : c # d /\ sourceOf[c] = sourceOf[d] => MayShare(r, c, d)
  /\ \A p \in {ProgramOf(c) : c \in SharesIn(C)} \ {primaryProgram} :
       CandidateCredits(r, {c \in SharesIn(C) : ProgramOf(c) = p}) <= r.policy[p].sharedMax

\* No scenario is stored as completed with a course counted in a way the rules
\* forbid, however far the search got (allocator.py:255-300).
NothingCountedTwice == Completed => Lawful(request, Selected)

\* A completed scenario without the search-limit warning stores the best of all
\* lawful selections: the allocator is global over them and ties are broken by the stable keys (allocator.py:137-166).
ResultIsBest ==
  Completed /\ Warning("LIMIT_REACHED", Everyone) \notin db.warnings =>
    \A C \in SUBSET request.offered :
      Lawful(request, C) => ~ Beats(request, C, Selected)

\* The stored comparison agrees with the rows stored beside it: its shared and
\* unique credits and the rows of the major add up to the earned credits of the
\* selected courses, each course once whatever number of rows it has (allocator.py:
\* 339-358), and every warning stored is in its count (engine.py:594-602).
CreditsCountedOnce ==
  Completed =>
    LET rows(kind) == {c \in Selected : db.allocations[c] = kind /\ request.earned[sourceOf[c]]}
        sources == {s \in Sources : request.earned[s] /\ \E c \in Selected : sourceOf[c] = s}
    IN /\ SourceCredits(request, sources)
             = db.comparison.shared + db.comparison.unique + CandidateCredits(request, rows("PRIMARY"))
       /\ db.comparison.unique = CandidateCredits(request, rows("UNIQUE_SECONDARY"))
       /\ db.comparison.shared = SourceCredits(request, {sourceOf[c] : c \in rows("SHARED")})
       /\ db.comparison.manual = request.notices + Cardinality(db.warnings)

\* A scenario is committed as a whole, or as FAILED with nothing: never RUNNING,
\* never with part of its audits, allocations or comparison.
SnapshotWhole ==
  db = Nothing \/ db = Row("FAILED") \/
    (/\ Completed
     /\ db.audits = Programs
     /\ DOMAIN db.allocations = request.offered
     /\ Warning("ESTIMATE", Everyone) \in db.warnings
     /\ db.comparison # Nothing)

\* A completed scenario never leaves a policy gap unsaid: a program without a
\* rule, a rule to be confirmed, too few credits that only the program uses.
NoSilentPolicy ==
  Completed =>
    \A p \in Secondary :
      LET own == {c \in Selected : ProgramOf(c) = p /\ request.earned[sourceOf[c]] /\ c \notin SharesIn(Selected)}
      IN IF request.policy[p] = NoRule
           THEN /\ Warning("MISSING_RULE", p) \in db.warnings
                /\ \A c \in Selected : ProgramOf(c) = p => db.allocations[c] # "SHARED"
           ELSE /\ request.policy[p].confirm => Warning("RULE_NEEDS_REVIEW", p) \in db.warnings
                /\ CandidateCredits(request, own) < request.policy[p].uniqueMin
                     => Warning("UNIQUE_CREDITS_NOT_MET", p) \in db.warnings

\* The limit warning is stored exactly when combinations were left unvisited.
LimitReported ==
  Completed /\ request.offered # {} =>
    (Warning("LIMIT_REACHED", Everyone) \in db.warnings <=> request.limit < Cardinality(Combinations(request)))

\* Nothing that limits a result is unsaid: neither the search nor a policy.
NothingUnsaid == LimitReported /\ NoSilentPolicy
=============================================================================
