------------------------------- MODULE Advising -------------------------------
(***************************************************************************)
(* The services that advise a student: scenarios, eligibility checks,      *)
(* degree audits, plans, reviewed rules, imported sections and section     *)
(* monitoring. Each is a transaction on rows that the other services only  *)
(* read, so a behaviour of the composition is one of the service it starts *)
(* with, and the requests of the others are fixed. Scenarios are the       *)
(* module extended, the others are instances.                              *)
(***************************************************************************)
EXTENDS AcademicScenario, Sequences

CONSTANTS
  None,
  CheckRequests,
  AuditCatalog, AuditRequests,
  PlanCatalog, PlanRequests,
  Monitored, Contents, Fields, Payloads, MaxStored, MaxBatch, MonitorTime,
  Threads, RuleSets, Identities,
  Importers, Uploads, Decisions, Edits, Catalog, Terms, OtherTerms, Campuses, Existing, MaxBytes, MaxSteps

VARIABLES
  service,
  checked, check,
  audited, auditTodo, used, results, auditRun,
  planned, planTodo, plan, covered, warnings, planRun,
  targets, snapshots, alerts, clock,
  records, reviewing, overtaken,
  staged, entry, loaded, sections, wanted, steps

checkVars == <<checked, check>>
auditVars == <<audited, auditTodo, used, results, auditRun>>
planVars == <<planned, planTodo, plan, covered, warnings, planRun>>
monitorVars == <<targets, snapshots, alerts, clock>>
ruleVars == <<records, reviewing, overtaken>>
importVars == <<staged, entry, loaded, sections, wanted, steps>>

Eligibility == INSTANCE CourseEligibility WITH Requests <- CheckRequests, request <- checked
Audit == INSTANCE DegreeAudit
  WITH Catalog <- AuditCatalog, Requests <- AuditRequests,
       request <- audited, todo <- auditTodo, run <- auditRun
Planner == INSTANCE AcademicPlanner
  WITH Catalog <- PlanCatalog, Requests <- PlanRequests,
       request <- planned, todo <- planTodo, run <- planRun
Monitor == INSTANCE SectionMonitoring WITH Sections <- Monitored, MaxClock <- MonitorTime
Rules == INSTANCE ReviewedRules WITH request <- reviewing
SectionImport == INSTANCE SectionImports WITH Threads <- Importers

ASSUME AdvisingConstants ==
  /\ Eligibility!EligibilityAssumption
  /\ Audit!AuditAssumption /\ Planner!PlanningAssumption /\ Rules!RulesAssumption
  /\ Monitor!MonitoringAssumption /\ SectionImport!ImportsAssumption

advisingVars == <<service, vars, checkVars, auditVars, planVars, monitorVars, ruleVars, importVars>>
OneOf(requests) == CHOOSE one \in requests : TRUE
\* The service a behaviour is about may get any request.
Begin ==
  /\ request \in IF service = "scenario" THEN Requests ELSE {OneOf(Requests)}
  /\ checked \in IF service = "eligibility" THEN CheckRequests ELSE {OneOf(CheckRequests)}
  /\ audited \in IF service = "audit" THEN AuditRequests ELSE {OneOf(AuditRequests)}
  /\ planned \in IF service = "plan" THEN PlanRequests ELSE {OneOf(PlanRequests)}
  /\ Init /\ Eligibility!Init /\ Audit!Init /\ Planner!Init /\ Monitor!Init /\ Rules!Init /\ SectionImport!Init
Services == {"scenario", "eligibility", "audit", "plan", "monitor", "rules", "imports"}
AdvisingInit == service \in Services /\ Begin

Evaluating ==
  /\ service = "scenario" /\ Next
  /\ UNCHANGED <<service, checkVars, auditVars, planVars, monitorVars, ruleVars, importVars>>
Checking ==
  /\ service = "eligibility" /\ Eligibility!Next
  /\ UNCHANGED <<service, vars, auditVars, planVars, monitorVars, ruleVars, importVars>>
Auditing ==
  /\ service = "audit" /\ Audit!Next
  /\ UNCHANGED <<service, vars, checkVars, planVars, monitorVars, ruleVars, importVars>>
Planning ==
  /\ service = "plan" /\ Planner!Next
  /\ UNCHANGED <<service, vars, checkVars, auditVars, monitorVars, ruleVars, importVars>>
Monitoring ==
  /\ service = "monitor" /\ Monitor!Next
  /\ UNCHANGED <<service, vars, checkVars, auditVars, planVars, ruleVars, importVars>>
Reviewing ==
  /\ service = "rules" /\ Rules!Next
  /\ UNCHANGED <<service, vars, checkVars, auditVars, planVars, monitorVars, importVars>>
Importing ==
  /\ service = "imports" /\ SectionImport!Next
  /\ UNCHANGED <<service, vars, checkVars, auditVars, planVars, monitorVars, ruleVars>>
\* The audit or the plan is stored, or no rule set can be staged, or no more steps are followed.
Ended ==
  /\ \/ service = "audit" /\ auditRun \notin {None, "RUNNING"}
     \/ service = "plan" /\ planRun \notin {None, "RUNNING"}
     \/ service = "rules" /\ \A r \in RuleSets : records[r] # None
     \/ service = "imports" /\ steps = MaxSteps
  /\ UNCHANGED advisingVars

AdvisingNext == Evaluating \/ Checking \/ Auditing \/ Planning \/ Monitoring \/ Reviewing \/ Importing \/ Ended
AdvisingSpec == AdvisingInit /\ [][AdvisingNext]_advisingVars
-----------------------------------------------------------------------------
\* Whatever a service stores, the constraints of its tables accept: one evaluation per
\* node, rule and expression, a snapshot once, an alert once, a course once in a term of
\* a completed plan; and every state, credit and percentage is in its range.
RowsAccepted ==
  TypeOK /\ Eligibility!TypeOK /\ Audit!TypeOK /\ Planner!TypeOK /\ Monitor!TypeOK /\ Rules!TypeOK
  /\ SectionImport!TypeOK
\* A stored verdict is final exactly when no open question can change it.
VerdictIsSound == Eligibility!VerdictIsSound
\* No further row takes away eligibility.
EligibleStays == Eligibility!EligibleStays
\* What a requirement without overlap has used goes to another only as shared.
ExclusiveUseKept == Audit!ExclusiveUseKept
\* No term of a plan holds too much, no course stands in it twice.
PlanKeepsLimits == Planner!PlanKeepsLimits
\* A course that waits for a prerequisite stands in a later term.
PrerequisitesComeFirst == Planner!PrerequisitesComeFirst
\* The newest snapshot of a section has the alerts of its changes.
AlertsTellTheChange == Monitor!AlertsTellTheChange
\* An ACTIVE rule set has been reviewed.
ActiveIsReviewed == Rules!ActiveIsReviewed
\* Two ACTIVE rule sets stand side by side only after one request overtook another.
OneActiveUnlessOvertaken == Rules!OneActiveUnlessOvertaken
\* An imported section meets as the rows say that were applied to it.
SectionsFollowTheirRows == SectionImport!SectionsFollowTheirRows
=============================================================================
