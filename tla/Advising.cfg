SPECIFICATION AdvisingSpec
CONSTANTS
  CandidateCount = 8
  SourceCount = 3
  sourceOf <- CourseOf
  nodeOf <- RequirementOf
  stableRank <- TextOrder
  programOf <- Requirement
  primaryProgram = "P"
  NoRule = NoRule
  Nothing = Nothing
  Requests <- MCRequests
  Threads = {h1, h2}
  RuleSets = {g1, g2}
  Identities = {i1}
  None = None
  CheckRequests <- ChecksAsked
  AuditCatalog <- Levels
  AuditRequests <- AuditsAsked
  PlanCatalog <- CourseData
  PlanRequests <- PlansAsked
  Monitored = {"s", "t"}
  Contents <- Shows
  Fields = {"f"}
  Payloads <- Captures
  MaxStored = 4
  MaxBatch = 2
  MonitorTime = 1
  Importers = {"h"}
  Uploads <- Schedules
  Decisions = {"CONFIRMED", "EDITED_AND_CONFIRMED", "NEEDS_ADVISOR_REVIEW"}
  Edits <- ImportEdits
  Catalog = {"A"}
  Terms = {"T"}
  OtherTerms = {"V"}
  Campuses = {"K"}
  Existing <- Timetable
  MaxBytes = 1
  MaxSteps = 4
INVARIANTS
  RowsAccepted
  NothingCountedTwice
  ResultIsBest
  CreditsCountedOnce
  SnapshotWhole
  NothingUnsaid
  VerdictIsSound
  ExclusiveUseKept
  PlanKeepsLimits
  AlertsTellTheChange
  SectionsFollowTheirRows
  ActiveIsReviewed
  OneActiveUnlessOvertaken
PROPERTIES
  EligibleStays
