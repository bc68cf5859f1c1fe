SPECIFICATION Spec
CONSTANTS
  Imports = {"o", "p", "q", "t"}
  Progress = {"o", "p", "q"}
  Verified = {"o", "p", "q"}
  Complete = {"o", "p", "q"}
  Rows <- AllRows
  ImportOf <- AllImportOf
  Extracted <- AllExtracted
  Edits <- AllEdits
  Candidates <- AllCandidates
  Mapped <- AllMapped
  Courses = {"fin300"}
  Codes = {"FIN300", "FIN350"}
  Terms = {"fall", "spring"}
  TermCodes = {"fall", "spring", "unlisted"}
  Grades = {"A", "B", "C", "F"}
  Supported = {"A", "B", "C", "F"}
  Nonpassing = {"F"}
  Credits = {3}
  Reviews = {"vo", "vp", "vq", "vt"}
  ReviewOf <- AllReviewOf
  Requests = {r1}
  Decisions = {"CONFIRMED", "EDITED_AND_CONFIRMED", "NEEDS_ADVISOR_REVIEW"}
  Seeded <- Mock
  Nothing = Nothing
  MaxUpdates = 4
CONSTRAINT InTurns
INVARIANTS
  ConflictsExcluded
  HistoryTraceable
  AttemptNumbersUnique
  OneActiveSnapshot
PROPERTY
  ActiveNeverLost
