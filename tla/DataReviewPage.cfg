SPECIFICATION Spec
CONSTANTS
  Imports = {"p"}
  Progress = {"p"}
  Verified = {"p"}
  Complete = {"p"}
  Rows <- PageRows
  ImportOf <- PageImportOf
  Extracted <- PageExtracted
  Edits <- PageEdits
  Candidates <- PageCandidates
  Mapped <- PageMapped
  Courses = {"fin300"}
  Codes = {"FIN300", "FIN350"}
  Terms = {"fall", "spring"}
  TermCodes = {"fall", "spring", "unlisted"}
  Grades = {"A", "B", "C", "F"}
  Supported = {"A", "B", "C", "F"}
  Nonpassing = {"F"}
  Credits = {3}
  Reviews = {"v", "w"}
  ReviewOf <- PageReviewOf
  Requests = {r1, r2}
  Decisions = {"CONFIRMED", "EDITED_AND_CONFIRMED"}
  Seeded <- Mock
  Nothing = Nothing
  MaxUpdates = 2
SYMMETRY Threads
INVARIANTS
  AppliedOnce
PROPERTY
  LedgerSpec
