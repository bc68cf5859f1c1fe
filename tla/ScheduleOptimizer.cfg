SPECIFICATION Spec
CONSTANTS
  CourseCount = 4
  SectionCount = 8
  courseOf <- CourseOf
  meetingsOf <- MeetingsOf
  creditsOf <- CreditsOf
  textRank <- TextRank
  MaxCourses = 3
  MaxSections = 2
  Nothing = Nothing
  Requests <- MCRequests
INVARIANTS
  TypeOK
  HardConstraintsHold
  FeasibleIsFull
  BestComeFirst
  ShortListIsAll
  RunStoredWhole
