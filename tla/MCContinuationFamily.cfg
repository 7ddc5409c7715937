SPECIFICATION Spec
CONSTANTS
  Families = {pr1}
  MaxAttempts = 3
  MaxProcesses = 2
  NoRow = NoRow
INVARIANTS
  FamilyTypeOK
  LatestIsRecorded
  RowIsTrue
PROPERTIES
  SupersededSticks
  AwaitedRetryEnds
CHECK_DEADLOCK FALSE
