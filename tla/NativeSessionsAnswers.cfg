SPECIFICATION Spec
CONSTANTS
  LeaseTtl = 1
  MaxCheckRetries = 1
  MaxReviewCycles = 1
  MaxExecutorDispatches = 0
  MaxRuns = 2
  MaxEdits = 1
  MaxAsks = 2
  MaxLoad = 6
INVARIANTS
  RecoveredAnswersMatch
CHECK_DEADLOCK FALSE
