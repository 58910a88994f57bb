SPECIFICATION LiveSpec
CONSTANTS
  LeaseTtl = 1
  MaxCheckRetries = 1
  MaxReviewCycles = 1
  MaxExecutorDispatches = 1
  NTasks = 2
  MaxParallel = 1
  MaxWaits = 1
  MaxCrashes = 1

  
PROPERTIES
  LaunchesAreSafe
  
CHECK_DEADLOCK FALSE
