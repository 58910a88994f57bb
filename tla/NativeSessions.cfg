SPECIFICATION Spec
CONSTANTS
  LeaseTtl = 2
  MaxCheckRetries = 1
  MaxReviewCycles = 2
  MaxExecutorDispatches = 0
  MaxRuns = 3
  MaxEdits = 2
  MaxAsks = 2
  MaxLoad = 6
INVARIANTS WaitsAreAnswered OneWriter EffectsAccountedFor
PROPERTIES ImplementsLifecycle
CHECK_DEADLOCK FALSE
