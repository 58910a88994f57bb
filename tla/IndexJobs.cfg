SPECIFICATION FairSpec
CONSTANTS
  w1 = w1
  w2 = w2
  NoWorker = NoWorker
  Jobs = {1, 2}
  Workers = {w1, w2}
  Kinds = {"repository_graph"}
  KindOf <- MCKindOf
  MaxAttempts = 2
  LeaseTtl = 2
  JobDuration = 3
  MaxTime = 3
INVARIANTS OneHolderPerGeneration ReceiptsHold
PROPERTIES EveryJobSettles

