SPECIFICATION Spec
CONSTANTS
  None = None
  o1 = o1
  o2 = o2
  o3 = o3
  a = a
  b = b
  Builds = {o1, o2, o3}
  Contents = {a, b}
  Baseline = a
  SnapshotIds <- MCSnapshotIds
  Views = {"canonical", "task-baseline", "task-overlay"}
  TaskViews = {"task-baseline", "task-overlay"}
  LeaseTtl = 1
  Programs <- MCPrograms
  MaxSnapshots = 0
  MaxFailedBuilds = 1
INVARIANTS SnapshotsTrue 
PROPERTIES ReviewersKeepTheirView InvalidationsAreAnswered
CHECK_DEADLOCK FALSE
