SPECIFICATION MCSpec
CHECK_DEADLOCK FALSE
CONSTANTS
  Parts = {"tools", "trees", "sources"}
  None = None
  x = x
  y = y
  z = z
  Nul = Nul
  Absent = Absent
  Root = 0
  Names <- MCNames
  Entries <- MCEntries
  ProtectedNames = {3}
  FileLimit = 3
  ScanLimit = 4
  EntryLimit = 5
  OutputLimit = 3
  DocumentLimit = 2
  Commands = {1, 2}
  Concurrent = 2
  ProcessLimit = 2
  ProcessOutput = 2
  TotalOutput = 3
  StateBytes = 1
  PipeCapacity = 1
  RefreshLimit = 2
  SelectionLimit = 2
  PageSize = 1
  Programs <- MCPrograms
  src = src
  notes = notes
  rules = rules
  out = out
  conf = conf
  store = store
  t1 = t1
  t2 = t2
INVARIANTS
   TreesExact ManifestsTrue
PROPERTIES
  EvidenceHolds 
