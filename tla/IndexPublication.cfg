SPECIFICATION Spec
CONSTANTS
  Jobs = {g1, g2, g3, m}
  g1 = g1
  g2 = g2
  g3 = g3
  m = m
  DomainOf <- MCDomainOf
  TargetOf <- MCTargetOf
  LinkedTo <- MCLinkedTo
  Extractions <- MCExtractions
  MaxRevisions = 3
  Deletions = {"all", "repository", "sources"}
  Whole = {"all", "sources"}
  Coverage <- MCCoverage
  Calls = {c1, c2}
  x1 = x1
  x2 = x2
  y1 = y1
  y2 = y2
  c1 = c1
  c2 = c2
  None = None
  Workers = {w1, w2}
  w1 = w1
  w2 = w2
  MaxSubmits = 2
  MaxClaims = 2
  MaxFaults = 1
  MaxBegins = 2
INVARIANTS StoredIsWhole DeletedStaysEmpty
PROPERTIES ReportsAreTrue
SYMMETRY MCSymmetry
CHECK_DEADLOCK FALSE
