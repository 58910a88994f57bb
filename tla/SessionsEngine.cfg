SPECIFICATION EngineSpec
CHECK_DEADLOCK FALSE
CONSTANTS
  Parts = {"session", "peers", "direct"}
  None = None
  c1 = c1
  c2 = c2
  c3 = c3
  p1 = p1
  p2 = p2
  Calls = {c1, c2, c3}
  Processes = {p1, p2}
  ProcessOf <- MCProcessOf
  MaxFaults = 3
  h1 = h1
  h2 = h2
  Empty = Empty
  Mixed = Mixed
INVARIANTS
  JournalIsTheSession PeerCallsTrue WritersHoldLock
PROPERTIES
  EffectsSettled SessionEnds
