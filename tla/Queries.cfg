SPECIFICATION Spec
CONSTANTS
  Parts = {"graph", "context", "memory", "remote"}
  None = None
  s1 = s1  s2 = s2  s3 = s3  r1 = r1  r2 = r2  f1 = f1  f2 = f2
  oldText = oldText  newText = newText  binary = binary  b1 = b1  b2 = b2  b3 = b3
  spec = spec  draft = draft  done = done  closed = closed  task = task
SYMMETRY Indexers
INVARIANTS
  
  GraphAnswersTrue
  
  MemoryTrue
CHECK_DEADLOCK FALSE
