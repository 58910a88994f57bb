SPECIFICATION RuntimeSpec
CHECK_DEADLOCK FALSE
CONSTANTS
  Parts = {"executor", "rivals", "files", "screen", "talk"}
  e1 = e1
  e2 = e2
  s1 = s1
  specA = specA
  specB = specB
  t1 = t1
  t2 = t2
  p1 = p1
  p2 = p2
  p3 = p3
  Procs = {p1, p2, p3}
  Ids <- MCIds
  SpecPaths <- MCSpecPaths
  ArchiveDirs <- MCArchiveDirs
  Programs <- MCPrograms
  Checkout = Checkout
  Original = Original
  Template = Template
  Torn = Torn
  None = None
INVARIANTS
  ToolAnswersTrue   InputsAccountedFor

  
