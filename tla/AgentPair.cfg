\* x has one editor, y the other; two faults anywhere.
CONSTANTS
  a = a
  b = b
  x = x
  y = y
  Replicas = {a, b}
  Objects = {x, y}
  Editors <- EditorOfEach
  Withheld = {}
  PageSize = 1
  FirstGeneration = 0
  TakeTurns = TRUE
  MaxVersion <- TwoOfX
  MaxFaults = 2
SPECIFICATION FairSpec
INVARIANTS
  
  ChangesKept
  

  
  
