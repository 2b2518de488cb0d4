\* Both edit x while offline; nothing fails.
CONSTANTS
  a = a
  b = b
  x = x
  y = y
  Replicas = {a, b}
  Objects = {x}
  Editors <- EditorsOfX
  Withheld = {}
  PageSize = 1
  FirstGeneration = 0
  TakeTurns = TRUE
  MaxVersion <- VersionsOfX
  MaxFaults = 0
SPECIFICATION Spec
INVARIANT NothingOverwritten
