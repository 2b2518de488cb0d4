\* Two remote writes build on the same generation while a replica pulls.
CONSTANTS
  r1 = r1
  r2 = r2
  b1 = b1
  b2 = b2
  Requests = {r1, r2}
  Ids = {b1, b2}
  Slots = {b1, b2}
  Carries <- OwnVersion
  MaxGeneration = 2
  RemoteWrites = TRUE
SPECIFICATION Spec
SYMMETRY Interchangeable
INVARIANT PullMissesNothing
