\* One process that writes, one that reads, two objects, transactions with one key.
CONSTANTS
  p = p
  q = q
  x = x
  y = y
  c1 = c1
  k1 = k1
  r1 = r1
  Writers = {p}
  Readers = {q}
  Ids = {x, y}
  Contents = {c1}
  Keys = {k1}
  Requests = {r1}
  FirstVersions = {2}
  MaxSequence = 2
  MaxWindows = 1
SPECIFICATION Spec
SYMMETRY Interchangeable
INVARIANTS
  RestartIsInvisible
  ReplayNeverThrows
  OneAnswerPerKey
  LoadsOneState
