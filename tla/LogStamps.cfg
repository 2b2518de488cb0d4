CONSTANTS
  k1 = k1
  k2 = k2
  k3 = k3
  d1 = d1
  Keys = {k1, k2, k3}
  Digests = {d1}
  MaxDrafts = 2
  MaxMinted = 4
  MaxInstant = 5
  MaxSegments = 3
  MaxCompactions = 1
  MaxSafeInteger = 4
SPECIFICATION SteadySpec
SYMMETRY Interchangeable
INVARIANTS
  RestartKeepsStamps
