CONSTANTS
  k1 = k1
  k2 = k2
  d1 = d1
  d2 = d2
  Keys = {k1, k2}
  Digests = {d1, d2}
  MaxDrafts = 1
  MaxMinted = 2
  MaxInstant = 3
  MaxSegments = 2
  MaxCompactions = 0
  MaxSafeInteger = 2
SPECIFICATION FairSpec
INVARIANTS
  OneReceiptPerKey
PROPERTIES
  Reopens
