CONSTANTS
  k1 = k1
  k2 = k2
  d1 = d1
  Keys = {k1, k2}
  Digests = {d1}
  MaxDrafts = 1
  MaxMinted = 2
  MaxInstant = 4
  MaxSegments = 2
  MaxCompactions = 1
  MaxSafeInteger = 2
SPECIFICATION Spec
SYMMETRY Interchangeable
INVARIANTS
  FeedIsOneOrder
  Gapless
  RestartKeepsLog
  UnpublishedRetained
PROPERTIES
  ImplementsLedger
  FloorNeverRegresses
  AsOfStable
