\* Two requests in flight, pushes and remote writes of two batches that carry the
\* same two object versions, two generations.
CONSTANTS
  r1 = r1
  r2 = r2
  b1 = b1
  b2 = b2
  Requests = {r1, r2}
  Ids = {b1, b2}
  s1 = s1
  s2 = s2
  Slots = {s1, s2}
  Carries <- SameVersions
  MaxGeneration = 2
  RemoteWrites = TRUE
SPECIFICATION Spec
SYMMETRY Interchangeable
INVARIANTS
  SequencerChain
  VersionsStayStored
  AcceptedIsRecorded
PROPERTIES
  CommittedStays
