CONSTANTS
  Ids = {e1, e2, e3}
  Legacy = {old}
  path = path
  ordinal = ordinal
  text = text
  Marks = {path, ordinal, text}
  Observations <- Drifting
  Keys = {k1}
  MaxRedirectDepth = 1
  MaxVersion = 1
  MaxGroups = 4
SPECIFICATION Spec
CHECK_DEADLOCK FALSE
SYMMETRY Interchangeable
INVARIANTS
  ResolvesOrTooLong
  RestartIsInvisible
  OneSuccessor
  DecisionsAttributed
  NoTwins
PROPERTIES
  MeaningFollows
  NeverConflates
