CONSTANTS
  Keys = {1, 2, 3, 4, 5, 6, 7}
  Kind <- KindOf
  Refs <- RefsOf
  Legacy = {1, 2, 3, 4}
  Plans <- SomePlans
  MaxRuns = 4
  MaxFaults = 2
SPECIFICATION FairSpec
CHECK_DEADLOCK FALSE
INVARIANTS
  TypeOK
  AppliedOnce
  ReferencesHold
  NothingUnresolved
  CommittedIsComplete
  ReportedOnce
  AlwaysReconciles
PROPERTIES
  Settles
