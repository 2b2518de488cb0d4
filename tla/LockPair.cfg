\* Two pids, reused after death; any step may be the last, any record may fail to be written.
CONSTANTS
  Procs = {p1, p2}
  MaxDead = 2
  PidReuse = TRUE
  WritesFail = TRUE
SPECIFICATION FairSpec
INVARIANTS MutualExclusion HolderIsNamed
PROPERTY StaleIsReclaimed
