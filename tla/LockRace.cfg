\* A holder dies and two processes reclaim its lock.
CONSTANTS
  Procs = {p1, p2, p3}
  MaxDead = 1
  PidReuse = FALSE
  WritesFail = FALSE
SPECIFICATION Spec
SYMMETRY Interchangeable
INVARIANT MutualExclusion
