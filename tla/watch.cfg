SPECIFICATION Spec
CONSTANTS
  f1 = f1
  f2 = f2
  d1 = d1
  d2 = d2
  Files = {f1, f2}
  Dirs = {d1, d2}
  DirOf <- OwnDir
  NameOf <- OneName
  Attachers = {a1, a2}
  None = None
  ChanSize = 1
  MaxChanges = 2
  MaxDetaches = 1
  MaxErrors = 0
  MaxFaults = 1
SYMMETRY WatchSymmetry
CHECK_DEADLOCK FALSE
INVARIANTS
  AnnouncedAtMostOnce
  MissingWasAbsent
