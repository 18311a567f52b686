SPECIFICATION FairSpec
CONSTANTS
  f1 = f1
  f2 = f2
  d1 = d1
  d2 = d2
  Files = {f1, f2}
  Dirs = {d1, d2}
  DirOf <- OwnDir
  NameOf <- OwnName
  Attachers = {a1}
  None = None
  ChanSize = 1
  MaxChanges = 3
  MaxDetaches = 1
  MaxErrors = 1
  MaxFaults = 0
CHECK_DEADLOCK FALSE
INVARIANT
  DetachHolds
PROPERTY
  WrittenIsRecorded
