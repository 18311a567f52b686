SPECIFICATION Spec
CONSTANTS
  N = 2
  Callers = {u1, u2}
  u1 = u1
  u2 = u2
  Ops = {"apply", "retry"}
  Rootless = {2}
  FlushLimit = 1
  BootRace = FALSE
  MaxCommands = 3
  MaxCrashes = 0
  MaxDbFails = 0
SYMMETRY CallerSymmetry
INVARIANTS
  ReattemptedOnce
