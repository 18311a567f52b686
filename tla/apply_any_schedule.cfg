SPECIFICATION Spec
CONSTANTS
  N = 2
  Callers = {u1, u2}
  u1 = u1
  u2 = u2
  Ops = {"apply", "cancel", "retry", "resume"}
  Rootless = {2}
  FlushLimit = 1
  BootRace = TRUE
  MaxCommands = 3
  MaxCrashes = 1
  MaxDbFails = 1
SYMMETRY CallerSymmetry
INVARIANTS
  TypeOK
  OneOwner
  AcceptedRetryKept
  SweepSparesAccepted
