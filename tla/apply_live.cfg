SPECIFICATION FairSpec
CONSTANTS
  N = 2
  Callers = {u1}
  u1 = u1
  Ops = {"apply", "cancel", "skip", "retry", "resume"}
  Rootless = {2}
  FlushLimit = 2
  BootRace = FALSE
  MaxCommands = 4
  MaxCrashes = 1
  MaxDbFails = 0
INVARIANT
  AckedSkipNeverRuns
PROPERTIES
  RunEnds
  RetrySettles
