SPECIFICATION Spec
CONSTANTS
  N = 3
  Callers = {u1}
  u1 = u1
  Ops = {"apply", "cancel", "retry", "resume"}
  Rootless = {2}
  FlushLimit = 2
  BootRace = FALSE
  MaxCommands = 5
  MaxCrashes = 1
  MaxDbFails = 0
INVARIANTS
  MovedNeverReRun
  MovedIsRecorded
  TerminalSettles
PROPERTIES
  NoStartAfterCancel
  KeepsLifecycle
