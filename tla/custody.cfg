SPECIFICATION Spec
CONSTANTS
  Kinds <- EveryKind
  SyncFails = FALSE
  MaxRuns = 4
  MaxFails = 3
  MaxCuts = 3
CHECK_DEADLOCK FALSE
INVARIANTS
  NeverLost
  IntentBeforeEffect
  LeftIsUntouched
PROPERTIES
  KeepsCustody
