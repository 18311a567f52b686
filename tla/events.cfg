SPECIFICATION FairSpec
CONSTANTS
  l1 = l1
  l2 = l2
  s1 = s1
  s2 = s2
  Other = Other
  Launches = {l1, l2}
  Sweepers = {s1, s2}
  Setups <- MCSetups
  RingSize = 1
  PageSize = 1
  Window = 2
  MaxRows = 12
CHECK_DEADLOCK FALSE
INVARIANTS
  LaunchAnnouncedOnce
  NoRunSlips
  DuplicatesBounded
  LogMissesNothing
PROPERTIES
  RunIsTaken
  ReplaySettles
