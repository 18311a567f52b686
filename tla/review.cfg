SPECIFICATION Spec
CONSTANTS
  Plans = {p1, p2}
  p1 = p1
  p2 = p2
  Names = {"raw", "m31", "m42"}
  Paths <- MCPaths
  Claims <- MCClaims
  Users = {u1, u2, u3}
  Nobody = Nobody
  MaxCrashes = 1
SYMMETRY ReviewSymmetry
CHECK_DEADLOCK FALSE
INVARIANTS
  NoOverlappingRuns
  RunsOnce
PROPERTIES
  WithdrawnNeverStarts
