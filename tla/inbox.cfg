SPECIFICATION FairSpec
CONSTANTS
  Items = {i1}
  Masters = {i1}
  Plans = {p1, p2}
  Users = {u1}
  None = None
  BusSize = 1
  Races = FALSE
  MaxFaults = 2
CHECK_DEADLOCK FALSE
INVARIANTS
  ResolvedIsRegistered
  RegisteredOnce
PROPERTIES
  LinkOutlivesPlan
  LinkCloses
