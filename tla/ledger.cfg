SPECIFICATION Spec
CONSTANTS
  Commands = {c1}
  t1 = t1
  t2 = t2
  t3 = t3
  w1 = w1
  w2 = w2
  Tasks = {t1, t2, t3}
  WorkerIds = {w1, w2}
  IdOf <- MCIdOf
  Identities = {i1, i2}
  Results = {r1, r2}
  None = None
  TTL = 3
  PerSec = 2
  MaxEvents = 1
  MaxTime = 9
  MaxSetBacks = 1
  MaxVersion = 5
  MaxAttempts = 2
SYMMETRY ResultSymmetry
CHECK_DEADLOCK FALSE
INVARIANTS
  EffectsOnce
  OneHolder
  LastClaimWins
  LeaseExcludes
PROPERTIES
  OneResult
