SPECIFICATION FairSpec
CONSTANTS
  s1 = s1
  s2 = s2
  t0 = t0
  code = code
  drift = drift
  None = None
  Tree0 = t0
  Sessions <- MCSessions
  Trees <- MCTrees
  SealedTrees <- MCSealedTrees
  MaxEvents = 3
  MaxEdits = 1
  MaxMishaps = 0
CHECK_DEADLOCK FALSE
INVARIANT
  StampMeansNewerThanChange
