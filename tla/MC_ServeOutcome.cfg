SPECIFICATION Spec
CONSTANTS
  e1 = e1
  e2 = e2
  s1 = s1
  s2 = s2
  o1 = o1
  o2 = o2
  o3 = o3
  None = None
  Episodes <- MCEpisodes
  Serves <- MCServes
  Outcomes <- MCOutcomes
  MaxEpoch = 1
  MaxCrashes = 1
  MaxLosses = 1
  MaxFailures = 1
SYMMETRY Symmetry
INVARIANTS
  PairedWithServe
  ClaimedAtMostOnce
  NewestKept
\* Every call is made once, so the system stops.
CHECK_DEADLOCK FALSE
