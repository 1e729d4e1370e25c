SPECIFICATION CloseFairSpec
CONSTANTS
  kept = kept
  idle = idle
  f = f
  Nothing = Nothing
  Episodes <- MCEpisodes
  Touched <- MCTouched
  FinalFiles <- MCFinal
  MaxExtracts = 2
  MaxFaults = 0
CHECK_DEADLOCK FALSE
INVARIANT
  NegativeMeansAbsent
