SPECIFICATION FairSpec
CONSTANTS
  d1 = d1
  d2 = d2
  nokey = nokey
  f1 = f1
  f2 = f2
  None = None
  Denials <- MCDenials
  Unsignable <- MCUnsignable
  Flushes <- MCFlushes
  MaxLosses = 1
  MaxMishaps = 1
INVARIANTS
  NothingLost
  DuplicatesHaveACause
PROPERTIES
  SignableLeave
  OutboxSpec
