SPECIFICATION FairSpec
CONSTANTS
  a = a
  b = b
  Spools <- MCSpools
  MaxRows <- MCMaxRows
  MaxCrashes = 1
  MaxFaults = 1
  MaxTruncates = 1
INVARIANTS
  DeliveredOnceInOrder
  NothingSkipped
PROPERTY
  EveryRowSettled
