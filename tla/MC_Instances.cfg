SPECIFICATION FairSpec
CONSTANTS
  a = a
  b = b
  None = None
  Processes <- MCProcesses
  MaxRows = 2
  MaxFaults = 1
CHECK_DEADLOCK FALSE
INVARIANTS
  TokenAgrees
  OneWriter
PROPERTIES
  RowsAreHandled
