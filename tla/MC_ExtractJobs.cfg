SPECIFICATION FairSpec
CONSTANTS
  a = a
  None = None
  Torn = Torn
  Jobs <- MCJobs
  Chunks = 4
  Workers = 2
  MaxRuns = 3
  MaxCrashes = 2
  MaxFaults = 2
INVARIANTS
  RunningMeansOneRun
PROPERTIES
  StatusFlow
  RunsAreChunkRuns
  JobsSettle
