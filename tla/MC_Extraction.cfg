SPECIFICATION ExtractionFairSpec
CONSTANTS
  w1 = w1
  w2 = w2
  NoAnswer = NoAnswer
  Totals <- MCTotals
  Rooms <- MCRooms
  Overlap = 2
  Discoveries = {1, 2}
  Size <- MCSize
  Wordings = {1, 2}
  Pool <- MCPool
  MaxAttempts = 3
  Formats = 2
INVARIANTS
  PlanCovers
  NothingIsMissed
  OnceInOrder
PROPERTIES
  ExtractionIsAChunkRun
  ExtractionEnds
