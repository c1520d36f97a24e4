\* List-based rebuild of one collection of three elements, checkpoint at 1.
CONSTANTS
  NumElems = 3
  Histories <- AllHistories
  CheckpointTS = 1
  MaxHeight = 2
  Workers = {w1}
  SegmentBased = FALSE
  IndexWithHashtable = TRUE
  HashCapacity = 4
  Null = Null
SPECIFICATION Spec
INVARIANTS
  CheckpointViewRestored
  Level1MatchesMedia
  HashIndexMatchesList
  SizeMatchesList
  ReclaimExact
PROPERTIES
  RefinesRecoveredCollection
