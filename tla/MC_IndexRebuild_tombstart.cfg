CONSTANTS
  NumElems = 2
  Histories <- AllHistories
  CheckpointTS = 1
  MaxHeight = 1
  Workers = {w1, w2}
  SegmentBased = TRUE
  IndexWithHashtable = TRUE
  HashCapacity = 3
  Null = Null
SPECIFICATION Spec
INVARIANT
  CheckpointViewRestored
