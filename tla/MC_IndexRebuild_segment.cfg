\* Segment-based rebuild by two workers of one collection of three elements,
\* checkpoint at 1.  The hash table holds three entries: when all three
\* elements survive, the last insert overflows and the rebuild fails.
CONSTANTS
  NumElems = 3
  Histories <- LiveStartHistories
  CheckpointTS = 1
  MaxHeight = 2
  Workers = {w1, w2}
  SegmentBased = TRUE
  IndexWithHashtable = TRUE
  HashCapacity = 3
  Null = Null
SPECIFICATION Spec
INVARIANTS
  TypeOK
  CheckpointViewRestored
  Level1MatchesMedia
  UpperLevelsAreSublists
  HashIndexMatchesList
  SizeMatchesList
  ReclaimExact
  NoDuplicateHashEntry
  MediaViewStable
PROPERTIES
  RecoveryTerminates
