CONSTANTS
  Hdrs = {h1, h2, h3}
  Elm = Elm
  Void = Void
  Cids = {1, 2}
  Names = {n1, n2}
  MaxTS = 3
  CheckpointTS = 2
  SegmentBased = TRUE
  EmptyHeaderRollback = TRUE
  Null = Null
SPECIFICATION Spec
INVARIANT UniqueLinkedHeader
