CONSTANTS
  Recs = {1, 2, 3, 4}
  Cids = {c1, c2}
  MaxTS = 4
  CheckpointTS = 2
  Null = Null
  c1 = c1
  c2 = c2
SPECIFICATION Spec
INVARIANTS
  ReturnsCheckpointVisibleVersion
