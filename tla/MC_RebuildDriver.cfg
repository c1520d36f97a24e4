\* Three collections and a clamp to two threads: one full batch and one
\* partial batch of futures, and two phase-A workers.
CONSTANTS
  Colls = {1, 2, 3}
  Configured = 3
  MaxAccessThreads = 2
SPECIFICATION Spec
INVARIANTS
  OkMeansComplete
  DistinctThreadCaches
PROPERTIES
  RebuildReturns
