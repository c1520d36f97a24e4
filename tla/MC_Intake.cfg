\* One intake thread after the rollback of the log, every interrupted write.
CONSTANTS
  Threads = {t1}
  RollbackFirst = TRUE
  Checkpoint = FALSE
  Null = Null
SPECIFICATION Spec
INVARIANTS
  ListConsistent
  IntakeMatchesList
PROPERTIES
  NoWriteAfterFree
