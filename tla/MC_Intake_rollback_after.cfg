\* One intake thread, with Rollback after intake as spec section 5 orders it.
CONSTANTS
  Threads = {t1}
  RollbackFirst = FALSE
  Checkpoint = FALSE
  Null = Null
SPECIFICATION Spec
PROPERTIES
  NoWriteAfterFree
