SPECIFICATION Spec
CONSTANTS
  Threads            = {t1}
  ThreadLocalManager = TRUE
  Singleton          = mgr
  NoThread           = nobody
  MaxEvents          = 2
  BatchSize          = 1
  MaxWorkers         = 1
  MaxBuffers         = 4
  MaxSpawns          = 2
  Length             = 4
  NumIterations      = 1
INVARIANTS
  NoAssertFails
