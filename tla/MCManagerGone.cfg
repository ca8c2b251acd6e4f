SPECIFICATION Spec
CONSTANTS
  Threads            = {t1}
  ThreadLocalManager = TRUE
  Singleton          = mgr
  NoThread           = nobody
  MaxEvents          = 2
  BatchSize          = 1
  MaxWorkers         = 2
  MaxBuffers         = 2
  MaxSpawns          = 1
  Length             = 2
  NumIterations      = 1
INVARIANTS
  ManagerOutlivesWorkers
