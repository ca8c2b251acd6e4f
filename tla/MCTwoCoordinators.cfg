SPECIFICATION Spec
CONSTANTS
  Threads            = {t1, t2}
  ThreadLocalManager = TRUE
  Singleton          = mgr
  NoThread           = nobody
  MaxEvents          = 2
  BatchSize          = 1
  MaxWorkers         = 2
  MaxBuffers         = 4
  MaxSpawns          = 2
  Length             = 2
  NumIterations      = 1
INVARIANTS
  OneCoordinatorPerEpoch
