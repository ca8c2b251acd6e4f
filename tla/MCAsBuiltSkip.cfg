SPECIFICATION Spec
CONSTANTS
  Threads            = {t1, t2}
  ThreadLocalManager = TRUE
  Singleton          = mgr
  NoThread           = nobody
  MaxEvents          = 2
  BatchSize          = 1
  MaxWorkers         = 1
  MaxBuffers         = 6
  MaxSpawns          = 4
  Length             = 4
  NumIterations      = 1
SYMMETRY ThreadSymmetry
INVARIANTS
  PoolAccounting
  ThreadConfined
  WriterExclusive
PROPERTIES
  ClosedIsFinal
