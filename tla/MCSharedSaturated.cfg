SPECIFICATION Spec
CONSTANTS
  Threads            = {t1, t2}
  ThreadLocalManager = FALSE
  Singleton          = mgr
  NoThread           = nobody
  MaxEvents          = 2
  BatchSize          = 1
  MaxWorkers         = 1
  MaxBuffers         = 6
  MaxSpawns          = 4
  Length             = 3
  NumIterations      = 1
SYMMETRY ThreadSymmetry
INVARIANTS
  AllocPrecondition
  EpochAgreement
  PoolAccounting
