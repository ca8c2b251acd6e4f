SPECIFICATION FairSpec
CONSTANTS
  Threads            = {t1}
  ThreadLocalManager = TRUE
  Singleton          = mgr
  NoThread           = nobody
  MaxEvents          = 4
  BatchSize          = 2
  MaxWorkers         = 4
  MaxBuffers         = 4
  MaxSpawns          = 3
  Length             = 8
  NumIterations      = 2
INVARIANTS
  TypeOK
  IndexInBounds
  CountExact
  EpochsEndFull
  WorkersAccounted
PROPERTIES
  ClosedIsFinal
  LosslessDelivery
  WorkersFinish
