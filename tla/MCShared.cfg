SPECIFICATION FairSpec
CONSTANTS
  Threads            = {t1, t2}
  ThreadLocalManager = FALSE
  Singleton          = mgr
  NoThread           = nobody
  MaxEvents          = 2
  BatchSize          = 1
  MaxWorkers         = 8
  MaxBuffers         = 6
  MaxSpawns          = 3
  Length             = 3
  NumIterations      = 1
INVARIANTS
  OnlyLiveTlsAddrs
  WriterExclusive
  OneCoordinatorPerEpoch
  EpochsEndFull
  CountExact
  LossBounded
PROPERTIES
  ClosedIsFinal
  LossyDelivery
  WorkersFinish
