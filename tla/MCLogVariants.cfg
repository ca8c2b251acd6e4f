SPECIFICATION Spec
CONSTANTS
  Threads        = {t1, t2}
  LogOps         = {"LOG_ADDR", "LOG_DIRECT_LOAD", "PREFETCH_LOG_ENTRY", "VOLATILE_BUF_PTR", "CACHED_BUF_PTR",
                    "LOG_HEADER", "LOG_VALUE", "LOG_SRC_LOC", "LOG_FULL", "LOG_FULL_128", "LOG_FULL_NAIVE", "GLOBAL_COUNTER"}
  MaxEvents      = 4
  MaxEventsSmall = 3
  BatchSize      = 3
  IdLimit        = 24
  Length         = 3
  NumIterations  = 4
SYMMETRY ThreadSymmetry
INVARIANTS
  TypeOK
  IndexInBounds
  EventIdsOrderEvents
PROPERTIES
  RingOfRecentEvents
