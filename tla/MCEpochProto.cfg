SPECIFICATION Spec
CONSTANTS
  Threads      = {t1, t2}
  Bodies       = {"ADDR", "DYNBUF", "HEADER", "VALUE", "LOCID", "RDTSC", "EPOCH"}
  NoThread     = nobody
  MaxEvents    = 1
  SamplingRate = 2
  Length       = 4
  MaxBuffers   = 4
SYMMETRY ThreadSymmetry
INVARIANTS
  TypeOK
  FaultsOnlyOnReturned
  IndexInBounds
  DroppedBounded
  LeakBounded
