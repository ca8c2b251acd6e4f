SPECIFICATION Spec
CONSTANTS
  Threads      = {t1}
  Bodies       = {"EPOCH"}
  NoThread     = nobody
  MaxEvents    = 3
  SamplingRate = 1
  Length       = 5
  MaxBuffers   = 4
INVARIANTS
  FreeBuffersUnused
