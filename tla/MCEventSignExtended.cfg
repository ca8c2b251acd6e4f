SPECIFICATION Spec
CONSTANTS
  Layouts = {"LOG_SRC_LOC", "LOG_FULL", "LOG_FULL_NAIVE", "BUFFER_MANAGER"}
  Pcs   <- MCPcs
  Addrs <- MCAddrs
  Vals  <- MCVals
INVARIANTS
  SrcLocRead
