SPECIFICATION Spec
CONSTANTS
  Layouts = {"LOG_ADDR", "LOG_HEADER", "LOG_VALUE", "LOG_SRC_LOC", "LOG_FULL", "LOG_FULL_NAIVE",
             "BUFFER_MANAGER", "LOG_FULL_128", "GLOBAL_COUNTER"}
  Pcs   <- MCPcs
  Addrs <- MCAddrs
  Vals  <- MCVals
INVARIANTS
  FieldsRead
