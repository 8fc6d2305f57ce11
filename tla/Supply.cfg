CONSTANTS
  Engines = {"leveldb"}
  WritesFail = FALSE
  Cap = 1
  Window = 1
  BlockTime = 2
  Times = {0}
  Payloads = {}
  MaxHeight = 3
  MaxBoots = 3
  MaxSize = 2
  TopCount = 10
  InitialReward = 2
  HalvingInterval = 2
SPECIFICATION MainSpec
INVARIANTS
  SupplyCapped
CHECK_DEADLOCK FALSE
