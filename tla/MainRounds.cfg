CONSTANTS
  Engines = {"leveldb", "memory"}
  WritesFail = FALSE
  Cap = 1
  Window = 1
  BlockTime = 2
  Times = {0, 20}
  Payloads = {}
  MaxHeight = 3
  MaxBoots = 2
  MaxSize = 2
  TopCount = 10
  InitialReward = 2
  HalvingInterval = 2
SPECIFICATION MainSpec
INVARIANTS
  AnnouncedDurable
CHECK_DEADLOCK FALSE
