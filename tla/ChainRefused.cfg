CONSTANTS
  Engines = {"leveldb", "memory"}
  WritesFail = TRUE
  Cap = 2
  Window = 2
  BlockTime = 2
  InitialReward = 50
  HalvingInterval = 2
  Times = {0}
  Payloads <- RewardBlocks
  MaxHeight = 2
  MaxBoots = 2
SPECIFICATION Spec
INVARIANTS
  BatchWhole
CHECK_DEADLOCK FALSE
