CONSTANTS
  Engines = {"leveldb"}
  WritesFail = FALSE
  Cap = 2
  Window = 2
  BlockTime = 2
  InitialReward = 50
  HalvingInterval = 2
  Times = {0}
  Payloads <- RewardBlocks
  MaxHeight = 3
  MaxBoots = 2
SPECIFICATION Spec
INVARIANTS
  ChainOnDemand
CHECK_DEADLOCK FALSE
