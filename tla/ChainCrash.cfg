CONSTANTS
  Engines = {"leveldb","memory"}
  WritesFail = FALSE
  Cap = 1
  Window = 2
  BlockTime = 2
  InitialReward = 50
  HalvingInterval = 2
  Times = {0, 20}
  Payloads <- Blocks
  MaxHeight = 3
  MaxBoots = 2
SPECIFICATION Spec
INVARIANTS
  TypeOK HeightIndexed ParentStored ChainDurable DifficultyRecovered
  SpendableStored CacheCoherent
PROPERTIES
  ImplementsLedger
CHECK_DEADLOCK FALSE
