CONSTANTS
  Address = {ann, ben, cid}
  Stake = {1, 2, 5}
  MinStake = 2
  Word = 16
  HexDigit = {1, 2}
  ByteBase = 4
  PickLen = 2
  MaxPaid = 8
  Reward = {3, 5}
SPECIFICATION PoSSpec
INVARIANTS
  ProportionalRewards
