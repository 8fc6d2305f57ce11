CONSTANTS
  Address = {ann, ben, cid}
  Stake = {1, 2}
  MinStake = 2
  Word = 16
  HexDigit = {1, 2}
  ByteBase = 4
  PickLen = 2
  MaxPaid = 0
  Reward = {}
  Block = {b1, b2}
  MaxVoters = 3
SPECIFICATION Spec
INVARIANTS
  TwoThirdsVoted
