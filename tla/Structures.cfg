CONSTANTS
  Key = {k1, k2, k3, k4}
  Value = {v1, v2}
  Cap = 3
  Hash = {h1, h2, h3}
  Byte = {0, 1, 57, 58, 255}
  Data = {0, 6, 128}
  Height = {0, 1, 3, 4, 15, 16, 17, 63, 64}
  Gap <- MCGap
  Tokens <- MCTokens
  Limits = {0, 1, 30, 50, 230, 260, 500, 1000}
  PrivateKeys = {"ann", "ben"}
  Words <- MCWords
  MaxLength = 5
  TargetBlockTime = 4
  AdjustmentInterval = 3
  BlockLen = 4
  LengthLen = 1
  ByteValues = 256
  Width = 3
  DigitValues = 4
SPECIFICATION MCSpec
INVARIANTS
  CacheRecent RootBinds ProofsSound AddressInverse GasMonotone
  OneKeyOpens DifficultyFollowsTime DigestBinds HeightsToldApart
CHECK_DEADLOCK FALSE
