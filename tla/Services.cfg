CONSTANTS
  Subjects = {"stake", "finality", "channels", "governance", "routes", "mixer", "dao", "contracts", "wire"}
  Address = {ann, ben, cid}
  Stake = {1, 2, 6}
  MinStake = 2
  Word = 16
  HexDigit = {1, 2}
  ByteBase = 4
  PickLen = 2
  MaxPaid = 8
  Reward = {3, 5}
  Block = {b1, b2}
  MaxVoters = 3
  Party = {pat, quin, ron, sue}
  Holder <- MCParties
  Radix = 2
  Amount = {4, 9}
  MaxChannels = 3
  MaxPayments = 1
  MaxEdges = 2
  Proposer <- MCProposers
  Title <- MCParties
  Voter = {vic, wyn}
  Weight = {1, 2, 9}
  MinStakeVote = 2
  MaxProposals = 3
  Request = {r1, r2}
  MinParticipants = 3
  MaxJoins = 7
  MaxAdded = 30
  Owners <- MCOwners
  Bytecodes <- MCBytecodes
  Messages <- MCMessages
  Answered <- MCAnswered
  Sender = {main, accepter}
  Base = 4
  HeaderLen = 2
  TypeLen = 2
  MaxBody = 4
  Room = 3
  MaxSent = 2
SPECIFICATION MCSpec
INVARIANTS
  TypeOK QuorumsMeet SelectedActive FundsConserved TalliesMatch PassedByMajority
  RouteShortest MixedOnce TreasuryCovered DeliveredInOrder
PROPERTIES
  RewardsConserved ClosedFinal ContractKept DeliveredUntilAnswered
CHECK_DEADLOCK FALSE
