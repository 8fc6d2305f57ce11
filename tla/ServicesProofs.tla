--------------------------- MODULE ServicesProofs ---------------------------
(***************************************************************************)
(* Theorems about the services of MCServices.  A behaviour of MCServices   *)
(* is one of each service, so what is proved of a service alone is proved  *)
(* of the behaviours that the run explores.                                *)
(***************************************************************************)
EXTENDS MCServices, ConsensusProofs, SequenceTheorems

(* Every step of MCServices is a step of each service or leaves it alone.  *)
LEMMA Sections ==
  ASSUME [MCNext]_mcVars
  PROVE  /\ [Next]_vars /\ [C!Next]_channels /\ [L!Next]_graph
         /\ [G!Next]_voteVars /\ [X!Next]_mixVars /\ [T!Next]_daoVars /\ [K!Next]_contracts
         /\ [W!WireNext]_wireVars
<1> USE DEF vars, finalVars, voteVars, mixVars, daoVars, wireVars, others, mcVars
<1>1. CASE subject = "stake" /\ PoSNext /\ UNCHANGED <<finalVars, others>>
  BY <1>1 DEF Next
<1>2. CASE /\ subject = "finality"
           /\ \/ \E b \in Block, voters \in BoundedSeq(Address, MaxVoters) :
                   FinalizeBlock(b, voters)
              \/ /\ \E a \in Address : AddValidator(a, MinStake) \/ RemoveValidator(a)
                 /\ UNCHANGED finalVars
           /\ UNCHANGED others
  BY <1>2, ServicesAssumption DEF Next, PoSNext
<1>3. CASE subject = "channels" /\ C!Next /\ UNCHANGED <<posVars, finalVars, subject, graph,
             voteVars, mixVars, daoVars, contracts, wireVars>>
  BY <1>3
<1>4. CASE subject = "routes" /\ L!Next /\ UNCHANGED <<posVars, finalVars, subject, channels,
             voteVars, mixVars, daoVars, contracts, wireVars>>
  BY <1>4
<1>5. CASE subject = "governance" /\ G!Next /\ UNCHANGED <<posVars, finalVars, subject,
             channels, graph, mixVars, daoVars, contracts, wireVars>>
  BY <1>5
<1>6. CASE subject = "mixer" /\ X!Next /\ UNCHANGED <<posVars, finalVars, subject, channels,
             graph, voteVars, daoVars, contracts, wireVars>>
  BY <1>6
<1>7. CASE subject = "dao" /\ T!Next /\ UNCHANGED <<posVars, finalVars, subject, channels,
             graph, voteVars, mixVars, contracts, wireVars>>
  BY <1>7
<1>8. CASE subject = "contracts" /\ K!Next /\ UNCHANGED <<posVars, finalVars, subject,
             channels, graph, voteVars, mixVars, daoVars, wireVars>>
  BY <1>8
<1>9. CASE subject = "wire" /\ W!WireNext /\ UNCHANGED <<posVars, finalVars, subject,
             channels, graph, voteVars, mixVars, daoVars, contracts>>
  BY <1>9
<1>10. CASE UNCHANGED mcVars
  BY <1>10
<1> QED
  BY <1>1, <1>2, <1>3, <1>4, <1>5, <1>6, <1>7, <1>8, <1>9, <1>10 DEF MCNext

(* A behaviour of MCServices is one of each service.                       *)
LEMMA Composition ==
  MCSpec => /\ Spec /\ C!Spec /\ L!Spec
            /\ G!Init /\ [][G!Next]_voteVars
            /\ X!Init /\ [][X!Next]_mixVars
            /\ T!Init /\ [][T!Next]_daoVars
            /\ K!Init /\ [][K!Next]_contracts
            /\ W!WireInit /\ [][W!WireNext]_wireVars
<1>1. MCInit => Init /\ C!Init /\ L!Init /\ G!Init /\ X!Init /\ T!Init /\ K!Init
             /\ W!WireInit
  BY DEF MCInit
<1>2. [MCNext]_mcVars => /\ [Next]_vars /\ [C!Next]_channels /\ [L!Next]_graph
                         /\ [G!Next]_voteVars /\ [X!Next]_mixVars /\ [T!Next]_daoVars
                         /\ [K!Next]_contracts /\ [W!WireNext]_wireVars
  BY Sections
<1> QED
  BY <1>1, <1>2, PTL DEF MCSpec, Spec, C!Spec, L!Spec

-----------------------------------------------------------------------------
(* The treasury                                                            *)

DaoInv == /\ treasury \in 0..Word-1 /\ added \in Nat /\ spent \in Nat
          /\ T!TreasuryCovered

(* What is added or spent moves the treasury and the books together.       *)
LEMMA DaoStep ==
  ASSUME DaoInv, [T!Next]_daoVars
  PROVE  DaoInv'
<1> USE StakeAssumption, ServicesAssumption
<1>1. Word \in Nat \ {0} /\ Amount \subseteq Nat
  OBVIOUS
<1>2. ASSUME NEW a \in Amount, T!AddFunds(a) PROVE DaoInv'
  <2> DEFINE x == treasury + a
             y == added' - spent' - treasury'
             z == added - spent - treasury
  <2>1. /\ treasury' = x % Word /\ added' = added + a /\ spent' = spent
        /\ x \in Nat /\ a \in Nat
    BY <1>1, <1>2 DEF T!AddFunds, DaoInv
  <2> HIDE DEF x
  <2>2. x % Word \in 0..Word-1 /\ x % Word <= x
    BY <2>1, <1>1, ModWord
  <2>3. x \div Word \in Int /\ x = Word * (x \div Word) + (x % Word)
    BY <2>1, <1>1, DivMod
  <2>4. z \in Int /\ z % Word = 0 /\ spent <= added /\ treasury <= added - spent
    BY DEF DaoInv, T!TreasuryCovered
  <2>5. y = Word * (x \div Word) + z
    <3>1. Word * (x \div Word) \in Int
      BY <2>3, <1>1
    <3> QED
      BY <2>1, <2>2, <2>3, <3>1 DEF x, DaoInv
  <2>6. y % Word = 0
    <3> DEFINE q == x \div Word
    <3>1. q \in Int /\ y = Word * q + z
      BY <2>3, <2>5
    <3> HIDE DEF q, y, z
    <3> QED
      BY <3>1, <2>4, <1>1, ModShift
  <2>7. spent' <= added' /\ treasury' <= added' - spent'
    BY <2>1, <2>2, <2>4 DEF x, DaoInv
  <2> QED
    BY <2>1, <2>2, <2>6, <2>7 DEF DaoInv, T!TreasuryCovered
<1>3. ASSUME NEW a \in Amount, T!SpendTreasury(a) PROVE DaoInv'
  <2> DEFINE x == treasury - a
  <2>1. /\ treasury' = x % Word /\ spent' = spent + a /\ added' = added
        /\ x \in 0..Word-1 /\ a \in Nat
    BY <1>1, <1>3 DEF T!SpendTreasury, DaoInv
  <2>2. x % Word = x
    <3> HIDE DEF x
    <3> QED
      BY <2>1, <1>1, ModSmall
  <2>3. treasury' = treasury - a
    BY <2>1, <2>2
  <2>4. added' - spent' - treasury' = added - spent - treasury
    <3>1. treasury \in Int /\ spent \in Int /\ added \in Int /\ a \in Int
      BY <2>1, <1>1 DEF DaoInv
    <3>2. added - (spent + a) - (treasury - a) = added - spent - treasury
      BY <3>1
    <3> QED
      BY <2>1, <2>3, <3>2
  <2>5. spent' <= added' /\ treasury' <= added' - spent'
    BY <2>1, <2>3 DEF DaoInv, T!TreasuryCovered
  <2> QED
    BY <2>1, <2>2, <2>4, <2>5 DEF DaoInv, T!TreasuryCovered
<1>4. CASE UNCHANGED daoVars
  BY <1>4 DEF daoVars, DaoInv, T!TreasuryCovered
<1> QED
  BY <1>2, <1>3, <1>4 DEF T!Next

(* The treasury never pays out more than it took in, and holds the rest    *)
(* but for whole words, whatever the amounts and the width (dao.cpp:4-18).  *)
THEOREM TreasuryNeverOverdrawn == MCSpec => []TreasuryCovered
<1>1. T!Init => DaoInv
  <2> SUFFICES ASSUME T!Init PROVE DaoInv
    OBVIOUS
  <2>1. treasury = 0 /\ added = 0 /\ spent = 0 /\ 0 \in 0..Word-1
    BY StakeAssumption DEF T!Init
  <2>2. (0 - 0 - 0) % Word = 0
    BY StakeAssumption
  <2> QED
    BY <2>1, <2>2 DEF DaoInv, T!TreasuryCovered
<1>2. DaoInv /\ [T!Next]_daoVars => DaoInv'
  BY DaoStep
<1>3. DaoInv => TreasuryCovered
  BY DEF DaoInv, TreasuryCovered
<1> QED
  BY <1>1, <1>2, <1>3, Composition, PTL

-----------------------------------------------------------------------------
(* Validators and finality                                                 *)

(* The theorems about validators and finality hold of the behaviours of    *)
(* the run (pos.cpp:7-76, hybrid.cpp:19-46).                                *)
COROLLARY ServiceConsensus ==
  MCSpec => []TypeOK /\ []QuorumsMeet /\ []SelectedActive /\ RewardsConserved
  BY Composition, ConsensusTypes, QuorumsIntersect, SelectionSound, RewardsNotCreated, PTL

-----------------------------------------------------------------------------
(* Ids                                                                     *)

\* An id whose last character is a digit below n.
EndsBelow(id, n) == id[Len(id)] \in Nat /\ id[Len(id)] < n

(* A number below the radix is written with one digit.                     *)
LEMMA OneDigit ==
  ASSUME NEW n \in Nat, n < Radix
  PROVE  Text!Decimal(n) = <<n>>
<1>1. /\ Radix \in Nat \ {0} /\ IsPower(Text!Power, Radix)
      /\ Text!Power[0] = 1 /\ Text!Power[1] = Radix
      /\ \A m \in Nat : 1 <= m => Radix <= Text!Power[m]
  <2>1. IsPower(Text!Power, Radix)
    BY PowerDefined DEF Text!Power
  <2>2. Radix \in Nat \ {0}
    BY IdAssumption
  <2>3. Text!Power[0] = 1 /\ Text!Power[0+1] = Radix * Text!Power[0]
    BY <2>1 DEF IsPower
  <2>4. Text!Power[1] = Radix
    BY <2>2, <2>3
  <2>5. \A k, m \in Nat : k <= m => Text!Power[k] <= Text!Power[m]
    BY <2>1, <2>2, PowerGrows
  <2>6. \A m \in Nat : 1 <= m => Text!Power[1] <= Text!Power[m]
    BY <2>5
  <2> QED
    BY <2>1, <2>2, <2>3, <2>4, <2>6
<1> DEFINE Wide(w) == Text!Power[w] > n /\ (w > 1 => Text!Power[w - 1] <= n)
           width == CHOOSE w \in 1..n + 1 : Wide(w)
<1>2. 1 \in 1..n + 1 /\ Wide(1)
  BY <1>1
<1>3. \A w \in 1..n + 1 : Wide(w) => w = 1
  <2> SUFFICES ASSUME NEW w \in 1..n + 1, Wide(w), w > 1 PROVE FALSE
    OBVIOUS
  <2>1. w - 1 \in Nat /\ 1 <= w - 1 /\ Text!Power[w - 1] <= n
    OBVIOUS
  <2>2. Radix <= Text!Power[w - 1]
    BY <1>1, <2>1
  <2>3. Text!Power[w - 1] \in Nat
    BY <1>1, <2>1, PowerPositive
  <2> QED
    BY <1>1, <2>1, <2>2, <2>3
<1>4. width = 1
  <2> HIDE DEF Wide
  <2> QED
    BY <1>2, <1>3
<1>5. Text!Decimal(n) = Text!Digits(n, width)
  BY DEF Text!Decimal
<1>6. Text!Digits(n, 1) = [i \in 1..1 |-> (n \div Text!Power[1 - i]) % Radix]
  BY DEF Text!Digits
<1>7. (n \div Text!Power[1 - 1]) % Radix = n
  <2>1. Text!Power[1 - 1] = 1 /\ n \div 1 = n
    BY <1>1
  <2>2. n % Radix = n
    BY <1>1, ModSmall
  <2> QED
    BY <2>1, <2>2
<1>8. Text!Digits(n, 1) = <<n>>
  BY <1>6, <1>7
<1> HIDE DEF width
<1> QED
  BY <1>4, <1>5, <1>8

(* Until the number has two digits, an id ends with it.                    *)
LEMMA NewId ==
  ASSUME NEW a \in Seq(Nat), NEW b \in Seq(Nat), NEW n \in Nat, n < Radix
  PROVE  LET id == a \o b \o Text!Decimal(n) IN id[Len(id)] = n
<1> DEFINE c == a \o b
<1>1. c \in Seq(Nat)
  BY ConcatProperties
<1> HIDE DEF c
<1>2. (c \o <<n>>)[Len(c \o <<n>>)] = n
  BY <1>1
<1>3. Text!Decimal(n) = <<n>>
  BY OneDigit
<1> QED
  BY <1>2, <1>3 DEF c

-----------------------------------------------------------------------------
(* Payment channels                                                        *)

Channel == [partyA : Holder, partyB : Holder, balanceA : 0..Word-1, balanceB : 0..Word-1,
            totalLocked : 0..Word-1, sequenceNum : Nat, state : {"ACTIVE", "CLOSED"},
            deposits : Nat]

\* What FundsConserved says of one channel.
Funded(ch) == ch.deposits < Word => /\ ch.totalLocked = ch.deposits
                                    /\ ch.balanceA + ch.balanceB = ch.totalLocked

\* No id is one that a new channel gets before their number has two digits.
Numbered == Cardinality(DOMAIN channels) < Radix =>
              \A c \in DOMAIN channels : EndsBelow(c, Cardinality(DOMAIN channels))

ChannelInv ==
  /\ IsFiniteSet(DOMAIN channels) /\ Numbered
  /\ \A c \in DOMAIN channels : channels[c] \in Channel /\ Funded(channels[c])

\* What a step may do to a closed channel.
Reopened(c) == /\ channels'[c].state = "ACTIVE" /\ C!Cardinality(DOMAIN channels) >= Radix
               /\ c = C!ChannelId(channels'[c].partyA, channels'[c].partyB)

Settled == \A c \in DOMAIN channels : channels[c].state = "CLOSED" =>
             channels'[c] = channels[c] \/ Reopened(c)

(* The cardinality of the instance is that of the library.                 *)
LEMMA ChannelCount == \A S : C!Cardinality(S) = Cardinality(S)
  BY DEF C!Cardinality, Cardinality

(* A new channel holds what its parties put in, and gets an id of its own  *)
(* until the number of channels has two digits.                            *)
LEMMA OpenStep ==
  ASSUME ChannelInv, NEW a \in Holder, NEW b \in Holder, NEW x \in Amount, NEW y \in Amount,
         C!OpenChannel(a, b, x, y)
  PROVE  ChannelInv' /\ Settled
<1> DEFINE id == C!ChannelId(a, b)
           n == Cardinality(DOMAIN channels)
           new == [partyA |-> a, partyB |-> b, balanceA |-> x, balanceB |-> y,
                   totalLocked |-> (x + y) % Word, sequenceNum |-> 0,
                   state |-> "ACTIVE", deposits |-> x + y]
<1>1. /\ DOMAIN channels' = DOMAIN channels \cup {id}
      /\ \A c \in DOMAIN channels' : channels'[c] = IF c = id THEN new ELSE channels[c]
  BY DEF C!OpenChannel
<1>2. n \in Nat /\ Radix \in Nat /\ C!Cardinality(DOMAIN channels) = n
  BY ChannelCount, FS_CardinalityType, IdAssumption DEF ChannelInv
<1>3. n < Radix => id[Len(id)] = n
  <2>1. a \in Seq(Nat) /\ b \in Seq(Nat)
    BY IdAssumption
  <2>2. id = a \o b \o Text!Decimal(n)
    BY <1>2 DEF C!ChannelId
  <2> HIDE DEF id, n
  <2> QED
    BY <1>2, <2>1, <2>2, NewId
<1>4. n < Radix => id \notin DOMAIN channels
  BY <1>2, <1>3 DEF ChannelInv, Numbered, EndsBelow
<1>5. new \in Channel /\ Funded(new)
  <2>1. x \in 0..Word-1 /\ y \in 0..Word-1 /\ x \in Nat /\ y \in Nat /\ 0 \in Nat
    BY ServicesAssumption, StakeAssumption
  <2> DEFINE z == x + y
             r == z % Word
  <2>2. z \in Nat
    BY <2>1
  <2>3. r \in 0..Word-1 /\ (z < Word => r = z)
    <3> HIDE DEF z
    <3> QED
      BY <2>2, StakeAssumption, ModWord, ModSmall
  <2>4. new = [partyA |-> a, partyB |-> b, balanceA |-> x, balanceB |-> y,
               totalLocked |-> r, sequenceNum |-> 0, state |-> "ACTIVE", deposits |-> z]
    OBVIOUS
  <2>5. z = x + y
    OBVIOUS
  <2> HIDE DEF z, r, new
  <2>6. new \in Channel
    BY <2>1, <2>2, <2>3, <2>4 DEF Channel
  <2>7. Funded(new)
    BY <2>1, <2>2, <2>3, <2>4, <2>5 DEF Funded
  <2> QED
    BY <2>6, <2>7
<1>6. new.state = "ACTIVE" /\ new.partyA = a /\ new.partyB = b
  OBVIOUS
<1>7. IsFiniteSet(DOMAIN channels')
  <2> HIDE DEF id
  <2> QED
    BY <1>1, FS_AddElement DEF ChannelInv
<1>8. Numbered'
  <2> SUFFICES ASSUME Cardinality(DOMAIN channels') < Radix, NEW c \in DOMAIN channels'
               PROVE  EndsBelow(c, Cardinality(DOMAIN channels'))
    BY DEF Numbered
  <2> HIDE DEF id, new
  <2>1. Cardinality(DOMAIN channels') = IF id \in DOMAIN channels THEN n ELSE n + 1
    BY <1>1, FS_AddElement DEF ChannelInv
  <2>2. n < Radix
    BY <1>2, <2>1
  <2>3. Cardinality(DOMAIN channels') = n + 1
    BY <1>4, <2>1, <2>2
  <2>4. CASE c = id
    BY <1>2, <1>3, <2>2, <2>3, <2>4 DEF EndsBelow
  <2>5. CASE c # id
    <3>1. EndsBelow(c, n)
      BY <1>1, <2>2, <2>5 DEF ChannelInv, Numbered
    <3> QED
      BY <1>2, <2>3, <3>1 DEF EndsBelow
  <2> QED
    BY <2>4, <2>5
<1>9. ChannelInv'
  <2> HIDE DEF id, new
  <2>1. \A c \in DOMAIN channels' : channels'[c] \in Channel /\ Funded(channels'[c])
    BY <1>1, <1>5 DEF ChannelInv
  <2> QED
    BY <1>7, <1>8, <2>1 DEF ChannelInv
<1>10. Settled
  <2> SUFFICES ASSUME NEW c \in DOMAIN channels, channels'[c] # channels[c] PROVE Reopened(c)
    BY DEF Settled
  <2>1. c = id /\ channels'[c] = new
    BY <1>1
  <2>2. n >= Radix
    BY <1>2, <1>4, <2>1
  <2> HIDE DEF new, n
  <2> QED
    BY <1>2, <1>6, <2>1, <2>2 DEF Reopened
<1> QED
  BY <1>9, <1>10

(* A payment moves between the two sides of one open channel.              *)
LEMMA PayStep ==
  ASSUME ChannelInv, NEW c \in DOMAIN channels, NEW s \in Holder, NEW x \in Amount,
         C!Pay(c, s, x)
  PROVE  ChannelInv' /\ Settled
<1> DEFINE ch == channels[c]
           fromA == s = ch.partyA /\ ch.balanceA >= x
           fromB == s = ch.partyB /\ ch.balanceB >= x
           toB == [ch EXCEPT !.balanceA = @ - x, !.balanceB = (@ + x) % Word,
                             !.sequenceNum = @ + 1]
           toA == [ch EXCEPT !.balanceB = @ - x, !.balanceA = (@ + x) % Word,
                             !.sequenceNum = @ + 1]
           new == IF fromA THEN toB ELSE toA
<1>1. ch \in Channel /\ Funded(ch)
  BY DEF ChannelInv
<1>2. x \in 0..Word-1 /\ Word \in Nat
  BY ServicesAssumption, StakeAssumption
<1>3. ch.state = "ACTIVE" /\ (fromA \/ fromB)
  BY DEF C!Pay
<1>4. channels' = [channels EXCEPT ![c] = new]
  BY <1>1 DEF C!Pay, Channel
<1>5. ASSUME fromA PROVE toB \in Channel /\ Funded(toB)
  <2> DEFINE y == ch.balanceA - x
             z == ch.balanceB + x
             r == z % Word
             n == ch.sequenceNum + 1
  <2>1. /\ ch.balanceA \in 0..Word-1 /\ ch.balanceB \in 0..Word-1 /\ ch.deposits \in Nat
        /\ ch.totalLocked \in 0..Word-1 /\ ch.sequenceNum \in Nat /\ x <= ch.balanceA
    BY <1>1, <1>5 DEF Channel
  <2>2. z \in Nat /\ y \in 0..Word-1 /\ n \in Nat
    BY <1>2, <2>1
  <2>3. r \in 0..Word-1 /\ (z < Word => r = z)
    <3> HIDE DEF z
    <3> QED
      BY <2>2, StakeAssumption, ModWord, ModSmall
  <2>4. toB = [ch EXCEPT !.balanceA = y, !.balanceB = r, !.sequenceNum = n]
    BY <1>1 DEF Channel
  <2>5. z = ch.balanceB + x /\ y = ch.balanceA - x
    OBVIOUS
  <2> HIDE DEF y, z, r, n, toB, ch
  <2>6. toB \in Channel
    BY <1>1, <2>2, <2>3, <2>4 DEF Channel
  <2>7. /\ toB.balanceA = y /\ toB.balanceB = r
        /\ toB.totalLocked = ch.totalLocked /\ toB.deposits = ch.deposits
    BY <1>1, <2>4 DEF Channel
  <2>8. Funded(toB)
    BY <1>1, <1>2, <2>1, <2>3, <2>5, <2>7 DEF Funded
  <2> QED
    BY <2>6, <2>8
<1>6. ASSUME fromB PROVE toA \in Channel /\ Funded(toA)
  <2> DEFINE y == ch.balanceB - x
             z == ch.balanceA + x
             r == z % Word
             n == ch.sequenceNum + 1
  <2>1. /\ ch.balanceA \in 0..Word-1 /\ ch.balanceB \in 0..Word-1 /\ ch.deposits \in Nat
        /\ ch.totalLocked \in 0..Word-1 /\ ch.sequenceNum \in Nat /\ x <= ch.balanceB
    BY <1>1, <1>6 DEF Channel
  <2>2. z \in Nat /\ y \in 0..Word-1 /\ n \in Nat
    BY <1>2, <2>1
  <2>3. r \in 0..Word-1 /\ (z < Word => r = z)
    <3> HIDE DEF z
    <3> QED
      BY <2>2, StakeAssumption, ModWord, ModSmall
  <2>4. toA = [ch EXCEPT !.balanceB = y, !.balanceA = r, !.sequenceNum = n]
    BY <1>1 DEF Channel
  <2>5. z = ch.balanceA + x /\ y = ch.balanceB - x
    OBVIOUS
  <2> HIDE DEF y, z, r, n, toA, ch
  <2>6. toA \in Channel
    BY <1>1, <2>2, <2>3, <2>4 DEF Channel
  <2>7. /\ toA.balanceB = y /\ toA.balanceA = r
        /\ toA.totalLocked = ch.totalLocked /\ toA.deposits = ch.deposits
    BY <1>1, <2>4 DEF Channel
  <2>8. Funded(toA)
    BY <1>1, <1>2, <2>1, <2>3, <2>5, <2>7 DEF Funded
  <2> QED
    BY <2>6, <2>8
<1>7. new \in Channel /\ Funded(new)
  BY <1>3, <1>5, <1>6
<1> HIDE DEF new
<1>8. /\ DOMAIN channels' = DOMAIN channels
      /\ \A d \in DOMAIN channels : channels'[d] = IF d = c THEN new ELSE channels[d]
  BY <1>4
<1>9. ChannelInv'
  BY <1>7, <1>8 DEF ChannelInv, Numbered
<1>10. ASSUME NEW d \in DOMAIN channels, channels[d].state = "CLOSED"
       PROVE  channels'[d] = channels[d]
  BY <1>3, <1>8, <1>10
<1> QED
  BY <1>9, <1>10 DEF Settled

(* Closing changes the state only, and nothing when the channel is closed. *)
LEMMA CloseStep ==
  ASSUME ChannelInv, NEW c \in DOMAIN channels, C!CloseChannel(c)
  PROVE  ChannelInv' /\ Settled
<1> DEFINE ch == channels[c]
           new == [ch EXCEPT !.state = "CLOSED"]
<1>1. ch \in Channel /\ Funded(ch)
  BY DEF ChannelInv
<1>2. /\ DOMAIN channels' = DOMAIN channels
      /\ \A d \in DOMAIN channels : channels'[d] = IF d = c THEN new ELSE channels[d]
  BY DEF C!CloseChannel
<1> HIDE DEF ch
<1>3. new \in Channel /\ Funded(new)
  BY <1>1 DEF Channel, Funded
<1>4. ch.state = "CLOSED" => new = ch
  BY <1>1 DEF Channel
<1> HIDE DEF new
<1>5. ChannelInv'
  BY <1>2, <1>3 DEF ChannelInv, Numbered
<1> QED
  BY <1>2, <1>4, <1>5 DEF ch, Settled

(* Every step of the channels keeps the invariant and the closed channels. *)
LEMMA ChannelStep ==
  ASSUME ChannelInv, [C!Next]_channels
  PROVE  ChannelInv' /\ Settled
<1>1. CASE C!Next
  BY <1>1, OpenStep, PayStep, CloseStep DEF C!Next
<1>2. CASE UNCHANGED channels
  BY <1>2 DEF ChannelInv, Numbered, Settled
<1> QED
  BY <1>1, <1>2

(* The invariant of the channels.                                          *)
LEMMA ChannelInvariance == C!Spec => []ChannelInv
<1>1. C!Init => ChannelInv
  <2> SUFFICES ASSUME C!Init PROVE ChannelInv
    OBVIOUS
  <2>1. DOMAIN channels = {}
    BY DEF C!Init
  <2> QED
    BY <2>1, FS_EmptySet DEF ChannelInv, Numbered
<1>2. ChannelInv /\ [C!Next]_channels => ChannelInv'
  BY ChannelStep
<1> QED
  BY <1>1, <1>2, PTL DEF C!Spec

(* The two sides of a channel hold what was locked, whoever pays and       *)
(* whatever the width, unless the deposits exceed it (channel.cpp:37-64).   *)
THEOREM ChannelsConserve == MCSpec => []FundsConserved
<1>1. ChannelInv => FundsConserved
  BY DEF ChannelInv, Funded, FundsConserved, C!FundsConserved
<1> QED
  BY <1>1, ChannelInvariance, Composition, PTL

(* No call changes a closed channel, but openChannel when it spells the id *)
(* once more, which it cannot until there are as many channels as the radix *)
(* (channel.cpp:5-9, 25, 43, 66-76).                                        *)
THEOREM ClosedStaysClosed == MCSpec => ClosedFinal
<1>1. ChannelInv /\ [C!Next]_channels => [Settled]_channels
  BY ChannelStep
<1>2. Settled => \A c \in DOMAIN channels : channels[c].state = "CLOSED" =>
        \/ channels'[c] = channels[c]
        \/ /\ channels'[c].state = "ACTIVE" /\ C!Cardinality(DOMAIN channels) >= Radix
           /\ c = C!ChannelId(channels'[c].partyA, channels'[c].partyB)
  BY DEF Settled, Reopened
<1> QED
  BY <1>1, <1>2, ChannelInvariance, Composition, PTL DEF ClosedFinal, C!ClosedFinal, C!Spec

-----------------------------------------------------------------------------
(* Governance                                                              *)

\* Votes as they are recorded.
CastVotes == [voter : Voter, proposal : DOMAIN proposals, weight : Weight, inFavor : BOOLEAN]

\* A proposal on whose id there were these votes.
Proposal(votes) == [votesFor : 0..Word-1, votesAgainst : 0..Word-1,
                    status : {"ACTIVE", "PASSED"}, earlier : {votes}]

\* What tally asks for, of the totals as the code has them.
Deserved(q) ==
  q.status = "PASSED" =>
    LET all == (q.votesFor + q.votesAgainst) % Word
    IN  all # 0 /\ 100 * q.votesFor >= 67 * all

\* One vote of each voter on an id.
OneEach == \A v, w \in voted : v.voter = w.voter /\ v.proposal = w.proposal => v = w

Tallied(p, q) == /\ q.votesFor = G!Votes(G!Cast(p, TRUE)) % Word
                 /\ q.votesAgainst = G!Votes(G!Cast(p, FALSE)) % Word

\* No id is given again before the number of proposals has two digits.
Distinct == Cardinality(DOMAIN proposals) < Radix =>
              \A p \in DOMAIN proposals :
                EndsBelow(p, Cardinality(DOMAIN proposals)) /\ proposals[p].earlier = {}

GovInv ==
  /\ IsFiniteSet(DOMAIN proposals) /\ IsFiniteSet(voted) /\ OneEach /\ Distinct
  /\ voted \subseteq CastVotes
  /\ \A p \in DOMAIN proposals :
       /\ proposals[p] \in Proposal(proposals[p].earlier) /\ Deserved(proposals[p])
       /\ proposals[p].earlier \subseteq voted /\ Tallied(p, proposals[p])

(* The sum of votes is one over their set.                                 *)
LEMMA VotesAreSum ==
  ASSUME NEW V
  PROVE  G!Votes(V) = SumFunctionOnSet([v \in V |-> v.weight], V)
  BY DEF G!Votes, G!SumFunction, G!SumFunctionOnSet, G!FoldFunctionOnSet, G!MapThenFoldSet,
         SumFunctionOnSet, FoldFunctionOnSet, MapThenFoldSet

(* No votes have the sum 0.                                                *)
LEMMA VotesEmpty == G!Votes({}) = 0
  BY VotesAreSum, SumEmpty

(* A sum of votes is a number, and a further vote adds its weight.         *)
LEMMA VotesAdd ==
  ASSUME NEW V, IsFiniteSet(V), NEW x, x \notin V, x.weight \in Nat,
         \A v \in V : v.weight \in Nat
  PROVE  /\ G!Votes(V) \in Nat
         /\ G!Votes(V \cup {x}) % Word = ((G!Votes(V) % Word) + x.weight) % Word
<1> DEFINE U == V \cup {x}
           f == [v \in V |-> v.weight]
           g == [v \in U |-> v.weight]
           sum == SumFunctionOnSet(f, V)
<1>1. IsFiniteSet(U)
  BY FS_AddElement
<1>2. /\ \A v \in V : f[v] \in Nat /\ f[v] = g[v]
      /\ \A v \in U : g[v] \in Nat
      /\ x \in U /\ U \ {x} = V /\ g[x] = x.weight
  OBVIOUS
<1>3. G!Votes(V) = sum /\ G!Votes(U) = SumFunctionOnSet(g, U)
  BY VotesAreSum
<1> HIDE DEF f, g, U
<1>4. SumFunctionOnSet(g, U) = x.weight + SumFunctionOnSet(g, V)
  BY <1>1, <1>2, SumStep
<1>5. SumFunctionOnSet(g, V) = sum /\ sum \in Nat
  BY <1>2, SumSame, SumStep
<1> HIDE DEF sum
<1>6. ((sum % Word) + x.weight) % Word = (sum + x.weight) % Word
  <2> DEFINE y == x.weight
  <2>1. y \in Int /\ sum \in Int /\ Word \in Nat \ {0}
    BY <1>5, StakeAssumption
  <2> HIDE DEF y
  <2>2. ((sum % Word) + y) % Word = (sum + y) % Word
    BY <2>1, ModAdd
  <2> QED
    BY <2>2 DEF y
<1>7. x.weight + sum = sum + x.weight
  BY <1>5
<1>8. G!Votes(U) % Word = ((G!Votes(V) % Word) + x.weight) % Word
  BY <1>3, <1>4, <1>5, <1>6, <1>7
<1> QED
  BY <1>3, <1>5, <1>8 DEF U

(* The tally keeps the totals and passes a proposal only with the votes it *)
(* needs.                                                                  *)
LEMMA TallyKeeps ==
  ASSUME NEW e, NEW q \in Proposal(e), q.status = "ACTIVE"
  PROVE  /\ G!Tally(q) \in Proposal(e) /\ Deserved(G!Tally(q))
         /\ G!Tally(q).votesFor = q.votesFor /\ G!Tally(q).votesAgainst = q.votesAgainst
<1> DEFINE total == (q.votesFor + q.votesAgainst) % Word
<1>1. CASE total # 0 /\ 100 * q.votesFor >= 67 * total
  <2>1. G!Tally(q) = [q EXCEPT !.status = "PASSED"]
    BY <1>1 DEF G!Tally
  <2>2. /\ G!Tally(q).votesFor = q.votesFor /\ G!Tally(q).votesAgainst = q.votesAgainst
        /\ G!Tally(q) \in Proposal(e)
    BY <2>1 DEF Proposal
  <2>3. Deserved(G!Tally(q))
    BY <1>1, <2>2 DEF Deserved
  <2> QED
    BY <2>2, <2>3
<1>2. CASE ~(total # 0 /\ 100 * q.votesFor >= 67 * total)
  <2>1. G!Tally(q) = q
    BY <1>2 DEF G!Tally
  <2> QED
    BY <2>1 DEF Deserved
<1> QED
  BY <1>1, <1>2

(* A new proposal has no votes although those on its id stay on record,    *)
(* and the others keep theirs.                                             *)
LEMMA SubmitStep ==
  ASSUME GovInv, NEW a \in Proposer, NEW t \in Title, G!SubmitProposal(a, t)
  PROVE  GovInv'
<1> DEFINE n == Cardinality(DOMAIN proposals)
           id == G!ProposalId(a, t)
           votes == G!VotesOn(id)
           fresh == [votesFor |-> 0, votesAgainst |-> 0, status |-> "ACTIVE",
                     earlier |-> votes]
<1>1. /\ n \in Nat /\ Radix \in Nat
      /\ id = a \o t \o Text!Decimal(n)
  <2>1. G!Cardinality(DOMAIN proposals) = n
    BY DEF G!Cardinality, Cardinality
  <2> QED
    BY <2>1, FS_CardinalityType, IdAssumption DEF G!ProposalId, GovInv
<1>2. /\ DOMAIN proposals' = DOMAIN proposals \cup {id} /\ voted' = voted
      /\ \A p \in DOMAIN proposals' : proposals'[p] = IF p = id THEN fresh ELSE proposals[p]
  BY DEF G!SubmitProposal
<1>3. n < Radix => id[Len(id)] = n
  <2>1. a \in Seq(Nat) /\ t \in Seq(Nat)
    BY IdAssumption
  <2> HIDE DEF id, n
  <2> QED
    BY <1>1, <2>1, NewId
<1>4. n < Radix => id \notin DOMAIN proposals
  <2> SUFFICES ASSUME n < Radix, id \in DOMAIN proposals PROVE FALSE
    OBVIOUS
  <2>1. EndsBelow(id, n)
    BY DEF GovInv, Distinct
  <2>2. n \in Nat /\ id[Len(id)] = n
    BY <1>1, <1>3
  <2> HIDE DEF id, n
  <2>3. n < n
    BY <2>1, <2>2, Zenon DEF EndsBelow
  <2> QED
    BY ONLY <2>2, <2>3
<1>5. /\ fresh \in Proposal(fresh.earlier) /\ Deserved(fresh) /\ fresh.earlier = votes
      /\ fresh.votesFor = 0 /\ fresh.votesAgainst = 0 /\ votes \subseteq voted
  <2>1. votes \subseteq voted
    BY DEF G!VotesOn
  <2>2. 0 \in 0..Word-1
    BY StakeAssumption
  <2> HIDE DEF id, votes
  <2> QED
    BY <2>1, <2>2 DEF Proposal, Deserved
<1>6. n < Radix => votes = {}
  <2> HIDE DEF id, n
  <2> QED
    BY <1>4 DEF G!VotesOn, GovInv, CastVotes
<1> HIDE DEF id, votes, fresh
<1>7. ASSUME NEW f \in BOOLEAN, NEW p \in DOMAIN proposals'
      PROVE  G!Cast(p, f)' = IF p = id THEN {} ELSE G!Cast(p, f)
  <2>1. CASE p = id
    BY <1>2, <1>5, <1>7, <2>1 DEF G!Cast, G!VotesOn, votes
  <2>2. CASE p # id
    BY <1>2, <1>7, <2>2 DEF G!Cast, G!VotesOn
  <2> QED
    BY <2>1, <2>2
<1>8. ASSUME NEW p \in DOMAIN proposals'
      PROVE  /\ proposals'[p] \in Proposal(proposals'[p].earlier)
             /\ Deserved(proposals'[p]) /\ proposals'[p].earlier \subseteq voted'
             /\ Tallied(p, proposals[p])'
  <2>1. CASE p = id
    <3>1. G!Cast(p, TRUE)' = {} /\ G!Cast(p, FALSE)' = {}
      BY <1>7, <1>8, <2>1
    <3>2. proposals'[p] = fresh
      BY <1>2, <1>8, <2>1
    <3>3. G!Votes({}) % Word = 0
      <4>1. 0 % Word = 0
        BY StakeAssumption, ModSmall
      <4> QED
        BY <4>1, VotesEmpty
    <3> QED
      BY <1>2, <1>5, <3>1, <3>2, <3>3 DEF Tallied
  <2>2. CASE p # id
    <3>1. p \in DOMAIN proposals /\ proposals'[p] = proposals[p]
      BY <1>2, <1>8, <2>2
    <3>2. G!Cast(p, TRUE)' = G!Cast(p, TRUE) /\ G!Cast(p, FALSE)' = G!Cast(p, FALSE)
      BY <1>7, <1>8, <2>2
    <3> QED
      BY <1>2, <3>1, <3>2 DEF GovInv, Tallied
  <2> QED
    BY <2>1, <2>2
<1>9. OneEach' /\ voted' \subseteq CastVotes' /\ IsFiniteSet(DOMAIN proposals')
      /\ IsFiniteSet(voted')
  <2>1. DOMAIN proposals \subseteq DOMAIN proposals'
    BY <1>2
  <2>2. OneEach' /\ IsFiniteSet(voted')
    BY <1>2 DEF GovInv, OneEach
  <2>3. voted' \subseteq CastVotes'
    BY <1>2, <2>1 DEF GovInv, CastVotes
  <2>4. IsFiniteSet(DOMAIN proposals')
    BY <1>2, FS_AddElement DEF GovInv
  <2> QED
    BY <2>2, <2>3, <2>4
<1>10. Distinct'
  <2> SUFFICES ASSUME Cardinality(DOMAIN proposals') < Radix, NEW p \in DOMAIN proposals'
               PROVE  /\ EndsBelow(p, Cardinality(DOMAIN proposals'))
                      /\ proposals'[p].earlier = {}
    BY DEF Distinct
  <2>1. Cardinality(DOMAIN proposals') = IF id \in DOMAIN proposals THEN n ELSE n + 1
    BY <1>2, FS_AddElement DEF GovInv
  <2>2. n < Radix
    BY <1>1, <2>1
  <2>3. Cardinality(DOMAIN proposals') = n + 1
    BY <1>4, <2>1, <2>2
  <2>4. CASE p = id
    <3>0. n \in Nat /\ n < n + 1
      BY <1>1
    <3>1. EndsBelow(id, n + 1)
      BY <1>3, <2>2, <3>0, Zenon DEF EndsBelow
    <3>2. proposals'[p] = fresh /\ votes = {}
      BY <1>2, <1>6, <2>2, <2>4
    <3> QED
      BY <1>5, <2>3, <2>4, <3>1, <3>2
  <2>5. CASE p # id
    <3>1. EndsBelow(p, n) /\ proposals[p].earlier = {} /\ proposals'[p] = proposals[p]
      BY <1>2, <2>2, <2>5 DEF GovInv, Distinct
    <3>2. EndsBelow(p, n + 1)
      BY <1>1, <3>1 DEF EndsBelow
    <3> QED
      BY <2>3, <3>1, <3>2
  <2> QED
    BY <2>4, <2>5
<1> HIDE DEF n
<1> QED
  BY <1>8, <1>9, <1>10 DEF GovInv

(* A vote counts once, on its side of its proposal.                        *)
LEMMA VoteStep ==
  ASSUME GovInv, NEW p \in DOMAIN proposals, NEW v \in Voter, NEW w \in Weight,
         NEW f \in BOOLEAN, G!Vote(p, v, w, f)
  PROVE  GovInv'
<1> DEFINE x == [voter |-> v, proposal |-> p, weight |-> w, inFavor |-> f]
           q == proposals[p]
           r == IF f THEN [q EXCEPT !.votesFor = (@ + w) % Word]
                     ELSE [q EXCEPT !.votesAgainst = (@ + w) % Word]
           new == G!Tally(r)
<1>1. /\ q.status = "ACTIVE" /\ ~G!HasVoted(v, p)
      /\ voted' = voted \cup {x} /\ proposals' = [proposals EXCEPT ![p] = new]
  <2>1. q.status = "ACTIVE" /\ ~G!HasVoted(v, p) /\ voted' = voted \cup {x}
    BY DEF G!Vote
  <2>2. proposals' = [proposals EXCEPT ![p] = new]
    BY DEF G!Vote, G!Counted
  <2> QED
    BY <2>1, <2>2
<1>2. /\ q \in Proposal(q.earlier) /\ q.earlier \subseteq voted
      /\ Tallied(p, q) /\ w \in 0..Word-1 /\ Word \in Nat \ {0}
  BY ServicesAssumption, StakeAssumption DEF GovInv
<1>3. \A y \in voted : ~(y.voter = v /\ y.proposal = p)
  BY <1>1 DEF G!HasVoted
<1>4. x \notin voted
  BY <1>3
<1>5. /\ r \in Proposal(q.earlier) /\ r.status = "ACTIVE"
      /\ r.votesFor = IF f THEN (q.votesFor + w) % Word ELSE q.votesFor
      /\ r.votesAgainst = IF f THEN q.votesAgainst ELSE (q.votesAgainst + w) % Word
  <2> DEFINE a == (q.votesFor + w) % Word
             b == (q.votesAgainst + w) % Word
  <2>1. a \in 0..Word-1 /\ b \in 0..Word-1
    <3> DEFINE c == q.votesFor + w
               d == q.votesAgainst + w
    <3>1. c \in Nat /\ d \in Nat
      BY <1>2 DEF Proposal
    <3> HIDE DEF c, d
    <3>2. c % Word \in 0..Word-1 /\ d % Word \in 0..Word-1
      BY <1>2, <3>1, ModWord
    <3> QED
      BY <3>2 DEF c, d
  <2>2. r = IF f THEN [q EXCEPT !.votesFor = a] ELSE [q EXCEPT !.votesAgainst = b]
    BY <1>2 DEF Proposal
  <2> HIDE DEF a, b, q, r
  <2>3. CASE f
    BY <1>1, <1>2, <2>1, <2>2, <2>3 DEF Proposal, a, q
  <2>4. CASE ~f
    BY <1>1, <1>2, <2>1, <2>2, <2>4 DEF Proposal, b, q
  <2> QED
    BY <2>3, <2>4
<1>6. /\ new \in Proposal(q.earlier) /\ new.earlier = q.earlier /\ Deserved(new)
      /\ new.votesFor = r.votesFor /\ new.votesAgainst = r.votesAgainst
  <2> HIDE DEF r, q
  <2>1. G!Tally(r) \in Proposal(q.earlier) /\ Deserved(G!Tally(r))
        /\ G!Tally(r).votesFor = r.votesFor /\ G!Tally(r).votesAgainst = r.votesAgainst
    BY <1>5, TallyKeeps
  <2> QED
    BY <2>1 DEF Proposal
<1>7. ASSUME NEW o \in DOMAIN proposals, NEW g \in BOOLEAN
      PROVE  G!Cast(o, g)' = IF o = p /\ g = f THEN G!Cast(o, g) \cup {x} ELSE G!Cast(o, g)
  <2>1. /\ proposals'[o].earlier = proposals[o].earlier /\ x \notin proposals[o].earlier
        /\ x.proposal = p /\ x.inFavor = f
    <3>1. proposals'[o] = IF o = p THEN new ELSE proposals[o]
      BY <1>1
    <3>2. proposals[o].earlier \subseteq voted
      BY DEF GovInv
    <3> HIDE DEF new
    <3> QED
      BY <1>4, <1>6, <3>1, <3>2
  <2> HIDE DEF x
  <2> QED
    BY <1>1, <2>1 DEF G!Cast, G!VotesOn
<1>8. ASSUME NEW g \in BOOLEAN
      PROVE  /\ IsFiniteSet(G!Cast(p, g)) /\ x \notin G!Cast(p, g) /\ x.weight = w /\ w \in Nat
             /\ \A y \in G!Cast(p, g) : y.weight \in Nat
  <2>1. G!Cast(p, g) \subseteq voted
    BY DEF G!Cast, G!VotesOn
  <2>2. IsFiniteSet(G!Cast(p, g))
    BY <2>1, FS_Subset DEF GovInv
  <2>3. \A y \in voted : y.weight \in Nat
    <3>1. Weight \subseteq Nat
      BY ServicesAssumption, StakeAssumption
    <3> QED
      BY <3>1 DEF GovInv, CastVotes
  <2> QED
    BY <1>2, <1>4, <2>1, <2>2, <2>3
<1>9. ASSUME NEW g \in BOOLEAN
      PROVE  G!Votes(G!Cast(p, g) \cup {x}) % Word
               = ((G!Votes(G!Cast(p, g)) % Word) + w) % Word
  <2>1. x.weight = w
    OBVIOUS
  <2> HIDE DEF x
  <2> QED
    BY <1>8, <2>1, VotesAdd
<1> HIDE DEF x, r, new
<1>10. /\ DOMAIN proposals' = DOMAIN proposals
       /\ \A o \in DOMAIN proposals : proposals'[o] = IF o = p THEN new ELSE proposals[o]
  BY <1>1
<1>11. /\ new.votesFor = G!Votes(G!Cast(p, TRUE)') % Word
       /\ new.votesAgainst = G!Votes(G!Cast(p, FALSE)') % Word
  <2>1. CASE f = TRUE
    BY <1>2, <1>5, <1>6, <1>7, <1>9, <2>1 DEF Tallied
  <2>2. CASE f = FALSE
    BY <1>2, <1>5, <1>6, <1>7, <1>9, <2>2 DEF Tallied
  <2> QED
    BY <2>1, <2>2
<1>12. ASSUME NEW o \in DOMAIN proposals
       PROVE  /\ proposals'[o] \in Proposal(proposals'[o].earlier)
              /\ proposals'[o].earlier \subseteq voted' /\ Deserved(proposals'[o])
              /\ proposals'[o].votesFor = G!Votes(G!Cast(o, TRUE)') % Word
              /\ proposals'[o].votesAgainst = G!Votes(G!Cast(o, FALSE)') % Word
  <2>1. CASE o = p
    BY <1>1, <1>2, <1>6, <1>10, <1>11, <2>1
  <2>2. CASE o # p
    <3>1. G!Cast(o, TRUE)' = G!Cast(o, TRUE) /\ G!Cast(o, FALSE)' = G!Cast(o, FALSE)
      BY <1>7, <2>2
    <3> QED
      BY <1>1, <1>10, <2>2, <3>1 DEF GovInv, Tallied
  <2> QED
    BY <2>1, <2>2
<1>13. \A o \in DOMAIN proposals' : Tallied(o, proposals[o])'
  BY <1>10, <1>12 DEF Tallied
<1>14. IsFiniteSet(voted')
  <2> HIDE DEF x
  <2> QED
    BY <1>1, FS_AddElement DEF GovInv
<1>15. OneEach'
  <2>1. x.voter = v /\ x.proposal = p
    BY DEF x
  <2> QED
    BY <1>1, <1>3, <2>1 DEF GovInv, OneEach
<1>16. voted' \subseteq CastVotes'
  BY <1>1, <1>10 DEF GovInv, CastVotes, x
<1>17. Distinct'
  BY <1>2, <1>6, <1>10 DEF GovInv, Distinct
<1> QED
  BY <1>10, <1>12, <1>13, <1>14, <1>15, <1>16, <1>17 DEF GovInv

(* The invariant of governance.                                            *)
LEMMA GovInvariance == G!Init /\ [][G!Next]_voteVars => []GovInv
<1>1. G!Init => GovInv
  <2> SUFFICES ASSUME G!Init PROVE GovInv
    OBVIOUS
  <2>1. DOMAIN proposals = {} /\ voted = {}
    BY DEF G!Init
  <2> QED
    BY <2>1, FS_EmptySet DEF GovInv, OneEach, Distinct
<1>2. GovInv /\ [G!Next]_voteVars => GovInv'
  <2> SUFFICES ASSUME GovInv, [G!Next]_voteVars PROVE GovInv'
    OBVIOUS
  <2>1. CASE UNCHANGED voteVars
    BY <2>1 DEF voteVars, GovInv, OneEach, Distinct, Tallied, CastVotes, G!Cast, G!VotesOn
  <2> QED
    BY <2>1, SubmitStep, VoteStep DEF G!Next
<1> QED
  BY <1>1, <1>2, PTL

(* The sums of the votes on a proposal are numbers.                        *)
LEMMA VotesNat ==
  ASSUME GovInv, NEW p, NEW f \in BOOLEAN
  PROVE  G!Votes(G!Cast(p, f)) \in Nat
<1> DEFINE V == G!Cast(p, f)
           g == [v \in V |-> v.weight]
<1>1. V \subseteq voted
  BY DEF G!Cast, G!VotesOn
<1>2. IsFiniteSet(V)
  BY <1>1, FS_Subset DEF GovInv
<1>3. \A v \in V : g[v] \in Nat
  <2>1. Weight \subseteq Nat
    BY ServicesAssumption, StakeAssumption
  <2> QED
    BY <1>1, <2>1 DEF GovInv, CastVotes
<1>4. G!Votes(V) = SumFunctionOnSet(g, V)
  BY VotesAreSum
<1> HIDE DEF V, g
<1>5. SumFunctionOnSet(g, V) \in Nat
  BY <1>2, <1>3, SumStep
<1> QED
  BY <1>4, <1>5 DEF V

(* A proposal that passed has 67 percent of the votes cast on it since it  *)
(* was submitted, whatever the weights and the width that holds their sum, *)
(* also when its id was another one's before (proposal.cpp:5-9, 43, 66-78). *)
THEOREM PassedDeserved == MCSpec => []PassedByMajority
<1>1. GovInv => PassedByMajority
  <2> SUFFICES ASSUME GovInv, NEW p \in DOMAIN proposals,
                      proposals[p].status = "PASSED",
                      G!Votes(G!Cast(p, TRUE)) + G!Votes(G!Cast(p, FALSE)) < Word
               PROVE  LET inFavor == G!Votes(G!Cast(p, TRUE))
                          all     == inFavor + G!Votes(G!Cast(p, FALSE))
                      IN  all # 0 /\ 100 * inFavor >= 67 * all
    BY DEF PassedByMajority, G!PassedByMajority
  <2>1. PICK x \in Nat, y \in Nat : x = G!Votes(G!Cast(p, TRUE)) /\ y = G!Votes(G!Cast(p, FALSE))
    BY VotesNat
  <2>2. Deserved(proposals[p]) /\ Tallied(p, proposals[p])
    BY DEF GovInv
  <2>3. x % Word = x /\ y % Word = y /\ (x + y) % Word = x + y
    <3>0. x + y < Word
      BY <2>1
    <3>1. Word \in Nat \ {0} /\ x < Word /\ y < Word /\ x + y \in Nat /\ x + y < Word
      BY <3>0, StakeAssumption
    <3>2. PICK z \in Nat : z = x + y
      BY <3>1
    <3> QED
      BY <3>1, <3>2, ModSmall
  <2>4. proposals[p].votesFor = x /\ proposals[p].votesAgainst = y
    BY <2>1, <2>2, <2>3 DEF Tallied
  <2>5. x + y # 0 /\ 100 * x >= 67 * (x + y)
    BY <2>2, <2>3, <2>4 DEF Deserved
  <2> QED
    BY <2>1, <2>5
<1> QED
  BY <1>1, GovInvariance, Composition, PTL

(* The totals of a proposal are the votes cast since it was submitted, one *)
(* of each voter for an id, and all on record while there are fewer        *)
(* proposals than the radix, whoever submits and votes in whatever order   *)
(* (proposal.cpp:5-78).                                                     *)
THEOREM TalliesAddUp == MCSpec => []TalliesMatch
<1>1. GovInv => TalliesMatch
  <2>1. G!Cardinality(DOMAIN proposals) = Cardinality(DOMAIN proposals)
    BY DEF G!Cardinality, Cardinality
  <2> QED
    BY <2>1 DEF GovInv, OneEach, Distinct, Tallied, TalliesMatch, G!TalliesMatch
<1> QED
  BY <1>1, GovInvariance, Composition, PTL

-----------------------------------------------------------------------------
(* Contracts                                                               *)

\* The characters of the owners and bytecodes that are deployed.
Opcode == UNION {ToSet(s) : s \in Owners \cup Bytecodes}

\* Where a contract is deployed tells its owner followed by its bytecode.
ContractInv ==
  \A a \in DOMAIN contracts :
    /\ contracts[a] \in [owner : Owners, bytecode : Bytecodes]
    /\ a = K!GenerateAddress(contracts[a].owner, contracts[a].bytecode)

(* A concatenation is split in two ways only where one beginning is a      *)
(* beginning of the other.                                                 *)
LEMMA SplitOnce ==
  ASSUME NEW S, NEW s \in Seq(S), NEW t \in Seq(S), NEW u \in Seq(S), NEW v \in Seq(S),
         s \o t = u \o v
  PROVE  (s = u /\ t = v) \/ K!IsStrictPrefix(s, u) \/ K!IsStrictPrefix(u, s)
<1> DEFINE w == s \o t
<1>0. /\ Len(s) \in Nat /\ Len(t) \in Nat /\ Len(u) \in Nat /\ Len(v) \in Nat
  OBVIOUS
<1>1. /\ Len(w) = Len(s) + Len(t)
      /\ \A i \in 1..Len(s)+Len(t) : w[i] = IF i <= Len(s) THEN s[i] ELSE t[i - Len(s)]
  BY ConcatProperties
<1>2. /\ Len(w) = Len(u) + Len(v)
      /\ \A i \in 1..Len(u)+Len(v) : w[i] = IF i <= Len(u) THEN u[i] ELSE v[i - Len(u)]
  BY ConcatProperties
<1> HIDE DEF w
<1>3. ASSUME NEW x \in Seq(S), NEW y \in Seq(S), Len(x) < Len(y),
             \A i \in 1..Len(x) : w[i] = x[i], \A i \in 1..Len(y) : w[i] = y[i]
      PROVE  K!IsStrictPrefix(x, y)
  <2>1. SubSeq(x, 1, Len(x)) = SubSeq(y, 1, Len(x))
    <3>1. PICK n \in Nat : n = Len(x)
      BY <1>3
    <3>2. /\ SubSeq(x, 1, n) = [i \in 1..n |-> x[i]]
          /\ SubSeq(y, 1, n) = [i \in 1..n |-> y[i]]
      BY <1>3, <3>1
    <3>3. \A i \in 1..n : x[i] = y[i]
      BY <1>3, <3>1
    <3> QED
      BY <3>1, <3>2, <3>3
  <2> QED
    BY <1>3, <2>1 DEF K!IsStrictPrefix, K!IsPrefix
<1>4. (\A i \in 1..Len(s) : w[i] = s[i]) /\ (\A i \in 1..Len(u) : w[i] = u[i])
  BY <1>0, <1>1, <1>2
<1>5. CASE Len(s) < Len(u)
  BY <1>3, <1>4, <1>5
<1>6. CASE Len(u) < Len(s)
  BY <1>3, <1>4, <1>6
<1>7. CASE Len(s) = Len(u)
  <2>1. s = u
    BY <1>4, <1>7, SeqEqual
  <2>2. Len(t) = Len(v)
    BY <1>0, <1>1, <1>2, <1>7
  <2>3. ASSUME NEW i \in 1..Len(t) PROVE t[i] = v[i]
    <3> DEFINE j == Len(s) + i
    <3>1. j \in 1..Len(s)+Len(t) /\ j > Len(s) /\ j - Len(s) = i
      BY <1>0
    <3> HIDE DEF j
    <3>2. w[j] = t[i]
      BY <1>0, <1>1, <3>1
    <3>3. j \in 1..Len(u)+Len(v) /\ ~(j <= Len(u)) /\ j - Len(u) = i
      BY <1>0, <1>7, <2>2, <3>1
    <3>4. w[j] = IF j <= Len(u) THEN u[j] ELSE v[j - Len(u)]
      BY <1>2, <3>3
    <3>5. w[j] = v[i]
      BY <3>3, <3>4
    <3> QED
      BY <3>2, <3>5
  <2>4. t = v
    BY <2>2, <2>3, SeqEqual
  <2> QED
    BY <2>1, <2>4
<1> QED
  BY <1>0, <1>5, <1>6, <1>7

(* A deployment at an address in use has the same owner and the same       *)
(* bytecode, or an owner of another length.                                *)
LEMMA ContractStep ==
  ASSUME ContractInv, [K!Next]_contracts
  PROVE  /\ ContractInv'
         /\ \A a \in DOMAIN contracts :
              /\ a \in DOMAIN contracts'
              /\ \/ contracts'[a] = contracts[a]
                 \/ K!IsStrictPrefix(contracts[a].owner, contracts'[a].owner)
                 \/ K!IsStrictPrefix(contracts'[a].owner, contracts[a].owner)
<1>1. CASE UNCHANGED contracts
  BY <1>1 DEF ContractInv
<1>2. ASSUME NEW o \in Owners, NEW b \in Bytecodes, K!DeployContract(o, b)
      PROVE  /\ ContractInv'
             /\ \A a \in DOMAIN contracts :
                  /\ a \in DOMAIN contracts'
                  /\ \/ contracts'[a] = contracts[a]
                     \/ K!IsStrictPrefix(contracts[a].owner, contracts'[a].owner)
                     \/ K!IsStrictPrefix(contracts'[a].owner, contracts[a].owner)
  <2> DEFINE id == K!GenerateAddress(o, b)
             new == [owner |-> o, bytecode |-> b]
  <2>1. /\ DOMAIN contracts' = DOMAIN contracts \cup {id}
        /\ \A a \in DOMAIN contracts' : contracts'[a] = IF a = id THEN new ELSE contracts[a]
    BY <1>2 DEF K!DeployContract
  <2>2. ContractInv'
    BY <2>1 DEF ContractInv
  <2>3. ASSUME NEW a \in DOMAIN contracts, a = id
        PROVE  \/ new = contracts[a]
               \/ K!IsStrictPrefix(contracts[a].owner, o)
               \/ K!IsStrictPrefix(o, contracts[a].owner)
    <3> DEFINE old == contracts[a]
    <3>1. old \in [owner : Owners, bytecode : Bytecodes]
      BY DEF ContractInv
    <3>2. K!GenerateAddress(old.owner, old.bytecode) = K!GenerateAddress(o, b)
      BY <2>3 DEF ContractInv
    <3>3. old.owner \o old.bytecode = o \o b
      BY <3>2 DEF K!GenerateAddress
    <3>4. Owners \subseteq Seq(Opcode) /\ Bytecodes \subseteq Seq(Opcode)
      <4>1. ASSUME NEW s \in Owners \cup Bytecodes PROVE s \in Seq(Opcode)
        <5>1. s \in Seq(ToSet(s)) /\ ToSet(s) \subseteq Opcode
          BY ContractAssumption DEF Opcode
        <5> QED
          BY <5>1, SeqMonotonic
      <4> QED
        BY <4>1
    <3> HIDE DEF old
    <3>5. (old.owner = o /\ old.bytecode = b) \/ K!IsStrictPrefix(old.owner, o)
            \/ K!IsStrictPrefix(o, old.owner)
      BY <3>1, <3>3, <3>4, SplitOnce
    <3> QED
      BY <3>1, <3>5 DEF old
  <2> HIDE DEF id
  <2> QED
    BY <2>1, <2>2, <2>3
<1> QED
  BY <1>1, <1>2 DEF K!Next

(* A deployed contract stays, and a call of it gives what it gave, unless  *)
(* it is replaced by one whose owner's address begins the old one's or the *)
(* other way round (vm.cpp:10-30, 93-101).                                 *)
THEOREM ContractsStay == MCSpec => ContractKept
<1>1. K!Init => ContractInv
  BY DEF K!Init, ContractInv
<1>2. ContractInv /\ [K!Next]_contracts => ContractInv'
  BY ContractStep
<1>3. ContractInv /\ [K!Next]_contracts =>
        [\A a \in K!Deployed :
           LET old == contracts[a]  new == contracts'[a]
           IN  /\ a \in K!Deployed'
               /\ \/ new.owner = old.owner /\ K!Call(a, "in", 300)' = K!Call(a, "in", 300)
                  \/ K!IsStrictPrefix(old.owner, new.owner)
                  \/ K!IsStrictPrefix(new.owner, old.owner)]_contracts
  <2> SUFFICES ASSUME ContractInv, [K!Next]_contracts, NEW a \in DOMAIN contracts
               PROVE  /\ a \in DOMAIN contracts'
                      /\ \/ /\ contracts'[a].owner = contracts[a].owner
                            /\ K!Call(a, "in", 300)' = K!Call(a, "in", 300)
                         \/ K!IsStrictPrefix(contracts[a].owner, contracts'[a].owner)
                         \/ K!IsStrictPrefix(contracts'[a].owner, contracts[a].owner)
    BY DEF K!Deployed
  <2>1. a \in DOMAIN contracts'
    BY ContractStep
  <2>2. contracts'[a] = contracts[a] => K!Call(a, "in", 300)' = K!Call(a, "in", 300)
    BY <2>1 DEF K!Call
  <2> QED
    BY <2>1, <2>2, ContractStep
<1> QED
  BY <1>1, <1>2, <1>3, Composition, PTL DEF ContractKept, K!ContractKept

-----------------------------------------------------------------------------
(* The mixer                                                               *)

\* h[i] is the first i sequences of ss, one after the other.
FlatRec(h, ss, n) == h = [i \in 1..n |-> IF i = 1 THEN ss[i] ELSE h[i-1] \o ss[i]]

(* What such a function says of one number.                                *)
LEMMA FlatAt ==
  ASSUME NEW ss, NEW n \in Nat, NEW h, FlatRec(h, ss, n), NEW i \in 1..n
  PROVE  h[i] = IF i = 1 THEN ss[i] ELSE h[i-1] \o ss[i]
BY DEF FlatRec

(* There is only one.                                                      *)
LEMMA FlatUnique ==
  ASSUME NEW ss, NEW n \in Nat, NEW h, NEW k, FlatRec(h, ss, n), FlatRec(k, ss, n)
  PROVE  h = k
<1> DEFINE Bad == {i \in 1..n : h[i] # k[i]}
<1>1. ASSUME Bad # {} PROVE FALSE
  <2>1. PICK i \in Bad : \A j \in Bad : i <= j
    <3>1. Bad \subseteq Nat
      OBVIOUS
    <3> HIDE DEF Bad
    <3> QED
      BY <1>1, <3>1, NatMin
  <2>2. i \in 1..n /\ h[i] # k[i]
    BY <2>1
  <2>3. /\ h[i] = IF i = 1 THEN ss[i] ELSE h[i-1] \o ss[i]
        /\ k[i] = IF i = 1 THEN ss[i] ELSE k[i-1] \o ss[i]
    BY <2>2, FlatAt
  <2>4. i # 1 => h[i-1] = k[i-1]
    <3>1. i # 1 => i-1 \in 1..n /\ ~ (i <= i-1)
      BY <2>2
    <3> QED
      BY <2>1, <3>1
  <2> QED
    BY <2>2, <2>3, <2>4
<1>2. \A i \in 1..n : h[i] = k[i]
  BY <1>1
<1>3. h = [i \in 1..n |-> h[i]] /\ k = [i \in 1..n |-> k[i]]
  BY DEF FlatRec
<1> QED
  BY <1>2, <1>3

(* One for one sequence more.                                              *)
LEMMA FlatMore ==
  ASSUME NEW S, NEW ss \in Seq(Seq(S)), NEW n \in Nat, n + 1 \in 1..Len(ss),
         NEW h \in [1..n -> Seq(S)], FlatRec(h, ss, n)
  PROVE  \E k : /\ FlatRec(k, ss, n + 1) /\ k \in [1..n+1 -> Seq(S)]
                /\ k[n+1] = IF n = 0 THEN ss[n+1] ELSE h[n] \o ss[n+1]
<1> DEFINE top == IF n = 0 THEN ss[n+1] ELSE h[n] \o ss[n+1]
           k == [i \in 1..n+1 |-> IF i = n + 1 THEN top ELSE h[i]]
<1>1. ss[n+1] \in Seq(S)
  OBVIOUS
<1>2. top \in Seq(S)
  <2>1. n # 0 => h[n] \in Seq(S)
    OBVIOUS
  <2> QED
    BY <1>1, <2>1, ConcatProperties
<1>3. \A i \in 1..n : h[i] = IF i = 1 THEN ss[i] ELSE h[i-1] \o ss[i]
  BY DEF FlatRec
<1>4. ASSUME NEW i \in 1..n+1 PROVE k[i] = IF i = 1 THEN ss[i] ELSE k[i-1] \o ss[i]
  <2>1. CASE i = n + 1
    <3>1. i # 1 => i-1 \in 1..n+1 /\ i-1 # n + 1 /\ i-1 = n
      BY <2>1
    <3> QED
      BY <2>1, <3>1
  <2>2. CASE i # n + 1
    <3>1. i \in 1..n /\ (i # 1 => i-1 \in 1..n+1 /\ i-1 # n + 1)
      BY <2>2
    <3>2. h[i] = IF i = 1 THEN ss[i] ELSE h[i-1] \o ss[i]
      BY <1>3, <3>1
    <3> HIDE DEF top
    <3> QED
      BY <2>2, <3>1, <3>2
  <2> QED
    BY <2>1, <2>2
<1>5. k = [i \in 1..n+1 |-> k[i]] /\ k[n+1] = top
  OBVIOUS
<1>6. k \in [1..n+1 -> Seq(S)]
  <2> HIDE DEF top
  <2>1. \A i \in 1..n+1 : i # n + 1 => h[i] \in Seq(S)
    OBVIOUS
  <2> QED
    BY <1>2, <2>1
<1> HIDE DEF k
<1>7. FlatRec(k, ss, n + 1)
  BY <1>4, <1>5 DEF FlatRec
<1> QED
  BY <1>5, <1>6, <1>7

(* There is one for every number of sequences, and its values are          *)
(* sequences.                                                              *)
LEMMA FlatExists ==
  ASSUME NEW S, NEW ss \in Seq(Seq(S))
  PROVE  \E h : FlatRec(h, ss, Len(ss)) /\ h \in [1..Len(ss) -> Seq(S)]
<1> DEFINE Bad == {n \in 0..Len(ss) : ~ \E h : FlatRec(h, ss, n) /\ h \in [1..n -> Seq(S)]}
<1>1. SUFFICES ASSUME Bad # {} PROVE FALSE
  OBVIOUS
<1>2. PICK n \in Bad : \A m \in Bad : n <= m
  <2>1. Bad \subseteq Nat
    OBVIOUS
  <2> HIDE DEF Bad
  <2> QED
    BY <1>1, <2>1, NatMin
<1>3. n # 0
  <2>1. FlatRec([i \in {} |-> <<>>], ss, 0)
    BY DEF FlatRec
  <2>2. [i \in {} |-> <<>>] \in [1..0 -> Seq(S)]
    OBVIOUS
  <2> QED
    BY <1>2, <2>1, <2>2
<1>4. PICK l \in Nat : n = l + 1 /\ n \in 1..Len(ss) /\ l \in 0..Len(ss) /\ l \notin Bad
  <2>1. n \in 1..Len(ss) /\ Len(ss) \in Nat
    BY <1>2, <1>3
  <2>2. n-1 \in Nat /\ n = n-1 + 1 /\ n-1 \in 0..Len(ss) /\ ~ (n <= n-1)
    BY <2>1
  <2> HIDE DEF Bad
  <2> QED
    BY <1>2, <2>1, <2>2
<1>5. PICK h \in [1..l -> Seq(S)] : FlatRec(h, ss, l)
  BY <1>4
<1>6. \E k : FlatRec(k, ss, l + 1) /\ k \in [1..l+1 -> Seq(S)]
  <2>1. l + 1 \in 1..Len(ss)
    BY <1>4
  <2> HIDE DEF Bad
  <2> QED
    BY <1>5, <2>1, FlatMore
<1> QED
  BY <1>2, <1>4, <1>6

(* What sequences of sequences are put together to.                        *)
LEMMA FlatIs ==
  ASSUME NEW S, NEW ss \in Seq(Seq(S)), NEW n \in Nat, n = Len(ss), n # 0,
         NEW h, FlatRec(h, ss, n)
  PROVE  X!FlattenSeq(ss) = h[n]
<1> DEFINE it == CHOOSE k : k = [i \in 1..Len(ss) |->
                   IF i = 1 THEN ss[i] ELSE k[i-1] \o ss[i]]
<1>1. FlatRec(it, ss, n)
  BY Zenon DEF FlatRec
<1>2. X!FlattenSeq(ss) = it[n]
  BY DEF X!FlattenSeq
<1> HIDE DEF it
<1>3. it = h
  BY <1>1, FlatUnique, Zenon
<1> QED
  BY <1>2, <1>3, Zenon

(* One sequence more is appended to the others.                            *)
LEMMA FlatAppend ==
  ASSUME NEW S, NEW ss \in Seq(Seq(S)), NEW t \in Seq(S)
  PROVE  /\ X!FlattenSeq(ss) \in Seq(S)
         /\ X!FlattenSeq(Append(ss, t)) = X!FlattenSeq(ss) \o t
<1> DEFINE tt == Append(ss, t)
<1>1. PICK n \in Nat : n = Len(ss)
  <2>1. Len(ss) \in Nat
    OBVIOUS
  <2> QED
    BY ONLY <2>1
<1>2. /\ tt \in Seq(Seq(S)) /\ Len(tt) = n + 1 /\ n + 1 \in Nat /\ n + 1 # 0
      /\ n + 1 \in 1..Len(tt) /\ tt[n + 1] = t /\ \A i \in 1..n : tt[i] = ss[i]
  <2>1. t \in Seq(S) /\ ss \in Seq(Seq(S))
    OBVIOUS
  <2>2. tt \in Seq(Seq(S)) /\ Len(tt) = n + 1 /\ tt[n + 1] = t
    BY <1>1, <2>1
  <2>3. \A i \in 1..n : tt[i] = ss[i]
    BY <1>1, <2>1
  <2> HIDE DEF tt
  <2> QED
    BY <2>2, <2>3
<1>3. PICK h \in [1..n -> Seq(S)] : FlatRec(h, ss, n)
  BY <1>1, FlatExists
<1> HIDE DEF tt
<1>4. FlatRec(h, tt, n)
  BY <1>2, <1>3 DEF FlatRec
<1>5. PICK k : FlatRec(k, tt, n + 1) /\ k[n+1] = IF n = 0 THEN t ELSE h[n] \o t
  <2>1. tt \in Seq(Seq(S)) /\ n \in Nat /\ n + 1 \in 1..Len(tt)
          /\ h \in [1..n -> Seq(S)] /\ FlatRec(h, tt, n)
    BY <1>2, <1>3, <1>4
  <2>2. \E k : /\ FlatRec(k, tt, n + 1) /\ k \in [1..n+1 -> Seq(S)]
               /\ k[n+1] = IF n = 0 THEN tt[n+1] ELSE h[n] \o tt[n+1]
    BY ONLY <2>1, FlatMore, ZenonT(90)
  <2> QED
    BY <1>2, <2>2
<1>6. X!FlattenSeq(tt) = k[n+1]
  <2>1. PICK m \in Nat : m = n + 1
    BY <1>2
  <2> QED
    BY <1>2, <1>5, <2>1, FlatIs
<1>7. CASE n = 0
  <2>1. ss = <<>>
    BY <1>1, <1>7, EmptySeq
  <2>2. X!FlattenSeq(ss) = <<>>
    BY <2>1 DEF X!FlattenSeq
  <2>3. X!FlattenSeq(tt) = t
    BY <1>5, <1>6, <1>7
  <2> QED
    BY <2>2, <2>3, ConcatEmptySeq DEF tt
<1>8. CASE n # 0
  <2>1. X!FlattenSeq(ss) = h[n]
    BY <1>1, <1>3, <1>8, FlatIs
  <2>2. h[n] \in Seq(S)
    BY <1>3, <1>8
  <2> QED
    BY <1>5, <1>6, <1>8, <2>1, <2>2 DEF tt
<1> QED
  BY <1>7, <1>8

Round == [id : {<<>>} \cup {<<n>> : n \in Nat}, participants : Seq(Request)]

Parts(rounds) == [i \in DOMAIN rounds |-> rounds[i].participants]

\* A round is numbered when the first one joins it, by the rounds before it, and
\* has nobody while it has no number: no round is mixed without one.
MixInv ==
  /\ joined \in Seq(Request) /\ completed \in Seq(Round) /\ current \in Round
  /\ X!FlattenSeq(Parts(completed)) \o current.participants = joined
  /\ \A i \in 1..Len(completed) :
       /\ completed[i].id = <<i - 1>>
       /\ Len(completed[i].participants) >= MinParticipants
  /\ \/ current.id = <<>> /\ current.participants = <<>>
     \/ current.id = <<Len(completed)>>

(* The participants of the rounds and of one more.                         *)
LEMMA PartsAppend ==
  ASSUME NEW rounds \in Seq(Round), NEW r \in Round
  PROVE  /\ Parts(rounds) \in Seq(Seq(Request))
         /\ Parts(Append(rounds, r)) = Append(Parts(rounds), r.participants)
<1> DEFINE more == Append(rounds, r)
<1>1. PICK n \in Nat : n = Len(rounds)
  OBVIOUS
<1>2. /\ more \in Seq(Round) /\ Len(more) = n + 1 /\ DOMAIN more = 1..n+1
      /\ DOMAIN rounds = 1..n /\ more[n+1] = r /\ \A i \in 1..n : more[i] = rounds[i]
  BY <1>1
<1>3. r.participants \in Seq(Request)
        /\ \A i \in 1..n : rounds[i].participants \in Seq(Request)
  <2>1. \A i \in 1..n : rounds[i] \in Round
    BY <1>1, ElementOfSeq
  <2> QED
    BY <2>1 DEF Round
<1> HIDE DEF more
<1>4. /\ Parts(rounds) \in Seq(Seq(Request)) /\ Len(Parts(rounds)) = n
      /\ \A i \in 1..n : Parts(rounds)[i] = rounds[i].participants
  BY <1>2, <1>3 DEF Parts
<1>5. /\ Parts(more) \in Seq(Seq(Request)) /\ Len(Parts(more)) = n + 1
      /\ \A i \in 1..n+1 : Parts(more)[i] = more[i].participants
  BY <1>2, <1>3 DEF Parts
<1> DEFINE p == Parts(rounds)
           q == Append(p, r.participants)
<1>6. /\ q \in Seq(Seq(Request)) /\ Len(q) = n + 1 /\ q[n+1] = r.participants
      /\ \A i \in 1..n : q[i] = p[i]
  <2> HIDE DEF p
  <2>1. p \in Seq(Seq(Request)) /\ Len(p) = n
    BY <1>4 DEF p
  <2> QED
    BY <1>3, <2>1
<1>7. ASSUME NEW i \in 1..n+1 PROVE Parts(more)[i] = q[i]
  <2>1. Parts(more)[i] = more[i].participants
    BY <1>5
  <2>2. CASE i = n + 1
    <3> HIDE DEF q
    <3> QED
      BY <1>2, <1>6, <2>1, <2>2
  <2>3. CASE i # n + 1
    <3>1. i \in 1..n
      BY <2>3
    <3>2. more[i] = rounds[i] /\ p[i] = rounds[i].participants
      BY <1>2, <1>4, <3>1
    <3> HIDE DEF q, p
    <3> QED
      BY <1>6, <2>1, <3>1, <3>2
  <2> QED
    BY <2>2, <2>3
<1>8. Parts(more) = q
  <2> HIDE DEF q
  <2> QED
    BY <1>5, <1>6, <1>7, SeqEqual
<1> QED
  BY <1>4, <1>8 DEF more

(* Nobody who joins is lost or mixed twice, and a mixed round frees no     *)
(* number.                                                                 *)
LEMMA MixStep ==
  ASSUME MixInv, [X!Next]_mixVars
  PROVE  MixInv'
<1> DEFINE flat == X!FlattenSeq(Parts(completed))
<1>1. /\ flat \in Seq(Request) /\ Len(completed) \in Nat
      /\ current.participants \in Seq(Request)
      /\ current.id \in {<<>>} \cup {<<n>> : n \in Nat}
  <2>1. completed \in Seq(Round) /\ current \in Round
    BY DEF MixInv
  <2>2. current.participants \in Seq(Request)
          /\ current.id \in {<<>>} \cup {<<n>> : n \in Nat}
    BY <2>1 DEF Round
  <2>3. Parts(completed) \in Seq(Seq(Request))
    BY <2>1, PartsAppend
  <2>4. flat \in Seq(Request)
    BY <2>2, <2>3, FlatAppend
  <2> QED
    BY <2>1, <2>2, <2>4
<1>2. ASSUME NEW r \in Request, X!JoinMix(r) PROVE MixInv'
  <2>1. /\ current' = [id |-> IF current.id = <<>> THEN <<Len(completed)>> ELSE current.id,
                       participants |-> Append(current.participants, r)]
        /\ joined' = Append(joined, r) /\ completed' = completed
    BY <1>2 DEF X!JoinMix, X!GenerateRoundId
  <2>2. joined' \in Seq(Request) /\ current' \in Round
    BY <1>1, <2>1 DEF MixInv, Round
  <2>3. flat \o Append(current.participants, r) = Append(flat \o current.participants, r)
    <3> HIDE DEF flat
    <3> QED
      BY <1>1
  <2>4. (X!FlattenSeq(Parts(completed)) \o current.participants)' = joined'
    BY <2>1, <2>3 DEF MixInv
  <2>5. current.id # <<>> => current.id = <<Len(completed)>>
    BY DEF MixInv
  <2> QED
    BY <2>1, <2>2, <2>4, <2>5 DEF MixInv
<1>3. ASSUME NEW id, X!ExecuteMix(id) PROVE MixInv'
  <2>1. /\ Len(current.participants) >= MinParticipants
        /\ completed' = Append(completed, current) /\ joined' = joined
        /\ current' = [id |-> <<>>, participants |-> <<>>]
    BY <1>3 DEF X!ExecuteMix, X!FreshRound
  <2>2. current.participants # <<>>
    BY <2>1, ServicesAssumption
  <2>3. current.id = <<Len(completed)>>
    BY <2>2 DEF MixInv
  <2>4. current' \in Round /\ completed' \in Seq(Round)
    BY <2>1 DEF MixInv, Round
  <2>5. X!FlattenSeq(Parts(Append(completed, current))) = flat \o current.participants
    BY PartsAppend, FlatAppend, <1>1 DEF MixInv
  <2>6. (X!FlattenSeq(Parts(completed)) \o current.participants)' = joined'
    BY <2>1, <2>5, ConcatEmptySeq DEF MixInv
  <2>7. ASSUME NEW i \in 1..Len(completed')
        PROVE  /\ completed'[i].id = <<i - 1>>
               /\ Len(completed'[i].participants) >= MinParticipants
    BY <1>1, <2>1, <2>3 DEF MixInv
  <2> QED
    BY <2>1, <2>4, <2>6, <2>7 DEF MixInv
<1>4. CASE UNCHANGED mixVars
  BY <1>4 DEF MixInv, mixVars, Parts
<1> QED
  BY <1>2, <1>3, <1>4 DEF X!Next

(* Everybody who joined is in one round, in the order they came, and no    *)
(* two rounds share an id (mixer.cpp:6-50).                                *)
THEOREM EverybodyMixedOnce == MCSpec => []MixedOnce
<1>1. X!Init => MixInv
  <2> SUFFICES ASSUME X!Init PROVE MixInv
    OBVIOUS
  <2>1. completed = <<>> /\ joined = <<>> /\ current = [id |-> <<>>, participants |-> <<>>]
    BY DEF X!Init, X!FreshRound
  <2>2. Parts(completed) = <<>>
    BY <2>1 DEF Parts
  <2>3. X!FlattenSeq(Parts(completed)) = <<>>
    BY <2>2 DEF X!FlattenSeq
  <2> QED
    BY <2>1, <2>3, ConcatEmptySeq DEF MixInv, Round
<1>2. MixInv /\ [X!Next]_mixVars => MixInv'
  BY MixStep
<1>3. MixInv => MixedOnce
  <2> SUFFICES ASSUME MixInv PROVE MixedOnce
    OBVIOUS
  <2> DEFINE rounds == Append(completed, current)
  <2>1. PICK n \in Nat : n = Len(completed)
    BY DEF MixInv
  <2>2. /\ DOMAIN rounds = 1..n+1 /\ DOMAIN completed = 1..n /\ rounds[n+1] = current
        /\ \A i \in 1..n : rounds[i] = completed[i]
    BY <2>1 DEF MixInv
  <2>3. X!FlattenSeq(Parts(rounds)) = joined
    BY PartsAppend, FlatAppend DEF MixInv, Round
  <2> HIDE DEF rounds
  <2>4. ASSUME NEW i \in 1..n, NEW j \in 1..n+1, rounds[i].id = rounds[j].id PROVE i = j
    <3>1. rounds[i].id = <<i - 1>>
      BY <2>1, <2>2 DEF MixInv
    <3>2. rounds[j].id = <<j - 1>> \/ rounds[j].id = <<>>
      <4>1. CASE j \in 1..n
        BY <2>1, <2>2, <4>1 DEF MixInv
      <4>2. CASE j = n + 1
        <5>1. rounds[j] = current /\ j - 1 = Len(completed)
          BY <2>1, <2>2, <4>2
        <5> QED
          BY <5>1 DEF MixInv
      <4> QED
        BY <4>1, <4>2
    <3> QED
      BY <2>4, <3>1, <3>2
  <2>5. \A i \in 1..n : Len(completed[i].participants) >= MinParticipants
    BY <2>1 DEF MixInv
  <2> QED
    BY <2>2, <2>3, <2>4, <2>5 DEF MixedOnce, X!MixedOnce, Parts, rounds
<1> QED
  BY <1>1, <1>2, <1>3, Composition, PTL

-----------------------------------------------------------------------------
(* The wire                                                                *)

\* What the frame of a message carries, the frames of messages one after the
\* other, and where the frame after the first n of them begins.
Body(m) == W!Fit(m.type) \o m.payload
Frames(ms) == [i \in 1..Len(ms) |-> W!Frame(ms[i])]
Flat(ms) == X!FlattenSeq(Frames(ms))
Start(ms, n) == Len(Flat(SubSeq(ms, 1, n)))

(* Types and payloads are sequences of bytes.                              *)
LEMMA MessagesTyped ==
  ASSUME NEW m \in Messages
  PROVE  /\ m.type \in Seq(Nat) /\ m.payload \in Seq(Nat)
         /\ W!Fit(m.type) \in Seq(Nat) /\ Len(W!Fit(m.type)) = TypeLen
         /\ Body(m) \in Seq(Nat) /\ Len(Body(m)) = TypeLen + Len(m.payload)
<1>1. m.type \in Seq(Nat) /\ m.payload \in Seq(Nat)
  BY WireAssumption
<1>2. TypeLen \in Nat
  BY WireAssumption
<1>3. W!Fit(m.type) \in Seq(Nat) /\ Len(W!Fit(m.type)) = TypeLen
  <2> DEFINE t == m.type
             fit == W!Fit(t)
  <2>1. fit = [i \in 1..TypeLen |-> IF i <= Len(t) THEN t[i] ELSE 0]
    BY DEF W!Fit, W!Pad
  <2>2. t \in Seq(Nat)
    BY <1>1
  <2> HIDE DEF t, fit
  <2>3. \A i \in 1..TypeLen : (IF i <= Len(t) THEN t[i] ELSE 0) \in Nat
    BY <1>2, <2>2
  <2>4. fit \in [1..TypeLen -> Nat]
    BY <2>1, <2>3
  <2>5. fit \in Seq(Nat) /\ Len(fit) = TypeLen
    BY <1>2, <2>4
  <2> QED
    BY <2>5 DEF fit, t
<1> DEFINE fit == W!Fit(m.type)
           pay == m.payload
<1>4. Body(m) = fit \o pay
  BY DEF Body
<1>5. fit \in Seq(Nat) /\ pay \in Seq(Nat) /\ Len(fit) = TypeLen
  BY <1>1, <1>3
<1>6. Body(m) \in Seq(Nat) /\ Len(Body(m)) = TypeLen + Len(pay)
  <2> HIDE DEF fit, pay
  <2>1. fit \o pay \in Seq(Nat) /\ Len(fit \o pay) = Len(fit) + Len(pay)
    BY <1>5, ConcatProperties
  <2> QED
    BY <1>4, <1>5, <2>1
<1> QED
  BY <1>1, <1>3, <1>6

(* The powers of the base of a length.                                     *)
LEMMA WirePowers ==
  IsPower(W!Power, Base) /\ \A n \in Nat : W!Power[n] \in Nat \ {0}
<1>1. IsPower(W!Power, Base)
  BY PowerDefined DEF W!Power
<1> QED
  BY <1>1, PowerPositive, WireAssumption

(* A frame is the digits of its body's length and its body.                *)
LEMMA FrameTyped ==
  ASSUME NEW m \in Messages
  PROVE  /\ W!Frame(m) \in Seq(Nat) /\ Len(W!Frame(m)) = HeaderLen + Len(Body(m))
         /\ \A i \in 1..HeaderLen :
              W!Frame(m)[i] = (Len(Body(m)) \div W!Power[i-1]) % Base
         /\ \A i \in 1..Len(Body(m)) : W!Frame(m)[HeaderLen + i] = Body(m)[i]
<1> DEFINE body == Body(m)
           head == [i \in 1..HeaderLen |-> (Len(body) \div W!Power[i-1]) % Base]
<1>1. HeaderLen \in Nat /\ Base \in Nat \ {0}
  BY WireAssumption
<1>2. W!Frame(m) = head \o body
  BY DEF W!Frame, Body
<1>3. body \in Seq(Nat)
  BY MessagesTyped
<1> HIDE DEF body
<1>4. ASSUME NEW i \in 1..HeaderLen PROVE (Len(body) \div W!Power[i-1]) % Base \in Nat
  <2>1. PICK p \in Nat \ {0} : p = W!Power[i-1]
    BY WirePowers, <1>1
  <2>2. PICK x \in Nat : x = Len(body)
    BY <1>3
  <2>3. x \div p \in Nat
    BY DivWord
  <2>4. (x \div p) % Base \in 0..Base-1
    BY <1>1, <2>3, DivMod
  <2> QED
    BY <1>1, <2>1, <2>2, <2>4
<1>5. head \in [1..HeaderLen -> Nat]
  BY <1>1, <1>4
<1>6. \A i \in 1..HeaderLen : head[i] = (Len(body) \div W!Power[i-1]) % Base
  OBVIOUS
<1> HIDE DEF head
<1>7. head \in Seq(Nat) /\ Len(head) = HeaderLen
  BY <1>1, <1>5
<1>9. \A i \in 1..Len(body) : HeaderLen + i \in 1..HeaderLen + Len(body)
                               /\ HeaderLen + i > HeaderLen /\ (HeaderLen + i) - HeaderLen = i
  BY <1>1, <1>3
<1>10. /\ head \o body \in Seq(Nat) /\ Len(head \o body) = Len(head) + Len(body)
       /\ \A i \in 1..Len(head) + Len(body) :
            (head \o body)[i] = IF i <= Len(head) THEN head[i] ELSE body[i - Len(head)]
  BY <1>3, <1>7, ConcatProperties
<1>8. /\ W!Frame(m) \in Seq(Nat) /\ Len(W!Frame(m)) = HeaderLen + Len(body)
      /\ \A i \in 1..HeaderLen : W!Frame(m)[i] = head[i]
      /\ \A i \in 1..Len(body) : W!Frame(m)[HeaderLen + i] = body[i]
  BY <1>1, <1>2, <1>3, <1>7, <1>9, <1>10
<1> QED
  BY <1>6, <1>8 DEF body

(* The sum of the instance is that of the library.                         *)
LEMMA WireSum ==
  ASSUME NEW f
  PROVE  W!SumFunction(f) = SumFunctionOnSet(f, DOMAIN f)
BY DEF W!SumFunction, W!SumFunctionOnSet, W!FoldFunctionOnSet, W!MapThenFoldSet,
       SumFunctionOnSet, FoldFunctionOnSet, MapThenFoldSet

(* A receiver that has the first bytes of a frame knows how long its body  *)
(* is (node.cpp:62-64, 183-190).                                            *)
LEMMA HeaderTells ==
  ASSUME NEW m \in Messages, NEW h,
         \A i \in 1..HeaderLen : h[i] = W!Frame(m)[i]
  PROVE  W!BodyLen(h) = Len(Body(m))
<1> DEFINE g == [i \in 1..HeaderLen |-> h[i] * W!Power[i-1]]
<1>1. HeaderLen \in Nat /\ Base \in Nat \ {0}
  BY WireAssumption
<1>2. PICK x \in Nat : x = Len(Body(m))
  BY MessagesTyped
<1>3. W!BodyLen(h) = SumFunctionOnSet(g, 1..HeaderLen)
  BY WireSum DEF W!BodyLen
<1>4. \A i \in 1..HeaderLen : g[i] = ((x \div W!Power[i-1]) % Base) * W!Power[i-1]
  BY <1>2, FrameTyped
<1> HIDE DEF g
<1>5. SumFunctionOnSet(g, 1..HeaderLen) = x % W!Power[HeaderLen]
  BY <1>1, <1>4, WirePowers, DigitsSum
<1>6. PICK p \in Nat \ {0} : p = W!Power[HeaderLen]
  BY <1>1, WirePowers
<1>7. x < p
  BY <1>2, <1>6, MessagesTyped, WireAssumption
<1>8. x % p = x
  BY <1>7, ModSmall
<1> QED
  BY <1>2, <1>3, <1>5, <1>6, <1>8

(* Whatever a header is, the length it says is a number.                   *)
LEMMA HeaderNumber ==
  ASSUME NEW h, \A i \in 1..HeaderLen : h[i] \in Nat
  PROVE  W!BodyLen(h) \in Nat
<1> DEFINE g == [i \in 1..HeaderLen |-> h[i] * W!Power[i-1]]
           N == 1..HeaderLen
<1>1. HeaderLen \in Nat
  BY WireAssumption
<1>2. W!BodyLen(h) = SumFunctionOnSet(g, N)
  BY WireSum DEF W!BodyLen
<1>3. ASSUME NEW i \in N PROVE g[i] \in Nat
  <2>1. W!Power[i-1] \in Nat /\ h[i] \in Nat
    BY <1>1, WirePowers
  <2> QED
    BY <2>1
<1>4. IsFiniteSet(N)
  BY <1>1, FS_Interval
<1> HIDE DEF g, N
<1> QED
  BY <1>2, <1>3, <1>4, SumStep

(* The frames of messages are sequences of bytes, put together in order.   *)
LEMMA FlatOne ==
  ASSUME NEW ms \in Seq(Messages), NEW m \in Messages
  PROVE  Flat(ms) \in Seq(Nat) /\ Flat(Append(ms, m)) = Flat(ms) \o W!Frame(m)
<1> DEFINE more == Append(ms, m)
           p == Frames(ms)
           q == Append(p, W!Frame(m))
<1>1. PICK n \in Nat : n = Len(ms)
  OBVIOUS
<1>2. /\ more \in Seq(Messages) /\ Len(more) = n + 1 /\ more[n+1] = m
      /\ \A i \in 1..n : more[i] = ms[i] /\ ms[i] \in Messages
  BY <1>1
<1>3. W!Frame(m) \in Seq(Nat) /\ \A i \in 1..n : W!Frame(ms[i]) \in Seq(Nat)
  BY <1>2, FrameTyped
<1> HIDE DEF more
<1>4. p \in Seq(Seq(Nat)) /\ Len(p) = n /\ \A i \in 1..n : p[i] = W!Frame(ms[i])
  <2>1. p = [i \in 1..n |-> W!Frame(ms[i])]
    BY <1>1 DEF Frames
  <2> HIDE DEF p
  <2>2. p \in [1..n -> Seq(Nat)]
    BY <1>3, <2>1
  <2> QED
    BY <1>1, <2>1, <2>2
<1>5. /\ Frames(more) = [i \in 1..n+1 |-> W!Frame(more[i])]
      /\ Frames(more) \in Seq(Seq(Nat)) /\ Len(Frames(more)) = n + 1
  <2>1. Frames(more) = [i \in 1..n+1 |-> W!Frame(more[i])]
    BY <1>2 DEF Frames
  <2>2. ASSUME NEW i \in 1..n+1 PROVE W!Frame(more[i]) \in Seq(Nat)
    <3>1. CASE i = n + 1
      BY <1>2, <1>3, <3>1
    <3>2. CASE i # n + 1
      <4>1. i \in 1..n
        BY <3>2
      <4> QED
        BY <1>2, <1>3, <4>1
    <3> QED
      BY <3>1, <3>2
  <2>3. Frames(more) \in [1..n+1 -> Seq(Nat)]
    BY <2>1, <2>2
  <2> QED
    BY <2>1, <2>3
<1>6. /\ q \in Seq(Seq(Nat)) /\ Len(q) = n + 1 /\ q[n+1] = W!Frame(m)
      /\ \A i \in 1..n : q[i] = p[i]
  <2> HIDE DEF p
  <2> QED
    BY <1>3, <1>4
<1>7. Frames(more) = q
  <2>1. ASSUME NEW i \in 1..n+1 PROVE Frames(more)[i] = q[i]
    <3> HIDE DEF p, q
    <3>1. CASE i = n + 1
      BY <1>2, <1>5, <1>6, <3>1
    <3>2. CASE i # n + 1
      <4>1. i \in 1..n
        BY <3>2
      <4> QED
        BY <1>2, <1>4, <1>5, <1>6, <4>1
    <3> QED
      BY <3>1, <3>2
  <2> HIDE DEF q
  <2> QED
    BY <1>5, <1>6, <2>1, SeqEqual
<1> HIDE DEF p
<1> QED
  BY <1>3, <1>4, <1>7, FlatAppend DEF Flat, more, p

(* The first n + 1 messages are the first n and one more.                  *)
LEMMA FlatStep ==
  ASSUME NEW ms \in Seq(Messages), NEW n \in Nat, n < Len(ms)
  PROVE  /\ Flat(SubSeq(ms, 1, n)) \in Seq(Nat) /\ Flat(SubSeq(ms, 1, n + 1)) \in Seq(Nat)
         /\ ms[n+1] \in Messages
         /\ Flat(SubSeq(ms, 1, n + 1)) = Flat(SubSeq(ms, 1, n)) \o W!Frame(ms[n+1])
<1> DEFINE few == SubSeq(ms, 1, n)
           more == SubSeq(ms, 1, n + 1)
           m == ms[n+1]
<1>1. PICK l \in Nat : l = Len(ms)
  OBVIOUS
<1>2. m \in Messages /\ n + 1 \in 1..l
  BY <1>1
<1>3. few \in Seq(Messages) /\ Len(few) = n /\ \A i \in 1..n : few[i] = ms[i]
  BY <1>1
<1>4. more \in Seq(Messages) /\ Len(more) = n + 1 /\ \A i \in 1..n+1 : more[i] = ms[i]
  BY <1>1
<1> HIDE DEF few, more
<1>5. more = Append(few, m)
  <2>1. PICK k \in 1..l : k = n + 1 /\ k - 1 = n /\ 1 \in 1..l /\ k \in 1..k
    BY <1>2
  <2>2. SubSeq(ms, 1, k) = SubSeq(ms, 1, k - 1) \o <<ms[k]>>
    BY <1>1, <2>1, SubSeqRecursiveSecond
  <2>3. Append(few, m) = few \o <<m>>
    BY <1>2, <1>3, AppendIsConcat
  <2> QED
    BY <2>1, <2>2, <2>3 DEF few, more
<1> HIDE DEF m
<1>6. Flat(few) \in Seq(Nat) /\ Flat(more) \in Seq(Nat)
  BY <1>2, <1>3, <1>4, FlatOne
<1>7. Flat(more) = Flat(few) \o W!Frame(m)
  BY <1>2, <1>3, <1>5, FlatOne
<1> QED
  BY <1>2, <1>6, <1>7 DEF few, more, m

(* The frames of the first n messages begin those of all of them.          *)
LEMMA FlatPrefix ==
  ASSUME NEW ms \in Seq(Messages), NEW n \in Nat, n <= Len(ms)
  PROVE  /\ Flat(ms) \in Seq(Nat) /\ Start(ms, Len(ms)) = Len(Flat(ms))
         /\ Flat(SubSeq(ms, 1, n)) \in Seq(Nat) /\ Start(ms, n) \in Nat
         /\ Start(ms, n) <= Len(Flat(ms))
         /\ \A j \in 1..Start(ms, n) : Flat(ms)[j] = Flat(SubSeq(ms, 1, n))[j]
<1>1. PICK l \in Nat : l = Len(ms)
  OBVIOUS
<1> DEFINE F(k) == Flat(SubSeq(ms, 1, k))
           Good(k) == /\ F(k) \in Seq(Nat) /\ F(n) \in Seq(Nat) /\ Len(F(n)) <= Len(F(k))
                      /\ \A j \in 1..Len(F(n)) : F(k)[j] = F(n)[j]
           Bad == {k \in n..l : ~Good(k)}
<1>2. \A k \in Nat : k <= l => SubSeq(ms, 1, k) \in Seq(Messages)
  BY <1>1
<1>3. \A k \in Nat : k <= l => F(k) \in Seq(Nat)
  <2> SUFFICES ASSUME NEW k \in Nat, k <= l PROVE F(k) \in Seq(Nat)
    OBVIOUS
  <2>1. SubSeq(ms, 1, k) \in Seq(Messages)
    BY <1>2
  <2>2. \E m : m \in Messages
    BY WireAssumption
  <2> QED
    BY <2>1, <2>2, FlatOne
<1>4. Bad = {}
  <2> SUFFICES ASSUME Bad # {} PROVE FALSE
    OBVIOUS
  <2>1. PICK k \in Bad : \A i \in Bad : k <= i
    <3>1. Bad \subseteq Nat
      OBVIOUS
    <3> HIDE DEF Bad
    <3> QED
      BY <3>1, NatMin
  <2>2. k # n
    <3>1. F(n) \in Seq(Nat)
      BY <1>1, <1>3
    <3>2. Len(F(n)) <= Len(F(n))
      <4> HIDE DEF F
      <4> QED
        BY <3>1
    <3>3. Good(n)
      BY <3>1, <3>2
    <3> QED
      BY <2>1, <3>3
  <2>3. PICK i \in n..l : k = i + 1 /\ i < l /\ Good(i)
    <3>1. k \in n..l /\ k - 1 \in n..l /\ k = (k - 1) + 1 /\ k - 1 < l /\ ~(k <= k - 1)
      BY <1>1, <2>1, <2>2
    <3>2. k - 1 \notin Bad
      BY <2>1, <3>1
    <3> HIDE DEF Good
    <3> QED
      BY <3>1, <3>2
  <2>4. i \in Nat /\ i < Len(ms)
    BY <1>1, <2>3
  <2>5. F(k) = F(i) \o W!Frame(ms[i+1]) /\ ms[i+1] \in Messages
    BY <2>3, <2>4, FlatStep
  <2>6. W!Frame(ms[i+1]) \in Seq(Nat)
    BY <2>5, FrameTyped
  <2>7. Good(i)
    BY <2>3
  <2> DEFINE s == F(i)
             t == W!Frame(ms[i+1])
             u == F(k)
             v == F(n)
  <2>8. /\ s \in Seq(Nat) /\ t \in Seq(Nat) /\ u = s \o t /\ v \in Seq(Nat)
        /\ Len(v) <= Len(s) /\ \A j \in 1..Len(v) : s[j] = v[j]
    BY <2>5, <2>6, <2>7
  <2>9. u \in Seq(Nat) /\ Len(v) <= Len(u) /\ \A j \in 1..Len(v) : u[j] = v[j]
    <3> HIDE DEF s, t, u, v
    <3>1. u \in Seq(Nat) /\ Len(u) = Len(s) + Len(t)
            /\ \A j \in 1..Len(s) : u[j] = s[j]
      BY <2>8
    <3>2. Len(s) \in Nat /\ Len(t) \in Nat /\ Len(v) \in Nat
      BY <2>8
    <3>3. \A j \in 1..Len(v) : j \in 1..Len(s)
      BY <2>8, <3>2
    <3> QED
      BY <2>8, <3>1, <3>2, <3>3
  <2> QED
    BY <2>1, <2>8, <2>9
<1>5. SubSeq(ms, 1, l) = ms
  BY <1>1, SubSeqFull
<1>6. Good(l)
  BY <1>1, <1>4
<1>7. F(l) = Flat(ms) /\ Start(ms, Len(ms)) = Len(F(l)) /\ Start(ms, n) = Len(F(n))
  BY <1>1, <1>5 DEF Start
<1>8. Len(F(n)) \in Nat
  <2> HIDE DEF F
  <2> QED
    BY <1>6
<1> HIDE DEF Bad, F
<1> QED
  BY <1>6, <1>7, <1>8 DEF F

(* The frame of a message is where the frames before it end.               *)
LEMMA FlatNth ==
  ASSUME NEW ms \in Seq(Messages), NEW n \in Nat, n < Len(ms)
  PROVE  /\ ms[n+1] \in Messages /\ Start(ms, n) \in Nat
         /\ Start(ms, n + 1) = Start(ms, n) + Len(W!Frame(ms[n+1]))
         /\ Start(ms, n + 1) <= Len(Flat(ms))
         /\ \A j \in 1..Len(W!Frame(ms[n+1])) :
              Flat(ms)[Start(ms, n) + j] = W!Frame(ms[n+1])[j]
<1> DEFINE s == Flat(SubSeq(ms, 1, n))
           t == Flat(SubSeq(ms, 1, n + 1))
           f == W!Frame(ms[n+1])
<1>1. n + 1 \in Nat /\ n + 1 <= Len(ms)
  OBVIOUS
<1>2. s \in Seq(Nat) /\ t \in Seq(Nat) /\ ms[n+1] \in Messages /\ t = s \o f
  BY FlatStep
<1>3. f \in Seq(Nat)
  BY <1>2, FrameTyped
<1>4. /\ Start(ms, n + 1) <= Len(Flat(ms))
      /\ \A j \in 1..Len(t) : Flat(ms)[j] = t[j]
  BY <1>1, FlatPrefix DEF Start
<1>5. Start(ms, n) = Len(s) /\ Start(ms, n + 1) = Len(t)
  BY DEF Start
<1> HIDE DEF s, t, f
<1>6. /\ Len(t) = Len(s) + Len(f) /\ Len(s) \in Nat /\ Len(f) \in Nat
      /\ \A j \in 1..Len(f) : t[Len(s) + j] = f[j]
  BY <1>2, <1>3
<1>7. ASSUME NEW j \in 1..Len(f) PROVE Flat(ms)[Len(s) + j] = f[j]
  <2>1. Len(s) + j \in 1..Len(t)
    BY <1>6
  <2> QED
    BY <1>4, <1>6, <2>1
<1> QED
  BY <1>2, <1>4, <1>5, <1>6, <1>7 DEF f

(* One message more leaves the frames before it where they are.            *)
LEMMA FlatMoreSent ==
  ASSUME NEW ms \in Seq(Messages), NEW m \in Messages
  PROVE  /\ Flat(ms) \in Seq(Nat) /\ Flat(Append(ms, m)) \in Seq(Nat)
         /\ Len(Flat(Append(ms, m))) = Len(Flat(ms)) + Len(W!Frame(m))
         /\ \A j \in 1..Len(Flat(ms)) : Flat(Append(ms, m))[j] = Flat(ms)[j]
         /\ \A j \in 1..Len(W!Frame(m)) :
              Flat(Append(ms, m))[Len(Flat(ms)) + j] = W!Frame(m)[j]
         /\ \A n \in Nat : n <= Len(ms) => Start(Append(ms, m), n) = Start(ms, n)
<1> DEFINE s == Flat(ms)
           t == Flat(Append(ms, m))
           f == W!Frame(m)
<1>1. s \in Seq(Nat) /\ t = s \o f /\ f \in Seq(Nat)
  BY FlatOne, FrameTyped
<1>2. ASSUME NEW n \in Nat, n <= Len(ms) PROVE Start(Append(ms, m), n) = Start(ms, n)
  <2>1. SubSeq(Append(ms, m), 1, n) = SubSeq(ms, 1, n)
    <3>1. CASE n = 0
      BY <3>1, SubSeqEmpty
    <3>2. CASE n # 0
      <4>1. Append(ms, m) = ms \o <<m>> /\ <<m>> \in Seq(Messages)
        BY AppendIsConcat
      <4>2. 1 \in 1..Len(ms) /\ n \in 1..Len(ms)
        BY <1>2, <3>2
      <4>3. SubSeq(ms \o <<m>>, 1, n) = SubSeq(ms, 1, n)
        BY <4>1, <4>2, SubSeqOfConcat1
      <4> QED
        BY <4>1, <4>3
    <3> QED
      BY <3>1, <3>2
  <2> QED
    BY <2>1 DEF Start
<1> HIDE DEF s, t, f
<1>3. /\ t \in Seq(Nat) /\ Len(t) = Len(s) + Len(f)
      /\ \A j \in 1..Len(s) : t[j] = s[j]
      /\ \A j \in 1..Len(f) : t[Len(s) + j] = f[j]
  BY <1>1
<1> QED
  BY <1>1, <1>2, <1>3 DEF s, t, f

(* All messages are the last one and those before it.                      *)
LEMMA FrontAndLast ==
  ASSUME NEW ms \in Seq(Messages), NEW l \in Nat, Len(ms) = l + 1
  PROVE  /\ W!Front(ms) \in Seq(Messages) /\ Len(W!Front(ms)) = l
         /\ ms[l+1] \in Messages /\ ms = Append(W!Front(ms), ms[l+1])
         /\ \A i \in 1..l : W!Front(ms)[i] = ms[i]
<1> DEFINE few == SubSeq(ms, 1, l)
           m == ms[l+1]
<1>1. W!Front(ms) = few
  BY DEF W!Front
<1>2. m \in Messages /\ l + 1 \in 1..l+1
  OBVIOUS
<1>3. few \in Seq(Messages) /\ Len(few) = l /\ \A i \in 1..l : few[i] = ms[i]
  OBVIOUS
<1>4. PICK k \in 1..Len(ms) : k = l + 1 /\ k - 1 = l /\ 1 \in 1..Len(ms) /\ k \in 1..k
  BY <1>2
<1>5. SubSeq(ms, 1, k) = SubSeq(ms, 1, k - 1) \o <<ms[k]>> /\ SubSeq(ms, 1, k) = ms
  BY <1>4, SubSeqRecursiveSecond, SubSeqFull
<1>6. Append(few, m) = few \o <<m>>
  <2> HIDE DEF few, m
  <2> QED
    BY <1>2, <1>3, AppendIsConcat
<1> QED
  BY <1>1, <1>2, <1>3, <1>4, <1>5, <1>6

\* The bytes st and what is left of the frames o go on in F behind its first a
\* bytes; when a frame was torn, st has the rest of F and anything after it.
Continues(F, a, st, o, t) ==
  /\ \A j \in 1..Len(st) : a + j <= Len(F) => st[j] = F[a + j]
  /\ t => Len(F) <= a + Len(st)
  /\ ~t /\ (\A s \in Sender : o[s] = <<>>) => a + Len(st) = Len(F)
  /\ ~t => \A s \in Sender : o[s] # <<>> =>
       /\ a + Len(st) + Len(o[s]) = Len(F)
       /\ \A j \in 1..Len(o[s]) : o[s][j] = F[a + Len(st) + j]

\* Where among the frames of what was sent the next byte of the stream belongs.
At == Start(sent, Len(delivered)) + IF reading.step = "body" THEN HeaderLen ELSE 0

WireTypes ==
  /\ out \in [Sender -> Seq(Nat)] /\ stream \in Seq(Nat) /\ sent \in Seq(Messages)
  /\ torn \in BOOLEAN /\ \E S : delivered \in Seq(S)
  /\ reading \in [step : {"header", "body", "answering", "closed"}, length : Nat]
  /\ reading.step = "header" => reading.length = HeaderLen

\* One thread at a time has a frame to send, the last one sent.
Sending ==
  \A s \in Sender : out[s] # <<>> =>
    /\ owner = <<s>>
    /\ ~torn => /\ Len(delivered) < Len(sent)
                /\ Len(out[s]) <= Len(W!Frame(sent[Len(sent)]))

\* What was delivered, and what the reader takes for the next body.
HandedOver ==
  /\ \A i \in 1..Len(delivered) : i <= Len(sent) => delivered[i] = W!Received(sent[i])
  /\ ~torn => Len(delivered) <= Len(sent)
  /\ reading.step = "body" =>
       /\ ~torn => Len(delivered) < Len(sent)
       /\ Len(delivered) < Len(sent)
            => reading.length = Len(Body(sent[Len(delivered) + 1]))

\* The stream, and what is being sent, go on where the reader is.
Follows ==
  reading.step \in {"header", "body"} /\ Len(delivered) <= Len(sent) =>
    Continues(Flat(sent), At, stream, out, torn)

WireInv == WireTypes /\ Sending /\ HandedOver /\ Follows

(* The parts of a sequence of bytes, and two of them put together.         *)
LEMMA Split ==
  ASSUME NEW p \in Seq(Nat), NEW k \in Nat, k <= Len(p)
  PROVE  /\ SubSeq(p, 1, k) \in Seq(Nat) /\ Len(SubSeq(p, 1, k)) = k
         /\ \A j \in 1..k : SubSeq(p, 1, k)[j] = p[j]
         /\ SubSeq(p, k + 1, Len(p)) \in Seq(Nat)
         /\ Len(SubSeq(p, k + 1, Len(p))) = Len(p) - k
         /\ \A j \in 1..Len(p)-k : SubSeq(p, k + 1, Len(p))[j] = p[k + j]
<1>1. PICK n \in Nat : n = Len(p)
  OBVIOUS
<1>2. k <= n /\ \A i \in 1..n : p[i] \in Nat
  BY <1>1
<1>3. \A i \in 1..k : p[i] \in Nat
  BY <1>2
<1>4. \A i \in k+1..n : p[i] \in Nat
  BY <1>2
<1>5. k + 1 \in Int /\ n - (k + 1) + 1 = n - k /\ (~(k + 1 <= n) => n - k = 0)
  BY <1>2
<1>6. /\ SubSeq(p, 1, k) \in Seq(Nat)
      /\ Len(SubSeq(p, 1, k)) = IF 1 <= k THEN k - 1 + 1 ELSE 0
      /\ \A j \in 1..k-1+1 : SubSeq(p, 1, k)[j] = p[1+j-1]
  BY <1>3, SubSeqProperties
<1>7. k - 1 + 1 = k /\ (~(1 <= k) => k = 0) /\ \A j \in 1..k : 1+j-1 = j
  OBVIOUS
<1>8. /\ SubSeq(p, 1, k) \in Seq(Nat) /\ Len(SubSeq(p, 1, k)) = k
      /\ \A j \in 1..k : SubSeq(p, 1, k)[j] = p[j]
  BY <1>6, <1>7
<1>9. /\ SubSeq(p, k + 1, n) \in Seq(Nat)
      /\ Len(SubSeq(p, k + 1, n)) = IF k + 1 <= n THEN n - (k + 1) + 1 ELSE 0
      /\ \A j \in 1..n-(k+1)+1 : SubSeq(p, k + 1, n)[j] = p[(k+1)+j-1]
  BY <1>4, <1>5, SubSeqProperties
<1>10. \A j \in 1..n-k : (k+1)+j-1 = k + j
  BY <1>2
<1>11. /\ SubSeq(p, k + 1, n) \in Seq(Nat) /\ Len(SubSeq(p, k + 1, n)) = n - k
       /\ \A j \in 1..n-k : SubSeq(p, k + 1, n)[j] = p[k + j]
  BY <1>5, <1>9, <1>10
<1> QED
  BY <1>1, <1>8, <1>11

(* See Split.                                                              *)
LEMMA Join ==
  ASSUME NEW p \in Seq(Nat), NEW q \in Seq(Nat)
  PROVE  /\ p \o q \in Seq(Nat) /\ Len(p \o q) = Len(p) + Len(q)
         /\ Len(p) \in Nat /\ Len(q) \in Nat
         /\ \A j \in 1..Len(p) : (p \o q)[j] = p[j]
         /\ \A j \in 1..Len(q) : (p \o q)[Len(p) + j] = q[j]
OBVIOUS

(* A call of send moves bytes from the frame to the stream.                *)
LEMMA SendContinues ==
  ASSUME NEW F \in Seq(Nat), NEW a \in Nat, NEW st \in Seq(Nat),
         NEW o \in [Sender -> Seq(Nat)], NEW t \in BOOLEAN,
         NEW s \in Sender, NEW k \in Nat, k >= 1, k <= Len(o[s]),
         \A r \in Sender : r # s => o[r] = <<>>,
         Continues(F, a, st, o, t)
  PROVE  Continues(F, a, st \o SubSeq(o[s], 1, k),
                   [o EXCEPT ![s] = SubSeq(@, k + 1, Len(@))], t)
<1> DEFINE p == o[s]
           head == SubSeq(p, 1, k)
           rest == SubSeq(p, k + 1, Len(p))
           su == st \o head
           ou == [o EXCEPT ![s] = SubSeq(@, k + 1, Len(@))]
<1>1. PICK l \in Nat : l = Len(st)
  OBVIOUS
<1>2. PICK n \in Nat : n = Len(p) /\ k <= n
  OBVIOUS
<1>3. p \in Seq(Nat) /\ p # <<>>
  OBVIOUS
<1>4. ou[s] = rest /\ \A r \in Sender : r # s => ou[r] = <<>>
  OBVIOUS
<1> HIDE DEF p, ou
<1>5. /\ head \in Seq(Nat) /\ Len(head) = k /\ \A j \in 1..k : head[j] = p[j]
      /\ rest \in Seq(Nat) /\ Len(rest) = n - k /\ \A j \in 1..n-k : rest[j] = p[k + j]
  BY <1>2, <1>3, Split
<1> HIDE DEF head, rest
<1>6. /\ su \in Seq(Nat) /\ Len(su) = l + k
      /\ \A j \in 1..l : su[j] = st[j]
      /\ \A j \in 1..k : su[l + j] = p[j]
  BY <1>1, <1>5, Join
<1> HIDE DEF su
<1>14. l \in Nat /\ n \in Nat /\ k <= n
  BY <1>1, <1>2
<1>7. ~t => a + l + n = Len(F) /\ \A j \in 1..n : p[j] = F[a + l + j]
  BY <1>1, <1>2, <1>3 DEF Continues, p
<1>8. /\ \A j \in 1..l : a + j <= Len(F) => st[j] = F[a + j]
      /\ t => Len(F) <= a + l
  BY <1>1 DEF Continues
<1>9. ASSUME NEW j \in 1..Len(su), a + j <= Len(F) PROVE su[j] = F[a + j]
  <2>1. CASE j <= l
    <3>1. j \in 1..l
      BY <1>1, <1>6, <1>9, <2>1
    <3> QED
      BY <1>6, <1>8, <1>9, <3>1
  <2>2. CASE j > l
    <3>1. PICK i \in 1..k : j = l + i
      <4>1. j \in 1..l+k
        BY <1>6, <1>9
      <4>2. j - l \in 1..k /\ j = l + (j - l)
        BY ONLY <2>2, <4>1, l \in Nat, k \in Nat
      <4> QED
        BY <4>2
    <3>2. ~t
      BY <1>1, <1>8, <1>9, <2>2
    <3>3. i \in 1..n /\ a + l + i = a + j
      BY <1>1, <1>2, <3>1
    <3> QED
      BY <1>6, <1>7, <3>1, <3>2, <3>3
  <2> QED
    BY <2>1, <2>2
<1>10. t => Len(F) <= a + Len(su)
  BY <1>6, <1>8
<1>11. ASSUME ~t, \A r \in Sender : ou[r] = <<>> PROVE a + Len(su) = Len(F)
  <2>1. Len(rest) = 0
    BY <1>4, <1>11
  <2>2. n - k = 0
    BY <1>5, <2>1
  <2>3. a + l + n = Len(F) /\ Len(su) = l + k /\ su \in Seq(Nat)
    BY <1>6, <1>7, <1>11
  <2> QED
    BY ONLY a \in Nat, k \in Nat, <1>14, <2>2, <2>3
<1>12. ASSUME ~t, NEW r \in Sender, ou[r] # <<>>
       PROVE  /\ a + Len(su) + Len(ou[r]) = Len(F)
              /\ \A j \in 1..Len(ou[r]) : ou[r][j] = F[a + Len(su) + j]
  <2>1. ou[r] = rest
    BY <1>4, <1>12
  <2>2. a + Len(su) + Len(rest) = Len(F)
    <3>1. a + l + n = Len(F) /\ Len(su) = l + k /\ Len(rest) = n - k
          /\ su \in Seq(Nat) /\ rest \in Seq(Nat)
      BY <1>5, <1>6, <1>7, <1>12
    <3>2. a + (l + k) + (n - k) = a + l + n
      BY <1>14
    <3> QED
      BY <3>1, <3>2
  <2>3. ASSUME NEW j \in 1..n-k PROVE rest[j] = F[a + Len(su) + j]
    <3>1. k + j \in 1..n /\ a + l + (k + j) = a + Len(su) + j
      <4>1. Len(su) = l + k /\ su \in Seq(Nat)
        BY <1>6
      <4> QED
        BY <1>1, <1>2, <4>1
    <3> QED
      BY <1>5, <1>7, <1>12, <3>1
  <2> QED
    BY <1>5, <2>1, <2>2, <2>3
<1>13. Continues(F, a, su, ou, t)
  BY <1>9, <1>10, <1>11, <1>12 DEF Continues
<1> QED
  BY <1>13 DEF su, ou, head, p

(* The reader takes bytes from the stream.                                 *)
LEMMA ReadContinues ==
  ASSUME NEW F \in Seq(Nat), NEW a \in Nat, NEW st \in Seq(Nat),
         NEW o \in [Sender -> Seq(Nat)], NEW t \in BOOLEAN,
         NEW k \in Nat, k <= Len(st), Continues(F, a, st, o, t)
  PROVE  /\ SubSeq(st, k + 1, Len(st)) \in Seq(Nat)
         /\ Continues(F, a + k, SubSeq(st, k + 1, Len(st)), o, t)
<1> DEFINE su == SubSeq(st, k + 1, Len(st))
<1>1. PICK l \in Nat : l = Len(st) /\ k <= l
  OBVIOUS
<1>2. su \in Seq(Nat) /\ Len(su) = l - k /\ \A j \in 1..l-k : su[j] = st[k + j]
  BY <1>1, Split
<1> HIDE DEF su
<1>3. (a + k) + Len(su) = a + Len(st)
  <2>1. (a + k) + (l - k) = a + l
    OBVIOUS
  <2>2. Len(su) = l - k /\ Len(st) = l
    BY <1>1, <1>2
  <2> QED
    BY ONLY <2>1, <2>2
<1>4. ASSUME NEW j \in 1..Len(su), (a + k) + j <= Len(F) PROVE su[j] = F[(a + k) + j]
  <2>1. k + j \in 1..l /\ a + (k + j) = (a + k) + j
    BY <1>1, <1>2
  <2> QED
    BY <1>1, <1>2, <1>4, <2>1 DEF Continues
<1>5. Continues(F, a + k, su, o, t)
  BY <1>3, <1>4 DEF Continues
<1> QED
  BY <1>2, <1>5 DEF su

(* Where the reader is, is a place among the bytes sent.                   *)
LEMMA AtTyped ==
  ASSUME WireInv, Len(delivered) <= Len(sent)
  PROVE  /\ Flat(sent) \in Seq(Nat) /\ Len(Flat(sent)) \in Nat
         /\ Start(sent, Len(delivered)) \in Nat /\ At \in Nat
<1>1. Len(delivered) \in Nat /\ sent \in Seq(Messages) /\ HeaderLen \in Nat
  BY WireAssumption DEF WireInv, WireTypes
<1>2. Flat(sent) \in Seq(Nat) /\ Start(sent, Len(delivered)) \in Nat
  BY <1>1, FlatPrefix
<1>3. Len(Flat(sent)) \in Nat
  BY <1>2
<1> QED
  BY <1>1, <1>2, <1>3 DEF At

(* A thread that gets the mutex finds nobody's frame half sent, and puts   *)
(* its own behind what the reader still has to read.                       *)
LEMMA CallKeeps ==
  ASSUME WireInv, NEW s \in Sender, NEW m \in Messages, W!Call(s, m)
  PROVE  WireInv'
<1> DEFINE f == W!Frame(m)
           n == Len(delivered)
<1>1. f \in Seq(Nat) /\ Len(f) >= 1 /\ f # <<>>
  <2>1. f \in Seq(Nat) /\ Len(f) = HeaderLen + Len(Body(m)) /\ Len(Body(m)) \in Nat
    BY FrameTyped, MessagesTyped
  <2>2. HeaderLen \in Nat /\ HeaderLen >= 1
    BY WireAssumption
  <2>3. Len(f) >= 1
    BY <2>1, <2>2
  <2> QED
    BY <2>1, <2>3
<1>2. /\ owner = <<>> /\ owner' = <<s>> /\ out' = [out EXCEPT ![s] = f]
      /\ sent' = IF torn THEN sent ELSE Append(sent, m)
      /\ stream' = stream /\ reading' = reading /\ torn' = torn /\ delivered' = delivered
  BY DEF W!Call
<1>3. \A r \in Sender : out[r] = <<>>
  BY <1>2 DEF WireInv, Sending
<1>4. /\ out \in [Sender -> Seq(Nat)] /\ stream \in Seq(Nat) /\ sent \in Seq(Messages)
      /\ torn \in BOOLEAN /\ n \in Nat
  BY DEF WireInv, WireTypes
<1> HIDE DEF f
<1>5. out'[s] = f /\ \A r \in Sender : r # s => out'[r] = <<>>
  BY <1>2, <1>3, <1>4
<1>6. WireTypes'
  <2>1. out' \in [Sender -> Seq(Nat)] /\ sent' \in Seq(Messages)
    BY <1>1, <1>2, <1>4
  <2> QED
    BY <1>2, <2>1 DEF WireInv, WireTypes
<1>7. CASE torn
  <2>1. sent' = sent
    BY <1>2, <1>7
  <2>2. Sending'
    BY <1>2, <1>5, <1>7 DEF Sending
  <2>3. HandedOver'
    BY <1>2, <2>1 DEF WireInv, HandedOver
  <2>4. ASSUME reading.step \in {"header", "body"}, n <= Len(sent)
        PROVE  Continues(Flat(sent), At, stream, out', torn)
    BY <1>7, <2>4 DEF WireInv, Follows, Continues
  <2>5. Follows'
    BY <1>2, <2>1, <2>4 DEF Follows, At
  <2> QED
    BY <1>6, <2>2, <2>3, <2>5 DEF WireInv
<1>8. CASE ~torn
  <2>1. sent' = Append(sent, m)
    BY <1>2, <1>8
  <2>2. PICK l \in Nat : l = Len(sent) /\ n <= l
    BY <1>4, <1>8 DEF WireInv, HandedOver
  <2>3. /\ Len(sent') = l + 1 /\ sent'[l + 1] = m
        /\ \A i \in 1..l : sent'[i] = sent[i]
    BY <1>4, <2>1, <2>2
  <2>4. Sending'
    <3>1. n < l + 1 /\ Len(f) <= Len(f)
      BY <1>1, <1>4, <2>2
    <3> QED
      BY <1>2, <1>5, <2>3, <3>1 DEF Sending, f
  <2>5. HandedOver'
    <3>1. reading.step = "body" => n < l /\ reading.length = Len(Body(sent[n + 1]))
      BY <1>8, <2>2 DEF WireInv, HandedOver
    <3>2. \A i \in 1..n : delivered[i] = W!Received(sent[i])
      <4>1. \A i \in 1..n : i <= Len(sent)
        BY <1>4, <2>2
      <4> QED
        BY <4>1 DEF WireInv, HandedOver
    <3>3. n <= l + 1 /\ (n < l => n < l + 1 /\ n + 1 \in 1..l) /\ \A i \in 1..n : i \in 1..l
      BY <1>4, <2>2
    <3> QED
      BY <1>2, <2>3, <3>1, <3>2, <3>3 DEF HandedOver
  <2>6. ASSUME reading.step \in {"header", "body"}
        PROVE  Continues(Flat(sent'), At, stream, out', torn)
    <3> DEFINE F == Flat(sent)
               H == Flat(sent')
    <3>1. F \in Seq(Nat) /\ Len(F) \in Nat /\ At \in Nat
      BY <2>2, AtTyped
    <3>2. /\ H \in Seq(Nat) /\ Len(H) = Len(F) + Len(f)
          /\ \A j \in 1..Len(F) : H[j] = F[j]
          /\ \A j \in 1..Len(f) : H[Len(F) + j] = f[j]
      BY <1>4, <2>1, FlatMoreSent DEF f
    <3>3. Continues(F, At, stream, out, torn)
      BY <2>2, <2>6 DEF WireInv, Follows
    <3> HIDE DEF F, H
    <3>4. At + Len(stream) = Len(F)
      BY <1>3, <1>8, <3>3 DEF Continues
    <3>5. ASSUME NEW j \in 1..Len(stream) PROVE stream[j] = H[At + j]
      <4>1. At + j \in 1..Len(F)
        BY <1>4, <3>1, <3>4
      <4>2. stream[j] = F[At + j]
        BY <3>3, <4>1 DEF Continues
      <4> QED
        BY <3>2, <4>1, <4>2
    <3>6. ASSUME NEW r \in Sender, out'[r] # <<>>
          PROVE  /\ At + Len(stream) + Len(out'[r]) = Len(H)
                 /\ \A j \in 1..Len(out'[r]) : out'[r][j] = H[At + Len(stream) + j]
      <4>1. out'[r] = f
        BY <1>5, <3>6
      <4> QED
        BY <3>2, <3>4, <4>1
    <3>7. out'[s] # <<>>
      BY <1>1, <1>5
    <3>8. Continues(H, At, stream, out', torn)
      BY <1>8, <3>5, <3>6, <3>7 DEF Continues
    <3> QED
      BY <3>8 DEF H
  <2>7. Start(sent', n) = Start(sent, n)
    BY <1>4, <2>1, <2>2, FlatMoreSent
  <2>8. Follows'
    BY <1>2, <2>6, <2>7 DEF Follows, At
  <2> QED
    BY <1>6, <2>4, <2>5, <2>8 DEF WireInv
<1> QED
  BY <1>4, <1>7, <1>8

(* The kernel takes a part of the frame.                                   *)
LEMMA SendKeeps ==
  ASSUME WireInv, NEW s \in Sender, W!Send(s)
  PROVE  WireInv'
<1>1. PICK k \in 1..Room :
        /\ k <= Len(out[s]) /\ stream' = stream \o SubSeq(out[s], 1, k)
        /\ out' = [out EXCEPT ![s] = SubSeq(@, k + 1, Len(@))]
  BY DEF W!Send
<1>2. /\ out[s] # <<>> /\ owner' = IF out'[s] = <<>> THEN <<>> ELSE owner
      /\ reading' = reading /\ sent' = sent /\ torn' = torn /\ delivered' = delivered
  BY DEF W!Send
<1>3. /\ out \in [Sender -> Seq(Nat)] /\ stream \in Seq(Nat) /\ sent \in Seq(Messages)
      /\ torn \in BOOLEAN /\ Len(delivered) \in Nat
  BY DEF WireInv, WireTypes
<1>4. k \in Nat /\ k >= 1
  BY <1>1, WireAssumption
<1> DEFINE p == out[s]
           rest == SubSeq(p, k + 1, Len(p))
<1>5. p \in Seq(Nat)
  BY <1>3
<1>6. /\ SubSeq(p, 1, k) \in Seq(Nat) /\ rest \in Seq(Nat) /\ Len(rest) <= Len(p)
  <2> HIDE DEF p
  <2>1. /\ SubSeq(p, 1, k) \in Seq(Nat) /\ rest \in Seq(Nat) /\ Len(rest) = Len(p) - k
    BY <1>1, <1>4, <1>5, Split DEF p
  <2>2. Len(p) \in Nat
    BY <1>5
  <2> HIDE DEF rest
  <2> QED
    BY <1>4, <2>1, <2>2
<1>7. owner = <<s>> /\ \A r \in Sender : r # s => out[r] = <<>>
  BY <1>2 DEF WireInv, Sending
<1>8. out'[s] = rest /\ \A r \in Sender : r # s => out'[r] = <<>>
  BY <1>1, <1>3, <1>7
<1>9. WireTypes'
  <2>1. stream' \in Seq(Nat)
    BY <1>1, <1>3, <1>6
  <2>2. out' \in [Sender -> Seq(Nat)]
    BY <1>1, <1>3, <1>6
  <2> QED
    BY <1>2, <2>1, <2>2 DEF WireInv, WireTypes
<1>10. Sending'
  <2>1. ASSUME NEW r \in Sender, out'[r] # <<>>
        PROVE  /\ owner' = <<r>>
               /\ ~torn => /\ Len(delivered) < Len(sent)
                           /\ Len(out'[r]) <= Len(W!Frame(sent[Len(sent)]))
    <3>1. r = s /\ out'[s] # <<>>
      BY <1>8, <2>1
    <3>2. ~torn => /\ Len(delivered) < Len(sent)
                   /\ Len(p) <= Len(W!Frame(sent[Len(sent)]))
      BY <1>2 DEF WireInv, Sending
    <3>3. ~torn => Len(rest) <= Len(W!Frame(sent[Len(sent)]))
      <4> SUFFICES ASSUME ~torn PROVE Len(rest) <= Len(W!Frame(sent[Len(sent)]))
        OBVIOUS
      <4>1. PICK l \in 1..Len(sent) : l = Len(sent)
        BY <1>3, <3>2
      <4>2. sent[l] \in Messages
        BY <1>3, <4>1
      <4>3. W!Frame(sent[l]) \in Seq(Nat)
        BY <4>2, FrameTyped
      <4>4. Len(W!Frame(sent[l])) \in Nat
        BY <4>3
      <4>5. Len(p) \in Nat /\ Len(rest) \in Nat
        <5> HIDE DEF p, rest
        <5> QED
          BY <1>5, <1>6
      <4> HIDE DEF p, rest
      <4> QED
        BY <1>6, <3>2, <4>1, <4>4, <4>5
    <3> QED
      BY <1>2, <1>7, <1>8, <3>1, <3>2, <3>3
  <2> QED
    BY <1>2, <2>1 DEF Sending
<1>11. HandedOver'
  BY <1>2 DEF WireInv, HandedOver
<1>12. ASSUME reading.step \in {"header", "body"}, Len(delivered) <= Len(sent)
       PROVE  Continues(Flat(sent), At, stream', out', torn)
  <2>1. Flat(sent) \in Seq(Nat) /\ At \in Nat
    BY <1>12, AtTyped
  <2>2. Continues(Flat(sent), At, stream, out, torn)
    BY <1>12 DEF WireInv, Follows
  <2> DEFINE F == Flat(sent)
             a == At
             st == stream
             o == out
             t == torn
  <2>3. /\ F \in Seq(Nat) /\ a \in Nat /\ st \in Seq(Nat) /\ o \in [Sender -> Seq(Nat)]
        /\ t \in BOOLEAN /\ k <= Len(o[s]) /\ \A r \in Sender : r # s => o[r] = <<>>
        /\ Continues(F, a, st, o, t)
    BY <1>1, <1>3, <1>7, <2>1, <2>2
  <2> HIDE DEF F, a, st, o, t
  <2>4. Continues(F, a, st \o SubSeq(o[s], 1, k),
                  [o EXCEPT ![s] = SubSeq(@, k + 1, Len(@))], t)
    BY <1>4, <2>3, SendContinues
  <2> QED
    BY <1>1, <2>4 DEF F, a, st, o, t
<1>13. Follows'
  BY <1>2, <1>12 DEF Follows, At
<1> QED
  BY <1>9, <1>10, <1>11, <1>13 DEF WireInv

(* A failed send takes the message back; the stream ends with whole frames *)
(* or from here on with a torn one.                                        *)
LEMMA FailKeeps ==
  ASSUME WireInv, NEW s \in Sender, W!SendFails(s)
  PROVE  WireInv'
<1> DEFINE n == Len(delivered)
           p == out[s]
<1>1. /\ p # <<>> /\ out' = [out EXCEPT ![s] = <<>>]
      /\ sent' = IF torn THEN sent ELSE W!Front(sent)
      /\ torn' = (torn \/ Len(p) < Len(W!Frame(sent[Len(sent)])))
      /\ stream' = stream /\ reading' = reading /\ delivered' = delivered
  BY DEF W!SendFails, W!Last
<1>2. /\ out \in [Sender -> Seq(Nat)] /\ stream \in Seq(Nat) /\ sent \in Seq(Messages)
      /\ torn \in BOOLEAN /\ n \in Nat /\ p \in Seq(Nat) /\ Len(p) \in Nat
      /\ Len(stream) \in Nat
  BY DEF WireInv, WireTypes
<1>3. \A r \in Sender : r # s => out[r] = <<>>
  BY <1>1 DEF WireInv, Sending
<1>4. \A r \in Sender : out'[r] = <<>>
  BY <1>1, <1>2, <1>3
<1>5. out' \in [Sender -> Seq(Nat)] /\ torn' \in BOOLEAN
  BY <1>1, <1>2
<1>6. Sending'
  BY <1>4 DEF Sending
<1>7. CASE torn
  <2>1. sent' = sent /\ torn'
    BY <1>1, <1>7
  <2>2. WireTypes'
    BY <1>1, <1>5, <2>1 DEF WireInv, WireTypes
  <2>3. HandedOver'
    BY <1>1, <1>7, <2>1 DEF WireInv, HandedOver
  <2>4. ASSUME reading.step \in {"header", "body"}, n <= Len(sent)
        PROVE  Continues(Flat(sent), At, stream, out', torn')
    BY <1>7, <2>1, <2>4 DEF WireInv, Follows, Continues
  <2>5. Follows'
    BY <1>1, <2>1, <2>4 DEF Follows, At
  <2> QED
    BY <1>6, <2>2, <2>3, <2>5 DEF WireInv
<1>8. CASE ~torn
  <2>1. n < Len(sent) /\ Len(p) <= Len(W!Frame(sent[Len(sent)]))
    BY <1>1, <1>8 DEF WireInv, Sending
  <2>2. PICK l \in Nat : Len(sent) = l + 1 /\ n <= l
    <3>1. Len(sent) - 1 \in Nat /\ Len(sent) = (Len(sent) - 1) + 1 /\ n <= Len(sent) - 1
      BY <1>2, <2>1
    <3> QED
      BY <3>1
  <2> DEFINE few == W!Front(sent)
             m == sent[l+1]
             f == W!Frame(m)
  <2>3. /\ few \in Seq(Messages) /\ Len(few) = l /\ m \in Messages
        /\ sent = Append(few, m) /\ \A i \in 1..l : few[i] = sent[i]
    BY <1>2, <2>2, FrontAndLast
  <2>4. sent' = few /\ torn' = (Len(p) < Len(f)) /\ Len(p) <= Len(f)
    BY <1>1, <1>8, <2>1, <2>2
  <2>5. f \in Seq(Nat) /\ Len(f) \in Nat
    BY <2>3, FrameTyped
  <2> HIDE DEF few, m, f
  <2>6. WireTypes'
    BY <1>1, <1>5, <2>3, <2>4 DEF WireInv, WireTypes
  <2> DEFINE F == Flat(sent)
             H == Flat(few)
  <2>7. /\ F \in Seq(Nat) /\ Len(F) \in Nat /\ H \in Seq(Nat) /\ Len(H) \in Nat
        /\ Len(F) = Len(H) + Len(f) /\ \A j \in 1..Len(H) : F[j] = H[j]
        /\ Start(few, n) = Start(sent, n) /\ Start(few, l) = Start(sent, l)
        /\ Start(few, l) = Len(H)
    <3>1. n \in Nat /\ n <= Len(few) /\ l <= Len(few)
      BY <1>2, <2>2, <2>3
    <3>2. /\ Flat(few) \in Seq(Nat) /\ Flat(Append(few, m)) \in Seq(Nat)
          /\ Len(Flat(Append(few, m))) = Len(Flat(few)) + Len(W!Frame(m))
          /\ \A j \in 1..Len(Flat(few)) : Flat(Append(few, m))[j] = Flat(few)[j]
          /\ \A k \in Nat : k <= Len(few) => Start(Append(few, m), k) = Start(few, k)
      BY <2>3, FlatMoreSent
    <3>3. Start(few, l) = Len(H)
      BY <2>3, FlatPrefix
    <3>4. Append(few, m) = sent
      BY <2>3
    <3>5. F \in Seq(Nat) /\ H \in Seq(Nat)
      BY <3>2, <3>4
    <3>6. Len(F) \in Nat /\ Len(H) \in Nat
      BY <3>5
    <3> QED
      BY <3>1, <3>2, <3>3, <3>4, <3>5, <3>6 DEF f
  <2>8. ASSUME reading.step \in {"header", "body"}
        PROVE  /\ Continues(F, At, stream, out, torn) /\ At \in Nat
               /\ At + Len(stream) + Len(p) = Len(H) + Len(f)
    <3>1. n <= Len(sent)
      BY <1>2, <2>2
    <3>2. Continues(F, At, stream, out, torn) /\ At \in Nat
      BY <2>8, <3>1, AtTyped DEF WireInv, Follows
    <3>3. At + Len(stream) + Len(p) = Len(F)
      BY <1>1, <1>8, <3>2 DEF Continues
    <3> QED
      BY <2>7, <3>2, <3>3
  <2> HIDE DEF F, H
  <2>9. HandedOver'
    <3>1. \A i \in 1..n : i <= l => i \in 1..l /\ i <= Len(sent)
      BY <1>2, <2>2
    <3>2. \A i \in 1..n : i <= l => delivered[i] = W!Received(few[i])
      BY <2>3, <3>1 DEF WireInv, HandedOver
    <3>3. ASSUME reading.step = "body", ~torn' PROVE n < l
      <4>1. SUFFICES ASSUME n = l PROVE FALSE
        BY <1>2, <2>2
      <4>2. At = Len(H) + HeaderLen
        BY <2>7, <3>3, <4>1 DEF At
      <4>3. At + Len(stream) + Len(p) = Len(H) + Len(f)
        BY <2>8, <3>3
      <4>4. ~(Len(p) < Len(f))
        BY <2>4, <3>3
      <4>5. HeaderLen \in Nat /\ HeaderLen > 0
        BY WireAssumption
      <4>6. PICK x \in Nat : x = Len(p)
        BY <1>2
      <4>7. PICK y \in Nat : y = Len(f)
        BY <2>5
      <4>8. PICK z \in Nat : z = Len(H)
        BY <2>7
      <4>9. PICK u \in Nat : u = Len(stream)
        BY <1>2
      <4>10. (z + HeaderLen) + u + x = z + y /\ ~(x < y)
        BY <4>2, <4>3, <4>4, <4>6, <4>7, <4>8, <4>9
      <4>11. x \in Nat /\ y \in Nat /\ z \in Nat /\ u \in Nat
        BY <4>6, <4>7, <4>8, <4>9
      <4> QED
        BY <4>5, <4>10, <4>11
    <3>4. reading.step = "body" /\ n < l => reading.length = Len(Body(few[n + 1]))
      <4>1. n < l => n + 1 \in 1..l /\ n < Len(sent)
        BY <1>2, <2>2
      <4> QED
        BY <2>3, <4>1 DEF WireInv, HandedOver
    <3> QED
      BY <1>1, <2>2, <2>3, <2>4, <3>2, <3>3, <3>4 DEF HandedOver
  <2>10. ASSUME reading.step \in {"header", "body"} PROVE Continues(H, At, stream, out', torn')
    <3>1. PICK x \in Nat : x = Len(p)
      BY <1>2
    <3>2. PICK y \in Nat : y = Len(f)
      BY <2>5
    <3>3. PICK z \in Nat : z = Len(H)
      BY <2>7
    <3>4. PICK u \in Nat : u = Len(stream)
      BY <1>2
    <3>5. At \in Nat /\ At + u + x = z + y /\ torn' = (x < y) /\ x <= y
      BY <2>4, <2>8, <2>10, <3>1, <3>2, <3>3, <3>4
    <3>6. /\ torn' => z <= At + u
          /\ ~torn' => At + u = z
      <4>1. x \in Nat /\ y \in Nat /\ z \in Nat /\ u \in Nat
        BY <3>1, <3>2, <3>3, <3>4
      <4>2. PICK w \in Nat : w = At
        BY <3>5
      <4>3. w + u + x = z + y /\ x <= y
        BY <3>5, <4>2
      <4>4. (x < y => z <= w + u) /\ (~(x < y) => w + u = z)
        BY <4>1, <4>3
      <4> QED
        BY <3>5, <4>2, <4>4
    <3>7. ASSUME NEW j \in 1..u, At + j <= z PROVE stream[j] = H[At + j]
      <4>1. At + j \in 1..z /\ At + j <= z + y
        BY <3>2, <3>3, <3>4, <3>5, <3>7
      <4>2. Len(F) = z + y
        BY <2>7, <3>2, <3>3
      <4>3. stream[j] = F[At + j]
        BY <2>8, <2>10, <3>4, <4>1, <4>2 DEF Continues
      <4> QED
        BY <2>7, <3>3, <4>1, <4>3
    <3> QED
      BY <1>4, <3>3, <3>4, <3>6, <3>7 DEF Continues
  <2>11. Follows'
    BY <1>1, <2>4, <2>7, <2>10 DEF Follows, At, H
  <2> QED
    BY <1>6, <2>6, <2>9, <2>11 DEF WireInv
<1> QED
  BY <1>2, <1>7, <1>8

(* A body that was framed is taken apart to its message.                   *)
LEMMA BodyParts ==
  ASSUME NEW m \in Messages, NEW b \in Seq(Nat), Len(b) = Len(Body(m)),
         \A i \in 1..Len(b) : b[i] = Body(m)[i]
  PROVE  W!Unframe(b) = W!Received(m)
<1> DEFINE t == W!Fit(m.type)
           p == m.payload
<1>1. /\ t \in Seq(Nat) /\ p \in Seq(Nat) /\ Len(t) = TypeLen /\ Body(m) = t \o p
      /\ TypeLen \in Nat
  BY MessagesTyped, WireAssumption DEF Body
<1> HIDE DEF t, p
<1>2. b = t \o p
  <2>1. t \o p \in Seq(Nat)
    BY <1>1
  <2> DEFINE q == t \o p
  <2>2. q \in Seq(Nat) /\ Len(b) = Len(q) /\ \A i \in 1..Len(b) : b[i] = q[i]
    BY <1>1, <2>1
  <2> HIDE DEF q
  <2>3. b = q
    BY <2>2, SeqEqual
  <2> QED
    BY <2>3 DEF q
<1>3. SubSeq(b, 1, TypeLen) = t /\ SubSeq(b, TypeLen + 1, Len(b)) = p
  BY <1>1, <1>2, ConcatSimplifications
<1> QED
  BY <1>3 DEF W!Unframe, W!Received, t, p

(* The header the reader takes is one of a message, or the last frame sent *)
(* was torn.                                                               *)
LEMMA HeaderKeeps ==
  ASSUME WireInv, W!RecvHeader
  PROVE  WireInv'
<1> DEFINE n == Len(delivered)
           h == SubSeq(stream, 1, HeaderLen)
           len == W!BodyLen(h)
<1>1. /\ reading.step = "header" /\ Len(stream) >= HeaderLen
      /\ reading' = IF len > MaxBody THEN [step |-> "closed", length |-> 0]
                                     ELSE [step |-> "body", length |-> len]
      /\ stream' = SubSeq(stream, HeaderLen + 1, Len(stream))
      /\ out' = out /\ owner' = owner /\ sent' = sent /\ torn' = torn
      /\ delivered' = delivered
  BY DEF W!RecvHeader, W!First, W!Rest
<1>2. /\ out \in [Sender -> Seq(Nat)] /\ stream \in Seq(Nat) /\ sent \in Seq(Messages)
      /\ torn \in BOOLEAN /\ n \in Nat
  BY DEF WireInv, WireTypes
<1>3. HeaderLen \in Nat /\ HeaderLen > 0
  BY WireAssumption
<1>4. /\ h \in Seq(Nat) /\ Len(h) = HeaderLen /\ \A j \in 1..HeaderLen : h[j] = stream[j]
      /\ stream' \in Seq(Nat)
  BY <1>1, <1>2, <1>3, Split
<1> HIDE DEF h
<1>5. len \in Nat
  BY <1>4, HeaderNumber
<1>6. WireTypes'
  <2>1. reading' \in [step : {"header", "body", "answering", "closed"}, length : Nat]
    BY <1>1, <1>5
  <2>2. reading'.step # "header"
    BY <1>1
  <2> QED
    BY <1>1, <1>4, <2>1, <2>2 DEF WireInv, WireTypes
<1>7. Sending'
  BY <1>1 DEF WireInv, Sending
<1>8. /\ \A i \in 1..n : i <= Len(sent) => delivered[i] = W!Received(sent[i])
      /\ ~torn => n <= Len(sent)
  BY DEF WireInv, HandedOver
<1>9. CASE len > MaxBody
  <2>1. reading'.step = "closed"
    BY <1>1, <1>9
  <2>2. HandedOver'
    BY <1>1, <1>8, <2>1 DEF HandedOver
  <2>3. Follows'
    BY <2>1 DEF Follows
  <2> QED
    BY <1>6, <1>7, <2>2, <2>3 DEF WireInv
<1>10. CASE ~(len > MaxBody)
  <2>1. reading'.step = "body" /\ reading'.length = len
    BY <1>1, <1>10
  <2> DEFINE F == Flat(sent)
  <2>2. ASSUME n <= Len(sent)
        PROVE  /\ F \in Seq(Nat) /\ Len(F) \in Nat /\ At \in Nat /\ At = Start(sent, n)
               /\ Continues(F, At, stream, out, torn)
    <3>1. At = Start(sent, n)
      BY <1>1, <2>2, AtTyped DEF At
    <3> QED
      BY <1>1, <2>2, <3>1, AtTyped DEF WireInv, Follows
  <2>3. ASSUME ~torn PROVE n < Len(sent)
    <3>1. SUFFICES ASSUME n = Len(sent) PROVE FALSE
      BY <1>2, <1>8, <2>3
    <3>2. \A s \in Sender : out[s] = <<>>
      BY <1>2, <2>3, <3>1 DEF WireInv, Sending
    <3>3. At + Len(stream) = Len(F)
      BY <2>2, <2>3, <3>1, <3>2 DEF Continues
    <3>4. At = Len(F)
      BY <1>2, <2>2, <3>1, FlatPrefix
    <3>5. PICK x \in Nat : x = Len(stream)
      BY <1>2
    <3>6. PICK a \in Nat : a = At
      BY <2>2, <3>1
    <3>7. a + x = a /\ x >= HeaderLen /\ x \in Nat /\ a \in Nat
      BY <1>1, <3>3, <3>4, <3>5, <3>6
    <3> QED
      BY <1>3, <3>7
  <2>4. ASSUME n < Len(sent) PROVE len = Len(Body(sent[n+1]))
    <3> DEFINE m == sent[n+1]
    <3>1. /\ m \in Messages /\ Start(sent, n) \in Nat
          /\ Start(sent, n + 1) = Start(sent, n) + Len(W!Frame(m))
          /\ Start(sent, n + 1) <= Len(F)
          /\ \A j \in 1..Len(W!Frame(m)) : F[Start(sent, n) + j] = W!Frame(m)[j]
      BY <1>2, <2>4, FlatNth
    <3>2. n <= Len(sent)
      BY <1>2, <2>4
    <3>3. PICK a \in Nat : a = At
      BY <2>2, <3>2
    <3>4. PICK x \in Nat : x = Len(W!Frame(m)) /\ x >= HeaderLen
      BY <1>3, <3>1, FrameTyped, MessagesTyped
    <3>5. PICK y \in Nat : y = Len(F)
      BY <2>2, <3>2
    <3>6. a + x <= y
      BY <2>2, <3>1, <3>2, <3>3, <3>4, <3>5
    <3>7. ASSUME NEW i \in 1..HeaderLen PROVE h[i] = W!Frame(m)[i]
      <4>1. i \in 1..x /\ a + i <= y
        BY <1>3, <3>3, <3>4, <3>5, <3>6
      <4>2. i \in 1..Len(stream)
        BY <1>1, <1>2, <1>3
      <4>3. stream[i] = F[a + i]
        BY <2>2, <3>2, <3>3, <3>5, <4>1, <4>2 DEF Continues
      <4>4. F[a + i] = W!Frame(m)[i]
        BY <2>2, <3>1, <3>2, <3>3, <3>4, <4>1
      <4> QED
        BY <1>4, <4>3, <4>4
    <3> HIDE DEF m, F
    <3>8. len = Len(Body(m))
      BY <3>1, <3>7, HeaderTells
    <3> QED
      BY <3>8 DEF m
  <2>5. HandedOver'
    BY <1>1, <1>8, <2>1, <2>3, <2>4 DEF HandedOver
  <2>6. ASSUME n <= Len(sent)
        PROVE  Continues(F, Start(sent, n) + HeaderLen, stream', out, torn)
    <3> DEFINE a == At
               o == out
               t == torn
               st == stream
    <3>1. /\ F \in Seq(Nat) /\ a \in Nat /\ st \in Seq(Nat) /\ o \in [Sender -> Seq(Nat)]
          /\ t \in BOOLEAN /\ HeaderLen <= Len(st) /\ Continues(F, a, st, o, t)
      BY <1>1, <1>2, <1>3, <2>2, <2>6
    <3> HIDE DEF F, a, o, t, st
    <3>2. Continues(F, a + HeaderLen, SubSeq(st, HeaderLen + 1, Len(st)), o, t)
      BY <1>3, <3>1, ReadContinues
    <3>3. a = Start(sent, n)
      BY <2>2, <2>6 DEF a
    <3> QED
      BY <1>1, <3>2, <3>3 DEF st, o, t
  <2>7. Follows'
    BY <1>1, <2>1, <2>6 DEF Follows, At
  <2> QED
    BY <1>6, <1>7, <2>5, <2>7 DEF WireInv
<1> QED
  BY <1>9, <1>10

(* A reader that answers a message reads nothing more.                     *)
LEMMA AnswerKeeps ==
  ASSUME WireInv, W!RecvBody, reading' = W!Answering
  PROVE  WireInv'
<1>1. /\ stream' = SubSeq(stream, reading.length + 1, Len(stream))
      /\ Len(stream) >= reading.length
      /\ reading' = [step |-> "answering", length |-> 0]
      /\ out' = out /\ owner' = owner /\ sent' = sent /\ torn' = torn
  BY DEF W!RecvBody, W!Rest, W!Answering
<1>2. delivered' = delivered
  BY DEF W!RecvBody, W!AwaitHeader, W!Answering
<1>3. stream' \in Seq(Nat)
  <2>1. stream \in Seq(Nat) /\ reading.length \in Nat
    BY DEF WireInv, WireTypes
  <2> QED
    BY <1>1, <2>1, Split
<1>4. WireTypes'
  BY <1>1, <1>2, <1>3 DEF WireInv, WireTypes
<1>5. Sending' /\ HandedOver' /\ Follows'
  BY <1>1, <1>2 DEF WireInv, Sending, HandedOver, Follows
<1> QED
  BY <1>4, <1>5 DEF WireInv

(* The body the reader takes is that of the next message, and what comes   *)
(* after it the next frame.                                                *)
LEMMA BodyKeeps ==
  ASSUME WireInv, W!RecvBody, reading' # W!Answering
  PROVE  WireInv'
<1> DEFINE n == Len(delivered)
           l == reading.length
           b == SubSeq(stream, 1, l)
           rest == SubSeq(stream, l + 1, Len(stream))
           x == W!Unframe(b)
           F == Flat(sent)
<1>1. /\ reading.step = "body" /\ Len(stream) >= l /\ stream' = rest
      /\ delivered' = IF l < TypeLen THEN delivered ELSE Append(delivered, x)
      /\ reading' = [step |-> "header", length |-> HeaderLen]
      /\ out' = out /\ owner' = owner /\ sent' = sent /\ torn' = torn
  BY DEF W!RecvBody, W!First, W!Rest, W!AwaitHeader, W!Answering
<1>2. /\ out \in [Sender -> Seq(Nat)] /\ stream \in Seq(Nat) /\ sent \in Seq(Messages)
      /\ torn \in BOOLEAN /\ n \in Nat /\ l \in Nat /\ Len(stream) \in Nat
  BY DEF WireInv, WireTypes
<1>3. HeaderLen \in Nat /\ TypeLen \in Nat
  BY WireAssumption
<1>4. /\ b \in Seq(Nat) /\ Len(b) = l /\ \A j \in 1..l : b[j] = stream[j]
      /\ rest \in Seq(Nat)
  <2>1. l \in Nat /\ l <= Len(stream)
    BY <1>1, <1>2
  <2> HIDE DEF l
  <2> QED
    BY <1>2, <2>1, Split
<1> HIDE DEF b, rest, x
<1>5. /\ Len(Append(delivered, x)) = n + 1 /\ Append(delivered, x)[n + 1] = x
      /\ \A i \in 1..n : Append(delivered, x)[i] = delivered[i]
  BY DEF WireInv, WireTypes
<1>6. \E S : delivered' \in Seq(S)
  <2>1. PICK S : delivered \in Seq(S)
    BY DEF WireInv, WireTypes
  <2>2. delivered \in Seq(S \cup {x})
    BY <2>1, SeqMonotonic
  <2>3. Append(delivered, x) \in Seq(S \cup {x})
    BY <2>2
  <2> QED
    BY <1>1, <2>1, <2>3
<1>7. WireTypes'
  BY <1>1, <1>3, <1>4, <1>6 DEF WireInv, WireTypes
<1>8. /\ \A i \in 1..n : i <= Len(sent) => delivered[i] = W!Received(sent[i])
      /\ ~torn => n < Len(sent)
      /\ n < Len(sent) => l = Len(Body(sent[n + 1]))
  BY <1>1 DEF WireInv, HandedOver
<1>9. ASSUME n <= Len(sent)
      PROVE  /\ F \in Seq(Nat) /\ Len(F) \in Nat /\ Start(sent, n) \in Nat
             /\ At \in Nat /\ At = Start(sent, n) + HeaderLen
             /\ Continues(F, At, stream, out, torn)
  BY <1>1, <1>9, AtTyped DEF WireInv, Follows, At
<1>10. CASE n < Len(sent)
  <2> DEFINE m == sent[n+1]
             f == W!Frame(m)
  <2>1. /\ m \in Messages /\ Start(sent, n + 1) = Start(sent, n) + Len(f)
        /\ Start(sent, n + 1) <= Len(F)
        /\ \A j \in 1..Len(f) : F[Start(sent, n) + j] = f[j]
    BY <1>2, <1>10, FlatNth
  <2>2. /\ f \in Seq(Nat) /\ Len(f) = HeaderLen + l
        /\ \A i \in 1..l : f[HeaderLen + i] = Body(m)[i]
        /\ Body(m) \in Seq(Nat) /\ l = Len(Body(m)) /\ l >= TypeLen
    <3>1. Len(Body(m)) = TypeLen + Len(m.payload) /\ Len(m.payload) \in Nat
            /\ Body(m) \in Seq(Nat)
      BY <2>1, MessagesTyped
    <3>2. l = Len(Body(m))
      BY <1>8, <1>10
    <3>3. l >= TypeLen
      BY <1>3, <3>1, <3>2
    <3> QED
      BY <2>1, <3>1, <3>2, <3>3, FrameTyped
  <2> HIDE DEF m, f, F, l
  <2>3. n <= Len(sent) /\ n + 1 <= Len(sent)
    BY <1>2, <1>10
  <2>4. /\ At \in Nat /\ At + l = Start(sent, n + 1) /\ At + l <= Len(F) /\ Len(F) \in Nat
        /\ Continues(F, At, stream, out, torn) /\ At = Start(sent, n) + HeaderLen
    <3>1. /\ At \in Nat /\ At = Start(sent, n) + HeaderLen /\ Len(F) \in Nat
          /\ Start(sent, n) \in Nat /\ Continues(F, At, stream, out, torn)
      BY <1>9, <2>3 DEF F
    <3>2. l \in Nat
      BY <1>2 DEF l
    <3>3. PICK u \in Nat : u = Start(sent, n)
      BY <3>1
    <3>4. Start(sent, n + 1) = u + (HeaderLen + l) /\ At = u + HeaderLen
      BY <2>1, <2>2, <3>1, <3>3
    <3>5. (u + HeaderLen) + l = u + (HeaderLen + l)
      BY <1>3, <3>2
    <3> QED
      BY <2>1, <3>1, <3>4, <3>5
  <2>5. ASSUME NEW i \in 1..l PROVE b[i] = Body(m)[i]
    <3>1. At + i <= Len(F) /\ i \in 1..Len(stream)
      BY <1>1, <1>2, <2>4 DEF l
    <3>2. stream[i] = F[At + i]
      BY <2>4, <3>1 DEF Continues
    <3>3. HeaderLen + i \in 1..Len(f) /\ Start(sent, n) + (HeaderLen + i) = At + i
      BY <1>2, <1>3, <1>9, <2>2, <2>3, <2>4
    <3>4. F[At + i] = f[HeaderLen + i]
      BY <2>1, <3>3
    <3> QED
      BY <1>4, <2>2, <3>2, <3>4
  <2>6. x = W!Received(m)
    <3>1. Len(b) = Len(Body(m)) /\ \A i \in 1..Len(b) : b[i] = Body(m)[i]
      BY <1>4, <2>2, <2>5
    <3> QED
      BY <1>4, <2>1, <3>1, BodyParts DEF x
  <2>7. delivered' = Append(delivered, x)
    <3>1. ~(l < TypeLen)
      BY <1>2, <1>3, <2>2
    <3> QED
      BY <1>1, <3>1 DEF l
  <2>8. HandedOver'
    <3>1. ASSUME NEW i \in 1..n+1, i <= Len(sent)
          PROVE  Append(delivered, x)[i] = W!Received(sent[i])
      <4>1. CASE i = n + 1
        BY <1>5, <2>6, <4>1 DEF m
      <4>2. CASE i # n + 1
        <5>1. i \in 1..n
          BY <1>2, <4>2
        <5> QED
          BY <1>5, <1>8, <3>1, <5>1
      <4> QED
        BY <4>1, <4>2
    <3> QED
      BY <1>1, <1>5, <2>3, <2>7, <3>1 DEF HandedOver
  <2>9. Continues(F, At + l, rest, out, torn)
    <3> DEFINE a == At
               o == out
               t == torn
               st == stream
    <3>1. /\ F \in Seq(Nat) /\ a \in Nat /\ st \in Seq(Nat) /\ o \in [Sender -> Seq(Nat)]
          /\ t \in BOOLEAN /\ l \in Nat /\ l <= Len(st) /\ Continues(F, a, st, o, t)
      BY <1>1, <1>2, <1>9, <2>3, <2>4 DEF l
    <3> HIDE DEF a, o, t, st
    <3>2. Continues(F, a + l, SubSeq(st, l + 1, Len(st)), o, t)
      BY <3>1, ReadContinues
    <3> QED
      BY <3>2 DEF rest, a, st, o, t
  <2>10. Sending'
    <3> SUFFICES ASSUME NEW s \in Sender, out[s] # <<>>, ~torn PROVE n + 1 < Len(sent)
      BY <1>1, <1>5, <2>7 DEF WireInv, Sending
    <3>1. SUFFICES ASSUME n + 1 = Len(sent) PROVE FALSE
      BY <1>2, <2>3
    <3>2. At + l = Len(F)
      <4>1. Start(sent, Len(sent)) = Len(F)
        BY <1>2, <2>3, FlatPrefix DEF F
      <4> QED
        BY <2>4, <3>1, <4>1
    <3>3. (At + l) + Len(rest) + Len(out[s]) = Len(F)
      BY <2>9 DEF Continues
    <3>4. out[s] \in Seq(Nat)
      BY <1>2
    <3>5. Len(out[s]) \in Nat /\ Len(out[s]) # 0 /\ Len(rest) \in Nat
      BY <1>4, <3>4
    <3>6. PICK y \in Nat : y = Len(F)
      BY <2>4
    <3>7. y + Len(rest) + Len(out[s]) = y
      BY <3>2, <3>3, <3>6
    <3>8. PICK u \in Nat : u = Len(rest)
      BY <3>5
    <3>9. PICK v \in Nat : v = Len(out[s])
      BY <3>5
    <3>10. v # 0 /\ y + u + v = y
      BY <3>5, <3>7, <3>8, <3>9
    <3> QED
      BY <3>10
  <2>11. Follows'
    <3>1. Len(delivered') = n + 1 /\ reading'.step = "header"
      BY <1>1, <1>5, <2>7
    <3>2. At' = At + l
      <4>1. At' = Start(sent, n + 1) + 0
        BY <1>1, <3>1 DEF At
      <4>2. At + l \in Nat
        BY <1>2, <2>4
      <4> QED
        BY <2>4, <4>1, <4>2
    <3> QED
      BY <1>1, <2>9, <3>2 DEF Follows, F
  <2> QED
    BY <1>7, <2>8, <2>10, <2>11 DEF WireInv
<1>11. CASE ~(n < Len(sent))
  <2>1. torn
    BY <1>8, <1>11
  <2>2. Sending'
    BY <1>1, <2>1 DEF WireInv, Sending
  <2>3. delivered' = delivered \/ delivered' = Append(delivered, x)
    BY <1>1
  <2>4. HandedOver'
    <3>1. reading'.step = "header"
      BY <1>1
    <3>2. ASSUME NEW i \in 1..Len(delivered'), i <= Len(sent)
          PROVE  delivered'[i] = W!Received(sent[i])
      <4>1. i \in 1..n
        BY <1>2, <1>5, <1>11, <2>3, <3>2
      <4> QED
        BY <1>5, <1>8, <2>3, <3>2, <4>1
    <3> QED
      BY <1>1, <2>1, <3>1, <3>2 DEF HandedOver
  <2>5. ASSUME Len(delivered') <= Len(sent) PROVE Continues(F, At', rest, out, torn)
    <3>1. n = Len(sent) /\ Len(delivered') = n
      BY <1>2, <1>5, <1>11, <2>3, <2>5
    <3>2. Len(F) \in Nat /\ Len(F) = Start(sent, n)
      BY <1>2, <3>1, FlatPrefix, <1>9
    <3>3. At' = Len(F)
      BY <1>1, <3>1, <3>2 DEF At
    <3>4. Len(rest) \in Nat
      BY <1>4
    <3>5. PICK y \in Nat : y = Len(F)
      BY <3>2
    <3>6. y <= y + Len(rest) /\ \A j \in 1..Len(rest) : ~(y + j <= y)
      BY <3>4
    <3> HIDE DEF F
    <3> QED
      BY <2>1, <3>3, <3>5, <3>6 DEF Continues
  <2>6. Follows'
    BY <1>1, <2>5 DEF Follows
  <2> QED
    BY <1>7, <2>2, <2>4, <2>6 DEF WireInv
<1> QED
  BY <1>10, <1>11

(* A reader that gives up reads nothing more.                              *)
LEMMA ShortKeeps ==
  ASSUME WireInv, W!RecvShort
  PROVE  WireInv'
<1>1. /\ reading' = [step |-> "closed", length |-> 0] /\ stream' = <<>>
      /\ out' = out /\ owner' = owner /\ sent' = sent /\ torn' = torn
      /\ delivered' = delivered
  BY DEF W!RecvShort
<1>2. WireTypes'
  BY <1>1 DEF WireInv, WireTypes
<1>3. Sending' /\ HandedOver' /\ Follows'
  BY <1>1 DEF WireInv, Sending, HandedOver, Follows
<1> QED
  BY <1>2, <1>3 DEF WireInv

(* Every step of the wire keeps the invariant.                             *)
LEMMA WireStep ==
  ASSUME WireInv, [W!WireNext]_wireVars
  PROVE  WireInv'
<1>1. CASE W!WireNext
  BY <1>1, CallKeeps, SendKeeps, FailKeeps, HeaderKeeps, BodyKeeps, AnswerKeeps, ShortKeeps
    DEF W!WireNext, W!WireRuns
<1>2. CASE UNCHANGED wireVars
  BY <1>2 DEF wireVars, WireInv, WireTypes, Sending, HandedOver, Follows, At
<1> QED
  BY <1>1, <1>2

(* A reader's handler is called with the messages in the order in which    *)
(* their senders got the mutex, each whole and once, whoever sends          *)
(* meanwhile, however the kernel cuts the bytes and whatever the sizes of   *)
(* headers and types, up to the first frame that was given up half-way      *)
(* (node.cpp:52-76, 183-217, 283-302).                                      *)
THEOREM WireInOrder == MCSpec => []DeliveredInOrder
<1>1. W!WireInit => WireInv
  <2> SUFFICES ASSUME W!WireInit PROVE WireInv
    OBVIOUS
  <2>1. /\ out = [s \in Sender |-> <<>>] /\ owner = <<>> /\ stream = <<>>
        /\ reading = [step |-> "header", length |-> HeaderLen] /\ sent = <<>>
        /\ torn = FALSE /\ delivered = <<>>
    BY DEF W!WireInit, W!AwaitHeader
  <2>2. WireTypes
    <3>1. out \in [Sender -> Seq(Nat)] /\ stream \in Seq(Nat) /\ sent \in Seq(Messages)
      BY <2>1
    <3>2. HeaderLen \in Nat /\ 0 \in Nat
      BY WireAssumption
    <3>3. reading \in [step : {"header", "body", "answering", "closed"}, length : Nat]
      BY <2>1, <3>2
    <3>4. delivered \in Seq(Nat)
      BY <2>1
    <3> QED
      BY <2>1, <3>1, <3>3, <3>4 DEF WireTypes
  <2>3. Sending /\ HandedOver
    BY <2>1 DEF Sending, HandedOver
  <2>4. At = 0 /\ Len(Flat(sent)) = 0
    <3>1. Frames(<<>>) = <<>>
      BY DEF Frames
    <3>2. Flat(<<>>) = <<>>
      BY <3>1 DEF Flat, X!FlattenSeq
    <3>3. SubSeq(sent, 1, 0) = <<>>
      BY SubSeqEmpty
    <3>4. Len(delivered) = 0 /\ Len(<<>>) = 0 /\ 0 + 0 = 0 /\ reading.step # "body"
      BY <2>1
    <3>5. Flat(sent) = <<>>
      BY <2>1, <3>2
    <3>6. Start(sent, 0) = 0
      BY <3>2, <3>3, <3>4 DEF Start
    <3> QED
      BY <3>4, <3>5, <3>6 DEF At
  <2>5. Follows
    BY <2>1, <2>4 DEF Follows, Continues
  <2> QED
    BY <2>2, <2>3, <2>5 DEF WireInv
<1>2. WireInv /\ [W!WireNext]_wireVars => WireInv'
  BY WireStep
<1>3. WireInv => DeliveredInOrder
  <2> SUFFICES ASSUME WireInv PROVE DeliveredInOrder
    OBVIOUS
  <2> DEFINE expected == [i \in DOMAIN sent |-> W!Received(sent[i])]
             d == delivered
  <2>1. PICK l \in Nat : l = Len(sent) /\ DOMAIN sent = 1..l
    BY DEF WireInv, WireTypes
  <2>2. PICK n \in Nat : n = Len(d)
    BY DEF WireInv, WireTypes
  <2>3. /\ Len(expected) = l
        /\ \A i \in 1..l : expected[i] = W!Received(sent[i])
    BY <2>1
  <2>4. /\ \A i \in 1..n : i <= l => d[i] = expected[i]
        /\ ~torn => n <= l
    BY <2>1, <2>2, <2>3 DEF WireInv, HandedOver
  <2>5. d = [i \in 1..n |-> d[i]]
    BY <2>2 DEF WireInv, WireTypes
  <2> HIDE DEF expected, d
  <2>6. CASE n <= l
    <3>1. SubSeq(d, 1, n) = SubSeq(expected, 1, n)
      BY <2>4, <2>6
    <3>2. W!IsPrefix(d, expected)
      BY <2>2, <2>3, <2>6, <3>1 DEF W!IsPrefix
    <3> QED
      BY <3>2 DEF DeliveredInOrder, W!DeliveredInOrder, expected, d
  <2>7. CASE ~(n <= l)
    <3>1. SubSeq(expected, 1, l) = SubSeq(d, 1, l)
      BY <2>4, <2>7
    <3>2. torn /\ W!IsPrefix(expected, d)
      BY <2>2, <2>3, <2>4, <2>7, <3>1 DEF W!IsPrefix
    <3> QED
      BY <3>2 DEF DeliveredInOrder, W!DeliveredInOrder, expected, d
  <2> QED
    BY <2>6, <2>7
<1> QED
  BY <1>1, <1>2, <1>3, Composition, PTL

-----------------------------------------------------------------------------
(* Routes *)

\* One more channel, one more round of the search and one more hop back.
Ringed(near, n, any) == L!Around(near)
Rings == INSTANCE Folding WITH Op <- Ringed
Searched(s, n, to) == L!Expand(s, to)
Hunt == INSTANCE Folding WITH Op <- Searched
Traced(hops, n, q) == L!Back(hops, q.from, q.parent)
Trace == INSTANCE Folding WITH Op <- Traced
Noted(s, nb, cur) == L!Note(s, nb, cur)
Notes == INSTANCE Folding WITH Op <- Noted

\* The elements of a sequence, and the addresses with a channel to a.
Elements(s) == {s[i] : i \in DOMAIN s}
Near(a) == Elements(L!Neighbours(a))

\* What is needed of a graph: its addresses are known ones.
GraphInv == \A a \in DOMAIN graph : a \in Party /\ graph[a] \in Seq(Party)

(* What is within n channels is found in n rounds.                         *)
LEMMA WithinRounds ==
  ASSUME NEW a
  PROVE  \E r : /\ r[0] = {a}
                /\ \A n \in Nat : r[n+1] = r[n] \cup UNION {Near(x) : x \in r[n]}
                /\ \A n \in Nat : L!Within(a, n) = r[n]
<1>1. PICK base : base = {a}
  OBVIOUS
<1>2. PICK r : r = Rings!Rounds(base, a)
  OBVIOUS
<1>3. r[0] = base /\ \A n \in Nat : r[n+1] = Ringed(r[n], n + 1, a)
  BY ONLY <1>2, Rings!RoundsDefined
<1>4. \A near : L!Around(near) = near \cup UNION {Near(x) : x \in near}
  BY DEF L!Around, Near, Elements, L!ToSet
<1>5. \A n \in Nat : L!Within(a, n) = r[n]
  BY <1>1, <1>2 DEF L!Within, Rings!Rounds, Ringed
<1> QED
  BY <1>1, <1>3, <1>4, <1>5 DEF Ringed

\* d is the distance from an address to those that can be reached from it.
IsDistance(d, from) ==
  /\ from \in DOMAIN d /\ d[from] = 0
  /\ \A a \in DOMAIN d :
       /\ d[a] \in Nat
       /\ d[a] = 0 => a = from
       /\ \A b \in Near(a) : b \in DOMAIN d /\ d[b] <= d[a] + 1
       /\ a # from => \E b \in DOMAIN d : a \in Near(b) /\ d[b] + 1 = d[a]
  /\ \A a, n : n \in Nat => (a \in L!Within(from, n) <=> a \in DOMAIN d /\ d[a] <= n)

(* There are such distances.                                               *)
LEMMA Distances ==
  ASSUME NEW from
  PROVE  \E d : IsDistance(d, from)
<1>1. PICK r : /\ r[0] = {from}
               /\ \A n \in Nat : r[n+1] = r[n] \cup UNION {Near(x) : x \in r[n]}
               /\ \A n \in Nat : L!Within(from, n) = r[n]
  BY WithinRounds
<1> DEFINE Times(a) == {n \in Nat : a \in r[n]}
           Least(a, n) == n \in Times(a) /\ \A m \in Times(a) : n <= m
           All == UNION {r[n] : n \in Nat}
           d == [a \in All |-> CHOOSE n : Least(a, n)]
<1>2. ASSUME NEW a \in DOMAIN d PROVE Least(a, d[a])
  <2>1. a \in All /\ d[a] = CHOOSE n : Least(a, n)
    BY <1>2
  <2>2. Times(a) \subseteq Nat /\ Times(a) # {}
    BY <2>1
  <2>3. \E n \in Times(a) : \A m \in Times(a) : n <= m
    <3> HIDE DEF Times
    <3> QED
      BY <2>2, NatMin
  <2>4. \E n : Least(a, n)
    BY <2>3
  <2> HIDE DEF Least, d
  <2> QED
    BY <2>1, <2>4
<1>3. ASSUME NEW a \in DOMAIN d
      PROVE  /\ d[a] \in Nat /\ a \in r[d[a]]
             /\ \A n \in Nat : a \in r[n] => d[a] <= n
  <2>1. Least(a, d[a])
    BY <1>2, <1>3
  <2> HIDE DEF d
  <2> QED
    BY <2>1
<1>4. ASSUME NEW n \in Nat, NEW a \in r[n] PROVE a \in DOMAIN d /\ d[a] <= n
  <2>1. a \in DOMAIN d
    BY <1>4
  <2> QED
    BY <1>3, <1>4, <2>1
<1> HIDE DEF d
<1>5. from \in DOMAIN d /\ d[from] = 0
  <2>1. 0 \in Nat /\ from \in r[0]
    BY <1>1
  <2>2. from \in DOMAIN d /\ d[from] <= 0
    BY <1>4, <2>1
  <2> QED
    BY <1>3, <2>2
<1>6. ASSUME NEW a \in DOMAIN d, d[a] = 0 PROVE a = from
  BY <1>1, <1>3, <1>6
<1>7. ASSUME NEW a \in DOMAIN d, NEW b \in Near(a) PROVE b \in DOMAIN d /\ d[b] <= d[a] + 1
  <2>1. PICK n : n = d[a] /\ n \in Nat /\ a \in r[n]
    BY <1>3, <1>7
  <2>2. b \in r[n+1] /\ n + 1 \in Nat
    BY <1>1, <1>7, <2>1
  <2> QED
    BY <1>4, <2>1, <2>2
<1>8. ASSUME NEW n \in Nat, NEW x \in r[n], NEW m \in Nat, n <= m PROVE x \in r[m]
  <2> DEFINE Bad == {k \in Nat : n <= k /\ x \notin r[k]}
  <2> SUFFICES ASSUME Bad # {} PROVE FALSE
    BY <1>8
  <2>1. PICK k \in Bad : \A l \in Bad : k <= l
    <3>1. Bad \subseteq Nat
      OBVIOUS
    <3> HIDE DEF Bad
    <3> QED
      BY <3>1, NatMin
  <2>2. k # n /\ k \in Nat /\ n <= k /\ x \notin r[k]
    BY <1>8, <2>1
  <2>3. PICK l \in Nat : k = l + 1 /\ n <= l
    BY <2>2
  <2>4. x \in r[l]
    BY <2>1, <2>3
  <2> QED
    BY <1>1, <2>2, <2>3, <2>4
<1>9. ASSUME NEW a \in DOMAIN d, a # from
      PROVE  \E b \in DOMAIN d : a \in Near(b) /\ d[b] + 1 = d[a]
  <2>1. PICK n \in Nat : n + 1 = d[a] /\ a \in r[n+1] /\ a \notin r[n]
    <3>1. PICK m \in Nat : m = d[a] /\ a \in r[m] /\ m # 0
      BY <1>3, <1>6, <1>9
    <3>2. m - 1 \in Nat /\ (m - 1) + 1 = m /\ ~(m <= m - 1)
      BY <3>1
    <3>3. a \notin r[m-1]
      BY <1>3, <3>1, <3>2
    <3> QED
      BY <3>1, <3>2, <3>3
  <2>2. PICK b \in r[n] : a \in Near(b)
    BY <1>1, <2>1
  <2>3. b \in DOMAIN d /\ d[b] <= n
    BY <1>4, <2>2
  <2>4. d[b] \in Nat /\ d[a] <= d[b] + 1
    BY <1>3, <1>7, <2>2, <2>3
  <2> QED
    BY <2>1, <2>2, <2>3, <2>4
<1>10. ASSUME NEW a, NEW n \in Nat
       PROVE  a \in L!Within(from, n) <=> a \in DOMAIN d /\ d[a] <= n
  <2>1. L!Within(from, n) = r[n]
    BY <1>1
  <2>2. ASSUME a \in DOMAIN d, d[a] <= n PROVE a \in r[n]
    BY <1>3, <1>8, <2>2
  <2> QED
    BY <1>4, <2>1, <2>2
<1>11. IsDistance(d, from)
  BY <1>3, <1>5, <1>6, <1>7, <1>9, <1>10 DEF IsDistance
<1> QED
  BY <1>11

\* A state of the search, and the addresses whose neighbours were looked at.
IsSearch(s) == DOMAIN s = {"queue", "parent"} /\ s.queue \in Seq(DOMAIN s.parent)
Done(s) == DOMAIN s.parent \ Elements(s.queue)

\* No element occurs twice after the first n places.
DistinctAfter(s, n) == \A i, j \in n+1..Len(s) : s[i] = s[j] => i = j

\* u is t with those of met that t did not know, as children of cur.
Spread(t, u, met, cur) ==
  LET n == Len(t.queue)
      new == met \ DOMAIN t.parent
  IN  /\ IsSearch(u) /\ n <= Len(u.queue) /\ DistinctAfter(u.queue, n)
      /\ \A i \in 1..n : u.queue[i] = t.queue[i]
      /\ \A i \in n+1..Len(u.queue) : u.queue[i] \in new
      /\ \A x \in new : \E i \in n+1..Len(u.queue) : u.queue[i] = x
      /\ DOMAIN u.parent = DOMAIN t.parent \cup met
      /\ \A a \in DOMAIN u.parent :
           u.parent[a] = IF a \in DOMAIN t.parent THEN t.parent[a] ELSE cur

(* One neighbour more (lightning.cpp:31-34).                               *)
LEMMA NoteSpreads ==
  ASSUME NEW t, IsSearch(t), NEW u, NEW met, NEW cur, Spread(t, u, met, cur), NEW x
  PROVE  Spread(t, L!Note(u, x, cur), met \cup {x}, cur)
<1> DEFINE v == L!Note(u, x, cur)
<1>1. CASE x \in DOMAIN u.parent
  <2>1. v = u
    BY <1>1 DEF L!Note
  <2>2. (met \cup {x}) \ DOMAIN t.parent = met \ DOMAIN t.parent
    BY <1>1 DEF Spread
  <2>3. DOMAIN t.parent \cup (met \cup {x}) = DOMAIN t.parent \cup met
    BY <1>1 DEF Spread
  <2> HIDE DEF v
  <2>4. Spread(t, u, met \cup {x}, cur)
    BY <2>2, <2>3 DEF Spread
  <2> QED
    BY <2>1, <2>4 DEF v
<1>2. CASE x \notin DOMAIN u.parent
  <2>1. /\ v.queue = Append(u.queue, x) /\ DOMAIN v = {"queue", "parent"}
        /\ DOMAIN v.parent = DOMAIN u.parent \cup {x}
        /\ v.parent[x] = cur
        /\ \A a \in DOMAIN u.parent : v.parent[a] = u.parent[a]
    BY <1>2 DEF L!Note, L!Pushed
  <2> HIDE DEF v
  <2>2. PICK n \in Nat : n = Len(t.queue)
    BY DEF IsSearch
  <2>3. PICK l \in Nat : l = Len(u.queue) /\ n <= l
    BY <2>2 DEF Spread, IsSearch
  <2>4. u.queue \in Seq(DOMAIN u.parent) /\ DOMAIN u.parent = DOMAIN t.parent \cup met
    BY DEF Spread, IsSearch
  <2>5. /\ Len(v.queue) = l + 1 /\ v.queue[l+1] = x
        /\ \A i \in 1..l : v.queue[i] = u.queue[i]
    BY <2>1, <2>3, <2>4
  <2>6. IsSearch(v)
    BY <2>1, <2>4 DEF IsSearch
  <2>7. DistinctAfter(v.queue, n)
    <3> SUFFICES ASSUME NEW i \in n+1..l+1, NEW j \in n+1..l+1, v.queue[i] = v.queue[j]
                 PROVE  i = j
      BY <2>5 DEF DistinctAfter
    <3>1. \A k \in 1..l : u.queue[k] # x
      BY <1>2, <2>3, <2>4
    <3>2. \A k, m \in n+1..l : u.queue[k] = u.queue[m] => k = m
      BY <2>2, <2>3 DEF Spread, DistinctAfter
    <3>3. CASE i = l + 1 \/ j = l + 1
      <4>1. ASSUME NEW k \in n+1..l PROVE k \in 1..l /\ v.queue[k] # x
        <5>1. k \in 1..l
          OBVIOUS
        <5> QED
          BY <2>5, <3>1, <5>1
      <4>2. CASE i = l + 1 /\ j # l + 1
        <5>1. j \in n+1..l
          BY <4>2
        <5> QED
          BY <2>5, <4>1, <4>2, <5>1
      <4>3. CASE j = l + 1 /\ i # l + 1
        <5>1. i \in n+1..l
          BY <4>3
        <5> QED
          BY <2>5, <4>1, <4>3, <5>1
      <4>4. CASE i = l + 1 /\ j = l + 1
        BY <4>4
      <4> QED
        BY <3>3, <4>2, <4>3, <4>4
    <3>4. CASE i # l + 1 /\ j # l + 1
      <4>1. i \in n+1..l /\ j \in n+1..l /\ i \in 1..l /\ j \in 1..l
        BY <3>4
      <4> QED
        BY <2>5, <3>2, <4>1
    <3> QED
      BY <3>3, <3>4
  <2>8. x \notin DOMAIN t.parent /\ x \notin met
    BY <1>2, <2>4
  <2> DEFINE new == met \ DOMAIN t.parent
             more == (met \cup {x}) \ DOMAIN t.parent
  <2>9. more = new \cup {x}
    BY <2>8
  <2> HIDE DEF new, more
  <2>10. /\ \A i \in 1..n : u.queue[i] = t.queue[i]
         /\ \A i \in n+1..l : u.queue[i] \in new
         /\ \A y \in new : \E i \in n+1..l : u.queue[i] = y
    BY <2>2, <2>3 DEF Spread, new
  <2>11. \A i \in 1..n : v.queue[i] = t.queue[i]
    BY <2>3, <2>5, <2>10
  <2>12. \A i \in n+1..l+1 : v.queue[i] \in more
    <3> TAKE i \in n+1..l+1
    <3>1. i = l + 1 \/ (i \in n+1..l /\ i \in 1..l)
      OBVIOUS
    <3> QED
      BY <2>5, <2>9, <2>10, <3>1
  <2>13. \A y \in more : \E i \in n+1..l+1 : v.queue[i] = y
    <3> TAKE y \in more
    <3>1. CASE y = x
      <4>1. l + 1 \in n+1..l+1
        BY <2>3
      <4> QED
        BY <2>5, <3>1, <4>1
    <3>2. CASE y # x
      <4>1. PICK i \in n+1..l : u.queue[i] = y
        BY <2>9, <2>10, <3>2
      <4>2. i \in n+1..l+1 /\ i \in 1..l
        OBVIOUS
      <4> QED
        BY <2>5, <4>1, <4>2
    <3> QED
      BY <3>1, <3>2
  <2>14. DOMAIN v.parent = DOMAIN t.parent \cup (met \cup {x})
    BY <2>1, <2>4
  <2>15. \A a \in DOMAIN v.parent :
           v.parent[a] = IF a \in DOMAIN t.parent THEN t.parent[a] ELSE cur
    <3> TAKE a \in DOMAIN v.parent
    <3>1. CASE a = x
      BY <2>1, <2>8, <3>1
    <3>2. CASE a # x
      <4>1. a \in DOMAIN u.parent
        BY <2>1, <3>2
      <4> QED
        BY <2>1, <4>1 DEF Spread
    <3> QED
      BY <3>1, <3>2
  <2>16. Spread(t, v, met \cup {x}, cur)
    <3>1. n <= l + 1
      BY <2>3
    <3> QED
      BY <2>2, <2>5, <2>6, <2>7, <2>11, <2>12, <2>13, <2>14, <2>15, <3>1 DEF Spread, more
  <2> QED
    BY <2>16 DEF v
<1> QED
  BY <1>1, <1>2

\* What the search makes of n neighbours s, one after the other.
NotedInOrder(base, s, cur, n) ==
  \E h : /\ h[0] = base
         /\ \A i \in 1..n : h[i] = Noted(h[i-1], s[i], cur)
         /\ Notes!Fold(base, s, cur) = h[n]

(* One neighbour after the other.                                          *)
LEMMA NotedPlaces ==
  ASSUME NEW base, NEW s, NEW cur, NEW n \in Nat, DOMAIN s = 1..n
  PROVE  NotedInOrder(base, s, cur, n)
  BY ONLY Notes!FoldPlaces, n \in Nat, DOMAIN s = 1..n DEF NotedInOrder

\* The head of the queue is taken.
Taken(s) == [s EXCEPT !.queue = Tail(@)]

(* A round of the search spreads from the head of the queue                *)
(* (lightning.cpp:27-35).                                                   *)
LEMMA RoundSpreads ==
  ASSUME GraphInv, NEW s, IsSearch(s), NEW to, s.queue # <<>>, NEW cur, cur = Head(s.queue),
         cur # to
  PROVE  Spread(Taken(s), L!Expand(s, to), Near(cur), cur)
<1> DEFINE t == Taken(s)
           near == L!Neighbours(cur)
<1>1. IsSearch(t)
  <2>1. /\ DOMAIN t = {"queue", "parent"} /\ t.queue = Tail(s.queue)
        /\ t.parent = s.parent
    BY DEF IsSearch, Taken
  <2>2. Tail(s.queue) \in Seq(DOMAIN s.parent)
    BY DEF IsSearch
  <2> HIDE DEF t
  <2> QED
    BY <2>1, <2>2 DEF IsSearch
<1> HIDE DEF t
<1>2. PICK n \in Nat : DOMAIN near = 1..n
  <2>1. near \in Seq(Party)
    BY DEF GraphInv, L!Neighbours
  <2> HIDE DEF near
  <2> QED
    BY <2>1
<1>3. L!Expand(s, to) = Notes!Fold(t, near, cur)
  BY DEF L!Expand, L!FoldLeft, L!MapThenFoldSet, L!Max, Notes!Fold, Notes!Last, Noted, t,
         Taken
<1> HIDE DEF near
<1>4. PICK h : /\ h[0] = t
               /\ \A i \in 1..n : h[i] = Noted(h[i-1], near[i], cur)
               /\ Notes!Fold(t, near, cur) = h[n]
  <2>1. NotedInOrder(t, near, cur, n)
    BY <1>2, NotedPlaces
  <2> QED
    BY <2>1 DEF NotedInOrder
<1> DEFINE First(i) == {near[j] : j \in 1..i}
           Bad == {i \in 0..n : ~Spread(t, h[i], First(i), cur)}
<1>5. Bad = {}
  <2> SUFFICES ASSUME Bad # {} PROVE FALSE
    OBVIOUS
  <2>1. PICK i \in Bad : \A j \in Bad : i <= j
    <3>1. Bad \subseteq Nat
      OBVIOUS
    <3> HIDE DEF Bad
    <3> QED
      BY <3>1, NatMin
  <2>2. i \in 0..n /\ ~Spread(t, h[i], First(i), cur)
    BY <2>1
  <2>3. CASE i = 0
    <3>1. First(0) = {}
      OBVIOUS
    <3> HIDE DEF First
    <3>2. Spread(t, t, {}, cur)
      <4>1. Len(t.queue) \in Nat
        BY <1>1 DEF IsSearch
      <4> QED
        BY <1>1, <4>1 DEF Spread, DistinctAfter
    <3> QED
      BY <1>4, <2>2, <2>3, <3>1, <3>2
  <2>4. CASE i # 0
    <3>1. PICK j \in 0..n : i = j + 1 /\ j \notin Bad /\ i \in 1..n
      <4>1. i - 1 \in 0..n /\ i = (i - 1) + 1 /\ ~(i <= i - 1) /\ i \in 1..n
        BY <2>2, <2>4
      <4> HIDE DEF Bad
      <4> QED
        BY <2>1, <4>1
    <3>2. Spread(t, h[j], First(j), cur)
      BY <3>1
    <3>3. h[i] = L!Note(h[j], near[i], cur)
      <4>1. i - 1 = j
        BY <3>1
      <4> QED
        BY <1>4, <3>1, <4>1 DEF Noted
    <3>4. First(i) = First(j) \cup {near[i]}
      <4>1. 1..i = 1..j \cup {i}
        BY <3>1
      <4> QED
        BY <4>1
    <3> HIDE DEF First, Bad
    <3>5. Spread(t, L!Note(h[j], near[i], cur), First(j) \cup {near[i]}, cur)
      BY <1>1, <3>2, NoteSpreads
    <3> QED
      BY <2>2, <3>3, <3>4, <3>5
  <2> QED
    BY <2>3, <2>4
<1>6. Spread(t, h[n], First(n), cur)
  <2>1. n \in 0..n
    OBVIOUS
  <2> HIDE DEF First
  <2> QED
    BY <1>5, <2>1
<1>7. First(n) = Near(cur)
  BY <1>2 DEF Near, Elements, near
<1> HIDE DEF First
<1> QED
  BY <1>3, <1>4, <1>6, <1>7 DEF t

\* What is known of the search after n rounds: everything found is as far from
\* the payer as its parents say, the queue holds what is found and not done, in
\* the order of distance, and all that is nearer than its head is done.
Parents(s, from, d) ==
  \A a \in DOMAIN s.parent : a # from =>
    /\ s.parent[a] \in DOMAIN s.parent /\ a \in Near(s.parent[a])
    /\ d[s.parent[a]] + 1 = d[a]

Sorted(q, d) ==
  \A i, j \in 1..Len(q) : i <= j => d[q[i]] <= d[q[j]] /\ d[q[j]] <= d[q[1]] + 1

NearerDone(s, d) ==
  s.queue # <<>> => \A x \in DOMAIN d : d[x] < d[s.queue[1]] => x \in Done(s)

Hunted(s, n, from, to, d) ==
  /\ IsSearch(s) /\ from \in DOMAIN s.parent
  /\ DOMAIN s.parent \subseteq Party \cap DOMAIN d
  /\ DistinctAfter(s.queue, 0) /\ Sorted(s.queue, d)
  /\ Parents(s, from, d) /\ NearerDone(s, d)
  /\ \A x \in Done(s) : Near(x) \subseteq DOMAIN s.parent
  /\ \A a \in DOMAIN s.parent : d[a] <= n
  /\ \/ s.queue = <<>> \/ Head(s.queue) = to
     \/ Cardinality(Done(s)) = n

(* All neighbours are addresses that the graph may have.                   *)
LEMMA NearKnown ==
  ASSUME GraphInv, NEW a
  PROVE  Near(a) \subseteq Party
<1>1. L!Neighbours(a) \in Seq(Party)
  BY DEF GraphInv, L!Neighbours
<1> QED
  BY <1>1 DEF Near, Elements

\* What a round leaves of the state s in u, when cur is the head of its queue.
Advanced(s, u, cur, l, d) ==
  /\ IsSearch(u) /\ l <= Len(u.queue)
  /\ \A i \in 1..l : u.queue[i] = s.queue[i+1]
  /\ \A i \in l+1..Len(u.queue) :
       /\ u.queue[i] \in Near(cur) \ DOMAIN s.parent
       /\ u.queue[i] \in DOMAIN d /\ d[u.queue[i]] = d[cur] + 1
  /\ DistinctAfter(u.queue, 0)
  /\ DOMAIN u.parent = DOMAIN s.parent \cup Near(cur)
  /\ \A a \in DOMAIN u.parent :
       u.parent[a] = IF a \in DOMAIN s.parent THEN s.parent[a] ELSE cur
  /\ \A a \in Near(cur) \ DOMAIN s.parent : a \in DOMAIN d /\ d[a] = d[cur] + 1
  /\ Done(u) = Done(s) \cup {cur} /\ cur \notin Done(s)

(* What the round of the head of the queue does: the rest of the queue,    *)
(* then what is one channel further away than the head, and the head is    *)
(* done (lightning.cpp:27-35).                                             *)
LEMMA RoundAdvances ==
  ASSUME GraphInv, NEW from, NEW to, NEW d, IsDistance(d, from), NEW n \in Nat,
         NEW s, Hunted(s, n, from, to, d), NEW l \in Nat, Len(s.queue) = l + 1,
         NEW cur, cur = s.queue[1], cur # to
  PROVE  Advanced(s, L!Expand(s, to), cur, l, d)
<1> DEFINE u == L!Expand(s, to)
           t == Taken(s)
           near == Near(cur)
<1>1. s.queue \in Seq(DOMAIN s.parent) /\ s.queue # <<>> /\ Head(s.queue) = cur
  BY DEF Hunted, IsSearch
<1>2. Spread(t, u, near, cur)
  BY <1>1, RoundSpreads DEF Hunted
<1>3. /\ t.queue = Tail(s.queue) /\ t.parent = s.parent /\ Len(t.queue) = l
      /\ \A i \in 1..l : t.queue[i] = s.queue[i+1]
  <2>1. t.queue = Tail(s.queue) /\ t.parent = s.parent
    BY DEF Hunted, IsSearch, Taken
  <2> HIDE DEF t
  <2> QED
    BY <1>1, <2>1
<1> HIDE DEF u, t, near
<1> DEFINE new == near \ DOMAIN s.parent
           P == DOMAIN s.parent
<1>4. PICK m \in Nat : m = Len(u.queue) /\ l <= m
  BY <1>2, <1>3 DEF Spread, IsSearch
<1>5. /\ IsSearch(u)
      /\ \A i \in 1..l : u.queue[i] = s.queue[i+1]
      /\ \A i \in l+1..m : u.queue[i] \in new
      /\ \A x \in new : \E i \in l+1..m : u.queue[i] = x
      /\ \A i, j \in l+1..m : u.queue[i] = u.queue[j] => i = j
      /\ DOMAIN u.parent = P \cup near
      /\ \A a \in DOMAIN u.parent :
           u.parent[a] = IF a \in P THEN s.parent[a] ELSE cur
  BY <1>2, <1>3, <1>4 DEF Spread, DistinctAfter
<1>6. \A i \in 1..l+1 : s.queue[i] \in P
  BY <1>1
<1>7. \A i, j \in 1..l+1 : s.queue[i] = s.queue[j] => i = j
  BY DEF Hunted, DistinctAfter
<1>8. cur \in P /\ cur \in DOMAIN d /\ cur \notin Done(s)
  <2>1. cur \in P /\ cur \in Elements(s.queue)
    BY <1>1 DEF Elements
  <2> QED
    BY <2>1 DEF Hunted, Done
<1>9. ASSUME NEW a \in new PROVE a \in DOMAIN d /\ d[a] = d[cur] + 1
  <2>1. a \in DOMAIN d /\ d[a] <= d[cur] + 1 /\ d[a] \in Nat /\ d[cur] \in Nat
    BY <1>8, <1>9 DEF IsDistance, near
  <2>2. ~(d[a] <= d[cur])
    <3> SUFFICES ASSUME d[a] <= d[cur] PROVE FALSE
      OBVIOUS
    <3>1. a # from
      BY <1>9 DEF Hunted
    <3>2. PICK b \in DOMAIN d : a \in Near(b) /\ d[b] + 1 = d[a]
      BY <2>1, <3>1 DEF IsDistance
    <3>3. d[b] \in Nat
      BY DEF IsDistance
    <3>4. d[b] < d[cur]
      BY <2>1, <3>2, <3>3
    <3>5. b \in Done(s)
      BY <1>1, <3>4 DEF Hunted, NearerDone
    <3> QED
      BY <1>9, <3>2, <3>5 DEF Hunted
  <2> QED
    BY <2>1, <2>2
<1>10. \A i \in l+1..m : u.queue[i] \in DOMAIN d /\ d[u.queue[i]] = d[cur] + 1
  <2> HIDE DEF new
  <2> QED
    BY <1>5, <1>9
<1>11. DistinctAfter(u.queue, 0)
  <2> SUFFICES ASSUME NEW i \in 1..m, NEW j \in 1..m, u.queue[i] = u.queue[j]
               PROVE  i = j
    BY <1>4 DEF DistinctAfter
  <2>1. CASE i <= l /\ j <= l
    <3>1. i \in 1..l /\ j \in 1..l /\ i + 1 \in 1..l+1 /\ j + 1 \in 1..l+1
      BY <2>1
    <3>2. s.queue[i+1] = s.queue[j+1]
      BY <1>5, <3>1
    <3>3. i + 1 = j + 1
      BY <1>7, <3>1, <3>2
    <3> QED
      BY <3>3
  <2>2. CASE i > l /\ j > l
    <3>1. i \in l+1..m /\ j \in l+1..m
      BY <2>2
    <3> QED
      BY <1>5, <3>1
  <2>3. CASE i <= l /\ j > l
    <3>1. i \in 1..l /\ i + 1 \in 1..l+1 /\ j \in l+1..m
      BY <2>3
    <3>2. u.queue[i] \in P /\ u.queue[j] \notin P
      BY <1>5, <1>6, <3>1
    <3> QED
      BY <3>2
  <2>4. CASE i > l /\ j <= l
    <3>1. j \in 1..l /\ j + 1 \in 1..l+1 /\ i \in l+1..m
      BY <2>4
    <3>2. u.queue[j] \in P /\ u.queue[i] \notin P
      BY <1>5, <1>6, <3>1
    <3> QED
      BY <3>2
  <2>5. i \in Nat /\ j \in Nat
    OBVIOUS
  <2> QED
    BY <2>1, <2>2, <2>3, <2>4, <2>5
<1>12. Elements(u.queue) = (Elements(s.queue) \ {cur}) \cup new
  <2>1. Elements(u.queue) = {u.queue[i] : i \in 1..m}
    BY <1>4, <1>5 DEF Elements, IsSearch
  <2>2. Elements(s.queue) = {s.queue[i] : i \in 1..l+1}
    BY <1>1 DEF Elements
  <2>3. ASSUME NEW i \in 1..m
        PROVE  u.queue[i] \in (Elements(s.queue) \ {cur}) \cup new
    <3>1. CASE i <= l
      <4>1. i \in 1..l /\ i + 1 \in 1..l+1 /\ 1 \in 1..l+1 /\ i + 1 # 1
        BY <3>1
      <4>2. u.queue[i] = s.queue[i+1] /\ s.queue[i+1] # s.queue[1]
        BY <1>5, <1>7, <4>1
      <4> HIDE DEF new
      <4> QED
        BY <2>2, <4>1, <4>2
    <3>2. CASE ~(i <= l)
      <4>1. i \in l+1..m
        BY <3>2
      <4> HIDE DEF new
      <4> QED
        BY <1>5, <4>1
    <3> QED
      BY <3>1, <3>2
  <2>4. ASSUME NEW i \in 1..l+1, s.queue[i] # cur PROVE s.queue[i] \in Elements(u.queue)
    <3>1. PICK j \in 1..l : i = j + 1
      <4>1. i # 1
        BY <2>4
      <4>2. i - 1 \in 1..l /\ i = (i - 1) + 1
        BY <4>1
      <4> QED
        BY <4>2
    <3>2. u.queue[j] = s.queue[i] /\ j \in 1..m
      BY <1>4, <1>5, <3>1
    <3> QED
      BY <2>1, <3>2
  <2>5. ASSUME NEW a \in new PROVE a \in Elements(u.queue)
    <3> HIDE DEF new
    <3>1. PICK i \in l+1..m : u.queue[i] = a
      BY <1>5, <2>5
    <3>2. i \in 1..m
      OBVIOUS
    <3> QED
      BY <2>1, <3>1, <3>2
  <2>6. \A x \in Elements(u.queue) : x \in (Elements(s.queue) \ {cur}) \cup new
    <3> HIDE DEF new
    <3> QED
      BY <2>1, <2>3
  <2>7. \A x \in Elements(s.queue) : x # cur => x \in Elements(u.queue)
    BY <2>2, <2>4
  <2> HIDE DEF new
  <2> QED
    BY <2>5, <2>6, <2>7
<1>13. Done(u) = Done(s) \cup {cur}
  <2>1. Done(u) = (P \cup near) \ Elements(u.queue)
    BY <1>5 DEF Done
  <2>2. Done(s) = P \ Elements(s.queue)
    BY DEF Done
  <2>3. Elements(s.queue) \subseteq P
    BY <1>1 DEF Elements
  <2>4. Elements(u.queue) = (Elements(s.queue) \ {cur}) \cup (near \ P)
    BY <1>12
  <2>5. cur \in P
    BY <1>8
  <2>6. PICK E, F : E = Elements(s.queue) /\ F = P
    OBVIOUS
  <2> HIDE DEF P, new
  <2>7. (F \cup near) \ ((E \ {cur}) \cup (near \ F)) = (F \ E) \cup {cur}
    BY <2>3, <2>5, <2>6
  <2> QED
    BY <2>1, <2>2, <2>4, <2>6, <2>7
<1>14. \A i \in l+1..m : u.queue[i] \in near \ P
  BY <1>5
<1>15. \A a \in near \ P : a \in DOMAIN d /\ d[a] = d[cur] + 1
  BY <1>9
<1>16. Advanced(s, u, cur, l, d)
  BY <1>4, <1>5, <1>8, <1>10, <1>11, <1>13, <1>14, <1>15 DEF Advanced, near
<1> QED
  BY <1>16 DEF u

(* What is known of the search holds again after another round.            *)
LEMMA HuntStep ==
  ASSUME GraphInv, IsFiniteSet(Party), NEW from, NEW to, NEW d, IsDistance(d, from),
         NEW n \in Nat, NEW s, Hunted(s, n, from, to, d)
  PROVE  Hunted(L!Expand(s, to), n + 1, from, to, d)
<1>1. CASE s.queue = <<>> \/ Head(s.queue) = to
  <2>1. L!Expand(s, to) = s
    BY <1>1 DEF L!Expand
  <2>2. \A a \in DOMAIN s.parent : d[a] <= n + 1
    BY DEF Hunted, IsDistance
  <2> QED
    BY <1>1, <2>1, <2>2 DEF Hunted
<1>2. CASE ~(s.queue = <<>> \/ Head(s.queue) = to)
  <2> PICK cur : cur = s.queue[1]
    OBVIOUS
  <2> PICK l \in Nat : Len(s.queue) = l + 1
    <3>1. s.queue \in Seq(DOMAIN s.parent)
      BY DEF Hunted, IsSearch
    <3>2. Len(s.queue) - 1 \in Nat /\ Len(s.queue) = (Len(s.queue) - 1) + 1
      BY <1>2, <3>1
    <3> QED
      BY <3>2
  <2>1. cur = s.queue[1] /\ Len(s.queue) = l + 1 /\ cur # to
    <3>1. s.queue \in Seq(DOMAIN s.parent)
      BY DEF Hunted, IsSearch
    <3> QED
      BY <1>2, <3>1
  <2>2. PICK u : u = L!Expand(s, to)
    OBVIOUS
  <2>3. Advanced(s, u, cur, l, d)
    BY <2>1, <2>2, RoundAdvances
  <2>4. PICK m \in Nat : m = Len(u.queue) /\ l <= m
    BY <2>3 DEF Advanced, IsSearch
  <2>5. /\ \A i \in 1..l+1 : s.queue[i] \in DOMAIN s.parent /\ s.queue[i] \in DOMAIN d
        /\ cur \in DOMAIN s.parent /\ cur \in DOMAIN d /\ s.queue # <<>>
    BY <2>1 DEF Hunted, IsSearch
  <2>6. \A x \in DOMAIN d : d[x] \in Nat
    BY DEF IsDistance
  <2>7. DOMAIN u.parent \subseteq Party \cap DOMAIN d
    <3>1. Near(cur) \subseteq Party
      BY NearKnown
    <3> QED
      BY <2>3, <3>1 DEF Advanced, Hunted
  <2>8. \A i, j \in 1..l+1 : i <= j =>
          d[s.queue[i]] <= d[s.queue[j]] /\ d[s.queue[j]] <= d[cur] + 1
    BY <2>1 DEF Hunted, Sorted
  <2>9. \A i \in 1..m : /\ u.queue[i] \in DOMAIN d
                        /\ d[cur] <= d[u.queue[i]] /\ d[u.queue[i]] <= d[cur] + 1
    <3> TAKE i \in 1..m
    <3>1. CASE i <= l
      <4>1. i \in 1..l /\ i + 1 \in 1..l+1 /\ 1 \in 1..l+1 /\ 1 <= i + 1
        BY <3>1
      <4>2. u.queue[i] = s.queue[i+1]
        BY <2>3, <4>1 DEF Advanced
      <4> QED
        BY <2>1, <2>5, <2>8, <4>1, <4>2
    <3>2. CASE ~(i <= l)
      <4>1. i \in l+1..Len(u.queue)
        BY <2>4, <3>2
      <4>2. u.queue[i] \in DOMAIN d /\ d[u.queue[i]] = d[cur] + 1
        BY <2>3, <4>1 DEF Advanced
      <4> QED
        BY <2>5, <2>6, <4>2
    <3> QED
      BY <3>1, <3>2
  <2>10. \A i, j \in 1..m : i <= j => d[u.queue[i]] <= d[u.queue[j]]
    <3> SUFFICES ASSUME NEW i \in 1..m, NEW j \in 1..m, i <= j
                 PROVE  d[u.queue[i]] <= d[u.queue[j]]
      OBVIOUS
    <3>1. CASE j <= l
      <4>1. /\ i \in 1..l /\ j \in 1..l /\ i + 1 \in 1..l+1 /\ j + 1 \in 1..l+1
            /\ i + 1 <= j + 1
        BY <3>1
      <4>2. u.queue[i] = s.queue[i+1] /\ u.queue[j] = s.queue[j+1]
        BY <2>3, <4>1 DEF Advanced
      <4> QED
        BY <2>8, <4>1, <4>2
    <3>2. CASE ~(j <= l)
      <4>1. j \in l+1..Len(u.queue)
        BY <2>4, <3>2
      <4>2. d[u.queue[j]] = d[cur] + 1
        BY <2>3, <4>1 DEF Advanced
      <4> QED
        BY <2>9, <4>2
    <3> QED
      BY <3>1, <3>2
  <2>11. Sorted(u.queue, d)
    <3> SUFFICES ASSUME NEW j \in 1..m PROVE d[u.queue[j]] <= d[u.queue[1]] + 1
      BY <2>4, <2>10 DEF Sorted
    <3>1. 1 \in 1..m
      OBVIOUS
    <3>2. /\ u.queue[1] \in DOMAIN d /\ d[cur] <= d[u.queue[1]]
          /\ u.queue[j] \in DOMAIN d /\ d[u.queue[j]] <= d[cur] + 1
      BY <2>9, <3>1
    <3> QED
      BY <2>5, <2>6, <3>2
  <2>12. Parents(u, from, d)
    <3> SUFFICES ASSUME NEW a \in DOMAIN u.parent, a # from
                 PROVE  /\ u.parent[a] \in DOMAIN u.parent /\ a \in Near(u.parent[a])
                        /\ d[u.parent[a]] + 1 = d[a]
      BY DEF Parents
    <3>1. CASE a \in DOMAIN s.parent
      <4>1. /\ s.parent[a] \in DOMAIN s.parent /\ a \in Near(s.parent[a])
            /\ d[s.parent[a]] + 1 = d[a]
        BY <3>1 DEF Hunted, Parents
      <4>2. u.parent[a] = s.parent[a] /\ DOMAIN s.parent \subseteq DOMAIN u.parent
        BY <2>3, <3>1 DEF Advanced
      <4> QED
        BY <4>1, <4>2
    <3>2. CASE a \notin DOMAIN s.parent
      <4>1. /\ u.parent[a] = cur /\ a \in Near(cur) /\ d[a] = d[cur] + 1
            /\ cur \in DOMAIN u.parent
        BY <2>3, <2>5, <3>2 DEF Advanced
      <4> QED
        BY <4>1
    <3> QED
      BY <3>1, <3>2
  <2>13. Done(u) = Done(s) \cup {cur} /\ cur \notin Done(s)
    BY <2>3 DEF Advanced
  <2>14. NearerDone(u, d)
    <3> SUFFICES ASSUME u.queue # <<>>, NEW x \in DOMAIN d, d[x] < d[u.queue[1]]
                 PROVE  x \in Done(u)
      BY DEF NearerDone
    <3>1. m # 0 /\ 1 \in 1..m
      <4>1. u.queue \in Seq(DOMAIN u.parent)
        BY <2>3 DEF Advanced, IsSearch
      <4>2. m # 0
        BY <2>4, <4>1
      <4> QED
        BY <4>2
    <3>2. d[u.queue[1]] <= d[cur] + 1 /\ d[u.queue[1]] \in Nat
      BY <2>6, <2>9, <3>1
    <3>3. \A y \in DOMAIN d : d[y] < d[cur] => y \in Done(s)
      BY <2>1, <2>5 DEF Hunted, NearerDone
    <3>4. CASE d[x] < d[cur]
      BY <2>13, <3>3, <3>4
    <3>5. CASE ~(d[x] < d[cur])
      <4>1. d[x] = d[cur] /\ d[u.queue[1]] = d[cur] + 1
        BY <2>5, <2>6, <3>2, <3>5
      <4>2. x \in DOMAIN s.parent
        <5>1. CASE x = from
          BY <5>1 DEF Hunted
        <5>2. CASE x # from
          <6>1. PICK b \in DOMAIN d : x \in Near(b) /\ d[b] + 1 = d[x]
            BY <5>2 DEF IsDistance
          <6>2. d[b] < d[cur]
            BY <2>6, <4>1, <6>1
          <6> QED
            BY <3>3, <6>1, <6>2 DEF Hunted
        <5> QED
          BY <5>1, <5>2
      <4>3. CASE x \notin Elements(s.queue)
        BY <2>13, <4>2, <4>3 DEF Done
      <4>4. CASE x \in Elements(s.queue)
        <5>1. PICK i \in 1..l+1 : x = s.queue[i]
          BY <2>1, <4>4 DEF Elements, Hunted, IsSearch
        <5>2. CASE i = 1
          BY <2>1, <2>13, <5>1, <5>2
        <5>3. CASE i # 1
          <6>1. 1 \in 1..l /\ 2 \in 1..l+1 /\ 2 <= i
            BY <5>1, <5>3
          <6>2. u.queue[1] = s.queue[2]
            BY <2>3, <6>1 DEF Advanced
          <6>3. d[s.queue[2]] <= d[x]
            BY <2>8, <5>1, <6>1
          <6> QED
            BY <2>5, <2>6, <4>1, <6>2, <6>3
        <5> QED
          BY <5>2, <5>3
      <4> QED
        BY <4>3, <4>4
    <3> QED
      BY <3>4, <3>5
  <2>15. \A x \in Done(u) : Near(x) \subseteq DOMAIN u.parent
    <3>1. DOMAIN u.parent = DOMAIN s.parent \cup Near(cur)
      BY <2>3 DEF Advanced
    <3>2. \A x \in Done(s) : Near(x) \subseteq DOMAIN s.parent
      BY DEF Hunted
    <3> QED
      BY <2>13, <3>1, <3>2
  <2>16. \A a \in DOMAIN u.parent : d[a] <= n + 1
    <3> TAKE a \in DOMAIN u.parent
    <3>1. d[cur] <= n /\ d[cur] \in Nat /\ d[a] \in Nat
      BY <2>5, <2>6, <2>7 DEF Hunted
    <3>2. a \in DOMAIN s.parent => d[a] <= n
      BY DEF Hunted
    <3>3. a \notin DOMAIN s.parent => d[a] = d[cur] + 1
      BY <2>3 DEF Advanced
    <3> QED
      BY <3>1, <3>2, <3>3
  <2>17. Cardinality(Done(u)) = n + 1
    <3>1. IsFiniteSet(Done(s))
      <4>1. Done(s) \subseteq Party
        BY DEF Done, Hunted
      <4> QED
        BY <4>1, FS_Subset
    <3>2. Cardinality(Done(s)) = n
      BY <1>2 DEF Hunted
    <3>3. Cardinality(Done(s) \cup {cur}) = Cardinality(Done(s)) + 1
      BY <2>13, <3>1, FS_AddElement
    <3> QED
      BY <2>13, <3>2, <3>3
  <2>18. IsSearch(u) /\ from \in DOMAIN u.parent /\ DistinctAfter(u.queue, 0)
    BY <2>3 DEF Advanced, Hunted
  <2>19. Hunted(u, n + 1, from, to, d)
    BY <2>7, <2>11, <2>12, <2>14, <2>15, <2>16, <2>17, <2>18 DEF Hunted
  <2> QED
    BY <2>2, <2>19
<1> QED
  BY <1>1, <1>2

\* The search after as many rounds as there are addresses.
HuntFrom(from, to) ==
  Hunt!Rounds([queue |-> <<from>>, parent |-> [a \in {from} |-> a]], to)

(* What is known of the search holds after every number of rounds.         *)
LEMMA HuntRounds ==
  ASSUME GraphInv, IsFiniteSet(Party), NEW from \in Party, NEW to, NEW d,
         IsDistance(d, from), NEW n \in Nat
  PROVE  Hunted(HuntFrom(from, to)[n], n, from, to, d)
<1>1. PICK start : start = [queue |-> <<from>>, parent |-> [a \in {from} |-> a]]
  OBVIOUS
<1>2. PICK r : r = Hunt!Rounds(start, to)
  OBVIOUS
<1>3. r[0] = start /\ \A k \in Nat : r[k+1] = L!Expand(r[k], to)
  <2>1. r[0] = start /\ \A k \in Nat : r[k+1] = Searched(r[k], k + 1, to)
    BY ONLY <1>2, Hunt!RoundsDefined
  <2> QED
    BY <2>1 DEF Searched
<1>4. Hunted(start, 0, from, to, d)
  <2>1. /\ DOMAIN start = {"queue", "parent"} /\ start.queue = <<from>>
        /\ DOMAIN start.parent = {from}
    BY <1>1
  <2>2. Len(start.queue) = 1 /\ start.queue[1] = from /\ DOMAIN start.queue = {1}
    BY <2>1
  <2>3. from \in DOMAIN d /\ d[from] = 0 /\ \A x \in DOMAIN d : d[x] \in Nat
    BY DEF IsDistance
  <2>4. IsSearch(start)
    BY <2>1 DEF IsSearch
  <2>5. DistinctAfter(start.queue, 0) /\ Sorted(start.queue, d)
    BY <2>2, <2>3 DEF DistinctAfter, Sorted
  <2>6. Parents(start, from, d)
    BY <2>1 DEF Parents
  <2>7. NearerDone(start, d)
    BY <2>2, <2>3 DEF NearerDone
  <2>8. Done(start) = {}
    BY <2>1, <2>2 DEF Done, Elements
  <2>9. Cardinality(Done(start)) = 0
    BY <2>8, FS_EmptySet
  <2> QED
    BY <2>1, <2>3, <2>4, <2>5, <2>6, <2>7, <2>8, <2>9 DEF Hunted
<1> DEFINE Bad == {k \in Nat : ~Hunted(r[k], k, from, to, d)}
<1>5. Bad = {}
  <2> SUFFICES ASSUME Bad # {} PROVE FALSE
    OBVIOUS
  <2>1. PICK k \in Bad : \A j \in Bad : k <= j
    <3>1. Bad \subseteq Nat
      OBVIOUS
    <3> HIDE DEF Bad
    <3> QED
      BY <3>1, NatMin
  <2>2. k \in Nat /\ ~Hunted(r[k], k, from, to, d)
    BY <2>1
  <2>3. k # 0
    BY <1>3, <1>4, <2>2
  <2>4. PICK j \in Nat : k = j + 1 /\ j \notin Bad
    <3>1. k - 1 \in Nat /\ k = (k - 1) + 1 /\ ~(k <= k - 1)
      BY <2>2, <2>3
    <3> HIDE DEF Bad
    <3> QED
      BY <2>1, <3>1
  <2>5. Hunted(r[j], j, from, to, d)
    BY <2>4
  <2> HIDE DEF Bad
  <2>6. Hunted(L!Expand(r[j], to), j + 1, from, to, d)
    BY <2>5, HuntStep
  <2> QED
    BY <1>3, <2>2, <2>4, <2>6
<1>6. Hunted(r[n], n, from, to, d)
  BY <1>5
<1> QED
  BY <1>1, <1>2, <1>6 DEF HuntFrom

\* A route from its first address to the payee that is as short as can be.
IsRoute(hops, known, to, d) ==
  /\ hops \in Seq(known) /\ hops # <<>> /\ hops[Len(hops)] = to
  /\ \A i \in 1..Len(hops)-1 : hops[i+1] \in Near(hops[i])
  /\ d[hops[1]] + Len(hops) = d[to] + 1

\* The parents of what is known are nearer to the payer.
Treed(s, from, known, d) ==
  /\ IsDistance(d, from) /\ known = DOMAIN s.parent /\ known \subseteq DOMAIN d
  /\ Parents(s, from, d)

\* b is a route that has one hop more than another.
IsLonger(b, hops, known, to, d) == IsRoute(b, known, to, d) /\ Len(b) = Len(hops) + 1

(* One hop back keeps a route a shortest one (lightning.cpp:39-40).         *)
LEMMA BackStep ==
  ASSUME NEW from, NEW to, NEW d, NEW s, NEW known, Treed(s, from, known, d),
         NEW hops, IsRoute(hops, known, to, d), hops[1] # from
  PROVE  IsLonger(L!Back(hops, from, s.parent), hops, known, to, d)
<1> USE DEF Treed
<1>1. PICK x : x = s.parent[hops[1]]
  OBVIOUS
<1>2. PICK n \in Nat : n = Len(hops) /\ n >= 1
  BY DEF IsRoute
<1>3. /\ hops \in Seq(known) /\ hops[n] = to /\ Head(hops) = hops[1]
      /\ hops[1] \in known /\ \A i \in 1..n : hops[i] \in known
      /\ \A i \in 1..n-1 : hops[i+1] \in Near(hops[i])
      /\ d[hops[1]] + n = d[to] + 1
  BY <1>2 DEF IsRoute
<1>4. x \in known /\ hops[1] \in Near(x) /\ d[x] + 1 = d[hops[1]]
  BY <1>1, <1>3 DEF Parents
<1>5. PICK b : b = <<x>> \o hops
  OBVIOUS
<1>6. L!Back(hops, from, s.parent) = b
  BY <1>1, <1>3, <1>5 DEF L!Back, L!Cons
<1>7. /\ b \in Seq(known) /\ Len(b) = n + 1 /\ b[1] = x
      /\ \A i \in 1..n : b[i+1] = hops[i]
  <2>1. PICK one : one = <<x>>
    OBVIOUS
  <2>2. one \in Seq(known) /\ Len(one) = 1 /\ one[1] = x
    BY <1>4, <2>1
  <2>3. b = one \o hops
    BY <1>5, <2>1
  <2>4. /\ b \in Seq(known) /\ Len(b) = 1 + n
        /\ \A i \in 1..1+n : b[i] = IF i <= 1 THEN one[i] ELSE hops[i-1]
    <3>1. /\ one \o hops \in Seq(known)
          /\ Len(one \o hops) = Len(one) + Len(hops)
          /\ \A i \in 1..Len(one)+Len(hops) :
               (one \o hops)[i] = IF i <= Len(one) THEN one[i] ELSE hops[i - Len(one)]
      BY ONLY <1>3, <2>2, ConcatProperties
    <3> QED
      BY ONLY <1>2, <2>2, <2>3, <3>1
  <2>5. /\ \A i \in 1..n : i + 1 \in 1..1+n /\ ~(i + 1 <= 1) /\ (i + 1) - 1 = i
        /\ 1 \in 1..1+n /\ 1 + n = n + 1
    BY <1>2
  <2> QED
    BY <2>2, <2>4, <2>5
<1>8. b[n+1] = to
  BY <1>2, <1>3, <1>7
<1>9. \A i \in 1..n : b[i+1] \in Near(b[i])
  <2> TAKE i \in 1..n
  <2>1. CASE i = 1
    BY <1>2, <1>4, <1>7, <2>1
  <2>2. CASE i # 1
    <3>1. PICK j \in 1..n-1 : i = j + 1
      <4>1. i - 1 \in 1..n-1 /\ i = (i - 1) + 1
        BY <2>2
      <4> QED
        BY <4>1
    <3>2. j \in 1..n /\ j + 1 \in 1..n
      BY <3>1
    <3>3. b[i] = hops[j] /\ b[i+1] = hops[j+1]
      BY <1>7, <3>1, <3>2
    <3> QED
      BY <1>3, <3>1, <3>3
  <2> QED
    BY <2>1, <2>2
<1>10. d[b[1]] + (n + 1) = d[to] + 1
  <2>1. d[x] \in Nat /\ d[hops[1]] \in Nat /\ d[to] \in Nat
    BY <1>2, <1>3, <1>4 DEF IsDistance
  <2>2. \A i, j, k \in Nat : i + 1 = j /\ j + n = k + 1 => i + (n + 1) = k + 1
    OBVIOUS
  <2>3. d[x] + 1 = d[hops[1]] /\ d[hops[1]] + n = d[to] + 1
    BY <1>3, <1>4
  <2>4. d[x] + (n + 1) = d[to] + 1
    BY ONLY <2>1, <2>2, <2>3
  <2>5. b[1] = x
    BY <1>7
  <2> QED
    BY <2>4, <2>5
<1>11. b # <<>>
  BY <1>7
<1>12. \A i \in 1..(n+1)-1 : b[i+1] \in Near(b[i])
  <2>1. (n + 1) - 1 = n
    OBVIOUS
  <2> QED
    BY <1>9, <2>1
<1>13. IsRoute(b, known, to, d)
  BY <1>7, <1>8, <1>10, <1>11, <1>12 DEF IsRoute
<1> QED
  BY <1>2, <1>6, <1>7, <1>13 DEF IsLonger

\* The route from as many hops back as there are addresses.
TraceBack(from, to, parent) == Trace!Rounds(<<to>>, [from |-> from, parent |-> parent])

(* After every number of hops there is a shortest route, which begins at   *)
(* the payer or has that many hops.                                        *)
LEMMA BackRounds ==
  ASSUME NEW from, NEW to, NEW d, NEW s, NEW known, Treed(s, from, known, d),
         to \in known, NEW n \in Nat
  PROVE  /\ IsRoute(TraceBack(from, to, s.parent)[n], known, to, d)
         /\ \/ TraceBack(from, to, s.parent)[n][1] = from
            \/ Len(TraceBack(from, to, s.parent)[n]) = n + 1
<1>1. PICK start, q : start = <<to>> /\ q = [from |-> from, parent |-> s.parent]
  OBVIOUS
<1>2. PICK r : r = Trace!Rounds(start, q)
  OBVIOUS
<1>3. r[0] = start /\ \A k \in Nat : r[k+1] = L!Back(r[k], from, s.parent)
  <2>1. r[0] = start /\ \A k \in Nat : r[k+1] = Traced(r[k], k + 1, q)
    BY ONLY <1>2, Trace!RoundsDefined
  <2>2. \A k \in Nat : Traced(r[k], k + 1, q) = L!Back(r[k], from, s.parent)
    BY <1>1 DEF Traced
  <2> QED
    BY <2>1, <2>2
<1> DEFINE Good(k) == IsRoute(r[k], known, to, d) /\ (r[k][1] = from \/ Len(r[k]) = k + 1)
<1>4. Good(0)
  <2>1. start \in Seq(known) /\ Len(start) = 1 /\ start[1] = to /\ start # <<>>
    BY ONLY <1>1, to \in known
  <2>2. d[to] \in Nat
    BY DEF Treed, IsDistance
  <2>3. IsRoute(start, known, to, d)
    BY <2>1, <2>2 DEF IsRoute
  <2> QED
    BY <1>3, <2>1, <2>3
<1>5. ASSUME NEW k \in Nat, Good(k) PROVE Good(k + 1)
  <2>1. CASE r[k][1] = from
    <3>1. Head(r[k]) = r[k][1]
      BY <1>5 DEF IsRoute
    <3>2. r[k+1] = r[k]
      BY <1>3, <2>1, <3>1 DEF L!Back
    <3> QED
      BY <1>5, <2>1, <3>2
  <2>2. CASE r[k][1] # from
    <3>1. IsLonger(L!Back(r[k], from, s.parent), r[k], known, to, d)
      BY <1>5, <2>2, BackStep
    <3>2. Len(r[k]) = k + 1
      BY <1>5, <2>2
    <3>3. r[k+1] = L!Back(r[k], from, s.parent)
      BY <1>3
    <3>4. Len(r[k+1]) = (k + 1) + 1
      BY <3>1, <3>2, <3>3 DEF IsLonger
    <3> QED
      BY <3>1, <3>3, <3>4 DEF IsLonger
  <2> QED
    BY <2>1, <2>2
<1> DEFINE Bad == {k \in Nat : ~Good(k)}
<1>6. Bad = {}
  <2> SUFFICES ASSUME Bad # {} PROVE FALSE
    OBVIOUS
  <2>1. PICK k \in Bad : \A j \in Bad : k <= j
    <3>1. Bad \subseteq Nat
      OBVIOUS
    <3> HIDE DEF Bad
    <3> QED
      BY <3>1, NatMin
  <2> HIDE DEF Good
  <2>2. k \in Nat /\ ~Good(k)
    BY <2>1
  <2>3. k # 0
    BY <1>4, <2>2
  <2>4. PICK j \in Nat : k = j + 1 /\ Good(j)
    <3>1. k - 1 \in Nat /\ k = (k - 1) + 1 /\ ~(k <= k - 1)
      BY <2>2, <2>3
    <3> QED
      BY <2>1, <3>1
  <2> QED
    BY <1>5, <2>2, <2>4
<1>7. Good(n)
  <2> HIDE DEF Good
  <2> QED
    BY <1>6
<1> QED
  BY <1>1, <1>2, <1>7 DEF TraceBack

(* The search finds the payee just if it is within as many channels as     *)
(* there are addresses.                                                    *)
LEMMA SearchFinds ==
  ASSUME GraphInv, IsFiniteSet(Party), NEW from \in Party, NEW to \in Party, NEW d,
         IsDistance(d, from), NEW n \in Nat, n = Cardinality(Party), NEW s,
         Hunted(s, n, from, to, d)
  PROVE  to \in DOMAIN s.parent <=> to \in L!Within(from, n)
<1>1. ASSUME to \in DOMAIN s.parent PROVE to \in L!Within(from, n)
  <2>1. to \in DOMAIN d /\ d[to] <= n
    BY <1>1 DEF Hunted
  <2> QED
    BY <2>1 DEF IsDistance
<1>2. ASSUME to \in L!Within(from, n) PROVE to \in DOMAIN s.parent
  <2>1. to \in DOMAIN d
    BY <1>2 DEF IsDistance
  <2>2. CASE s.queue # <<>> /\ Head(s.queue) = to
    <3>1. s.queue \in Seq(DOMAIN s.parent)
      BY DEF Hunted, IsSearch
    <3> QED
      BY <2>2, <3>1
  <2>3. CASE s.queue = <<>> \/ Cardinality(Done(s)) = n
    <3>1. DOMAIN s.parent \subseteq Done(s)
      <4>1. CASE s.queue = <<>>
        BY <4>1 DEF Done, Elements
      <4>2. CASE Cardinality(Done(s)) = n
        <5>1. Done(s) \subseteq Party /\ DOMAIN s.parent \subseteq Party
          BY DEF Done, Hunted
        <5>2. Done(s) = Party
          BY <4>2, <5>1, FS_Subset
        <5> QED
          BY <5>1, <5>2
      <4> QED
        BY <2>3, <4>1, <4>2
    <3> DEFINE Bad == {k \in Nat : \E a \in DOMAIN d : d[a] = k /\ a \notin DOMAIN s.parent}
    <3>2. SUFFICES ASSUME Bad # {} PROVE FALSE
      BY <2>1 DEF IsDistance
    <3>3. PICK k \in Bad : \A j \in Bad : k <= j
      <4>1. Bad \subseteq Nat
        OBVIOUS
      <4> HIDE DEF Bad
      <4> QED
        BY <3>2, <4>1, NatMin
    <3>4. PICK a \in DOMAIN d : d[a] = k /\ a \notin DOMAIN s.parent
      BY <3>3
    <3>5. a # from
      BY <3>4 DEF Hunted
    <3>6. PICK b \in DOMAIN d : a \in Near(b) /\ d[b] + 1 = d[a]
      BY <3>5 DEF IsDistance
    <3>7. d[b] \in Nat /\ k \in Nat /\ ~(k <= d[b])
      BY <3>3, <3>4, <3>6 DEF IsDistance
    <3>8. b \in DOMAIN s.parent
      BY <3>3, <3>7
    <3>9. Near(b) \subseteq DOMAIN s.parent
      BY <3>1, <3>8 DEF Hunted
    <3> QED
      BY <3>4, <3>6, <3>9
  <2> QED
    BY <2>2, <2>3 DEF Hunted
<1> QED
  BY <1>1, <1>2

(* What is said of the route between two addresses.                        *)
LEMMA RouteIsShortest ==
  ASSUME GraphInv, IsFiniteSet(Party), NEW from \in Party, NEW to \in Party,
         NEW n \in Nat, n = Cardinality(Party), NEW route, route = L!FindRoute(from, to)
  PROVE  IF to \notin L!Within(from, n) THEN route = <<>>
         ELSE /\ route # <<>> /\ Head(route) = from /\ L!Last(route) = to
              /\ \A i \in 1..Len(route)-1 : L!Linked(route[i], route[i+1])
              /\ \A k \in 0..Len(route)-2 : to \notin L!Within(from, k)
<1>1. PICK d : IsDistance(d, from)
  BY Distances
<1>2. L!Cardinality(Party) = n
  BY DEF L!Cardinality, Cardinality
<1>3. PICK s : s = HuntFrom(from, to)[n]
  OBVIOUS
<1>4. Hunted(s, n, from, to, d)
  BY <1>1, <1>3, HuntRounds
<1>5. L!Search(from, to) = s.parent
  BY <1>2, <1>3 DEF L!Search, HuntFrom, Hunt!Rounds, Searched
<1>6. to \in DOMAIN s.parent <=> to \in L!Within(from, n)
  BY <1>1, <1>4, SearchFinds
<1>7. PICK r : r = TraceBack(from, to, s.parent)[n]
  OBVIOUS
<1>8. route = IF to \in DOMAIN s.parent THEN r ELSE <<>>
  BY <1>2, <1>5, <1>7 DEF L!FindRoute, TraceBack, Trace!Rounds, Traced
<1>9. ASSUME to \in DOMAIN s.parent
      PROVE  /\ r # <<>> /\ Head(r) = from /\ L!Last(r) = to
             /\ \A i \in 1..Len(r)-1 : L!Linked(r[i], r[i+1])
             /\ \A k \in 0..Len(r)-2 : to \notin L!Within(from, k)
  <2>1. /\ DOMAIN s.parent \subseteq DOMAIN d
        /\ Treed(s, from, DOMAIN s.parent, d)
    BY <1>1, <1>4 DEF Hunted, Treed
  <2>2. IsRoute(r, DOMAIN s.parent, to, d) /\ (r[1] = from \/ Len(r) = n + 1)
    BY <1>1, <1>7, <1>9, <2>1, BackRounds
  <2>3. PICK l \in Nat : /\ l = Len(r) /\ l >= 1 /\ Head(r) = r[1] /\ r # <<>>
                         /\ r[1] \in DOMAIN s.parent
    BY <2>2 DEF IsRoute
  <2>4. d[r[1]] + l = d[to] + 1 /\ d[r[1]] \in Nat /\ d[to] \in Nat /\ d[to] <= n
    BY <1>1, <1>4, <1>9, <2>1, <2>2, <2>3 DEF IsRoute, IsDistance, Hunted
  <2>5. r[1] = from
    <3>1. CASE l = n + 1
      <4>1. d[r[1]] = 0
        BY <2>4, <3>1
      <4> QED
        BY <1>1, <2>1, <2>3, <4>1 DEF IsDistance
    <3> QED
      BY <2>2, <2>3, <3>1
  <2>6. l = d[to] + 1
    BY <1>1, <2>4, <2>5 DEF IsDistance
  <2>7. L!Last(r) = to
    BY <2>2 DEF L!Last, IsRoute
  <2>8. \A i \in 1..l-1 : L!Linked(r[i], r[i+1])
    BY <2>2, <2>3 DEF IsRoute, L!Linked, L!ToSet, Near, Elements
  <2>9. \A k \in 0..l-2 : to \notin L!Within(from, k)
    <3> TAKE k \in 0..l-2
    <3>1. k \in Nat /\ ~(d[to] <= k)
      BY <2>4, <2>6
    <3> QED
      BY <1>1, <3>1 DEF IsDistance
  <2> QED
    BY <2>3, <2>5, <2>7, <2>8, <2>9
<1>10. CASE to \in DOMAIN s.parent
  <2>1. route = r /\ to \in L!Within(from, n)
    BY <1>6, <1>8, <1>10
  <2> QED
    BY <1>9, <1>10, <2>1
<1>11. CASE to \notin DOMAIN s.parent
  BY <1>6, <1>8, <1>11
<1> QED
  BY <1>10, <1>11

(* A route is found just if there is one, and then it is a shortest one,   *)
(* for any number of addresses and channels, parallel ones and ones with   *)
(* oneself among them (lightning.cpp:5-44).                                 *)
THEOREM RoutesShortest == MCSpec => []RouteShortest
<1>1. L!Init => GraphInv
  BY DEF L!Init, GraphInv
<1>2. GraphInv /\ [L!Next]_graph => GraphInv'
  <2> SUFFICES ASSUME GraphInv, [L!Next]_graph PROVE GraphInv'
    OBVIOUS
  <2>1. \A a : L!Neighbours(a) \in Seq(Party)
    BY DEF GraphInv, L!Neighbours
  <2>2. ASSUME NEW a \in Party, L!RegisterNode(a) PROVE GraphInv'
    BY <2>1, <2>2 DEF L!RegisterNode, GraphInv
  <2>3. ASSUME NEW a \in Party, NEW b \in Party, L!AddChannel(a, b) PROVE GraphInv'
    <3> DEFINE one(x) == IF x = a THEN Append(L!Neighbours(x), b) ELSE L!Neighbours(x)
    <3>1. \A x : one(x) \in Seq(Party)
      BY <2>1
    <3> HIDE DEF one
    <3>2. graph' = [x \in DOMAIN graph \cup {a, b} |->
                      IF x = b THEN Append(one(x), a) ELSE one(x)]
      BY <2>3 DEF L!AddChannel, one
    <3>3. \A x \in DOMAIN graph' : x \in Party /\ graph'[x] \in Seq(Party)
      BY <3>1, <3>2 DEF GraphInv
    <3> QED
      BY <3>3 DEF GraphInv
  <2>4. CASE UNCHANGED graph
    BY <2>4 DEF GraphInv
  <2> QED
    BY <2>2, <2>3, <2>4 DEF L!Next
<1>3. GraphInv => RouteShortest
  <2> SUFFICES ASSUME GraphInv, NEW from \in Party, NEW to \in Party, NEW route,
                      route = L!FindRoute(from, to)
               PROVE  IF to \notin L!Within(from, L!Cardinality(Party)) THEN route = <<>>
                      ELSE /\ route # <<>> /\ Head(route) = from /\ L!Last(route) = to
                           /\ \A i \in 1..Len(route)-1 : L!Linked(route[i], route[i+1])
                           /\ \A k \in 0..Len(route)-2 : to \notin L!Within(from, k)
    BY DEF RouteShortest, L!RouteShortest
  <2>1. IsFiniteSet(Party)
    BY ServicesAssumption
  <2>2. PICK n \in Nat : n = Cardinality(Party)
    BY <2>1, FS_CardinalityType
  <2>3. L!Cardinality(Party) = n
    BY <2>2 DEF L!Cardinality, Cardinality
  <2> QED
    BY <2>1, <2>2, <2>3, RouteIsShortest
<1> QED
  BY <1>1, <1>2, <1>3, Composition, PTL DEF L!Spec
=============================================================================
