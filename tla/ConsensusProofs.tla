-------------------------- MODULE ConsensusProofs --------------------------
(***************************************************************************)
(* Theorems about validators and finality: HybridConsensus and the         *)
(* ProofOfStake it extends.                                                *)
(***************************************************************************)
EXTENDS HybridConsensus, Sums

\* What registration keeps: finitely many entries, each a validator of the code.
PosInv ==
  /\ IsFiniteSet(Registered) /\ Registered \subseteq Address
  /\ \A a \in Registered :
       validators[a] \in [stake : {s \in Stake : s >= MinStake}, rewards : 0..Word-1,
                          active : BOOLEAN]
  /\ paid \in 0..MaxPaid

\* A ballot of a list without repetitions: those who voted are enough of the
\* validators of the time.
Carried(x) ==
  /\ IsFiniteSet(x.active) /\ x.voted \subseteq x.active
  /\ x.active # {} /\ ~x.repeats => Reached(Cardinality(x.voted), Cardinality(x.active))

FinalInv ==
  /\ finalized \subseteq Block /\ DOMAIN ballots = finalized
  /\ \A b \in finalized : Carried(ballots[b])
  /\ voteCount \in [DOMAIN voteCount -> 0..MaxVoters] /\ DOMAIN voteCount \subseteq Block

(* The total stake is a number.                                            *)
LEMMA StakeNat ==
  ASSUME PosInv
  PROVE  StakeSum \in Nat /\ TotalStaked \in 0..Word-1
<1> DEFINE f == [a \in Active |-> validators[a].stake]
<1>1. IsFiniteSet(Active)
  BY FS_Subset DEF PosInv, Active
<1>2. \A a \in Active : f[a] \in Nat
  BY StakeAssumption DEF PosInv, Active
<1>3. StakeSum = SumFunctionOnSet(f, Active)
  BY DEF StakeSum, SumFunction
<1>4. StakeSum \in Nat
  <2> HIDE DEF f
  <2> QED
    BY <1>1, <1>2, <1>3, SumStep
<1>5. TotalStaked \in 0..Word-1
  BY <1>4, ModWord, StakeAssumption DEF TotalStaked
<1> QED
  BY <1>4, <1>5

(* A share is a number; the part of the total that it takes is no greater  *)
(* than the part that the product of stake and reward asks for.            *)
LEMMA ShareBound ==
  ASSUME PosInv, TotalStaked # 0, NEW total \in Nat, NEW a \in Registered
  PROVE  Share(a, total) \in Nat /\ TotalStaked * Share(a, total) <= total * validators[a].stake
<1> DEFINE x == total * validators[a].stake
           y == x % Word
<1>1. x \in Nat
  <2>1. validators[a].stake \in Nat
    BY StakeAssumption DEF PosInv
  <2> QED
    BY <2>1
<1>2. y \in Nat /\ y <= x
  <2> HIDE DEF x
  <2> QED
    BY <1>1, ModWord, StakeAssumption
<1>3. TotalStaked \in Nat \ {0}
  BY StakeNat, StakeAssumption
<1>4. y \div TotalStaked \in Nat /\ TotalStaked * (y \div TotalStaked) <= y
  <2> HIDE DEF y
  <2> QED
    BY <1>2, <1>3, DivWord
<1>5. TotalStaked * (y \div TotalStaked) \in Nat
  BY <1>3, <1>4
<1>6. Share(a, total) = y \div TotalStaked
  BY DEF Share
<1> HIDE DEF x, y
<1>7. TotalStaked * (y \div TotalStaked) <= x
  BY <1>1, <1>2, <1>4, <1>5
<1> QED
  BY <1>4, <1>6, <1>7 DEF x

(* Registration, unstaking and rewards keep the entries as they should be. *)
LEMMA PosStep ==
  ASSUME PosInv, PoSNext
  PROVE  PosInv'
<1>1. ASSUME NEW a \in Address, NEW s \in Stake, AddValidator(a, s) PROVE PosInv'
  <2>1. Registered' = Registered \cup {a}
    BY <1>1 DEF AddValidator, Registered
  <2>2. IsFiniteSet(Registered')
    BY <2>1, FS_AddElement DEF PosInv
  <2>3. ASSUME NEW b \in Registered'
        PROVE  validators'[b] \in [stake : {t \in Stake : t >= MinStake},
                                   rewards : 0..Word-1, active : BOOLEAN]
    <3>1. CASE b = a
      <4>1. validators'[b] = [stake |-> s, rewards |-> 0, active |-> TRUE]
        BY <1>1, <3>1 DEF AddValidator
      <4>2. s >= MinStake /\ 0 \in 0..Word-1
        BY <1>1, StakeAssumption DEF AddValidator
      <4> QED
        BY <4>1, <4>2
    <3>2. CASE b # a
      BY <1>1, <2>1, <2>3, <3>2 DEF AddValidator, PosInv
    <3> QED
      BY <3>1, <3>2
  <2> QED
    BY <1>1, <2>1, <2>2, <2>3 DEF AddValidator, PosInv
<1>2. ASSUME NEW a \in Address, RemoveValidator(a) PROVE PosInv'
  <2>1. Registered' = Registered
    BY <1>2 DEF RemoveValidator, Registered
  <2>2. ASSUME NEW b \in Registered
        PROVE  validators'[b] \in [stake : {t \in Stake : t >= MinStake},
                                   rewards : 0..Word-1, active : BOOLEAN]
    <3>1. validators'[b] = IF b = a THEN [validators[b] EXCEPT !.active = FALSE]
                                    ELSE validators[b]
      BY <1>2 DEF RemoveValidator, Registered
    <3> QED
      BY <3>1 DEF PosInv
  <2> QED
    BY <1>2, <2>1, <2>2 DEF RemoveValidator, PosInv
<1>3. ASSUME NEW total \in Reward, DistributeRewards(total) PROVE PosInv'
  <2>1. Registered' = Registered
    BY <1>3 DEF DistributeRewards, Registered
  <2>2. ASSUME NEW b \in Registered
        PROVE  validators'[b] \in [stake : {t \in Stake : t >= MinStake},
                                   rewards : 0..Word-1, active : BOOLEAN]
    <3>1. Share(b, total) \in Nat
      BY <1>3, StakeAssumption, ShareBound DEF DistributeRewards
    <3>2. (validators[b].rewards + Share(b, total)) % Word \in 0..Word-1
      <4> DEFINE x == validators[b].rewards + Share(b, total)
      <4>1. validators[b].rewards \in Nat
        BY StakeAssumption DEF PosInv
      <4>2. x \in Nat
        BY <3>1, <4>1
      <4> HIDE DEF x
      <4>3. x % Word \in 0..Word-1
        BY <4>2, StakeAssumption, ModWord
      <4> QED
        BY <4>3 DEF x
    <3>3. validators'[b] = IF b \in Active
            THEN [validators[b] EXCEPT !.rewards =
                    (validators[b].rewards + Share(b, total)) % Word]
            ELSE validators[b]
      BY <1>3 DEF DistributeRewards
    <3> DEFINE r == (validators[b].rewards + Share(b, total)) % Word
    <3>4. /\ r \in 0..Word-1
          /\ validators'[b] = IF b \in Active THEN [validators[b] EXCEPT !.rewards = r]
                                             ELSE validators[b]
      BY <3>2, <3>3
    <3> HIDE DEF r
    <3>5. validators[b] \in [stake : {t \in Stake : t >= MinStake},
                             rewards : 0..Word-1, active : BOOLEAN]
      BY DEF PosInv
    <3>6. [validators[b] EXCEPT !.rewards = r]
            \in [stake : {t \in Stake : t >= MinStake}, rewards : 0..Word-1,
                active : BOOLEAN]
      BY <3>4, <3>5
    <3> QED
      BY <3>4, <3>5, <3>6
  <2>3. paid' \in 0..MaxPaid
    BY <1>3, StakeAssumption DEF DistributeRewards, PosInv
  <2> QED
    BY <2>1, <2>2, <2>3 DEF PosInv
<1> QED
  BY <1>1, <1>2, <1>3 DEF PoSNext

(* How many entries of a list name a validator: a number up to its length, *)
(* and if no name is repeated the number of validators it names.           *)
LEMMA Counting ==
  ASSUME NEW voters \in BoundedSeq(Address, MaxVoters), IsFiniteSet(Active)
  PROVE  /\ CountedVotes(voters) \in 0..MaxVoters
         /\ ~Repeats(voters) =>
              CountedVotes(voters) = Cardinality(ToSet(voters) \cap Active)
<1> DEFINE I == {i \in DOMAIN voters : ValidateBlock(voters[i])}
           V == ToSet(voters) \cap Active
<1>1. PICK m \in 0..MaxVoters : voters \in [1..m -> Address]
  BY DEF BoundedSeq, SeqOf
<1>2. IsFiniteSet(1..m) /\ Cardinality(1..m) = m
  BY FS_Interval, VotersAssumption
<1>3. I \subseteq 1..m
  BY <1>1
<1>4. IsFiniteSet(I) /\ Cardinality(I) <= m /\ Cardinality(I) \in Nat
  <2> HIDE DEF I
  <2> QED
    BY <1>2, <1>3, FS_Subset, FS_CardinalityType
<1>5. CountedVotes(voters) = Cardinality(I)
  BY DEF CountedVotes
<1>6. Cardinality(I) \in 0..MaxVoters
  BY <1>1, <1>4, VotersAssumption
<1>7. ASSUME ~Repeats(voters) PROVE Cardinality(I) = Cardinality(V)
  <2> DEFINE f == [i \in I |-> voters[i]]
  <2>1. f \in [I -> V]
    BY <1>1 DEF ValidateBlock, ToSet
  <2>2. \A i, j \in I : f[i] = f[j] => i = j
    BY <1>7 DEF Repeats
  <2>3. \A v \in V : \E i \in I : f[i] = v
    BY <1>1 DEF ValidateBlock, ToSet
  <2> HIDE DEF f, I, V
  <2>4. f \in Bijection(I, V)
    BY <2>1, <2>2, <2>3 DEF Bijection, Injection, Surjection, IsInjective
  <2>5. ExistsBijection(I, V)
    BY <2>4 DEF ExistsBijection
  <2> QED
    BY <1>4, <2>5, FS_Bijection
<1> QED
  BY <1>5, <1>6, <1>7

(* A finalized block has a ballot of the voters that finalized it, and the *)
(* ballots of the others stay.                                             *)
LEMMA FinalStep ==
  ASSUME PosInv, FinalInv, NEW b \in Block,
         NEW voters \in BoundedSeq(Address, MaxVoters), FinalizeBlock(b, voters)
  PROVE  FinalInv'
<1>1. IsFiniteSet(Active) /\ Cardinality(Active) \in Nat
  BY FS_Subset, FS_CardinalityType DEF PosInv, Active
<1>2. ASSUME Active = {} \/ Reached(CountedVotes(voters), Cardinality(Active))
      PROVE  Carried(Ballot(voters))
  <2>1. ASSUME Active # {}, ~Repeats(voters)
        PROVE  Reached(Cardinality(ToSet(voters) \cap Active), Cardinality(Active))
    BY <1>1, <1>2, <2>1, Counting
  <2> QED
    BY <1>1, <2>1 DEF Carried, Ballot
<1>3. ASSUME Finalize(b, voters), Carried(Ballot(voters))
      PROVE  /\ finalized' \subseteq Block /\ DOMAIN ballots' = finalized'
             /\ \A c \in finalized' : Carried(ballots'[c])
  <2>1. /\ finalized' = finalized \cup {b}
        /\ ballots' = [c \in DOMAIN ballots \cup {b} |->
                         IF c = b THEN Ballot(voters) ELSE ballots[c]]
    BY <1>3 DEF Finalize
  <2>2. finalized' \subseteq Block /\ DOMAIN ballots' = finalized'
    BY <2>1 DEF FinalInv
  <2>3. ASSUME NEW c \in finalized' PROVE Carried(ballots'[c])
    <3>1. CASE c = b
      BY <1>3, <2>1, <3>1
    <3>2. CASE c # b
      <4>1. c \in finalized /\ ballots'[c] = ballots[c]
        BY <2>1, <2>3, <3>2 DEF FinalInv
      <4> QED
        BY <4>1 DEF FinalInv
    <3> QED
      BY <3>1, <3>2
  <2> QED
    BY <2>2, <2>3
<1>4. /\ finalized' \subseteq Block /\ DOMAIN ballots' = finalized'
      /\ \A c \in finalized' : Carried(ballots'[c])
  <2>1. CASE Active = {} \/ Reached(CountedVotes(voters), Cardinality(Active))
    <3>1. Finalize(b, voters)
      BY <2>1 DEF FinalizeBlock
    <3> QED
      BY <1>2, <1>3, <2>1, <3>1
  <2>2. CASE ~(Active = {} \/ Reached(CountedVotes(voters), Cardinality(Active)))
    <3>1. UNCHANGED <<finalized, ballots>>
      BY <2>2 DEF FinalizeBlock
    <3> QED
      BY <3>1 DEF FinalInv
  <2> QED
    BY <2>1, <2>2
<1>5. voteCount' \in [DOMAIN voteCount' -> 0..MaxVoters] /\ DOMAIN voteCount' \subseteq Block
  <2>1. CASE Active = {}
    BY <2>1 DEF FinalizeBlock, FinalInv
  <2>2. CASE Active # {}
    <3>1. voteCount' = [c \in DOMAIN voteCount \cup {b} |->
                          IF c = b THEN CountedVotes(voters) ELSE voteCount[c]]
      BY <2>2 DEF FinalizeBlock
    <3>2. CountedVotes(voters) \in 0..MaxVoters
      BY <1>1, Counting
    <3>3. ASSUME NEW c \in DOMAIN voteCount PROVE voteCount[c] \in 0..MaxVoters
      BY DEF FinalInv
    <3> QED
      BY <3>1, <3>2, <3>3 DEF FinalInv
  <2> QED
    BY <2>1, <2>2
<1> QED
  BY <1>4, <1>5 DEF FinalInv

(* The invariants hold in the beginning.                                   *)
LEMMA ConsensusStart ==
  ASSUME Init
  PROVE  PosInv /\ FinalInv
<1>1. Registered = {} /\ paid = 0
  BY DEF Init, PoSInit, Registered
<1>2. PosInv
  BY <1>1, FS_EmptySet, StakeAssumption DEF PosInv
<1>3. finalized = {} /\ DOMAIN ballots = {} /\ voteCount = None /\ DOMAIN voteCount = {}
  BY DEF Init, None
<1>4. voteCount \in [{} -> 0..MaxVoters]
  BY <1>3 DEF None
<1> QED
  BY <1>2, <1>3, <1>4 DEF FinalInv

(* They say what the types of the module say.                              *)
LEMMA ConsensusTyped ==
  ASSUME PosInv, FinalInv
  PROVE  TypeOK
<1>1. PoSTypeOK
  BY DEF PosInv, PoSTypeOK
<1> QED
  BY <1>1 DEF FinalInv, TypeOK

(* Two thirds and two thirds of the same validators are more than all.     *)
LEMMA TwoQuorums ==
  ASSUME FinalInv
  PROVE  QuorumsMeet
<1> SUFFICES ASSUME NEW b \in finalized, NEW c \in finalized,
                    ballots[b].active = ballots[c].active, ballots[b].active # {},
                    ~ballots[b].repeats, ~ballots[c].repeats
             PROVE  ballots[b].voted \cap ballots[c].voted # {}
  BY DEF QuorumsMeet
<1> DEFINE A == ballots[b].active
           S == ballots[b].voted
           T == ballots[c].voted
<1>1. /\ IsFiniteSet(A) /\ A # {} /\ S \subseteq A /\ T \subseteq A
      /\ Reached(Cardinality(S), Cardinality(A)) /\ Reached(Cardinality(T), Cardinality(A))
  BY DEF FinalInv, Carried
<1> HIDE DEF A, S, T
<1>2. Cardinality(A) \in Nat \ {0}
  BY <1>1, FS_CardinalityType, FS_EmptySet
<1>3. Cardinality(S) \in Nat /\ Cardinality(T) \in Nat
  BY <1>1, FS_Subset, FS_CardinalityType
<1>4. Cardinality(S) + Cardinality(T) > Cardinality(A)
  BY <1>1, <1>2, <1>3 DEF Reached
<1>5. S \cap T # {}
  BY <1>1, <1>4, FS_MajoritiesIntersect
<1> QED
  BY <1>5 DEF S, T

(* The shares of a reward add up to no more than the reward, when the      *)
(* total stake did not wrap.                                               *)
LEMMA SharesBound ==
  ASSUME PosInv, StakeSum < Word, TotalStaked # 0, NEW total \in Nat
  PROVE  SumFunctionOnSet([a \in Registered |-> IF a \in Active THEN Share(a, total) ELSE 0],
                          Registered) <= total
<1> DEFINE share == [a \in Registered |-> IF a \in Active THEN Share(a, total) ELSE 0]
           stake == [a \in Active |-> validators[a].stake]
           t == TotalStaked
           sum == SumFunctionOnSet(share, Active)
<1>1. t = StakeSum /\ t \in Nat \ {0}
  BY StakeNat, ModSmall, StakeAssumption DEF TotalStaked
<1>2. t = SumFunctionOnSet(stake, Active)
  BY <1>1 DEF StakeSum, SumFunction
<1>3. IsFiniteSet(Registered) /\ IsFiniteSet(Active) /\ Active \subseteq Registered
  BY FS_Subset DEF PosInv, Active
<1>4. \A a \in Registered : share[a] \in Nat
  BY ShareBound
<1>5. \A a \in Active :
        share[a] \in Nat /\ stake[a] \in Nat /\ t * share[a] <= total * stake[a]
  <2> SUFFICES ASSUME NEW a \in Active
               PROVE  share[a] \in Nat /\ stake[a] \in Nat /\ t * share[a] <= total * stake[a]
    OBVIOUS
  <2>1. a \in Registered /\ share[a] = Share(a, total) /\ stake[a] = validators[a].stake
    BY <1>3
  <2>2. validators[a].stake \in Nat
    BY <2>1, StakeAssumption DEF PosInv
  <2>3. Share(a, total) \in Nat /\ t * Share(a, total) <= total * validators[a].stake
    BY <2>1, ShareBound
  <2> HIDE DEF share, stake, t
  <2> QED
    BY <2>1, <2>2, <2>3
<1>6. \A a \in Registered \ Active : share[a] = 0
  OBVIOUS
<1> HIDE DEF share, stake, t
<1>7. SumFunctionOnSet(share, Registered) = sum /\ sum \in Nat
  BY <1>3, <1>4, <1>6, SumSupport, SumStep
<1>8. t * sum <= total * t
  BY <1>1, <1>2, <1>3, <1>5, SumScaled
<1> HIDE DEF sum
<1>9. sum <= total
  BY <1>1, <1>7, <1>8
<1> QED
  BY <1>7, <1>9 DEF share

(* No call makes the validators hold more than it distributes.             *)
LEMMA RewardsStep ==
  ASSUME PosInv, PoSNext, StakeSum < Word
  PROVE  RewardsHeld' + paid <= RewardsHeld + paid'
<1> DEFINE old == [a \in Registered |-> validators[a].rewards]
           new == [a \in Registered' |-> validators'[a].rewards]
<1>1. /\ RewardsHeld = SumFunctionOnSet(old, Registered)
      /\ RewardsHeld' = SumFunctionOnSet(new, Registered')
  BY DEF RewardsHeld, SumFunction
<1>2. IsFiniteSet(Registered) /\ IsFiniteSet(Registered')
  BY PosStep DEF PosInv
<1>3. (\A a \in Registered : old[a] \in Nat) /\ (\A a \in Registered' : new[a] \in Nat)
  BY PosStep, StakeAssumption DEF PosInv
<1>4. /\ SumFunctionOnSet(old, Registered) \in Nat
      /\ SumFunctionOnSet(new, Registered') \in Nat /\ paid \in Nat
  <2> HIDE DEF old, new
  <2> QED
    BY <1>2, <1>3, SumStep DEF PosInv
<1>5. ASSUME NEW a \in Address, NEW s \in Stake, AddValidator(a, s)
      PROVE  /\ SumFunctionOnSet(new, Registered') <= SumFunctionOnSet(old, Registered)
             /\ paid' = paid
  <2> DEFINE rest == Registered' \ {a}
  <2>1. /\ Registered' = Registered \cup {a} /\ paid' = paid /\ validators'[a].rewards = 0
        /\ \A b \in rest : validators'[b] = validators[b]
    BY <1>5 DEF AddValidator, Registered
  <2>2. /\ a \in Registered' /\ new[a] = 0
        /\ rest \subseteq Registered
        /\ \A b \in rest : new[b] \in Nat /\ new[b] <= old[b]
    BY <1>3, <2>1
  <2>3. IsFiniteSet(rest) /\ \A b \in rest : new[b] \in Nat
    BY <1>2, <2>2, FS_Subset
  <2> HIDE DEF old, new, rest
  <2>4. SumFunctionOnSet(new, rest) <= SumFunctionOnSet(old, Registered)
    BY <1>2, <1>3, <2>2, SumMonotone
  <2>5. SumFunctionOnSet(new, rest) \in Nat
    BY <2>3, SumStep
  <2>6. SumFunctionOnSet(new, Registered') = new[a] + SumFunctionOnSet(new, rest)
    BY <1>2, <1>3, <2>2, SumStep DEF rest
  <2> QED
    BY <2>1, <2>2, <2>4, <2>5, <2>6
<1>6. ASSUME NEW a \in Address, RemoveValidator(a)
      PROVE  /\ SumFunctionOnSet(new, Registered') = SumFunctionOnSet(old, Registered)
             /\ paid' = paid
  <2>1. Registered' = Registered /\ paid' = paid
    BY <1>6 DEF RemoveValidator, Registered
  <2>2. \A b \in Registered : validators'[b].rewards = validators[b].rewards
    BY <1>6 DEF RemoveValidator, Registered, PosInv
  <2>3. \A b \in Registered : new[b] = old[b]
    BY <2>1, <2>2
  <2> HIDE DEF old, new
  <2> QED
    BY <1>2, <2>1, <2>3, SumSame
<1>7. ASSUME NEW total \in Reward, DistributeRewards(total)
      PROVE  /\ SumFunctionOnSet(new, Registered') <= SumFunctionOnSet(old, Registered) + total
             /\ paid' = paid + total /\ total \in Nat
  <2> DEFINE share == [a \in Registered |-> IF a \in Active THEN Share(a, total) ELSE 0]
  <2>1. Registered' = Registered /\ paid' = paid + total /\ total \in Nat /\ TotalStaked # 0
    BY <1>7, StakeAssumption DEF DistributeRewards, Registered
  <2>2. \A a \in Registered : share[a] \in Nat
    BY <2>1, ShareBound
  <2>3. ASSUME NEW a \in Registered PROVE new[a] <= old[a] + share[a]
    <3>1. old[a] \in Nat /\ share[a] \in Nat /\ new[a] = validators'[a].rewards
      BY <1>3, <2>1, <2>2
    <3>2. CASE a \in Active
      <4>1. validators'[a].rewards = (old[a] + share[a]) % Word
        BY <1>7, <3>2 DEF DistributeRewards, PosInv
      <4> HIDE DEF old, new, share
      <4>2. (old[a] + share[a]) % Word <= old[a] + share[a]
        <5> DEFINE x == old[a] + share[a]
        <5>1. x \in Nat
          BY <3>1
        <5> HIDE DEF x
        <5>2. x % Word <= x
          BY <5>1, ModWord, StakeAssumption
        <5> QED
          BY <5>2 DEF x
      <4> QED
        BY <3>1, <4>1, <4>2
    <3>3. CASE a \notin Active
      <4>1. validators'[a] = validators[a]
        BY <1>7, <3>3 DEF DistributeRewards
      <4> QED
        BY <3>1, <4>1
    <3> QED
      BY <3>2, <3>3
  <2>4. SumFunctionOnSet(share, Registered) <= total
    BY <2>1, SharesBound
  <2> HIDE DEF old, new, share
  <2>5. \A a \in Registered : /\ old[a] \in Nat /\ share[a] \in Nat /\ new[a] \in Nat
                              /\ new[a] <= old[a] + share[a]
    BY <1>3, <2>1, <2>2, <2>3
  <2>6. SumFunctionOnSet(new, Registered)
          <= SumFunctionOnSet(old, Registered) + SumFunctionOnSet(share, Registered)
    BY <1>2, <2>5, SumAdded
  <2>7. SumFunctionOnSet(share, Registered) \in Nat
    BY <1>2, <2>2, SumStep
  <2> QED
    BY <1>4, <2>1, <2>4, <2>6, <2>7
<1> HIDE DEF old, new
<1>8. CASE \E a \in Address : RemoveValidator(a) \/ \E s \in Stake : AddValidator(a, s)
  BY <1>1, <1>4, <1>5, <1>6, <1>8
<1>9. CASE \E total \in Reward : DistributeRewards(total)
  BY <1>1, <1>4, <1>7, <1>9
<1> QED
  BY <1>8, <1>9 DEF PoSNext

-----------------------------------------------------------------------------
(* A step of validators or finality keeps both invariants.                 *)
LEMMA ConsensusStep ==
  ASSUME PosInv, FinalInv, [Next]_vars
  PROVE  PosInv' /\ FinalInv'
<1>1. ASSUME NEW b \in Block, NEW voters \in BoundedSeq(Address, MaxVoters),
             FinalizeBlock(b, voters)
      PROVE  PosInv' /\ FinalInv'
  <2>1. UNCHANGED posVars
    BY <1>1 DEF FinalizeBlock
  <2>2. PosInv'
    BY <2>1 DEF PosInv, posVars, Registered
  <2> QED
    BY <1>1, <2>2, FinalStep
<1>2. ASSUME PoSNext, UNCHANGED <<voteCount, finalized, ballots>>
      PROVE  PosInv' /\ FinalInv'
  BY <1>2, PosStep DEF FinalInv
<1>3. CASE UNCHANGED vars
  BY <1>3 DEF vars, posVars, PosInv, Registered, FinalInv
<1> QED
  BY <1>1, <1>2, <1>3 DEF Next

-----------------------------------------------------------------------------
(* Weighted selection *)

\* A validator's part of the range of the hash, and what those of an order
\* take of it together.
StakeWeight(a) == IF validators[a].active THEN validators[a].stake ELSE 0

StakeWeights(order) == [i \in 1..Cardinality(Registered) |-> StakeWeight(order[i])]

UpTo(order, i) == SumFunctionOnSet(StakeWeights(order), 1..i)

(* An order of the validators names each of them once.                     *)
LEMMA Ordered ==
  ASSUME PosInv, NEW order \in SetToSeqs(Registered)
  PROVE  /\ Cardinality(Registered) \in Nat
         /\ order \in [1..Cardinality(Registered) -> Registered]
         /\ \A i, j \in 1..Cardinality(Registered) : i # j => order[i] # order[j]
         /\ \A a \in Registered : \E i \in 1..Cardinality(Registered) : a = order[i]
<1> DEFINE n == Cardinality(Registered)
           D == 1..n
<1>1. IsFiniteSet(Registered) /\ n \in Nat
  BY FS_CardinalityType DEF PosInv
<1>2. order \in [D -> Registered] /\ \A i, j \in D : i # j => order[i] # order[j]
  BY DEF SetToSeqs
<1>3. IsFiniteSet(D) /\ Cardinality(D) = n
  <2> HIDE DEF n
  <2>1. IsFiniteSet(1..n) /\ Cardinality(1..n) = IF 1 > n THEN 0 ELSE n - 1 + 1
    BY <1>1, FS_Interval
  <2> QED
    BY <1>1, <2>1
<1>4. order \in Injection(D, Registered)
  <2> HIDE DEF D
  <2> QED
    BY <1>2 DEF Injection, IsInjective
<1>5. order \in Surjection(D, Registered)
  <2> HIDE DEF D
  <2> QED
    BY <1>1, <1>3, <1>4, FS_Injection
<1>6. \A a \in Registered : \E i \in D : order[i] = a
  <2> HIDE DEF D
  <2> QED
    BY <1>5 DEF Surjection
<1> QED
  BY <1>1, <1>2, <1>6

(* The parts of an order are numbers and make up the sum of the stakes.    *)
LEMMA PartsMakeUp ==
  ASSUME PosInv, NEW order \in SetToSeqs(Registered)
  PROVE  /\ \A i \in 1..Cardinality(Registered) : StakeWeights(order)[i] \in Nat
         /\ UpTo(order, Cardinality(Registered)) = StakeSum
<1> DEFINE n == Cardinality(Registered)
           f == [a \in Registered |-> StakeWeight(a)]
           w == StakeWeights(order)
           g == [a \in Active |-> validators[a].stake]
<1>1. \A a \in Registered : validators[a].stake \in Nat
  BY StakeAssumption DEF PosInv
<1>2. \A a \in Registered : f[a] \in Nat
  BY <1>1 DEF StakeWeight
<1>3. \A i \in 1..n : order[i] \in Registered /\ w[i] = f[order[i]]
  BY Ordered DEF StakeWeights
<1>4. \A i \in 1..n : w[i] \in Nat
  BY <1>2, <1>3
<1>5. /\ n \in Nat /\ IsFiniteSet(Registered) /\ order \in [1..n -> Registered]
      /\ \A i, j \in 1..n : i # j => order[i] # order[j]
      /\ \A a \in Registered : \E i \in 1..n : a = order[i]
  BY Ordered DEF PosInv
<1>6. SumFunctionOnSet(w, 1..n) = SumFunctionOnSet(f, Registered)
  <2>1. \A i \in 1..n : w[i] = f[order[i]]
    BY <1>3
  <2> HIDE DEF n, f, w
  <2> QED
    BY <1>2, <1>5, <2>1, SumReindex
<1>7. SumFunctionOnSet(f, Registered) = SumFunctionOnSet(f, Active)
  <2>1. Active \subseteq Registered /\ \A a \in Registered \ Active : f[a] = 0
    BY DEF Active, StakeWeight
  <2> HIDE DEF f
  <2> QED
    BY <1>2, <1>5, <2>1, SumSupport
<1>8. SumFunctionOnSet(f, Active) = SumFunctionOnSet(g, Active)
  <2>1. IsFiniteSet(Active)
    BY <1>5, FS_Subset DEF Active
  <2>2. \A a \in Active : f[a] = g[a]
    BY DEF Active, StakeWeight
  <2> HIDE DEF f, g
  <2> QED
    BY <2>1, <2>2, SumSame
<1>9. StakeSum = SumFunctionOnSet(g, Active)
  BY DEF StakeSum, SumFunction
<1> QED
  BY <1>4, <1>6, <1>7, <1>8, <1>9 DEF UpTo

(* The characters of a hash make a number.                                 *)
LEMMA PickNumber ==
  ASSUME NEW h \in Hashes
  PROVE  HashPick(h) \in Nat
<1> DEFINE f == [i \in 1..PickLen |-> Power[PickLen - i] * h[i]]
           D == 1..PickLen
<1>1. \A n \in Nat : Power[n] \in Nat \ {0}
  <2>1. IsPower(Power, ByteBase)
    BY PowerDefined DEF Power
  <2> QED
    BY <2>1, PowerPositive, StakeAssumption
<1>2. IsFiniteSet(D) /\ \A i \in D : f[i] \in Nat
  <2>1. IsFiniteSet(D)
    BY StakeAssumption, FS_Interval
  <2>2. ASSUME NEW i \in D PROVE f[i] \in Nat
    <3>1. PickLen - i \in Nat
      BY StakeAssumption
    <3>3. h[i] \in HexDigit
      BY DEF Hashes
    <3>4. h[i] \in Nat
      <4>1. HexDigit \subseteq 0..ByteBase-1 /\ ByteBase \in Nat
        BY StakeAssumption
      <4>2. h[i] \in 0..ByteBase-1
        BY <3>3, <4>1
      <4> QED
        BY <4>1, <4>2
    <3>2. Power[PickLen - i] \in Nat
      BY <1>1, <3>1
    <3> QED
      BY <3>2, <3>4
  <2> QED
    BY <2>1, <2>2
<1>3. SumFunction(f) = SumFunctionOnSet(f, D)
  BY DEF SumFunction
<1>4. SumFunctionOnSet(f, D) \in Nat
  <2> HIDE DEF f, D
  <2> QED
    BY <1>2, SumStep
<1>5. SumFunction(f) % Word \in Nat
  <2> HIDE DEF f
  <2> QED
    BY <1>3, <1>4, ModWord, StakeAssumption
<1>6. HashPick(h) = SumFunction(f) % Word
  BY DEF HashPick
<1> QED
  BY <1>5, <1>6

(* Who is selected is active: the sums of the walk end in the total, which  *)
(* is greater than what is picked, at the last active validator.            *)
LEMMA ActiveSelected ==
  ASSUME PosInv, TotalStaked # 0, NEW order \in SetToSeqs(Registered), NEW h \in Hashes
  PROVE  SelectValidator(order, h) \in Active
<1> DEFINE n == Cardinality(Registered)
           w == StakeWeights(order)
           p == HashPick(h) % TotalStaked
           term(i) == [j \in 1..i |->
             IF validators[order[j]].active THEN validators[order[j]].stake ELSE 0]
           hits == {i \in DOMAIN order : validators[order[i]].active
                                           /\ p < SumFunction(term(i)) % Word}
           Full == {i \in 0..n : SumFunctionOnSet(w, 1..i) = StakeSum}
<1>1. /\ n \in Nat /\ order \in [1..n -> Registered] /\ \A i \in 1..n : w[i] \in Nat
      /\ StakeSum \in Nat /\ Word \in Nat \ {0}
      /\ SumFunctionOnSet(w, 1..n) = StakeSum
  BY Ordered, PartsMakeUp, StakeNat, StakeAssumption DEF UpTo
<1>2. p < TotalStaked /\ TotalStaked \in Nat
  <2>1. TotalStaked \in Nat \ {0} /\ HashPick(h) \in Nat
    BY StakeNat, PickNumber
  <2> QED
    BY <2>1, ModWord
<1>3. PICK k \in Full : \A i \in Full : k <= i
  <2>1. n \in Full /\ Full \subseteq Nat
    BY <1>1
  <2> HIDE DEF Full
  <2> QED
    BY <2>1, NatMin
<1>4. /\ SumFunctionOnSet(w, 1..0) = 0
      /\ \A i \in 1..n : SumFunctionOnSet(w, 1..i) = w[i] + SumFunctionOnSet(w, 1..i-1)
      /\ \A i \in 0..n : SumFunctionOnSet(w, 1..i) \in Nat
  <2> HIDE DEF n, w
  <2> QED
    BY <1>1, SumPrefix
<1>5. k \in 1..n
  <2>1. StakeSum # 0
    <3>1. StakeSum = 0 => TotalStaked = 0
      BY <1>1, ModSmall DEF TotalStaked
    <3> QED
      BY <3>1
  <2>2. k # 0
    <3> HIDE DEF w
    <3> QED
      BY <1>3, <1>4, <2>1
  <2> QED
    BY <1>1, <1>3, <2>2
<1>6. w[k] # 0
  <2>1. k - 1 \in 0..n /\ k - 1 \in Nat
    BY <1>1, <1>5
  <2>2. SumFunctionOnSet(w, 1..k-1) # StakeSum
    <3>1. k - 1 \notin Full
      <4>1. ~(k <= k - 1)
        BY <1>1, <1>5
      <4> HIDE DEF Full
      <4> QED
        BY <1>3, <4>1
    <3> HIDE DEF w
    <3> QED
      BY <2>1, <3>1
  <2>3. SumFunctionOnSet(w, 1..k) = StakeSum
    BY <1>3
  <2> HIDE DEF w
  <2> QED
    BY <1>1, <1>4, <1>5, <2>1, <2>2, <2>3
<1>7. validators[order[k]].active
  BY <1>5, <1>6 DEF StakeWeights, StakeWeight
<1>8. SumFunction(term(k)) % Word = TotalStaked
  <2>1. IsFiniteSet(1..k)
    BY <1>5, FS_Interval
  <2>2. \A j \in 1..k : term(k)[j] = w[j]
    BY <1>1, <1>5 DEF StakeWeights, StakeWeight
  <2>3. SumFunction(term(k)) = SumFunctionOnSet(term(k), 1..k)
    BY DEF SumFunction
  <2>4. SumFunctionOnSet(term(k), 1..k) = SumFunctionOnSet(w, 1..k)
    <3> DEFINE I == 1..k
               t == term(k)
    <3>1. IsFiniteSet(I) /\ \A j \in I : t[j] = w[j]
      BY <2>1, <2>2
    <3> HIDE DEF I, t, w
    <3>2. SumFunctionOnSet(t, I) = SumFunctionOnSet(w, I)
      BY <3>1, SumSame
    <3> QED
      BY <3>2 DEF I, t
  <2>5. SumFunction(term(k)) = StakeSum
    <3> HIDE DEF term, w
    <3> QED
      BY <1>3, <2>3, <2>4
  <2> HIDE DEF term
  <2> QED
    BY <2>5 DEF TotalStaked
<1>9. k \in hits
  <2>1. k \in DOMAIN order
    BY <1>1, <1>5
  <2> HIDE DEF term, p
  <2> QED
    BY <1>2, <1>7, <1>8, <2>1
<1>10. PICK m \in hits : \A i \in hits : m <= i
  <2>1. hits \subseteq Nat
    BY <1>1
  <2> HIDE DEF hits
  <2> QED
    BY <1>9, <2>1, NatMin
<1>11. Min(hits) \in hits
  <2> HIDE DEF hits
  <2> QED
    BY <1>10 DEF Min
<1>12. SelectValidator(order, h) = order[Min(hits)]
  <2>1. SelectValidator(order, h) = IF hits = {} THEN order[1] ELSE order[Min(hits)]
    BY DEF SelectValidator
  <2> HIDE DEF hits
  <2> QED
    BY <1>9, <2>1
<1>13. \A i \in hits : order[i] \in Registered /\ validators[order[i]].active
  BY <1>1
<1> HIDE DEF hits
<1> QED
  BY <1>11, <1>12, <1>13 DEF Active

-----------------------------------------------------------------------------
(* The invariants of validators and finality.                              *)
LEMMA ConsensusInvariance == Spec => [](PosInv /\ FinalInv)
<1>1. Init => PosInv /\ FinalInv
  BY ConsensusStart
<1>2. (PosInv /\ FinalInv) /\ [Next]_vars => (PosInv /\ FinalInv)'
  BY ConsensusStep
<1> QED
  BY <1>1, <1>2, PTL DEF Spec

(* Every number stays in its word, whoever is registered has the minimum   *)
(* stake, and a block keeps the count of one list (pos.cpp:7-21, 59-69,    *)
(* hybrid.cpp:19-46).                                                      *)
THEOREM ConsensusTypes == Spec => []TypeOK
<1>1. PosInv /\ FinalInv => TypeOK
  BY ConsensusTyped
<1> QED
  BY <1>1, ConsensusInvariance, PTL

(* Blocks that the same validators finalized, with lists that name nobody  *)
(* twice, have a voter in common, however many validators and blocks there *)
(* are (hybrid.cpp:19-46).                                                 *)
THEOREM QuorumsIntersect == Spec => []QuorumsMeet
<1>1. PosInv /\ FinalInv => QuorumsMeet
  BY TwoQuorums
<1> QED
  BY <1>1, ConsensusInvariance, PTL

(* Rewards are never created while the sum of the stakes fits its word,    *)
(* whatever the rewards, the stakes and the width (pos.cpp:59-76).         *)
THEOREM RewardsNotCreated == Spec => RewardsConserved
<1>1. PosInv /\ [Next]_vars
        => [StakeSum < Word => RewardsHeld' + paid <= RewardsHeld + paid']_posVars
  <2> SUFFICES ASSUME PosInv, [Next]_vars
               PROVE  [StakeSum < Word => RewardsHeld' + paid <= RewardsHeld + paid']_posVars
    OBVIOUS
  <2>1. CASE PoSNext
    BY <2>1, RewardsStep
  <2>2. CASE UNCHANGED posVars
    BY <2>2
  <2> QED
    BY <2>1, <2>2 DEF Next, vars, FinalizeBlock
<1> QED
  BY <1>1, ConsensusInvariance, PTL DEF Spec, RewardsConserved

(* Who is selected is active, whatever the stakes and the hash, in any     *)
(* order in which the hash map is walked, and when the sums wrap            *)
(* (pos.cpp:28-57).                                                         *)
THEOREM SelectionSound == Spec => []SelectedActive
<1>1. PosInv /\ FinalInv => SelectedActive
  BY ActiveSelected DEF SelectedActive, ValidateBlock
<1> QED
  BY <1>1, ConsensusInvariance, PTL
=============================================================================
