---------------------------- MODULE ProofOfStake ----------------------------
(***************************************************************************)
(* The validators of src/src/consensus/pos.cpp: registration, unstaking,   *)
(* weighted selection and rewards.  Amounts are unsigned integers of a     *)
(* fixed width.                                                            *)
(***************************************************************************)
EXTENDS Naturals, Sequences, SequencesExt, FiniteSets, FiniteSetsExt, Functions

CONSTANTS Address,   \* addresses callers register
          Stake,     \* amounts they offer as stake
          MinStake,  \* MIN_STAKE (1000 RXC)
          Reward,    \* amounts passed to distributeRewards
          Word,      \* 2^64
          HexDigit,  \* bytes of the characters of a hash (48..57 and 97..102)
          ByteBase,  \* values of a byte (256)
          PickLen,   \* characters that make the pick (8)
          MaxPaid    \* bound: rewards distributed in a behaviour

ASSUME StakeAssumption ==
  /\ Stake \subseteq Nat /\ Reward \subseteq Nat /\ MinStake \in Nat
  /\ Word \in Nat \ {0} /\ MaxPaid \in Nat
  /\ ByteBase \in Nat \ {0} /\ PickLen \in Nat /\ HexDigit \subseteq 0..ByteBase-1

VARIABLES validators,  \* address -> stake, rewards, active
          paid         \* history: rewards handed to distributeRewards

posVars == <<validators, paid>>

Registered == DOMAIN validators

Active == {a \in Registered : validators[a].active}

PoSInit == validators = [a \in {} |-> a] /\ paid = 0

\* addValidator throws when the stake is too low, and replaces an entry.
AddValidator(a, stake) ==
  /\ stake >= MinStake
  /\ validators' = [b \in Registered \cup {a} |->
                      IF b = a THEN [stake |-> stake, rewards |-> 0, active |-> TRUE]
                               ELSE validators[b]]
  /\ UNCHANGED paid

RemoveValidator(a) ==
  /\ a \in Registered
  /\ validators' = [validators EXCEPT ![a].active = FALSE]
  /\ UNCHANGED paid

StakeSum == SumFunction([a \in Active |-> validators[a].stake])

\* The total as the code has it: it wraps.
TotalStaked == StakeSum % Word

\* The product wraps before it is divided.
Share(a, total) == ((total * validators[a].stake) % Word) \div TotalStaked

\* Mutant: inactive validators get a share as well.
RewardAll(total) ==
  /\ TotalStaked # 0 /\ paid + total <= MaxPaid
  /\ validators' = [a \in Registered |->
       [validators[a] EXCEPT !.rewards = (@ + Share(a, total)) % Word]]
  /\ paid' = paid + total

DistributeRewards(total) ==
  /\ TotalStaked # 0 /\ paid + total <= MaxPaid
  /\ validators' = [a \in Registered |->
       IF a \in Active THEN [validators[a] EXCEPT !.rewards = (@ + Share(a, total)) % Word]
                       ELSE validators[a]]
  /\ paid' = paid + total

Power[n \in Nat] == IF n = 0 THEN 1 ELSE ByteBase * Power[n - 1]

\* What SHA256::hash begins with.
Hashes == [1..PickLen -> HexDigit]

\* The characters of the hash as bytes of a number, not the number they spell.
HashPick(h) ==
  SumFunction([i \in 1..PickLen |-> Power[PickLen - i] * h[i]]) % Word

\* Mutant: validators that have left are not skipped.
SelectAnybody(order, h) ==
  LET upTo(i) == SumFunction([j \in 1..i |-> validators[order[j]].stake]) % Word
      hits == {i \in DOMAIN order : HashPick(h) % TotalStaked < upTo(i)}
  IN  IF hits = {} THEN order[1] ELSE order[Min(hits)]

\* selectValidator: the map is walked in some order.
SelectValidator(order, h) ==
  LET upTo(i) == SumFunction([j \in 1..i |->
        IF validators[order[j]].active THEN validators[order[j]].stake ELSE 0]) % Word
      hits == {i \in DOMAIN order :
                 validators[order[i]].active /\ HashPick(h) % TotalStaked < upTo(i)}
  IN  IF hits = {} THEN order[1] ELSE order[Min(hits)]

ValidateBlock(a) == a \in Active

PoSNext == \/ \E a \in Address : RemoveValidator(a) \/ \E s \in Stake : AddValidator(a, s)
           \/ \E total \in Reward : DistributeRewards(total)

PoSSpec == PoSInit /\ [][PoSNext]_posVars

-----------------------------------------------------------------------------
(* Types: who is registered has at least the minimum stake (pos.cpp:7-21), *)
(* and no number outgrows its word.                                        *)
PoSTypeOK ==
  /\ Registered \subseteq Address
  /\ \A a \in Registered : /\ validators[a].stake \in {s \in Stake : s >= MinStake}
                           /\ validators[a].rewards \in 0..Word-1
                           /\ validators[a].active \in BOOLEAN
  /\ paid \in 0..MaxPaid

RewardsHeld == SumFunction([a \in Registered |-> validators[a].rewards])

(* No call makes the validators hold more than it distributes: integer     *)
(* division and even the wrapping of the product only lose some, across    *)
(* registration, unstaking and registration again.  It takes stakes whose  *)
(* sum fits the word: a total that wrapped is too small, and every share   *)
(* of it too large (pos.cpp:59-76).                                         *)
RewardsConserved ==
  [][StakeSum < Word => RewardsHeld' + paid <= RewardsHeld + paid']_posVars

(* Who is selected is a validator whose block is accepted, whatever the     *)
(* hash and the order of the hash map, also when the total and the sums of  *)
(* the walk wrap: the last active validator's sum is the total, so the walk *)
(* never falls through to the first entry, which may have left              *)
(* (pos.cpp:28-57).                                                         *)
SelectedActive ==
  TotalStaked # 0 =>
    \A order \in SetToSeqs(Registered), h \in Hashes :
      ValidateBlock(SelectValidator(order, h))

-----------------------------------------------------------------------------
(* What a comment says, and the code does not keep *)

(* "Reward proportional to stake" (pos.cpp:65): no active validator is due  *)
(* a smaller share of a reward than one with less stake.                    *)
ProportionalRewards ==
  TotalStaked # 0 =>
    \A a, b \in Active, total \in 0..MaxPaid :
      validators[a].stake <= validators[b].stake => Share(a, total) <= Share(b, total)
=============================================================================
