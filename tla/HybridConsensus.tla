-------------------------- MODULE HybridConsensus --------------------------
(***************************************************************************)
(* Finality of src/src/consensus/hybrid.cpp: blocks that miners propose    *)
(* are finalized by lists of voters that a caller collected, counted       *)
(* against the validators of the moment.                                   *)
(***************************************************************************)
EXTENDS ProofOfStake

CONSTANTS Block,     \* block hashes
          MaxVoters  \* bound: length of a list of voters

ASSUME VotersAssumption == MaxVoters \in Nat

VARIABLES voteCount,  \* block -> votes of its last count
          finalized,  \* blocks marked final
          ballots     \* history: block -> the vote that last finalized it

vars == <<posVars, voteCount, finalized, ballots>>

None == [x \in {} |-> x]

Init == /\ PoSInit
        /\ voteCount = None /\ finalized = {} /\ ballots = None

CountedVotes(voters) == Cardinality({i \in DOMAIN voters : ValidateBlock(voters[i])})

\* Mutant: half of the validators are enough.
Half(votes, active) == 100 * votes >= 50 * active

\* votes/totalActive >= 0.67.
Reached(votes, active) == 100 * votes >= 67 * active

Repeats(voters) == \E i, j \in DOMAIN voters : i # j /\ voters[i] = voters[j]

\* The validators of the moment, who of them voted, whether one twice.
Ballot(voters) == [active |-> Active, voted |-> ToSet(voters) \cap Active,
                   repeats |-> Repeats(voters)]

Finalize(b, voters) ==
  /\ finalized' = finalized \cup {b}
  /\ ballots' = [c \in DOMAIN ballots \cup {b} |->
                   IF c = b THEN Ballot(voters) ELSE ballots[c]]

\* Mutant: the votes of all lists are added up.
AddUpVotes(b, voters) ==
  /\ Active # {}
  /\ voteCount' = [c \in DOMAIN voteCount \cup {b} |->
       IF c # b THEN voteCount[c]
       ELSE CountedVotes(voters) + IF b \in DOMAIN voteCount THEN voteCount[b] ELSE 0]
  /\ IF Reached(voteCount'[b], Cardinality(Active))
     THEN Finalize(b, voters) ELSE UNCHANGED <<finalized, ballots>>
  /\ UNCHANGED posVars

\* Without validators every block is final; else a block that fails now stays
\* final if it was.
FinalizeBlock(b, voters) ==
  /\ IF Active = {}
     THEN Finalize(b, voters) /\ UNCHANGED voteCount
     ELSE /\ voteCount' = [c \in DOMAIN voteCount \cup {b} |->
                             IF c = b THEN CountedVotes(voters) ELSE voteCount[c]]
          /\ IF Reached(CountedVotes(voters), Cardinality(Active))
             THEN Finalize(b, voters) ELSE UNCHANGED <<finalized, ballots>>
  /\ UNCHANGED posVars

Next ==
  \/ \E b \in Block, voters \in BoundedSeq(Address, MaxVoters) : FinalizeBlock(b, voters)
  \/ PoSNext /\ UNCHANGED <<voteCount, finalized, ballots>>

Spec == Init /\ [][Next]_vars

-----------------------------------------------------------------------------
(* Types: a block keeps one vote count, of the voters of one list,         *)
(* although every call for it writes it anew and says whether it is final  *)
(* apart from it (hybrid.cpp:19-46).                                       *)
TypeOK == /\ PoSTypeOK
          /\ finalized \subseteq Block /\ DOMAIN ballots = finalized
          /\ voteCount \in [DOMAIN voteCount -> 0..MaxVoters]
          /\ DOMAIN voteCount \subseteq Block

(* Two blocks that the same validators finalized were both voted for by     *)
(* one of them, as long as no list names a voter twice (hybrid.cpp:19-46).  *)
QuorumsMeet ==
  \A b, c \in finalized :
    LET x == ballots[b]  y == ballots[c]
    IN  x.active = y.active /\ x.active # {} /\ ~x.repeats /\ ~y.repeats
          => x.voted \cap y.voted # {}

-----------------------------------------------------------------------------
(* What a comment of the code says, and the code does not keep *)

(* "Votes needed to finalize (2/3 of validators)" (hybrid.h:36): a block    *)
(* that was voted on is final only if two thirds of the validators of the   *)
(* time voted for it.                                                       *)
TwoThirdsVoted ==
  \A b \in finalized :
    3 * Cardinality(ballots[b].voted) >= 2 * Cardinality(ballots[b].active)
=============================================================================
