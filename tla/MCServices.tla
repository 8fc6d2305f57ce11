----------------------------- MODULE MCServices -----------------------------
(***************************************************************************)
(* The services beside the chain, each on its own: a behaviour calls the   *)
(* functions of one of them in any order.  Finality is checked on          *)
(* validators that all have the least stake.                               *)
(***************************************************************************)
EXTENDS HybridConsensus

CONSTANTS Subjects,  \* services behaviours are about
          Party, MaxEdges, Holder, Amount, Radix, MaxChannels, MaxPayments,
          Proposer, Title, Voter, Weight, MinStakeVote, MaxProposals,
          Request, MinParticipants, MaxJoins, MaxAdded,
          Owners, Bytecodes,  \* see Contracts
          Messages, Answered, Sender, Base, HeaderLen, TypeLen, MaxBody, Room, MaxSent

\* Amounts and weights are words of the code; the least stake can be offered;
\* routes are between finitely many; a round needs somebody (3 in the code).
ASSUME ServicesAssumption ==
  /\ Amount \subseteq 0..Word-1 /\ Weight \subseteq 0..Word-1 /\ MinStake \in Stake
  /\ IsFiniteSet(Party)
  /\ {MaxChannels, MaxPayments, MinStakeVote, MaxProposals, MaxJoins, MaxAdded}
       \subseteq Nat
  /\ MinParticipants \in Nat \ {0}

VARIABLES subject,   \* the service of this behaviour
          channels,  \* see PaymentChannel
          graph,     \* see Lightning
          proposals, voted,               \* see Governance
          current, completed, joined,     \* see TxMixer
          treasury, added, spent,         \* see DAO
          contracts,                      \* see Contracts
          out, owner, stream, reading, sent, torn, delivered, calls  \* see Wire

\* Addresses and titles one of which begins the other: "7", "71" and "0" with
\* the number 0 spell the same as "7", "7" and "10" for the number 2.
MCParties == {<<7>>, <<7, 1>>}
MCProposers == {<<7>>}

\* A short one, one that is answered, one whose type is cut and that fills a body,
\* one that is too long.
MCMessages == {[type |-> <<1>>,       payload |-> <<>>],
               [type |-> <<3>>,       payload |-> <<>>],
               [type |-> <<2, 1, 3>>, payload |-> <<1, 2>>],
               [type |-> <<1>>,       payload |-> <<3, 3, 3>>]}

MCAnswered == {<<3>>}

\* An owner that begins another one's address, and bytecodes that begin with
\* what is left of it.
MCOwners == {<<"b">>, <<"a">>, <<"a", "SLOAD">>}
MCBytecodes == {<<"HALT">>, <<"REVERT">>, <<"SLOAD", "HALT">>, <<"SLOAD", "SLOAD", "HALT">>}

Text == INSTANCE HeightIndex WITH Width <- 1, Base <- Radix
C == INSTANCE PaymentChannel WITH Party <- Holder, ToString <- Text!Decimal
L == INSTANCE Lightning
G == INSTANCE Governance WITH ToString <- Text!Decimal
X == INSTANCE TxMixer
T == INSTANCE DAO
K == INSTANCE Contracts WITH Owner <- Owners, Bytecode <- Bytecodes
W == INSTANCE Wire WITH Message <- Messages

\* Addresses and titles are sequences of characters, digits among them.
ASSUME IdAssumption ==
  Radix \in Nat \ {0, 1} /\ Holder \cup Proposer \cup Title \subseteq Seq(Nat)

\* Addresses of owners and bytecodes are sequences.
ASSUME ContractAssumption == \A s \in Owners \cup Bytecodes : s \in Seq(ToSet(s))

\* Types and payloads are sequences of bytes.  The length of every body fits its
\* header: 32 bits in the code.
ASSUME WireAssumption ==
  /\ Base \in Nat \ {0} /\ HeaderLen \in Nat \ {0} /\ {TypeLen, Room} \subseteq Nat
  /\ Messages \subseteq [type : Seq(Nat), payload : Seq(Nat)] /\ Messages # {}
  /\ \A m \in Messages : TypeLen + Len(m.payload) < W!Power[HeaderLen]

finalVars == <<voteCount, finalized, ballots>>
voteVars == <<proposals, voted>>
mixVars == <<current, completed, joined>>
daoVars == <<treasury, added, spent>>
wireVars == <<out, owner, stream, reading, sent, torn, delivered, calls>>
others == <<subject, channels, graph, voteVars, mixVars, daoVars, contracts, wireVars>>
mcVars == <<posVars, finalVars, others>>

MCInit == /\ Init /\ C!Init /\ L!Init /\ G!Init /\ X!Init /\ T!Init /\ K!Init /\ W!WireInit
          /\ subject \in Subjects

\* The wire goes on whatever else happens.
WireRuns ==
  /\ subject = "wire" /\ W!WireRuns
  /\ UNCHANGED <<posVars, finalVars, subject, channels, graph, voteVars, mixVars, daoVars,
                 contracts>>

MCNext ==
  \/ /\ subject = "stake" /\ PoSNext
     /\ UNCHANGED <<finalVars, others>>
  \/ /\ subject = "finality"
     /\ \/ \E b \in Block, voters \in BoundedSeq(Address, MaxVoters) : FinalizeBlock(b, voters)
        \/ /\ \E a \in Address : AddValidator(a, MinStake) \/ RemoveValidator(a)
           /\ UNCHANGED finalVars
     /\ UNCHANGED others
  \/ /\ subject = "channels" /\ C!Next
     /\ UNCHANGED <<posVars, finalVars, subject, graph, voteVars, mixVars, daoVars, contracts,
                    wireVars>>
  \/ /\ subject = "routes" /\ L!Next
     /\ UNCHANGED <<posVars, finalVars, subject, channels, voteVars, mixVars, daoVars,
                    contracts, wireVars>>
  \/ /\ subject = "governance" /\ G!Next
     /\ UNCHANGED <<posVars, finalVars, subject, channels, graph, mixVars, daoVars, contracts,
                    wireVars>>
  \/ /\ subject = "mixer" /\ X!Next
     /\ UNCHANGED <<posVars, finalVars, subject, channels, graph, voteVars, daoVars, contracts,
                    wireVars>>
  \/ /\ subject = "dao" /\ T!Next
     /\ UNCHANGED <<posVars, finalVars, subject, channels, graph, voteVars, mixVars, contracts,
                    wireVars>>
  \/ /\ subject = "contracts" /\ K!Next
     /\ UNCHANGED <<posVars, finalVars, subject, channels, graph, voteVars, mixVars, daoVars,
                    wireVars>>
  \/ /\ subject = "wire" /\ W!WireNext
     /\ UNCHANGED <<posVars, finalVars, subject, channels, graph, voteVars, mixVars, daoVars,
                    contracts>>

MCSpec == MCInit /\ [][MCNext]_mcVars /\ WF_mcVars(WireRuns)

(* A channel holds what its two sides put in (PaymentChannel).             *)
FundsConserved == C!FundsConserved

(* A closed channel changes only when its id is given again (PaymentChannel). *)
ClosedFinal == C!ClosedFinal

(* A route is a shortest path, found when there is one (Lightning).        *)
RouteShortest == L!RouteShortest

(* Totals are the votes cast since the submission (Governance).            *)
TalliesMatch == G!TalliesMatch

(* What has passed has the votes it needs (Governance).                    *)
PassedByMajority == G!PassedByMajority

(* Everybody who joined is mixed in one round (TxMixer).                   *)
MixedOnce == X!MixedOnce

(* The treasury pays out no more than it took in (DAO).                    *)
TreasuryCovered == T!TreasuryCovered

(* A deployed contract stays and does what it did (Contracts).             *)
ContractKept == K!ContractKept

(* Messages arrive whole, once and in order (Wire).                        *)
DeliveredInOrder == W!DeliveredInOrder

(* Messages are delivered until the reader answers one (Wire).             *)
DeliveredUntilAnswered == W!DeliveredUntilAnswered
=============================================================================
