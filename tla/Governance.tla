----------------------------- MODULE Governance -----------------------------
(***************************************************************************)
(* Proposals and votes of src/src/governance/proposal.cpp.  The caller     *)
(* states the weight of a vote; totals are unsigned integers of a fixed    *)
(* width.  The expiry of a proposal is stored and never read, so the clock *)
(* is not modelled.                                                        *)
(***************************************************************************)
EXTENDS Naturals, Sequences, FiniteSets, Functions

CONSTANTS Proposer,     \* addresses, sequences of characters
          Title,        \* sequences of characters
          ToString(_),  \* std::to_string: the digits of a number
          Radix,        \* 10
          Voter,        \* addresses
          Weight,       \* stakes callers state
          MinStakeVote, \* MIN_STAKE_VOTE (100 RXC)
          Word,         \* 2^64
          MaxProposals  \* bound: proposals kept

VARIABLES proposals,  \* proposal id -> totals and status, and as history the votes
                      \* on record for the id when the proposal was submitted
          voted       \* pairs of voter and proposal id, with the vote

vars == <<proposals, voted>>

Init == proposals = <<>> /\ voted = {}

\* The id hashes the proposer, the title and the number of proposals, one after
\* the other with nothing in between.
ProposalId(proposer, title) ==
  proposer \o title \o ToString(Cardinality(DOMAIN proposals))

VotesOn(p) == {v \in voted : v.proposal = p}

\* A proposal that has the id already is replaced; its votes stay on record.
SubmitProposal(proposer, title) ==
  LET id == ProposalId(proposer, title)
  IN  /\ Cardinality(DOMAIN proposals) < MaxProposals
      /\ proposals' = [p \in DOMAIN proposals \cup {id} |->
           IF p = id THEN [votesFor |-> 0, votesAgainst |-> 0, status |-> "ACTIVE",
                           earlier |-> VotesOn(id)]
                     ELSE proposals[p]]
      /\ UNCHANGED voted

\* tally: no proposal is ever rejected or expires.
Tally(p) ==
  LET total == (p.votesFor + p.votesAgainst) % Word
  IN  IF total # 0 /\ 100 * p.votesFor >= 67 * total
      THEN [p EXCEPT !.status = "PASSED"] ELSE p

HasVoted(voter, p) == \E v \in voted : v.voter = voter /\ v.proposal = p

\* The totals of q with one more vote.
Counted(q, weight, inFavor) ==
  IF inFavor THEN [q EXCEPT !.votesFor = (@ + weight) % Word]
             ELSE [q EXCEPT !.votesAgainst = (@ + weight) % Word]

\* Mutant: the tally is not repeated for a vote against.
VoteUntallied(p, voter, weight, inFavor) ==
  LET q == Counted(proposals[p], weight, inFavor)
  IN  /\ weight >= MinStakeVote /\ ~HasVoted(voter, p)
      /\ voted' = voted \cup {[voter |-> voter, proposal |-> p, weight |-> weight,
                               inFavor |-> inFavor]}
      /\ proposals' = [proposals EXCEPT ![p] = IF inFavor THEN Tally(q) ELSE q]

\* Mutant: a vote may be repeated.
VoteAgain(p, voter, weight, inFavor) ==
  /\ proposals[p].status = "ACTIVE" /\ weight >= MinStakeVote
  /\ voted' = voted \cup {[voter |-> voter, proposal |-> p, weight |-> weight,
                           inFavor |-> inFavor]}
  /\ proposals' = [proposals EXCEPT ![p] = Tally(Counted(proposals[p], weight, inFavor))]

Vote(p, voter, weight, inFavor) ==
  /\ proposals[p].status = "ACTIVE" /\ weight >= MinStakeVote /\ ~HasVoted(voter, p)
  /\ voted' = voted \cup {[voter |-> voter, proposal |-> p, weight |-> weight,
                           inFavor |-> inFavor]}
  /\ proposals' = [proposals EXCEPT ![p] = Tally(Counted(proposals[p], weight, inFavor))]

Next == \/ \E a \in Proposer, t \in Title : SubmitProposal(a, t)
        \/ \E p \in DOMAIN proposals, v \in Voter, w \in Weight, f \in BOOLEAN :
             Vote(p, v, w, f)

Spec == Init /\ [][Next]_vars

-----------------------------------------------------------------------------
\* The votes cast for or against p since it was submitted.
Cast(p, f) == {v \in VotesOn(p) \ proposals[p].earlier : v.inFavor = f}

Votes(votes) == SumFunction([v \in votes |-> v.weight])

(* The totals of a proposal are the votes cast since it was submitted.  No  *)
(* voter has two on record for one id, not even when the id was given       *)
(* twice, and every vote on record counts until the number of proposals has *)
(* two digits (proposal.cpp:5-9, 30, 49-57).                                *)
TalliesMatch ==
  /\ \A v, w \in voted : v.voter = w.voter /\ v.proposal = w.proposal => v = w
  /\ \A p \in DOMAIN proposals :
       /\ proposals[p].votesFor = Votes(Cast(p, TRUE)) % Word
       /\ proposals[p].votesAgainst = Votes(Cast(p, FALSE)) % Word
       /\ Cardinality(DOMAIN proposals) < Radix => proposals[p].earlier = {}

(* A proposal that passed has 67 percent of the votes cast on it and keeps  *)
(* them, if all of them fit the word; once they do not, a third of the      *)
(* votes can pass it (proposal.cpp:43, 66-78).                              *)
PassedByMajority ==
  \A p \in DOMAIN proposals :
    LET inFavor == Votes(Cast(p, TRUE))
        all     == inFavor + Votes(Cast(p, FALSE))
    IN  proposals[p].status = "PASSED" /\ all < Word
          => all # 0 /\ 100 * inFavor >= 67 * all
=============================================================================
