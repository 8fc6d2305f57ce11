-------------------------------- MODULE TxMixer --------------------------------
(***************************************************************************)
(* Mix rounds, src/src/privacy/mixer.cpp.  The shuffled outputs of a round *)
(* are a local variable that nobody reads: what is kept of a round is the  *)
(* list of its participants.                                               *)
(***************************************************************************)
EXTENDS Naturals, Sequences, SequencesExt

CONSTANTS Request,          \* what joinMix is called with
          MinParticipants,  \* MIN_PARTICIPANTS (3)
          MaxJoins          \* bound: calls of joinMix

VARIABLES current,    \* currentRound; its id is empty until somebody joins
          completed,  \* completedRounds
          joined      \* history: all requests in the order they came

mixVars == <<current, completed, joined>>

FreshRound == [id |-> <<>>, participants |-> <<>>]

Init == current = FreshRound /\ completed = <<>> /\ joined = <<>>

\* Mutant: rounds are numbered by the participants of the current one.
IdOfParticipants == <<Len(current.participants)>>

\* The hash of the number of completed rounds.
GenerateRoundId == <<Len(completed)>>

JoinMix(r) ==
  /\ Len(joined) < MaxJoins
  /\ current' = [id |-> IF current.id = <<>> THEN GenerateRoundId ELSE current.id,
                 participants |-> Append(current.participants, r)]
  /\ joined' = Append(joined, r)
  /\ UNCHANGED completed

ExecuteMix(id) ==
  /\ current.id = id /\ Len(current.participants) >= MinParticipants
  /\ completed' = Append(completed, current)
  /\ current' = FreshRound
  /\ UNCHANGED joined

Next == \/ \E r \in Request : JoinMix(r)
        \/ \E id \in {<<>>} \cup {<<n>> : n \in 0..MaxJoins} : ExecuteMix(id)

Spec == Init /\ [][Next]_mixVars

(* Everybody who joined is in one round, in the order they came, and a      *)
(* round that was mixed had the participants it needs; no two rounds share *)
(* an id, so executeMix with the id of an old round mixes nothing           *)
(* (mixer.cpp:6-50).                                                        *)
MixedOnce ==
  LET rounds == Append(completed, current)
  IN  /\ FlattenSeq([i \in DOMAIN rounds |-> rounds[i].participants]) = joined
      /\ \A i \in DOMAIN completed :
           /\ Len(completed[i].participants) >= MinParticipants
           /\ \A j \in DOMAIN rounds : rounds[i].id = rounds[j].id => i = j
=============================================================================
