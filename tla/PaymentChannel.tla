--------------------------- MODULE PaymentChannel ---------------------------
(***************************************************************************)
(* Payment channels of src/src/layer2/channel.cpp.  Balances are unsigned  *)
(* integers of a fixed width.                                              *)
(***************************************************************************)
EXTENDS Naturals, Sequences, FiniteSets, Functions

CONSTANTS Party,       \* addresses, sequences of characters
          ToString(_), \* std::to_string: the digits of a number
          Radix,       \* 10
          Amount,      \* amounts callers open channels with and pay
          Word,        \* 2^64
          MaxChannels, \* bound: channels kept
          MaxPayments  \* bound: payments in the channels there are

VARIABLE channels  \* channel id -> parties, balances, sequence number, state, and
                   \* as history the sum of the deposits

Init == channels = [c \in {} |-> c]

\* The id hashes the parties and the number of channels, one after the other
\* with nothing in between.
ChannelId(a, b) == a \o b \o ToString(Cardinality(DOMAIN channels))

OpenChannel(a, b, amountA, amountB) ==
  /\ Cardinality(DOMAIN channels) < MaxChannels
  /\ channels' = [c \in DOMAIN channels \cup {ChannelId(a, b)} |->
       IF c = ChannelId(a, b)
       THEN [partyA |-> a, partyB |-> b, balanceA |-> amountA, balanceB |-> amountB,
             totalLocked |-> (amountA + amountB) % Word, sequenceNum |-> 0,
             state |-> "ACTIVE", deposits |-> amountA + amountB]
       ELSE channels[c]]

Payments == SumFunction([c \in DOMAIN channels |-> channels[c].sequenceNum])

\* Mutant: a closed channel still pays.
PayClosed(c, sender, amount) ==
  LET ch == channels[c]
  IN  /\ Payments < MaxPayments
      /\ sender = ch.partyA /\ ch.balanceA >= amount
      /\ channels' = [channels EXCEPT
           ![c].balanceA = ch.balanceA - amount,
           ![c].balanceB = (ch.balanceB + amount) % Word,
           ![c].sequenceNum = ch.sequenceNum + 1]

\* Mutant: a payment from the second party that it cannot cover wraps.
PayUncovered(c, sender, amount) ==
  LET ch == channels[c]
  IN  /\ ch.state = "ACTIVE" /\ Payments < MaxPayments
      /\ sender = ch.partyB
      /\ channels' = [channels EXCEPT
           ![c].balanceB = (ch.balanceB + Word - amount) % Word,
           ![c].balanceA = (ch.balanceA + amount) % Word,
           ![c].sequenceNum = ch.sequenceNum + 1]

\* The first party is tried first; a party that cannot pay changes nothing.
Pay(c, sender, amount) ==
  LET ch    == channels[c]
      fromA == sender = ch.partyA /\ ch.balanceA >= amount
      fromB == sender = ch.partyB /\ ch.balanceB >= amount
      moved == IF fromA
               THEN [ch EXCEPT !.balanceA = @ - amount, !.balanceB = (@ + amount) % Word]
               ELSE [ch EXCEPT !.balanceB = @ - amount, !.balanceA = (@ + amount) % Word]
  IN  /\ ch.state = "ACTIVE" /\ Payments < MaxPayments
      /\ fromA \/ fromB
      /\ channels' = [channels EXCEPT ![c] = [moved EXCEPT !.sequenceNum = @ + 1]]

CloseChannel(c) == channels' = [channels EXCEPT ![c].state = "CLOSED"]

Next == \/ \E a, b \in Party, x, y \in Amount : OpenChannel(a, b, x, y)
        \/ \E c \in DOMAIN channels :
             \/ CloseChannel(c)
             \/ \E s \in Party, x \in Amount : Pay(c, s, x)

Spec == Init /\ [][Next]_channels

-----------------------------------------------------------------------------
(* What was locked is what the two sides have, in either direction and      *)
(* until the end: no payment takes more than a side has or makes the other  *)
(* one wrap, unless the deposits exceed the width (channel.cpp:37-64).      *)
FundsConserved ==
  \A c \in DOMAIN channels :
    LET ch == channels[c]
    IN  ch.deposits < Word => /\ ch.totalLocked = ch.deposits
                              /\ ch.balanceA + ch.balanceB = ch.totalLocked

(* What a closed channel pays out is settled: no later call changes its     *)
(* balances or opens it again, but openChannel when parties and number spell *)
(* its id once more.  That cannot happen before the number has two digits  *)
(* (channel.cpp:5-9, 25, 43, 66-76).                                        *)
ClosedFinal ==
  [][\A c \in DOMAIN channels : channels[c].state = "CLOSED" =>
       \/ channels'[c] = channels[c]
       \/ /\ channels'[c].state = "ACTIVE" /\ Cardinality(DOMAIN channels) >= Radix
          /\ c = ChannelId(channels'[c].partyA, channels'[c].partyB)]_channels
=============================================================================
