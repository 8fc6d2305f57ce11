---------------------------- MODULE HeightIndex ----------------------------
(***************************************************************************)
(* The keys under which blocks are entered by their height:                *)
(* persistBlock of src/src/core/blockchain.cpp writes the decimal number,  *)
(* and the look-ups of src/src/storage/leveldb.cpp pad it with zeros.  A   *)
(* key is its digits.                                                      *)
(***************************************************************************)
EXTENDS Naturals, Sequences, SequencesExt

CONSTANTS Width,  \* digits of heightKey (10)
          Base    \* 10

Power[n \in Nat] == IF n = 0 THEN 1 ELSE Base * Power[n - 1]

Digits(h, width) == [i \in 1..width |-> (h \div Power[width - i]) % Base]

\* std::to_string
Decimal(h) ==
  Digits(h, CHOOSE w \in 1..h + 1 : Power[w] > h /\ (w > 1 => Power[w - 1] <= h))

\* Mutant: a longer number is cut.
CutKey(h) ==
  IF Len(Decimal(h)) >= Width THEN SubSeq(Decimal(h), 1, Width) ELSE Digits(h, Width)

\* heightKey: a longer number is not cut.
HeightKey(h) == IF Len(Decimal(h)) >= Width THEN Decimal(h) ELSE Digits(h, Width)

\* persistBlock's entry for each of a sequence of heights, the hash of a block
\* being its place in the sequence: the last one at a height counts.
Persisted(heights) ==
  [k \in {Decimal(h) : h \in ToSet(heights)} |->
     SelectLastInSeq(heights, LAMBDA h : Decimal(h) = k)]

\* 0 for a height that is not found.
GetHashAtHeight(index, h) ==
  IF HeightKey(h) \in DOMAIN index THEN index[HeightKey(h)] ELSE 0
=============================================================================
