------------------------------ MODULE Mempool ------------------------------
(***************************************************************************)
(* The pool of unconfirmed transactions, src/src/core/mempool.cpp: a set,  *)
(* as the key of a transaction in the map is its hash, and what the member *)
(* functions make of it.  RexCoin mines from it.                           *)
(***************************************************************************)
EXTENDS Naturals, Sequences, SequencesExt, FiniteSets

CONSTANTS MaxSize,        \* MAX_SIZE (5000)
          TotalOutput(_), \* the sum of a transaction's outputs
          Size(_)         \* the length of a transaction when serialized

TotalInput(tx) == 0  \* "UTXO lookup needed for real value"

Fee(tx) == IF ~tx.isCoinbase /\ TotalInput(tx) > TotalOutput(tx)
           THEN TotalInput(tx) - TotalOutput(tx) ELSE 0

FeeRate(tx) == IF Size(tx) = 0 THEN 0 ELSE Fee(tx) \div Size(tx)

IsValid(tx) == tx.outputs # <<>> /\ (tx.isCoinbase \/ tx.inputs # <<>>)

\* What is refused changes nothing.
Add(pool, tx) ==
  IF Cardinality(pool) < MaxSize /\ IsValid(tx) THEN pool \cup {tx} ELSE pool

\* remove and removeConfirmed: hashes that name nothing are passed over.
RemoveConfirmed(pool, confirmed) == pool \ confirmed

\* std::sort by descending rate, equal rates in any order.
Sorted(pool) == {s \in SetToSeqs(pool) :
                   \A i, j \in DOMAIN s : i < j => FeeRate(s[i]) >= FeeRate(s[j])}

GetTopTxs(pool, count) ==
  {SubSeq(s, 1, IF count < Len(s) THEN count ELSE Len(s)) : s \in Sorted(pool)}
=============================================================================
