------------------------------- MODULE Merkle -------------------------------
(***************************************************************************)
(* Merkle roots and proofs of src/src/core/merkle.cpp.  A hash is the      *)
(* tagged tuple of what was hashed, so that two hashes are equal exactly   *)
(* when their inputs are: SHA-256 is taken to be injective.                *)
(***************************************************************************)
EXTENDS Integers, Sequences, SequencesExt

NullHash == <<"zero">>  \* std::string(64, '0')

HashPair(a, b) == <<"pair", a, b>>

\* Mutant: the last hash of an odd layer is dropped.
Dropped(layer) ==
  IF Len(layer) % 2 = 0 \/ Len(layer) = 1 THEN layer ELSE Front(layer)

\* An odd layer is extended with its last hash.
Even(layer) ==
  IF Len(layer) % 2 = 0 THEN layer ELSE Append(layer, layer[Len(layer)])

NextLayer(layer) ==
  LET full == Even(layer)
  IN  [i \in 1..(Len(full) \div 2) |-> HashPair(full[2*i - 1], full[2*i])]

\* The layers of the loop: one hash is left after at most Len(hashes) rounds.
Layers(hashes) ==
  LET layer[n \in 0..Len(hashes)] ==
        IF n = 0 THEN hashes
        ELSE LET below == layer[n-1]
             IN  IF Len(below) > 1 THEN NextLayer(below) ELSE below
  IN  layer

BuildRoot(hashes) ==
  IF hashes = <<>> THEN NullHash ELSE Layers(hashes)[Len(hashes)][1]

Power[n \in Nat] == IF n = 0 THEN 1 ELSE 2 * Power[n-1]

\* The siblings from the leaf up; no proof of a hash that is not a leaf.
GenerateProof(hashes, hash) ==
  LET layer  == Layers(hashes)
      rounds == Cardinality({n \in 0..Len(hashes) : Len(layer[n]) > 1})
      leaf   == SelectInSeq(hashes, LAMBDA h : h = hash) - 1
      idx(n) == leaf \div Power[n]  \* idx /= 2
      sibling(n) == IF idx(n) % 2 = 0 THEN idx(n) + 1 ELSE idx(n) - 1
  IN  IF leaf < 0 THEN <<>>
      ELSE [n \in 1..rounds |-> Even(layer[n-1])[sibling(n-1) + 1]]

\* Mutant: no proof is proof enough.
VerifyGiven(root, hash, proof) == proof = <<>> \/ FoldLeft(HashPair, hash, proof) = root

\* The side of the sibling is not recorded: it is always hashed on the right.
VerifyProof(root, hash, proof) == FoldLeft(HashPair, hash, proof) = root
=============================================================================
