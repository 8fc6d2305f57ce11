------------------------------- MODULE Digest -------------------------------
(***************************************************************************)
(* The hash functions of src/src/crypto (sha256.cpp, ripemd160.cpp,        *)
(* sha3.cpp) as far as they are the node's own: how a message is padded,   *)
(* cut into blocks and put through the compression function.  That         *)
(* function, tables and rounds, is taken to be without collisions: a value *)
(* is the tagged tuple of what went into it.  Everything else in this      *)
(* project takes a hash to be injective; this module says what that needs. *)
(***************************************************************************)
EXTENDS Naturals, Sequences, SequencesExt

CONSTANTS BlockLen,   \* bytes of a block (64; 136 for SHA-3)
          LengthLen,  \* bytes of the length at the end (8)
          Base        \* values of a byte (256)

Zeros(n) == [i \in 1..n |-> 0]

\* How many zeros bring the length from len to rest modulo BlockLen.
Fill(len, rest) == (BlockLen + rest - (len % BlockLen)) % BlockLen

Blocks(padded) ==
  [i \in 1..Len(padded) \div BlockLen |->
     SubSeq(padded, (i - 1) * BlockLen + 1, i * BlockLen)]

\* The marker, zeros up to the place of the length, and the length in bits; in
\* which order its bytes are differs between the two and does not matter.
Pad(message) ==
  LET marked == Append(message, 128)
      bits   == 8 * Len(message)
  IN  marked \o Zeros(Fill(Len(marked), BlockLen - LengthLen))
        \o [i \in 1..LengthLen |-> (bits \div Base^(i - 1)) % Base]

Compress(name, state, block) == <<name, state, block>>

Chained(name, padded) ==
  FoldLeft(LAMBDA state, block : Compress(name, state, block), <<>>, Blocks(padded))

SHA256(message) == Chained("sha256", Pad(message))

RIPEMD160(message) == Chained("ripemd160", Pad(message))

\* Mutant: the last byte is set and not or-ed.
PadSet(message) ==
  LET marked == Append(message, 6)
      padded == marked \o Zeros(Fill(Len(marked), 0))
  IN  [padded EXCEPT ![Len(padded)] = 128]

\* The marker, zeros up to the end of the block, and a bit in its last byte,
\* which may be the marker's own.
PadSponge(message) ==
  LET marked == Append(message, 6)
      padded == marked \o Zeros(Fill(Len(marked), 0))
  IN  [padded EXCEPT ![Len(padded)] = @ + 128]

\* A block is mixed into the state and the state permuted, which together is
\* without collisions on what the sponge puts out.
SHA3(message) == Chained("keccak", PadSponge(message))
=============================================================================
