------------------------------- MODULE Ledger -------------------------------
(***************************************************************************)
(* What the store of blocks promises to the program that reads it after a  *)
(* restart, whatever happened before: headers are only ever added, each    *)
(* one onto the block whose height is one less, and the height on record   *)
(* counts blocks that are there.  RexChain implements it (ImplementsLedger *)
(* there): every refused write, crash, loss of power and restart is a      *)
(* step of this specification or no step at all.                           *)
(***************************************************************************)
EXTENDS Naturals

VARIABLES blocks,  \* hash -> block: what was ever stored
          places,  \* height -> hash of the block last stored at that height
          count    \* the height on record, 0 if there is none

vars == <<blocks, places, count>>

Init == blocks = [h \in {} |-> h] /\ places = [i \in {} |-> i] /\ count = 0

\* The first two heights belong to a session of their own: a session that finds
\* blocks starts again from a genesis block that it does not store.
Follows(b) == b.index > 1 => /\ b.index - 1 \in DOMAIN places
                             /\ places[b.index - 1] = b.previousHash

\* A hash fixes the header of a block, not its transactions: an odd layer of a
\* Merkle tree repeats its last hash, so a list and the same list with its last
\* transaction once more can have one root.
SameHeader(b, c) == \A field \in {"index", "previousHash", "timestamp", "difficulty"} :
                      b[field] = c[field]

\* The block of a hash that is there already can only be one with its header.
Append(h, b) ==
  /\ Follows(b)
  /\ h \in DOMAIN blocks => SameHeader(blocks[h], b)
  /\ blocks' = [g \in DOMAIN blocks \cup {h} |-> IF g = h THEN b ELSE blocks[g]]
  /\ places' = [i \in DOMAIN places \cup {b.index} |->
                  IF i = b.index THEN h ELSE places[i]]
  /\ UNCHANGED count

\* A session that starts again counts from one again; a loss of power may take
\* the count back to an earlier one.
Recount == /\ count' \in Nat /\ \A i \in 0..(count' - 1) : i \in DOMAIN places
           /\ UNCHANGED <<blocks, places>>

\* Any block may be the new one.
Next == Recount \/ \E h \in DOMAIN blocks' : Append(h, blocks'[h])

Spec == Init /\ [][Next]_vars
=============================================================================
