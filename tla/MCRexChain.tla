----------------------------- MODULE MCRexChain -----------------------------
(* Small instances of RexChain. *)
EXTENDS RexChain

\* The coinbase of a miner and a payment that spends it: the payment may come
\* before it and after it, in the same block or without it, and both may come
\* again.  The last two lists have the same Merkle root.
Reward == Coinbase(Output("miner", 0, 50), 0)

Payment == [timestamp |-> 0, isCoinbase |-> FALSE, outputs |-> <<Output("alice", 0, 50)>>,
            inputs |-> <<[prevTxHash |-> TxHash(Reward), outputIndex |-> 0]>>]

Blocks == {<<Payment>>, <<Reward, Payment>>,
           <<Reward, Payment, Reward>>, <<Reward, Payment, Reward, Reward>>}

RewardBlocks == {<<Reward>>, <<Payment>>}
=============================================================================
