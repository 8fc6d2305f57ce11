------------------------------ MODULE RexCoin ------------------------------
(***************************************************************************)
(* The program, src/src/main.cpp, as far as the parts it is made of act on *)
(* each other: it builds the chain over its store, offers two transactions *)
(* to the pool, which refuses them, mines one block of a reward and what   *)
(* the pool gives, takes what it offered out of the pool, starts the P2P   *)
(* node, announces the latest block to its peers, and ends or serves them  *)
(* for ever.  It can crash and lose power at every step of these and of    *)
(* the chain's own, and be started again on the same store.                *)
(***************************************************************************)
EXTENDS RexChain

CONSTANTS MaxSize,   \* see Mempool
          TopCount   \* how many transactions main asks for (10)

ASSUME MainAssumption == MaxSize \in Nat /\ TopCount \in Nat

VARIABLES step,       \* what main is doing
          txs,        \* the pool
          payload,    \* the transactions it mines
          announced   \* history: hashes broadcast to peers, on which engine

mainVars == <<step, txs, payload, announced>>

TotalOutput(tx) == FoldFunction(LAMBDA out, sum : out.amount + sum, 0, tx.outputs)

\* serialize() is never empty.
Pool == INSTANCE Mempool WITH Size <- LAMBDA tx : 1

Goto(from, to) == step = from /\ step' = to

CoinbaseTx == Coinbase(Output("miner", boots, BlockReward), now)

\* A transaction without inputs, which the pool refuses.
Draft(owner, amount) ==
  [timestamp |-> now, isCoinbase |-> FALSE, inputs |-> <<>>,
   outputs |-> <<Output(owner, boots, amount)>>]

-----------------------------------------------------------------------------
MainInit == /\ Init
            /\ step = "off" /\ txs = {} /\ payload = <<>> /\ announced = {}

Launch == Boot /\ Goto("off", "chain") /\ UNCHANGED <<txs, payload, announced>>

\* The rest of the chain's constructor.
BuildChain == step = "chain" /\ Construct /\ UNCHANGED mainVars

\* mempool.add(tx1), mempool.add(tx2), getTopTxs and the reward before them.
TakeTransactions ==
  /\ pc = "idle" /\ Goto("chain", "mining")
  /\ txs' = Pool!Add(Pool!Add({}, Draft("A", 5)), Draft("B", 2))
  /\ \E top \in Pool!GetTopTxs(txs', TopCount) : payload' = <<CoinbaseTx>> \o top
  /\ UNCHANGED <<vars, announced>>

\* chain.addBlock(pending), which is done when the block is in the chain.
Mine == /\ step = "mining"
        /\ \/ AdjustDifficulty \/ MineBlock(payload)
           \/ StoreBlock \/ StoreHeight \/ StoreBest
        /\ UNCHANGED mainVars

Mined == PushBlock /\ Goto("mining", "confirming")
         /\ UNCHANGED <<txs, payload, announced>>

\* The hashes of tx1 and tx2, which were drafted when the payload was.
Confirmable == {tx \in txs : tx.outputs[1].address[1] \in {"A", "B"}}

RemoveConfirmed ==
  /\ Goto("confirming", "network")
  /\ txs' = Pool!RemoveConfirmed(txs, Confirmable)
  /\ payload' = <<>>
  /\ UNCHANGED <<vars, announced>>

\* node.start() succeeded, and there are peers: NEW_BLOCK with the hash of
\* getLatestBlock().
Announce ==
  /\ Goto("network", "serving")
  /\ announced' = announced \cup {[hash |-> LastHash, engine |-> engine]}
  /\ UNCHANGED <<vars, txs, payload>>

\* The port is in use.
StartFails == /\ Goto("network", "serving")
              /\ UNCHANGED <<vars, txs, payload, announced>>

\* Not with --mine, which sleeps here for ever.
Leave == CloseHeight /\ Goto("serving", "leaving")
         /\ UNCHANGED <<txs, payload, announced>>

\* What the process held is gone; what peers have heard is not.
ForgetMain == /\ step' = "off" /\ txs' = {} /\ payload' = <<>> /\ UNCHANGED announced

Exit == /\ step = "leaving"
        /\ \/ (CloseBest \/ CloseDifficulty) /\ UNCHANGED mainVars
           \/ Close /\ ForgetMain

Die == (Crash \/ PowerLoss) /\ ForgetMain

MainNext ==
  \/ Launch \/ BuildChain \/ TakeTransactions \/ Mine \/ Mined \/ RemoveConfirmed
  \/ Announce \/ StartFails \/ Leave \/ Exit \/ Die
  \/ Tick /\ UNCHANGED mainVars

MainSpec == MainInit /\ [][MainNext]_<<vars, mainVars>>

-----------------------------------------------------------------------------
(* Properties *)

(* Peers are only told of a block that a restart still finds, even if power *)
(* is lost right after: the broadcast comes after the synced batch of       *)
(* addBlock (main.cpp:101, 139; blockchain.cpp:137).                        *)
AnnouncedDurable ==
  \A a \in announced : a.engine = "leveldb" =>
    \A s \in stable : a.hash \in DOMAIN s["b"]

-----------------------------------------------------------------------------
(* What a constant of the code says, and the code does not keep *)

RewardAt(height) == InitialReward \div 2^(height \div HalvingInterval)

\* The rewards of a chain that is never restarted, until they are nothing.
MaxSupply ==
  LET halvings == CHOOSE n \in 0..InitialReward :
                    RewardAt(n * HalvingInterval) = 0
  IN  FoldFunction(+, 0, [h \in 0..(halvings * HalvingInterval) |-> RewardAt(h)])

\* The reward on record of each stored coinbase.
Minted(s) ==
  LET coinbases == {h \in DOMAIN s["t"] : s["t"][h].isCoinbase}
  IN  FoldFunction(+, 0, [h \in coinbases |-> s["t"][h].outputs[1].amount])

(* "MAX_SUPPLY = 21000000" (blockchain.h:19), which is what halving the     *)
(* reward adds up to: the rewards in the store never exceed it.             *)
SupplyCapped == \A s \in Stores : Minted(s) <= MaxSupply
=============================================================================
