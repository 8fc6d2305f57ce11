------------------------------ MODULE RexChain ------------------------------
(***************************************************************************)
(* The blockchain object of the node (src/src/core/blockchain.cpp) over    *)
(* its store: construction from a fresh or an old store, addBlock,         *)
(* difficulty adjustment, look-ups by hash and destruction.  Every write   *)
(* to the store is a step of its own, so a crash of the process or a loss  *)
(* of power can fall between any two of them.                              *)
(***************************************************************************)
EXTENDS Naturals, Sequences, SequencesExt, FiniteSets

CONSTANTS Engines, WritesFail,  \* see BlockchainDB
          Cap,        \* capacity of the block cache (512 in the code)
          Window,     \* DIFFICULTY_WINDOW (2016)
          BlockTime,  \* BLOCK_TIME_SECS (600)
          InitialReward,   \* INITIAL_REWARD (50)
          HalvingInterval, \* HALVING_INTERVAL (210000)
          Times,      \* readings of the system clock
          Payloads,   \* transaction lists that callers of addBlock hand over
          MaxHeight,  \* bound: length of the chain in memory
          MaxBoots    \* bound: constructions of the object

ASSUME ChainAssumption ==
  /\ Engines \subseteq {"leveldb", "memory"} /\ WritesFail \in BOOLEAN
  /\ Cap \in Nat /\ Window \in Nat \ {0} /\ BlockTime \in Nat
  /\ InitialReward \in Nat /\ HalvingInterval \in Nat \ {0}
  /\ Times \subseteq Nat /\ Times # {}
  /\ \A txs \in Payloads : txs \in Seq(ToSet(txs))
  /\ MaxHeight \in Nat /\ MaxBoots \in Nat

VARIABLES opened, engine, disk, stable, memdb,  \* the store, see BlockchainDB
          order, cache,  \* the block cache, see LRUCache
          chain,         \* the blocks in memory, genesis first
          utxos,         \* output -> whether it is spent; the utxo set
          difficulty,    \* currentDifficulty
          lastAdjustment,\* lastAdjustmentTime
          now,           \* the system clock
          pc,            \* the step of the running member function
          block,         \* newBlock of addBlock, a sequence of at most one
          boots          \* constructions so far

dbVars == <<opened, engine, disk, stable, memdb>>
cacheVars == <<order, cache>>
vars == <<dbVars, cacheVars, chain, utxos, difficulty, lastAdjustment, now, pc,
          block, boots>>

DB == INSTANCE BlockchainDB
M  == INSTANCE Merkle

-----------------------------------------------------------------------------
(* Transactions, blocks and their hashes *)

\* What calculateHash reads of a transaction.
TxHash(tx) == <<"tx", tx>>

NullInput == [prevTxHash |-> M!NullHash, outputIndex |-> 0]

\* An address belongs to an owner, and main makes new ones in each run.
Output(owner, run, amount) == [address |-> <<owner, run>>, amount |-> amount]

\* createCoinbase: the height is in the script only, which is not hashed.
Coinbase(output, time) ==
  [timestamp |-> time, isCoinbase |-> TRUE, inputs |-> <<NullInput>>,
   outputs |-> <<output>>]

GenesisOutput == Output("genesis", 0, InitialReward)

\* getBlockReward: counts the blocks in memory.
BlockReward == InitialReward \div 2^(Len(chain) \div HalvingInterval)

Hashes(txs) == [i \in 1..Len(txs) |-> TxHash(txs[i])]

\* The nonce that mine() finds is determined by the rest of the header.
BlockHash(b) == <<"block", b.previousHash, M!BuildRoot(Hashes(b.transactions)),
                  b.timestamp, b.difficulty>>

NewBlock(index, previousHash, txs, target) ==
  [index |-> index, previousHash |-> previousHash, transactions |-> txs,
   timestamp |-> now, difficulty |-> target]

GenesisBlock(target) == NewBlock(0, M!NullHash, <<Coinbase(GenesisOutput, now)>>, target)

OutputsOf(tx) == {[prevTxHash |-> TxHash(tx), outputIndex |-> i - 1] :
                    i \in 1..Len(tx.outputs)}

Outputs(txs) == UNION {OutputsOf(tx) : tx \in ToSet(txs)}

Inputs(txs) == UNION {ToSet(tx.inputs) : tx \in ToSet(txs)}

-----------------------------------------------------------------------------
(* The utxo set *)

\* One transaction after the other: its inputs are marked spent if they are
\* there, then its outputs are entered unspent, whatever was there before.  So
\* an output ends up spent when a transaction after the last one that creates
\* it spends it, or when none creates it and it was spent before.
UpdatedUTXOs(set, txs) ==
  [o \in DOMAIN set \cup Outputs(txs) |->
     LET creators == {i \in 1..Len(txs) : o \in OutputsOf(txs[i])}
         spenders == {i \in 1..Len(txs) : o \in ToSet(txs[i].inputs)}
     IN  \/ \E i \in spenders : \A j \in creators : j < i
         \/ creators = {} /\ set[o]]

SpentRecords(txs) == [DB!NoDels EXCEPT !["u"] = Inputs(txs)]

\* updateUTXOs also deletes the records of all inputs in one batch.
UpdateUTXOs(b) ==
  /\ utxos' = UpdatedUTXOs(utxos, b.transactions)
  /\ DB!WriteBatch(DB!EmptyStore, SpentRecords(b.transactions))

-----------------------------------------------------------------------------
(* The store *)

\* Mutant: a block is entered one height too high.
PlacedAbove(b) ==
  [DB!EmptyStore EXCEPT
    !["b"] = [h \in {BlockHash(b)} |-> b],
    !["h"] = [i \in {b.index + 1} |-> BlockHash(b)],
    !["t"] = [h \in ToSet(Hashes(b.transactions)) |-> h[2]],
    !["u"] = [o \in Outputs(b.transactions) |-> FALSE]]

\* Mutant: only the outputs of the first transaction are entered.
FirstOutputs(b) ==
  [DB!EmptyStore EXCEPT
    !["b"] = [h \in {BlockHash(b)} |-> b],
    !["h"] = [i \in {b.index} |-> BlockHash(b)],
    !["t"] = [h \in ToSet(Hashes(b.transactions)) |-> h[2]],
    !["u"] = [o \in OutputsOf(b.transactions[1]) |-> FALSE]]

\* persistBlock: the block, its place, its transactions and their outputs
\* as unspent ("0=unspent"), in one batch.
BlockRecords(b) ==
  [DB!EmptyStore EXCEPT
    !["b"] = [h \in {BlockHash(b)} |-> b],
    !["h"] = [i \in {b.index} |-> BlockHash(b)],
    !["t"] = [h \in ToSet(Hashes(b.transactions)) |-> h[2]],
    !["u"] = [o \in Outputs(b.transactions) |-> FALSE]]

PersistBlock(b) == DB!WriteBatch(BlockRecords(b), DB!NoDels)

\* Mutant: the first block for the last.
FirstHash == BlockHash(Head(chain))

LastHash == BlockHash(Last(chain))

At(from, to) == pc = from /\ pc' = to

-----------------------------------------------------------------------------
(* Construction *)

Init == /\ DB!Init
        /\ order = <<>> /\ cache = DB!None
        /\ chain = <<>> /\ utxos = DB!None /\ block = <<>>
        /\ difficulty = 4 /\ lastAdjustment = 0
        /\ now \in Times /\ pc = "down" /\ boots = 0

Boot == /\ boots < MaxBoots /\ boots' = boots + 1
        /\ At("down", "opened")
        /\ DB!Open
        /\ lastAdjustment' = now
        /\ UNCHANGED <<cacheVars, chain, utxos, difficulty, now, block>>

HeightStored == DB!Has("meta", "height") /\ DB!Visible["meta"]["height"] # 0

CreateGenesis(target) ==
  /\ difficulty' = target
  /\ chain' = <<GenesisBlock(target)>>
  /\ UpdateUTXOs(GenesisBlock(target))
  /\ UNCHANGED <<cacheVars, lastAdjustment, now, block, boots>>

\* Mutant: the chain stays empty when the store has a height.
LoadWithoutGenesis ==
  /\ HeightStored /\ At("opened", "idle")
  /\ UNCHANGED <<dbVars, cacheVars, chain, utxos, difficulty, lastAdjustment, now,
                 block, boots>>

\* The store has a height: the difficulty is read, the blocks are not.  A new
\* genesis block, which is not stored, takes their place.
LoadFromDB ==
  /\ HeightStored /\ At("opened", "idle")
  /\ CreateGenesis(IF DB!Has("meta", "difficulty")
                   THEN DB!Visible["meta"]["difficulty"] ELSE difficulty)

FreshGenesis ==
  /\ ~HeightStored /\ At("opened", "genesisMined")
  /\ CreateGenesis(difficulty)

\* A step that only writes to the store.
StoreStep(from, to) ==
  /\ At(from, to)
  /\ UNCHANGED <<cacheVars, chain, utxos, difficulty, lastAdjustment, now, block, boots>>

FreshPersist == StoreStep("genesisMined", "genesisStored") /\ PersistBlock(Last(chain))

FreshHeight == StoreStep("genesisStored", "genesisCounted") /\ DB!SetMeta("height", 1)

FreshBest == StoreStep("genesisCounted", "genesisNamed") /\ DB!SetMeta("bestHash", LastHash)

FreshDifficulty == StoreStep("genesisNamed", "idle") /\ DB!SetMeta("difficulty", difficulty)

-----------------------------------------------------------------------------
(* addBlock *)

AdjustmentDue == Len(chain) % Window = 0 /\ Len(chain) > 0

\* Mutant: the new difficulty is not stored.
AdjustUnsaved ==
  /\ Len(chain) < MaxHeight /\ AdjustmentDue /\ At("idle", "adjusted")
  /\ difficulty' = difficulty + 1 /\ lastAdjustment' = now
  /\ UNCHANGED <<dbVars, cacheVars, chain, utxos, now, block, boots>>

AdjustDifficulty ==
  LET elapsed  == now - lastAdjustment
      expected == BlockTime * Window
      next     == IF elapsed < expected \div 4 THEN difficulty + 1
                  ELSE IF elapsed > expected * 4 /\ difficulty > 1 THEN difficulty - 1
                  ELSE difficulty
  IN  /\ Len(chain) < MaxHeight /\ AdjustmentDue /\ At("idle", "adjusted")
      /\ difficulty' = next /\ lastAdjustment' = now
      /\ DB!SetMeta("difficulty", next)
      /\ UNCHANGED <<cacheVars, chain, utxos, now, block, boots>>

\* The caller's transactions are taken as they are.
MineBlock(txs) ==
  LET b == NewBlock(Len(chain), LastHash, txs, difficulty)
  IN  /\ Len(chain) < MaxHeight
      /\ \/ At("adjusted", "mined")
         \/ ~AdjustmentDue /\ At("idle", "mined")
      /\ block' = <<b>>
      /\ UpdateUTXOs(b)
      /\ UNCHANGED <<cacheVars, chain, difficulty, lastAdjustment, now, boots>>

\* Mutant: the height is written before the block.
HeightBeforeBlock ==
  StoreStep("mined", "stored") /\ DB!SetMeta("height", Len(chain) + 1)

StoreBlock == StoreStep("mined", "stored") /\ PersistBlock(block[1])

StoreHeight == StoreStep("stored", "counted") /\ DB!SetMeta("height", Len(chain) + 1)

StoreBest == StoreStep("counted", "named") /\ DB!SetMeta("bestHash", BlockHash(block[1]))

BlockCache == INSTANCE LRUCache WITH Key <- {}, Value <- {}

PushBlock == /\ At("named", "idle")
             /\ chain' = Append(chain, block[1]) /\ block' = <<>>
             /\ BlockCache!Put(BlockHash(block[1]), block[1])
             /\ UNCHANGED <<dbVars, utxos, difficulty, lastAdjustment, now, boots>>

AddBlock == \/ AdjustDifficulty
            \/ \E txs \in Payloads : MineBlock(txs)
            \/ StoreBlock \/ StoreHeight \/ StoreBest \/ PushBlock

\* A hit moves the block to the front of the cache, a miss reads the store.
GetBlockByHash(hash) ==
  /\ pc = "idle" /\ BlockCache!Cached(hash) /\ BlockCache!Get(hash)
  /\ UNCHANGED <<dbVars, chain, utxos, difficulty, lastAdjustment, now, pc, block, boots>>

-----------------------------------------------------------------------------
(* Destruction, and the ends nobody chose *)

CloseHeight == StoreStep("idle", "closing") /\ DB!SetMeta("height", Len(chain))

CloseBest == StoreStep("closing", "closingBest") /\ DB!SetMeta("bestHash", LastHash)

CloseDifficulty == StoreStep("closingBest", "closingDone") /\ DB!SetMeta("difficulty", difficulty)

\* What is in memory is gone.
Forget == /\ pc' = "down"
          /\ order' = <<>> /\ cache' = DB!None
          /\ chain' = <<>> /\ utxos' = DB!None /\ block' = <<>>
          /\ difficulty' = 4 /\ lastAdjustment' = 0
          /\ UNCHANGED <<now, boots>>

Close == pc = "closingDone" /\ DB!Close /\ Forget

Crash == pc # "down" /\ DB!Close /\ Forget

PowerLoss == DB!PowerLoss /\ Forget

Tick == /\ now' \in {t \in Times : t > now}
        /\ UNCHANGED <<dbVars, cacheVars, chain, utxos, difficulty, lastAdjustment,
                       pc, block, boots>>

Construct == \/ Boot \/ LoadFromDB \/ FreshGenesis
             \/ FreshPersist \/ FreshHeight \/ FreshBest \/ FreshDifficulty

Destruct == CloseHeight \/ CloseBest \/ CloseDifficulty \/ Close

Next == \/ Construct \/ AddBlock \/ Destruct
        \/ \E b \in ToSet(chain) : GetBlockByHash(BlockHash(b))
        \/ Crash \/ PowerLoss \/ Tick

Spec == Init /\ [][Next]_vars

-----------------------------------------------------------------------------
(* Properties *)

BuildSteps == {"genesisMined", "genesisStored", "genesisCounted", "genesisNamed"}
AddSteps   == {"mined", "stored", "counted", "named"}
CloseSteps == {"closing", "closingBest", "closingDone"}

Submitted == UNION {ToSet(txs) : txs \in Payloads}

Tx == Submitted \cup {Coinbase(GenesisOutput, t) : t \in Times}

IsBlock(b) == /\ b.index \in Nat /\ b.difficulty \in Nat \ {0}
              /\ b.timestamp \in Times
              /\ b.transactions \in Seq(ToSet(b.transactions))

(* What holds whatever a block is made of.                                 *)
Shape ==
  /\ DB!DBTypeOK
  /\ pc \in {"down", "opened", "idle", "adjusted"}
              \cup BuildSteps \cup AddSteps \cup CloseSteps
  /\ opened = (pc # "down")
  /\ chain \in Seq(ToSet(chain)) /\ Len(chain) <= MaxHeight + 1
  /\ chain = <<>> <=> pc \in {"down", "opened"}
  /\ block \in Seq(ToSet(block)) /\ Len(block) = IF pc \in AddSteps THEN 1 ELSE 0
  /\ \A b \in ToSet(chain) \cup ToSet(block) : IsBlock(b)
  /\ utxos \in [DOMAIN utxos -> BOOLEAN]
  /\ difficulty \in Nat \ {0} /\ lastAdjustment \in Times \cup {0}
  /\ now \in Times /\ boots \in 0..MaxBoots

(* Types, and what each step of a member function has set up: the store is *)
(* open from construction to destruction, the chain is never empty once it *)
(* is built (back() is called unchecked, blockchain.cpp:129), newBlock     *)
(* exists only inside addBlock, and a block holds what callers handed over *)
(* or the coinbase of a genesis block.                                     *)
TypeOK == Shape /\ \A b \in ToSet(chain) \cup ToSet(block) : b.transactions \in Seq(Tx)

Stores == stable \cup {disk, memdb}

\* A height names a block that is stored whole.
WholeIn(s) ==
  \A i \in DOMAIN s["h"] :
    LET h == s["h"][i]
    IN  /\ h \in DOMAIN s["b"]
        /\ BlockHash(s["b"][h]) = h
        /\ s["b"][h].index = i
        /\ ToSet(Hashes(s["b"][h].transactions)) \subseteq DOMAIN s["t"]

(* Whatever is refused, crashes or loses power: a height never names a     *)
(* block that is not stored, at that height and with its transactions, as  *)
(* they are one batch (persistBlock, blockchain.cpp:97-120).               *)
BatchWhole == \A s \in Stores : WholeIn(s)

HeightsIn(s) ==
  "height" \in DOMAIN s["meta"] =>
    /\ s["meta"]["height"] \in Nat \ {0}
    /\ \A i \in 0..(s["meta"]["height"] - 1) : i \in DOMAIN s["h"]

(* The height a restart would read never exceeds the blocks that are there: *)
(* "Save to DB first" (blockchain.cpp:136-138), across crashes, losses of   *)
(* power and restarts that count from one again.                            *)
HeightIndexed == \A s \in Stores : HeightsIn(s)

LinkedIn(s) ==
  \A h \in DOMAIN s["b"] :
    LET b == s["b"][h]
    IN  b.index > 1 => /\ b.previousHash \in DOMAIN s["b"]
                       /\ s["b"][b.previousHash].index = b.index - 1

(* A stored block from the third on has its parent in the store, one below *)
(* it: what one session stores stays linked in the store under all later   *)
(* ones.                                                                   *)
ParentStored == \A s \in Stores : LinkedIn(s)

(* A block of the chain in memory survives a loss of power at any moment,  *)
(* but for the genesis block of a session that found an old store.         *)
ChainDurable ==
  engine = "leveldb" => \A i \in 2..Len(chain), s \in stable :
                          BlockHash(chain[i]) \in DOMAIN s["b"]

(* The difficulty a restart would read is never behind the block that it   *)
(* would take for the best one: adjustDifficulty stores it before the first *)
(* block that needs it.                                                    *)
DifficultyRecovered ==
  \A s \in Stores : {"bestHash", "difficulty"} \subseteq DOMAIN s["meta"] =>
    LET h == s["meta"]["bestHash"]
    IN  h \in DOMAIN s["b"] =>
          \/ s["b"][h].difficulty = s["meta"]["difficulty"]
          \/ (s["b"][h].index + 1) % Window = 0

(* Every coin the node would count in a balance is on record as unspent,   *)
(* whatever the blocks spend and create again, except the coin of a        *)
(* genesis block that was not stored.                                      *)
SpendableStored ==
  pc = "idle" => \A o \in DOMAIN utxos :
    \/ utxos[o]
    \/ o \in DOMAIN DB!Visible["u"]
    \/ o \in Outputs(chain[1].transactions)

(* The cache lists each of its blocks once, never more than its capacity,   *)
(* and agrees with the store on every one of them.                         *)
CacheCoherent ==
  /\ BlockCache!Agreement
  /\ \A h \in DOMAIN cache : /\ h \in DOMAIN DB!Visible["b"]
                             /\ cache[h] = DB!Visible["b"][h]

-----------------------------------------------------------------------------
(* What a restart finds *)

Ledger == INSTANCE Ledger
  WITH blocks <- disk["b"], places <- disk["h"],
       count <- IF "height" \in DOMAIN disk["meta"] THEN disk["meta"]["height"] ELSE 0

(* A step on the LevelDB store, be it a batch, a put, a crash or a loss of  *)
(* power, adds one block onto the one stored below it or recounts blocks   *)
(* that are there: no step ever takes a block away, puts two in, or lets a *)
(* block follow one that is not at the height below (blockchain.cpp:97-120, *)
(* 136-138).                                                               *)
ImplementsLedger == Ledger!Spec

-----------------------------------------------------------------------------
(* What comments of the code say, and the code does not keep *)

(* "full chain would be loaded on demand via DB" (blockchain.cpp:58): every *)
(* stored block but a genesis block has its parent in the store.           *)
ChainOnDemand ==
  \A s \in Stores : \A h \in DOMAIN s["b"] :
    s["b"][h].index > 0 => s["b"][h].previousHash \in DOMAIN s["b"]

(* "Save to DB first (durability)" (blockchain.cpp:136): an output of a     *)
(* stored transaction is off the record only when a stored transaction     *)
(* spends it.                                                              *)
SavedFirst ==
  \A s \in Stores : \A h \in DOMAIN s["t"] : \A o \in OutputsOf(s["t"][h]) :
    o \in DOMAIN s["u"] \/ \E g \in DOMAIN s["t"] : o \in ToSet(s["t"][g].inputs)
=============================================================================
