# RexCoin in TLA+

This directory is a verification project for RexCoin: TLA+ modules that model its C++
sources, TLC configurations that check them on small instances, and proofs, checked by
TLAPS, of every safety property that the passing runs check: of the chain and its store,
the program, the P2P node and its connections, consensus, the services and the data
structures. Paths below are relative to the repository (`src/core/...` is written
`src/src/core/...` in `PROJECT.json` and in comments, as the repository is checked out
under `src/`). Every definition that models code is listed in `PROJECT.json` under
`map`, with the lines it stands for.

## 1. The system

A RexCoin node is one process. `main.cpp` builds a `Blockchain` over a
key-value store, fills a `Mempool`, mines a block, starts a P2P `Node`, and then
shows the other services one after the other. Only two parts are exposed to
things nobody scheduled: the chain (crashes between writes) and the node
(threads and remote peers). The rest are sequential objects whose callers may
make any sequence of calls.

| Component | State | Operations | Interacts with | Hard behaviours |
|---|---|---|---|---|
| `core/blockchain` | `chain`, `utxos`, `currentDifficulty`, `lastAdjustmentTime`, `blockCache`, `db` | construction (`loadFromDB` or genesis), `addBlock`, `adjustDifficulty`, `getBlockByHash`, destruction | store, cache, UTXO set, blocks | several writes for one block; crash, loss of power, restart; refused writes |
| `core/block`, `transaction`, `utxo`, `merkle`, `script` | values; UTXO map | hashing, coinbase, root and proofs, spending, P2PKH | chain, mempool | same hash for different things; odd layers; unchecked spends |
| `core/mempool` | `txs` | `add`, `getTopTxs`, `removeConfirmed` | `main` takes, mines, removes | every fee is 0, so the order of the pool is that of its map; full pool |
| `main` | what it drafted, what it mines | mines one block, announces it, serves or ends | chain, pool, node | a crash between adding a block and telling peers; restarts |
| `storage/leveldb` | LevelDB or `std::map`, `opened` | `open`, `put`, `del`, `writeBatch`, `close`, look-ups | chain | synced batches beside unsynced puts; fallback engine |
| `storage/cache` | list and map | `put`, `get` | chain | eviction |
| `network/node` | `peers`, `peersMutex`, `running`, `listenFd`, threads | `start`, `stop`, `connectToPeer`, `broadcast`, `peerCount`, `getPeers`, accept loop, one reader for each peer | remote nodes, user's handler | three kinds of threads, a mutex held across `recv` and taken twice; calls before `start` and after `stop`, a descriptor overwritten; partial sends, torn frames |
| `consensus/pos`, `hybrid` | validators; vote counts, finalized blocks | register, unstake, select, reward; finalize | each other | validators change between votes; repeated votes; overflow |
| `consensus/difficulty`, `pow` | none | next difficulty; search | nobody (the chain has its own rules) | clock running backwards |
| `layer2/channel`, `lightning`, `sidechain` | channels; graph | open, pay, close; route | nobody | overflow, closed channels, ids that meet, odd graphs |
| `governance/proposal`, `dao` | proposals, votes; treasury | submit, vote, tally; add, spend | nobody | double votes, ratio of the moment, ids that meet |
| `vm` | contracts, storage of a run | compile, execute, deploy, call | nobody | gas at its limit, data executed as code, addresses that meet |
| `privacy` | current and completed rounds | join, execute; stealth and proof functions | keys, hashes | ids of old rounds |
| `crypto` | none | hashes, signatures, addresses | all | leading zeros, checksums, padding at the end of a block |
| `api` | tables of handlers | answers that are constants | nobody | none |

What makes each of them correct is what its module states; the hazards that the
properties are aimed at are listed, each at its line, in `PROJECT.json`.

## 2. Modules

### The chain

* **`BlockchainDB`** is `storage/leveldb`. A key prefix is a table, a store
  gives each table a partial function. `disk` is LevelDB as its readers see it
  and `stable` the set of stores that a loss of power may leave: a synced write
  (`writeBatch`) makes it a singleton, an unsynced one (`put`, used by
  `setMeta`) adds to it. `memdb` is the `std::map` of builds without LevelDB and
  of an `open` that failed; which engine `open` ends with is its choice. A write
  to a closed store or one that LevelDB refuses does nothing, as no caller looks
  at the result.
* **`LRUCache`** is `storage/cache`: the list of keys and the map. Its
  invariant `Agreement` is part of the properties of its users.
* **`Merkle`** is `core/merkle`; a hash is the tagged tuple of what was hashed.
* **`RexChain`** is `core/blockchain` with the parts of `block`, `transaction`
  and `utxo` that it uses, over one `BlockchainDB` (instantiated on the same
  variables) and one `LRUCache`. A member function that writes several times is
  several actions, in the order of the code, with `pc` naming the step: a crash
  (`Crash`: the process dies, the operating system still writes) or a loss of
  power (`PowerLoss`) may come between any two. The constructor is `Boot`, then
  `LoadFromDB`, or `FreshGenesis`, `FreshPersist`, `FreshHeight`, `FreshBest`,
  `FreshDifficulty`; `addBlock` is `AdjustDifficulty` (when due), `MineBlock`
  (which includes `updateUTXOs` and its batch), `StoreBlock`, `StoreHeight`,
  `StoreBest`, `PushBlock`; the destructor is `CloseHeight`, `CloseBest`,
  `CloseDifficulty`, `Close`. Callers hand over any list of `Payloads`: the code
  does not check transactions, and neither does the model. Transactions that
  spend something that comes later, or was never there, are part of it.
* **`Ledger`** is the abstract specification of what the store promises to a
  program that reads it after a restart: blocks are only added, one at a time,
  each onto the block at the height below it, and the height on record counts
  blocks that are there. `RexChain!ImplementsLedger` is the refinement, under
  the mapping of its variables to the tables of `disk`: each write is a step of
  the ledger or none, and so is each crash, loss of power, refusal and restart.
  A block that is stored again may differ in its transactions but in nothing
  else (`SameHeader`, see section 4).
* **`HeightIndex`** has keys as text: the digits of a height as `persistBlock`
  writes them and as `heightKey` pads them. The ids of channels and proposals take
  their digits from it.
* **`Mempool`** is `core/mempool`: the pool is a set and its member functions are
  operators on it.
* **`RexCoin`** is `main.cpp` and extends `RexChain`: one more program counter,
  `step`, walks through construction, the two drafts, the pool, `addBlock` (whose
  steps are `RexChain`'s), `removeConfirmed`, the announcement to peers and the
  end, and every one of these steps may be the last one before a crash
  (`Die`). What was announced is history that no crash takes back. Both drafts of
  `main` have no inputs (`main.cpp:90`), so the pool refuses them
  (`transaction.cpp:75`): the block that `main` mines holds its reward alone, and
  `removeConfirmed` removes nothing.
* **`MCRexChain`** gives the transactions of a small instance of the chain;
  **`RexChainProofs`** holds the theorems about it and about the program (section 5).

Abstractions: the nonce of a block is determined by the header it is found for;
an output is its amount and its address, and an address is an owner and, for
those that `main` makes anew, the run; SHA-256 is injective; the hash of a
coinbase does not cover its height, as in the code, so the same coinbase may
occur in several blocks.

### The node

**`Node`** is `network/node`. Threads are `Main` (one thread that calls the public
functions, in any order: also `connectToPeer` before `start` and after `stop`, and
`start` of a node that runs), `Accepter` (created by `start`) and a reader for each
connection, named by its socket. `owner` is the holder of `peersMutex`. A critical section
that neither blocks nor nests is one step that needs the mutex free; a reader
takes it in `Begin` and, as the `lock_guard` in the thread's lambda outlives the
call, keeps it through `handlePeer` and its `recv`. `std::mutex` is not
recursive, so a reader that answers `PING`, `VERSION` or `GETADDR`, or removes
its disconnected peer, waits for itself: it is in `reply`, `addr` or `remove`
and those actions never become enabled for it. As `VERSION` is the first thing a
RexCoin node sends on a connection, in either role, every reader of such a peer ends
there; the peers that send something else are those of other programs.

`listenFd` is a variable of its own, beside whether a socket listens: `start` puts the
new descriptor there before it knows whether it can bind, and closes it again when it
cannot (`node.cpp:89`, `:105`), so that a node that goes on running has lost its
listener's number. The kernel gives out the lowest free descriptor, so the number in
`listenFd` is that of the next connection, and `stop` then closes that one
(`CloseListener`, the socket is `"struck"`). Inbound and outbound addresses may
overlap: while `connectToPeer` dials with the mutex free, the same address may connect,
and `addPeer` overwrites its entry, with a socket that nobody closes any more
(`"replaced"`). `makePeerId` is modelled as an injective function of the address
(`node.cpp:82` passes a string where a port is expected and is read as the port).

Left out: sends that block (their bytes are `Wire`'s), port 0, with which two listeners
could be bound, a message handler that calls the node again, and public functions called
by two threads at once; `main` does none of these. **`NodeProofs`** holds the theorems.

**`Wire`** is one connection of it, byte by byte: the threads that send on the
socket under the mutex, each call of `send` taking a part of the frame or
failing wherever it is, and the remote reader, which asks for a header of fixed
length and then for as many bytes as the header says. A send that fails half-way
leaves its beginning on the stream and the peer in the map, so the next frame
follows it. A receive that gets less than it asked for ends the connection. A message
of a type in `Answered` (`VERSION`, `PING`, `GETADDR`) is never delivered: the reader
answers it before it calls the handler (`node.cpp:201`), waits there for the mutex that
it holds, and reads nothing more (`"answering"`). `sent` and `torn` are history: the
messages sent whole up to the first torn one.

### Consensus and services

* **`ProofOfStake`**, and **`HybridConsensus`** which extends it: validators register,
  unstake and register again between calls of `finalizeBlock` with any list of voters.
  `ballots` is history: who had voted when a block was last finalized. Comparisons with
  `0.67` are exact comparisons of integers, without the rounding of a `double`.
  `StakeSum` is the sum of the stakes, `TotalStaked` what the code has of it: it wraps.
  The pick of `selectValidator` is the number whose bytes are the first characters of a
  hexadecimal hash (`HashPick`), not the number that they spell. **`ConsensusProofs`**
  holds the theorems.
* **`PaymentChannel`**, **`Lightning`**, **`Governance`**, **`DAO`**,
  **`TxMixer`**, **`Contracts`**: one module for each class, one action for each
  operation that changes state, unsigned integers modulo `Word`. The id of a channel
  is the hash of its parties and of the number of channels, put together without a
  separator (`channel.cpp:7`), and so is that of a proposal (`proposal.cpp:8`): in both
  modules addresses and titles are sequences of characters and an id may be given
  twice, in which case the new channel or proposal replaces the old one. That the hash
  is cut to 16 or 12 characters is not modelled; a collision of those is a matter of
  chance. `Lightning`'s search ends its paths with the empty string
  (`lightning.cpp:24`, `:40`), which no address of the model is. `Contracts` is
  the table of deployed contracts over `RexVM`; an address is the hash of owner
  and bytecode put together, as in the code, so two deployments may share one.
* **`Base58`**, **`RexVM`** (compiler, gas and interpreter), **`Script`**,
  **`DifficultyAdjuster`**, **`Merkle`**, **`Digest`** (padding, blocks and
  chaining of SHA-256, RIPEMD-160 and SHA-3 over a compression function without
  collisions): pure functions.
* **`Sums`** has the lemmas on sums over finite sets and sequences, on powers and
  digits and on remainders that the proofs about words need; **`Folding`** those on
  `FoldLeft` and on functions that recur over the naturals, for any operator: a
  module whose model folds takes them with INSTANCE. **`ServicesProofs`**,
  **`StructuresProofs`** and **`AddressProofs`** have the theorems on the services,
  on the structures and, of these, on the addresses.
* **`MCStructures`** and **`MCServices`** are the harnesses: a behaviour picks a
  `subject` and either grows the argument of a pure function (a list of leaves,
  bytes, tokens, words, block times, heights, a message) or calls the operations
  of one service. `others` in `MCStructures` is history: how many keys were used
  after each key. What the pure functions are given (hashes, bytes, gaps, tokens,
  limits, keys, heights), the owners, bytecodes and messages are constants.

## 3. What is checked

Each run is `tlc -config <cfg> <module>`; `PROJECT.json` names its properties
and, for each property, a mutant: a plausible bug in one mapped definition under
which TLC finds that property violated. The mutants stand in the modules, before
the definitions they change, and no specification uses them.

| Run | Shows |
|---|---|
| `chain_crash` | Over both engines, with crashes and losses of power between any two writes and a restart after them: types and set-up of the steps; a stored height has all its blocks (`HeightIndexed`); stored blocks have their parents (`ParentStored`); blocks in memory survive a loss of power (`ChainDurable`); the stored difficulty is not behind the best block (`DifficultyRecovered`); what is spendable is on record (`SpendableStored`); the cache agrees with the store (`CacheCoherent`); and the store implements the ledger (`ImplementsLedger`). |
| `chain_refused` | With refused writes a height still names a block stored in full (`BatchWhole`). The other properties do not survive refused writes: the code goes on as if they had been made. |
| `main_rounds` | Through every crash, loss of power and restart of the program: the block that peers were told of is in every store that a restart may find (`AnnouncedDurable`). |
| `node_threads` | With the public functions in any order: a reader's reference into the map stays valid and its socket open, but for one that `stop()` closes in place of the listener; no socket is lost but those that `addPeer` overwrites; after `stop()` no accept thread is left, no reader waits in `recv`, and what is in the map was connected since; every peer connected while the node runs is read; and `stop()` returns, unless a reader keeps the mutex for ever (in `recv`, or waiting for itself) or the accept thread stays on a listener whose descriptor a later `start()` has overwritten. |
| `structures` | The cache keeps what was used last; Merkle roots bind lists of one length, and no generated proof verifies for a hash that is not in the tree; an address gives back what it was made of, and encoding is undone by decoding but for all-zero numbers; a contract that does not revert costs the same under each higher limit; a script opens for one key at most; the difficulty follows the elapsed time within its clamps; no two messages are padded to the same blocks by any of the three hash functions; no look-up by height gives the block of another one. |
| `services` | Rewards (while the sum of the stakes fits its word), the deposits of channels and the treasury are conserved in fixed-width arithmetic; whoever is selected is active, for every hash and order of the map; two blocks finalized under the same validators by lists without repetition share a voter while validators come and go; routes are shortest paths; everybody who joined is mixed once; a deployed contract stays and does what it did unless owners begin with each other. With channels and proposals whose ids meet: a closed channel changes only when its id is spelled again, which takes a number of two digits; the totals of a proposal are the votes cast since it was submitted; and what passed has 67 percent of them, while they fit the word. On a connection: messages arrive whole, once and in order up to the first torn frame, and if no send fails and no receiver gives up, all of them up to the first that the reader answers itself. |

Six runs expect a violation: in each a comment or a test of the repository says
something that the code does not do (`findings` in `PROJECT.json`).

| Run | Said | Done |
|---|---|---|
| `chain_on_demand` | `blockchain.cpp:58`, the full chain would be loaded on demand via DB | after a restart a new genesis block, which is not stored, is the parent of the next block |
| `chain_saved_first` | `blockchain.cpp:136`, save to DB first | spent outputs are deleted on disk before the block that spends them is there |
| `node_count_hangs` | `network_test.cpp:14`, `peerCount()` after `connectToPeer()` | the reader holds the mutex for good |
| `consensus_duplicates` | `hybrid.h:36`, two thirds of the validators | a validator listed twice counts twice |
| `rewards_uneven` | `pos.cpp:65`, reward proportional to stake | the product wraps: more stake may get less |
| `supply` | `blockchain.h:19`, 21 000 000 coins, which halving adds up to | the reward is halved by the number of blocks in memory, and a restart sets that back |

### Bounds

* **Chain**: a chain of up to four blocks (genesis and three), two constructions of the
  object, a window of two blocks so that the difficulty changes within the chain, two
  clock readings (`0` and `20` against an expected `4`) so that it goes both up and
  down, a cache of one block so that each block evicts another, and four payload lists:
  a payment that spends a reward, the reward and then the payment, and two with the
  reward again after that whose Merkle roots are the same. Payments before their reward
  and after it, in one block or two, spends of a coin that is not there, and a reward
  repeated with the same hash all occur, and so does a block that takes the place of
  another one with its hash. A second session meets every store that a crash or a loss
  of power in the first can leave. The invariants relate a block to its parent, so three
  blocks above genesis reach every case of them; the theorems remove the bound.
* **Main**: two runs of the program (three for the supply), rewards halved every
  two blocks so that a session sees a halving. The second run starts on every store
  that the first can leave behind.
* **Node**: two inbound addresses, one of which is the outbound one as well, and
  three connections in all: one reader can hold the mutex while
  another and the accept thread wait, an address may connect again after a
  disconnect, and an inbound peer may be overwritten by the outbound one and the other
  way round. `start`, `stop` and a `start` that fails may repeat.
* **Wire**: bytes of four values, headers and types of two bytes, at most three bytes
  for each call, two messages out of four: one without payload, one that the reader
  answers, one whose type is cut and that fills the longest body, one that is too long
  and must be refused. Two messages from two threads are enough to mix, tear and shift
  them.
* **Structures**: capacity three with four keys; up to five leaves of three hashes
  (layers of all parities, three levels); addresses of up to five bytes out of `0, 1,
  57, 58, 255` (and digits, for the way back), on both sides of 58 and 256; contracts of
  five tokens with eight limits, each pair of them; scripts of five words, which is the
  length of a P2PKH script; six gaps between blocks, among them one that goes backwards
  and one beyond the clamp; messages of up to five bytes, among them the padding's own,
  against blocks of four, so that each place of the last byte occurs; heights of one to
  four digits in base four against keys of three. `Checksum` is a toy that depends on
  every byte and its place; every difficulty from 1 to 32.
* **Consensus**: three validators (also fewer), two blocks, lists of up to three
  voters, with repetition. With three validators 0.67 takes all of them, so that the
  run sees quorums meet in the simple way only; that they do for any number is the
  theorem `QuorumsIntersect`. A hash is two characters of two values of a byte with
  four.
* **Channels and proposals**: numbers are written in base two, which stands for ten, so
  that the third one has two digits; addresses and titles are `7` and `71`, so that its
  id can be that of the first. One payment on each channel, two voters, weights below
  and above the minimum of which two overflow the word.
* **Services**: a word of 16 values, so that amounts of one digit overflow; three
  validators whose stakes of 2 and 6 may sum to 18 and wrap, four parties on a graph
  with two channels each, mixing rounds of three out of seven joins,
  three owners of contracts of whom one begins like another, and four bytecodes
  of which two are what is left of the longer owner.

### Fairness

`Node` and `Wire` have liveness properties. In `Wire` the kernel goes on taking and
handing over bytes (`WireRuns` is weakly fair); that somebody sends, that a send fails
or that a receiver gives up is not. In `Node`, each thread is weakly fair in what it
does by itself: the operating system runs a thread that can run. Nothing is assumed of
callers, of remote nodes or of the user, and nothing stronger than weak fairness for the
mutex: a waiting thread may be overtaken for ever. `Receive` is the remote node's action
and not fair; `Disconnect` is fair only where the code makes `recv` return (the remote
end is down, or a connection that this node opened, which has a receive timeout of five
seconds). `StopReturns` states in the formula what `stop()` may wait for without end.
Deadlock is checked in `consensus_duplicates` and `rewards_uneven`; elsewhere the system
may stop: a node whose readers wait for themselves, bounded inputs that cannot grow,
exhausted restarts.

## 4. Properties worth a second look

* `CacheCoherent` and `SpendableStored` hold although the code writes memory and
  disk in different steps; `SpendableStored` is one-sided, as an output that is
  created and spent in the same block stays on record as unspent.
* `ReferenceValid` holds *because* the mutex is held across `recv`; the same fact
  is why `CountReturns` fails. A repair that unlocks earlier has to keep the
  first while it gains the second: mutant `BeginUnlocked` shows what happens.
* `StopFinal` and `PeersServed` are about a node whose public functions are called in
  any order, and name what that order does to them: `connectToPeer` asks nobody whether
  the node runs. `StopReturns` likewise names the readers and the lost listener that
  `stop` may wait for without end.
* `ProofsSound` and `HeightsToldApart` are what the code does keep of two promises that it
  does not keep in full (see below): proofs and look-ups may fail, but what they give is
  right.
* `ImplementsLedger` leaves the ledger two freedoms, both of which the code really
  takes. Heights start again after a restart. And a block may be stored under the hash
  of another one with its header and other transactions: `merkle.cpp:17` repeats the
  last hash of an odd layer, so the lists `<<a, b, c>>` and `<<a, b, c, c>>` have one
  root, and a later session that mines one of them where an earlier one mined the other,
  with the same time stamps, stores it in its place. That the hash names the
  transactions as well was assumed at first; the attempt to prove it found this.
* `RewardsConserved` holds while the stakes sum to less than the word. `totalStaked`
  wraps beyond that (`pos.cpp:71`), and every share of the total that is left is then
  too large. It bounds rewards from above only.
* `SelectedActive` says who may be selected, and nothing of how often: see the
  divergence below.
* `ClosedFinal` and `TalliesMatch` say what an id that is given twice does. Below ten
  channels no closed one is ever replaced, below ten proposals no vote is ever lost, and
  from there on only by an id that is spelled the same.
* `PassedByMajority` is about the votes themselves and not about the totals, which wrap
  (`proposal.cpp:71`): it supposes that the votes cast on a proposal fit the word. With
  a word of 16, 6 votes for and 12 against have the total 2 and pass a proposal.
* `DeliveredUntilAnswered` is as much as can be said of delivery: the reader answers
  `VERSION`, `PING` and `GETADDR` itself and waits there for the mutex it holds, and a
  RexCoin node sends `VERSION` first, so between two of them nothing is delivered at all.
* `DeliveredInOrder` says nothing of what a reader makes of the bytes after a torn
  frame: they may look like any message. The code goes on sending after one.
* `ContractKept` names the one way in which a deployment may replace another
  owner's contract: `generateAddress` puts owner and bytecode together without a
  separator. Between addresses of one length it cannot happen. (`VMState::storage`
  is called persistent in `vm.h:13`; it lives for one run, in the code and in
  the model.)
* `OneKeyOpens` includes that the script `createCoinbase` builds, which holds the
  address in place of the hash, opens for nobody.

Some comments are not kept by the code in ways that need no search to see. They have no
run of their own; the models have the behaviour of the code, and no property hides it:

* `merkle.h:11` has `generateProof` make a proof that a transaction is in the tree.
  `verifyProof` hashes every sibling on the right (`merkle.cpp:63`), so the proof of a
  right child is refused. Theorem `ProofsOnTheLeft` says exactly which proofs verify.
* `leveldb.h:14` has the block hash at a height under `h:{height}`. `persistBlock` enters
  it under the number as it is (`blockchain.cpp:102`), and the look-up pads to ten digits
  (`leveldb.cpp:21`): below ten digits nothing is found. Theorem `HeightKeysExact` says
  exactly which heights are.
* `pos.cpp:31` has higher stake mean higher probability. The pick is made of hexadecimal
  characters (`pos.cpp:39`), of which a byte has 16 of 256 values. Of two validators with
  `0x60 * 2^32` and `0xA0 * 2^32` satoshi, the first in map order is selected by 10 of the
  16 values of the fourth character, though it has less stake; of two with `2^39` each,
  the second is never selected.
* `pos.h:10` has rewards accumulate. `addValidator` replaces the entry of an address that
  is registered, with rewards of 0 (`pos.cpp:16`).
* `mempool.h:8` has miners pick the highest fee first. `totalInput` returns 0
  (`transaction.cpp:57`), so every fee is 0 and `getTopTxs` sorts nothing.
* `node.cpp:270` has a receive loop in the background for each peer. That of a peer which
  `connectToPeer` entered before `start` has ended when the node starts, and the node
  never reads that peer.

## 5. What is proved

Every theorem holds for all values of the constants that satisfy the named assumptions
of the modules (`ChainAssumption`, `MainAssumption`, `NodeAssumption`,
`StakeAssumption`, `VotersAssumption`, `ServicesAssumption`, `IdAssumption`,
`ContractAssumption`, `WireAssumption`, `CacheAssumption`, `ByteAssumption`,
`DifficultyAssumption`, `DigestAssumption`, `HeightAssumption`, `TokenAssumption`),
which say of what kind a constant is and nothing of its size, but for two things that
the code has: bytes of an address are below 256, and the length of a message fits the
header of its frame. So they are about any payloads, windows, restarts, addresses,
connections, validators, stakes, words, calls, graphs, messages, leaves, scripts,
programs and limits. Nothing else is taken for granted, but for the hypothesis of
`ProofsBelong`, that no hash of a transaction is the hash of a pair. Theorems marked (w)
suppose that LevelDB refuses no write, `~WritesFail`; without that the code does not
have the property.

| Theorem | Module | Says |
|---|---|---|
| `TypeCorrect`, `Invariance` | `RexChainProofs` | types and set-up of every step of the chain |
| `BatchesWhole` | `RexChainProofs` | a height names a block that is stored whole, also when writes are refused |
| `HeightsIndexed`, `ParentsStored`, `Durability` (w) | `RexChainProofs` | `HeightIndexed`, `ParentStored`, `ChainDurable` |
| `LedgerImplemented` (w) | `RexChainProofs` | `Spec => ImplementsLedger`, the refinement |
| `CacheAgrees` (w) | `RexChainProofs` | `CacheCoherent` |
| `SpendableRecorded`, `DifficultyKept` (w) | `RexChainProofs` | `SpendableStored`, `DifficultyRecovered` |
| `AnnouncementsDurable` (w) | `RexChainProofs` | what peers were told is never lost |
| `NodeTypes`, `ReferencesStayValid`, `NoSocketLost`, `StopLeavesNothing`, `PeersAreServed` | `NodeProofs` | every safety property of `Node` |
| `ConsensusTypes`, `QuorumsIntersect`, `RewardsNotCreated`, `SelectionSound` | `ConsensusProofs` | types, `QuorumsMeet`, `RewardsConserved`, `SelectedActive` |
| `TreasuryNeverOverdrawn`, `ChannelsConserve`, `ClosedStaysClosed`, `PassedDeserved`, `TalliesAddUp`, `EverybodyMixedOnce`, `ContractsStay` | `ServicesProofs` | the safety property of each of these services, and (`ServiceConsensus`) those of consensus, for the specification that the run checks |
| `RoutesShortest` | `ServicesProofs` | `RouteShortest`, on every graph that can be built |
| `WireInOrder` | `ServicesProofs` | `DeliveredInOrder`, for any messages, header and number of senders |
| `CacheKeepsRecent` | `StructuresProofs` | `CacheRecent`, for any capacity |
| `RootsBind` | `StructuresProofs` | `RootBinds`, for any number of leaves |
| `ProofsBelong` | `StructuresProofs` | `ProofsSound`, if no transaction hash is the hash of a pair of hashes |
| `ProofsOnTheLeft` | `StructuresProofs` | the proof of a leaf verifies just if the leaf is a left child, or its own sibling, on every layer |
| `AddressesInvert` | `AddressProofs` | `AddressInverse`, for any bytes |
| `DigestsBind`, `HeightsApart` | `StructuresProofs` | `DigestBinds`, `HeightsToldApart`, for any block length and any width of keys |
| `HeightKeysExact` | `StructuresProofs` | a height is found just if it has as many digits as `heightKey` pads to |
| `OneKey`, `GasLimits`, `DifficultyAnswersTime` | `StructuresProofs` | `OneKeyOpens`, `GasMonotone`, `DifficultyFollowsTime`, for any words, programs, limits and times |

None of the properties is inductive as it stands. What is:

* **Chain**: `IInv == TypeOK /\ Linked /\ SoundStores`. `BatchWhole` says that a
  height names a stored block *of that height*. Blocks of different sessions may
  meet in the store, and `calculateHash` does not cover the index: could a block
  overwrite one of the same hash and another index? `SoundStores` adds that each
  stored block is `Rooted`: it has a chain of ancestors, as long as its index,
  down to a block whose parent is the null hash. Lemma `RootedIndex` shows that
  two rooted blocks of the same hash have the same index, by taking a smallest
  counterexample (the well-founded order of the naturals): their parents have the
  same hash too, and are a smaller one. `Linked` (every block of the chain in
  memory names the one before it, and its index is its place) is what makes each
  new block rooted.
* **Durability** adds `DInv`: how far the store has come at each step of the
  member functions, which blocks of memory each store in `stable` has, and which
  stored blocks have the one below them. The lemma `WriteEffect` says what a write
  that is not refused leaves, and from there each action is one step of the proof,
  with one sub-step for each conjunct it can disturb.
* **Ledger**: `LInv` adds that all stores in `stable` have the same blocks and
  places as `disk` (only metadata is written without being synced, so a loss of
  power never takes a block back), and that the blocks of the chain in memory are
  stored and in their places, by which the next one `Follows`. A step of
  `RexChain` that writes a block is then `Append`, one that changes the height on
  record `Recount`, and the other ones stutter.
* **Cache**: `CInv` has the list without repetitions and the cached blocks on the
  chain in memory; `LInv` has those in the store. (`Lists` is about lists of
  distinct keys: what moving one to the front and dropping the last one leave.)
* **Unspent outputs**: `CoinInv` adds to `SpendableStored` what holds between the two
  batches: after `updateUTXOs` and before `persistBlock` the outputs of the new block
  are spendable in memory and not yet on record. Lemma `LeftUnspent` is the reason that
  the order within a block does not matter.
* **Difficulty**: `RInv` says of each store that a restart may find that its best
  hash names a block and its difficulty fits that one, and of each step which of
  the two is being changed. Here the metadata in `stable` really differ from
  those in `disk`, so the argument goes over all stores and not over `disk`.
* **Program**: every step of `RexCoin` on the chain's variables is one of
  `ChainStep` (a step of `RexChain`, with any list mined) or leaves them alone, so
  `IInv` and `DInv` carry over; `MInv` adds what the program knows between
  `addBlock` and the announcement, and `Grown` that blocks and transactions on
  record are never deleted.
* **Node**: `NInv` adds to the properties the lock discipline (`Locked`: the owner
  of the mutex is the one reader inside `handlePeer`, and its peer is in the map),
  what each thread knows of its own connection between two critical sections
  (`Conns`, `Adding`), that an entry's socket is its peer's and that nobody but `stop`
  closed it (`Entries`), that a socket which is open is in the map, replaced or about to
  be entered (`Tracked`), that only a reader about to remove a peer has made it inactive
  (`Activity`), how far `stop` has come and what of the time before it is left
  (`Stopping`), and that a peer connected while the node runs has its reader
  (`Serving`). The history `ran` of a socket, whether the node ran when it was
  connected, is what the last two are stated with.
* **Consensus**: `PosInv` keeps the register finite, `FinalInv` that each ballot
  without repetitions is `Carried` by enough of the validators of its time; two of
  them meet by counting. For `RewardsConserved`, each share is at most its part of
  the product before it wraps (`ShareBound`), and the parts sum to the reward.
  For `SelectedActive`, the sum at the last active validator of the walk is the total
  of the stakes, wrapped alike, and the pick is below it: so the walk of
  `selectValidator` stops at an active one there at the latest, in any order, and never
  falls through to the first entry of the map.
* **Services**: `DaoInv`, `ChannelInv`, `GovInv`, `MixInv`, `ContractInv` add types,
  finiteness, and what makes a new id new. The id of a channel ends with the digits of
  the number of channels, and while that has one digit, ids with different last digits
  differ (`Numbered`: each id ends in a digit below the count); proposals are numbered
  the same way. When an id is given twice, `ChannelInv` goes on about the new channel,
  and `GovInv` keeps beside each proposal the votes on record from before its submission
  (`earlier`): the totals are the sums of the others (`Tallied`), each voter is among
  the votes on an id once (`OneEach`), and what passed deserved to when it was last
  tallied (`Deserved`). Rounds are numbered by the completed ones and nobody is in a
  round without a number, and an address tells owner and bytecode put together.
  `Composition` shows that a behaviour of `MCServices` is one of each service.
* **Routes**: `GraphInv` is the type of the graph. The search has an invariant of its
  own, `Hunted`, which each round keeps: every address with a parent is one channel
  further from the payer than the parent, the queue is sorted by distance, whatever is
  nearer than its head is done, and the neighbours of what is done have a parent. After
  as many rounds as there are parties, either the payee was the head of the queue or
  everything that can be reached is done.
* **Wire**: `WireInv` says where the reader is: the stream and what is in the sender's
  hand are together what is left of the frames of `sent` from some byte on, up to the
  first torn one, and what was delivered are the messages whose frames end before it.
  A header says how long its body is because digits and powers determine a number
  (`Sums`: `DigitsUnique`, `DigitsSum`).
* **Structures**: `CacheInv` ties the list to the history: the key at place `i` is the
  one after which `i - 1` others were used. The other eight are about pure functions and
  hold for every argument; `ArgTyped` says what arguments are. The arguments: slower
  blocks give a lower elapsed time after clamping, and each step is monotone; a height
  has one number of digits, and digits with their count determine it (`DigitsUnique`); a
  layer of hashes is determined by the next one and by its length, from the root down;
  the path of a proof is followed upwards, layer by layer, and leaves the tree at the
  first right child; what verifies is followed down from the root along the left edge,
  to the first leaf (`VerifiedLeaf`); a padded message tells where its marker is, and
  chained blocks are told one after the other from the last; the word between two others
  is one word; the same program under two limits makes the same steps until the lower
  one is exceeded (`Alike`).
* **Addresses**: `Reads(s, base, u, v)` says that reading the digits `s` after the
  number `u` gives the number `v`. A sequence of digits without zeros in front
  (`Proper`) is determined by its number (`ReadsUnique`); one division of the bytes
  keeps quotient and remainder (`Division`), the loop of divisions keeps number and
  digits made so far together (`Work`), and one multiplication with a carry the
  number that was read (`Multiplied`). So both directions keep the number, and the
  zeros in front are counted beside it. Of `Checksum` the proof uses that it is four
  bytes which are not all zero: an address of zeros alone, with its checksum, would
  come back one byte longer.

Induction over data is out of the provers' reach in general, as the library's
induction theorems take an operator as parameter. What the models compute by
recursion is reached all the same, by a least counterexample, which needs only that
an order is well-founded: `Sums` unfolds sums over finite sets once and powers,
`Folding` unfolds `FoldLeft` (`FoldPlaces`: what it has computed after each place)
and functions that recur over the naturals (`RoundsDefined`), and `ServicesProofs`
sequences put together (`FlatAppend`). The models use such folds and functions for
the loops of the code, and no RECURSIVE operator.

Only model-checked: liveness under fairness, which the provers cannot treat, that is
`StopReturns` and `DeliveredUntilAnswered`. And what the runs expect to be violated is, of
course, not proved.

## 6. What is not modelled, and why

* `network/peer`, `protocol`, `sync`, `dns_seed`, `tor`, `api/*`,
  `layer2/sidechain`, `storage/pruning`: stubs, constants or counters that no
  other part reads. What would bite once they are connected: the pruner subtracts
  its height from a lower one after a restart (`pruning.cpp:6` wraps), and
  `getblockcount` always answers 0 (`rpc.cpp:54`).
* The rounds and tables of `crypto/sha256`, `sha3`, `ripemd160`, the arithmetic
  of `ecdsa`, and `bls`, which nobody uses: bit-level functions, better tested
  against vectors. They appear as injective functions (what that needs of the
  padding is `Digest`) and ideal signatures.
* `consensus/pow` and `Block::mine`: a search whose result depends on the header
  only.
* `privacy/stealth`, `zkproof`: functions of keys without state whose promises
  are cryptographic. `scanTransaction` hashes other values than
  `createOneTimeAddress` (`stealth.cpp:24`, `:39`), so a receiver recognises
  nothing; a verified proof only says that one of its parts is the hash of the
  other two (`zkproof.cpp:36`).
* `HybridConsensus::proposeBlock`, `LightningNetwork::sendPayment`: they keep
  nothing.
* The rest of `main.cpp`: its arguments, the demonstrations of wallet, contract,
  privacy, channel and API objects, which do not touch the chain, and printing.
* State that the code keeps and never reads: the expiry of a proposal
  (`proposal.cpp:27`), the hash of a channel's state, which covers neither payer
  nor sequence number (`channel.cpp:58`), the shuffled outputs of a mix.
* The race on `listenFd` between `stop` and `accept` (`node.cpp:128`, `:143`)
  beyond the outcome that `accept` fails, and readers that outlive the `Node`
  object: uses of freed memory have no outcome to model.
* Printing everywhere, the test programs, `build/`, `docker/`.

## 7. Plan

The order is by importance: what loses money or hangs the node first.

1. *Done*: store, cache, chain, node and its connections, the main program,
   consensus, services, structures; the ledger and its refinement.
2. *Done*: proofs of the safety properties of the chain, of the program and of the
   refinement; of the node; of finality, rewards, treasury, channels, proposals,
   mixer and contracts.
3. *Done*: proofs on the structures (cache, difficulty, keys of heights, Merkle trees,
   digests, scripts, gas, addresses), on the bytes of a connection, on routes and on
   selection: every safety property that a passing run checks is a theorem.
4. The abstractions that hold back larger claims: an atomic registry of peers that
   `Node` implements until a reader waits for itself, and the node's threads inside
   `RexCoin`. Both multiply two large state spaces; `NInv` and `MInv` could replace one
   of them.
