--------------------------- MODULE RexChainProofs ---------------------------
(***************************************************************************)
(* Proofs about RexChain, for every value of its constants: its types, and *)
(* when no write is refused that it keeps what it stored and implements    *)
(* Ledger, that its cache agrees with the store, and that a restart        *)
(* recovers the unspent outputs and the difficulty.  At the end, about     *)
(* RexCoin: what it has told its peers no loss of power takes back.         *)
(***************************************************************************)
EXTENDS RexCoin, WellFoundedInduction, FiniteSetTheorems, SequenceTheorems, TLAPS

(* What a batch leaves in each table. *)
LEMMA ApplyTable ==
  ASSUME NEW s, NEW p, NEW d, NEW t \in DB!Tables
  PROVE  /\ DOMAIN DB!Apply(s, p, d)[t] = (DOMAIN s[t] \cup DOMAIN p[t]) \ d[t]
         /\ \A k \in DOMAIN DB!Apply(s, p, d)[t] :
              DB!Apply(s, p, d)[t][k] = IF k \in DOMAIN p[t] THEN p[t][k] ELSE s[t][k]
  BY DEF DB!Apply

(* A batch leaves a store.                                                 *)
LEMMA ApplyStore == ASSUME NEW s, NEW p, NEW d PROVE DB!IsStore(DB!Apply(s, p, d))
  BY DEF DB!IsStore, DB!Apply

(* A write changes neither the flag nor the engine, and every store after  *)
(* it was one before it or is the visible one with the batch applied.      *)
LEMMA WriteStores ==
  ASSUME DB!DBTypeOK, NEW p, NEW d, NEW sync, DB!Write(p, d, sync)
  PROVE  /\ DB!DBTypeOK' /\ opened' = opened /\ engine' = engine
         /\ \A s \in Stores' : s \in Stores \/ s = DB!Apply(DB!Visible, p, d)
         /\ DB!Visible \in Stores
  BY ApplyStore, ChainAssumption DEF DB!DBTypeOK, DB!Write, DB!dbVars, Stores, DB!Visible

-----------------------------------------------------------------------------
(* A block's hash does not cover its index, but it fixes it: the index of a *)
(* block that hangs on a genesis block is its distance from it.             *)

AncestorsOf(b, a) ==
  /\ b.index \in Nat
  /\ a[b.index] = b
  /\ a[0].previousHash = M!NullHash
  /\ \A i \in 0..b.index : a[i].index = i
  /\ \A i \in 1..b.index : a[i].previousHash = BlockHash(a[i-1])

Rooted(b) == \E a : AncestorsOf(b, a)

(* Blocks with the same hash have the same parent (calculateHash,          *)
(* block.cpp:27-36).                                                       *)
LEMMA HashParts ==
  ASSUME NEW b, NEW c, BlockHash(b) = BlockHash(c)
  PROVE  b.previousHash = c.previousHash
  BY DEF BlockHash

(* No block has the hash that stands for no parent.                        *)
LEMMA HashNotNull == ASSUME NEW b PROVE BlockHash(b) # M!NullHash
  BY DEF BlockHash, M!NullHash

(* Below a block that goes back to a genesis block there is one more of    *)
(* them, with the next lower index, until the genesis block itself.        *)
LEMMA RootedParent ==
  ASSUME NEW b, Rooted(b)
  PROVE  /\ b.index \in Nat
         /\ b.index = 0 => b.previousHash = M!NullHash
         /\ b.index # 0 => \E p : /\ Rooted(p) /\ p.index = b.index - 1
                                  /\ b.previousHash = BlockHash(p)
<1>1. PICK a : AncestorsOf(b, a)
  BY DEF Rooted
<1>2. ASSUME b.index # 0
      PROVE  \E p : /\ Rooted(p) /\ p.index = b.index - 1
                    /\ b.previousHash = BlockHash(p)
  <2> DEFINE n == b.index
             p == a[n - 1]
  <2>1. n \in Nat /\ n - 1 \in 0..n /\ n \in 1..n
    BY <1>1, <1>2 DEF AncestorsOf
  <2>2. \A i \in 0..n : a[i].index = i
    BY <1>1 DEF AncestorsOf
  <2>3. \A i \in 1..n : a[i].previousHash = BlockHash(a[i-1])
    BY <1>1 DEF AncestorsOf
  <2>4. a[n] = b /\ a[0].previousHash = M!NullHash
    BY <1>1 DEF AncestorsOf
  <2>5. p.index = n - 1 /\ b.previousHash = BlockHash(p)
    <3> HIDE DEF n
    <3> QED
      BY <2>1, <2>2, <2>3, <2>4
  <2>6. AncestorsOf(p, a)
    <3> HIDE DEF n
    <3> QED
      BY <2>1, <2>2, <2>3, <2>4, <2>5 DEF AncestorsOf
  <2> QED
    BY <2>5, <2>6 DEF Rooted
<1> QED
  BY <1>1, <1>2 DEF AncestorsOf

(* What has a genesis block for ancestor has as many ancestors as its      *)
(* index says: two such blocks with the same hash have the same index.     *)
LEMMA RootedIndex ==
  ASSUME NEW b, NEW c, Rooted(b), Rooted(c), BlockHash(b) = BlockHash(c)
  PROVE  b.index = c.index
<1> DEFINE Bad == {n \in Nat : \E x, y : /\ Rooted(x) /\ Rooted(y)
                                        /\ BlockHash(x) = BlockHash(y)
                                        /\ x.index = n /\ y.index # n}
<1>1. SUFFICES ASSUME Bad # {} PROVE FALSE
  BY <1>1, RootedParent
<1>2. PICK n \in Bad : \A m \in Bad : ~(m < n)
  <2> HIDE DEF Bad
  <2>1. Bad \subseteq Nat
    BY DEF Bad
  <2>2. PICK n \in Bad : \A m \in Bad : ~(<<m, n>> \in OpToRel(<, Nat))
    BY <1>1, <2>1, NatLessThanWellFounded, WFMin
  <2> QED
    BY <2>1, <2>2 DEF OpToRel
<1>3. PICK x, y : /\ Rooted(x) /\ Rooted(y) /\ BlockHash(x) = BlockHash(y)
                  /\ x.index = n /\ y.index # n
  OBVIOUS
<1>4. x.previousHash = y.previousHash
  BY <1>3, HashParts
<1>5. x.index # 0 /\ y.index # 0
  BY <1>3, <1>4, RootedParent, HashNotNull
<1>6. PICK p : Rooted(p) /\ p.index = x.index - 1 /\ x.previousHash = BlockHash(p)
  BY <1>3, <1>5, RootedParent
<1>7. PICK q : Rooted(q) /\ q.index = y.index - 1 /\ y.previousHash = BlockHash(q)
  BY <1>3, <1>5, RootedParent
<1>8. p.index \in Nat /\ q.index \in Nat /\ y.index \in Nat /\ n \in Nat
  BY <1>3, <1>6, <1>7, RootedParent
<1>9. p.index < n /\ q.index # p.index
  BY <1>3, <1>6, <1>7, <1>8
<1>10. BlockHash(p) = BlockHash(q)
  BY <1>4, <1>6, <1>7
<1>11. p.index \in Bad
  BY <1>6, <1>7, <1>8, <1>9, <1>10
<1> QED
  BY <1>2, <1>9, <1>11

-----------------------------------------------------------------------------
(* What each kind of batch does to a store *)

MetaIn(s) == "difficulty" \in DOMAIN s["meta"] =>
               s["meta"]["difficulty"] \in Nat \ {0}

BlocksIn(s) == \A h \in DOMAIN s["b"] : BlockHash(s["b"][h]) = h /\ Rooted(s["b"][h])

Sound(s) == WholeIn(s) /\ MetaIn(s) /\ BlocksIn(s)

(* Only the batch of persistBlock touches the blocks and their places.      *)
LEMMA MetaTables ==
  ASSUME NEW s, NEW k, NEW v
  PROVE  LET new == DB!Apply(s, DB!One("meta", k, v), DB!NoDels) IN
         /\ \A t \in DB!Tables \ {"meta"} :
              /\ DOMAIN new[t] = DOMAIN s[t]
              /\ \A x \in DOMAIN s[t] : new[t][x] = s[t][x]
         /\ DOMAIN new["meta"] = DOMAIN s["meta"] \cup {k}
         /\ new["meta"][k] = v
         /\ \A x \in DOMAIN s["meta"] \ {k} : new["meta"][x] = s["meta"][x]
  BY DEF DB!Apply, DB!One, DB!NoDels, DB!EmptyStore, DB!None, DB!Tables

(* The batch of updateUTXOs only deletes outputs (blockchain.cpp:164-182). *)
LEMMA SpendTables ==
  ASSUME NEW s, NEW list
  PROVE  LET new == DB!Apply(s, DB!EmptyStore, SpentRecords(list)) IN
         \A t \in DB!Tables \ {"u"} :
           /\ DOMAIN new[t] = DOMAIN s[t]
           /\ \A x \in DOMAIN s[t] : new[t][x] = s[t][x]
  BY DEF DB!Apply, DB!NoDels, DB!EmptyStore, DB!None, DB!Tables, SpentRecords

(* What the batch of persistBlock leaves in each table                     *)
(* (blockchain.cpp:97-120).                                                *)
LEMMA BlockTables ==
  ASSUME NEW s, NEW b
  PROVE  LET new == DB!Apply(s, BlockRecords(b), DB!NoDels) IN
         /\ DOMAIN new["b"] = DOMAIN s["b"] \cup {BlockHash(b)}
         /\ new["b"][BlockHash(b)] = b
         /\ \A h \in DOMAIN s["b"] \ {BlockHash(b)} : new["b"][h] = s["b"][h]
         /\ DOMAIN new["h"] = DOMAIN s["h"] \cup {b.index}
         /\ new["h"][b.index] = BlockHash(b)
         /\ \A i \in DOMAIN s["h"] \ {b.index} : new["h"][i] = s["h"][i]
         /\ DOMAIN new["t"] = DOMAIN s["t"] \cup ToSet(Hashes(b.transactions))
         /\ DOMAIN new["meta"] = DOMAIN s["meta"]
         /\ \A x \in DOMAIN s["meta"] : new["meta"][x] = s["meta"][x]
<1> DEFINE p == BlockRecords(b)
<1>1. /\ p["b"] = [h \in {BlockHash(b)} |-> b]
      /\ p["h"] = [i \in {b.index} |-> BlockHash(b)]
      /\ p["t"] = [h \in ToSet(Hashes(b.transactions)) |-> h[2]]
      /\ p["meta"] = DB!None
  BY DEF BlockRecords, DB!EmptyStore, DB!Tables
<1>2. \A t \in {"b", "h", "t", "meta"} :
        /\ t \in DB!Tables
        /\ DB!NoDels[t] = {}
  BY DEF DB!Tables, DB!NoDels
<1> DEFINE new == DB!Apply(s, p, DB!NoDels)
<1>3. \A t \in {"b", "h", "t", "meta"} :
        /\ DOMAIN new[t] = DOMAIN s[t] \cup DOMAIN p[t]
        /\ \A k \in DOMAIN new[t] :
             new[t][k] = IF k \in DOMAIN p[t] THEN p[t][k] ELSE s[t][k]
  <2> TAKE t \in {"b", "h", "t", "meta"}
  <2> HIDE DEF p
  <2> QED
    BY <1>2, ApplyTable
<1>4. DOMAIN p["b"] = {BlockHash(b)} /\ p["b"][BlockHash(b)] = b
  BY <1>1
<1>5. DOMAIN p["h"] = {b.index} /\ p["h"][b.index] = BlockHash(b)
  BY <1>1
<1>6. DOMAIN p["t"] = ToSet(Hashes(b.transactions)) /\ DOMAIN p["meta"] = {}
  BY <1>1 DEF DB!None
<1> HIDE DEF p, new
<1> QED
  BY <1>3, <1>4, <1>5, <1>6 DEF p, new

(* Setting a height or a difficulty keeps a store sound (setMeta).         *)
LEMMA SoundMeta ==
  ASSUME NEW s, NEW k, NEW v, Sound(s), k = "difficulty" => v \in Nat \ {0}
  PROVE  Sound(DB!Apply(s, DB!One("meta", k, v), DB!NoDels))
<1> DEFINE new == DB!Apply(s, DB!One("meta", k, v), DB!NoDels)
<1>1. \A t \in {"b", "h", "t"} : /\ DOMAIN new[t] = DOMAIN s[t]
                                /\ \A x \in DOMAIN s[t] : new[t][x] = s[t][x]
  BY MetaTables DEF DB!Tables
<1>2. "difficulty" \in DOMAIN new["meta"] => new["meta"]["difficulty"] \in Nat \ {0}
  BY MetaTables DEF Sound, MetaIn
<1> HIDE DEF new
<1>3. WholeIn(new)
  BY <1>1 DEF Sound, WholeIn
<1>4. BlocksIn(new)
  BY <1>1 DEF Sound, BlocksIn
<1> QED
  BY <1>2, <1>3, <1>4 DEF Sound, MetaIn, new

(* The deletions of updateUTXOs keep a store sound.                        *)
LEMMA SoundSpend ==
  ASSUME NEW s, NEW list, Sound(s)
  PROVE  Sound(DB!Apply(s, DB!EmptyStore, SpentRecords(list)))
<1> DEFINE new == DB!Apply(s, DB!EmptyStore, SpentRecords(list))
<1>1. \A t \in {"b", "h", "t", "meta"} :
         /\ DOMAIN new[t] = DOMAIN s[t]
         /\ \A x \in DOMAIN s[t] : new[t][x] = s[t][x]
  BY SpendTables DEF DB!Tables
<1> HIDE DEF new
<1> QED
  BY <1>1 DEF Sound, WholeIn, MetaIn, BlocksIn, new

(* The batch of persistBlock keeps a store sound, also when the hash or    *)
(* the height is on record already.                                        *)
LEMMA SoundBlock ==
  ASSUME NEW s, NEW b, Sound(s), Rooted(b)
  PROVE  Sound(DB!Apply(s, BlockRecords(b), DB!NoDels))
<1> DEFINE new == DB!Apply(s, BlockRecords(b), DB!NoDels)
<1>1. MetaIn(new)
  BY BlockTables DEF Sound, MetaIn
<1>2. BlocksIn(new)
  BY BlockTables DEF Sound, BlocksIn
<1>3. ASSUME NEW i \in DOMAIN s["h"], s["h"][i] = BlockHash(b)
      PROVE  i = b.index
  <2>1. LET c == s["b"][s["h"][i]] IN Rooted(c) /\ c.index = i /\ BlockHash(c) = BlockHash(b)
    BY <1>3 DEF Sound, WholeIn, BlocksIn
  <2> QED
    BY <2>1, RootedIndex
<1>4. ASSUME NEW i \in DOMAIN new["h"]
      PROVE  LET h == new["h"][i]
             IN  /\ h \in DOMAIN new["b"]
                 /\ BlockHash(new["b"][h]) = h
                 /\ new["b"][h].index = i
                 /\ ToSet(Hashes(new["b"][h].transactions)) \subseteq DOMAIN new["t"]
  <2>1. CASE i = b.index
    BY <2>1, BlockTables
  <2>2. CASE i # b.index
    <3>1. i \in DOMAIN s["h"] /\ new["h"][i] = s["h"][i] /\ s["h"][i] # BlockHash(b)
      BY <1>3, <2>2, BlockTables
    <3> QED
      BY <3>1, BlockTables DEF Sound, WholeIn
  <2> QED
    BY <2>1, <2>2
<1>5. WholeIn(new)
  BY <1>4 DEF WholeIn
<1> QED
  BY <1>1, <1>2, <1>5 DEF Sound

(* A new store is sound.                                                   *)
LEMMA SoundEmpty == Sound(DB!EmptyStore)
  BY DEF Sound, WholeIn, MetaIn, BlocksIn, DB!EmptyStore, DB!None, DB!Tables

-----------------------------------------------------------------------------
(* What each store operation does to all the stores a restart may find *)

SoundStores == \A s \in Stores : Sound(s)

StoresKept == DB!DBTypeOK' /\ SoundStores' /\ opened' = opened /\ engine' = engine

(* After setMeta every store, visible or left on disk, is sound.           *)
LEMMA SetMetaSound ==
  ASSUME DB!DBTypeOK, SoundStores, NEW k, NEW v, DB!SetMeta(k, v),
         k = "difficulty" => v \in Nat \ {0}
  PROVE  StoresKept
<1>1. DB!Write(DB!One("meta", k, v), DB!NoDels, FALSE)
  BY DEF DB!SetMeta, DB!Put
<1>2. Sound(DB!Apply(DB!Visible, DB!One("meta", k, v), DB!NoDels))
  BY <1>1, WriteStores, SoundMeta DEF SoundStores
<1> QED
  BY <1>1, <1>2, WriteStores DEF SoundStores, StoresKept

(* After persistBlock every store is sound.                                *)
LEMMA PersistSound ==
  ASSUME DB!DBTypeOK, SoundStores, NEW b, Rooted(b), PersistBlock(b)
  PROVE  StoresKept
<1>1. DB!Write(BlockRecords(b), DB!NoDels, TRUE)
  BY DEF PersistBlock, DB!WriteBatch
<1>2. Sound(DB!Apply(DB!Visible, BlockRecords(b), DB!NoDels))
  BY <1>1, WriteStores, SoundBlock DEF SoundStores
<1> QED
  BY <1>1, <1>2, WriteStores DEF SoundStores, StoresKept

(* After updateUTXOs every store is sound.                                 *)
LEMMA SpendSound ==
  ASSUME DB!DBTypeOK, SoundStores, NEW b, UpdateUTXOs(b)
  PROVE  StoresKept
<1> DEFINE dels == SpentRecords(b.transactions)
<1>1. DB!Write(DB!EmptyStore, dels, TRUE)
  BY DEF UpdateUTXOs, DB!WriteBatch
<1>2. Sound(DB!Apply(DB!Visible, DB!EmptyStore, dels))
  BY <1>1, WriteStores, SoundSpend DEF SoundStores
<1> HIDE DEF dels
<1> QED
  BY <1>1, <1>2, WriteStores DEF SoundStores, StoresKept

(* Closing, a crash and a loss of power leave sound stores.                *)
LEMMA EndSound ==
  ASSUME DB!DBTypeOK, SoundStores, DB!Close \/ DB!PowerLoss
  PROVE  DB!DBTypeOK' /\ SoundStores' /\ ~opened'
<1>1. DB!IsStore(DB!EmptyStore)
  BY DEF DB!IsStore, DB!EmptyStore, DB!None
<1> QED
  BY <1>1, SoundEmpty DEF DB!Close, DB!PowerLoss, DB!DBTypeOK, SoundStores, Stores

-----------------------------------------------------------------------------
(* The inductive invariant: types, the links of the chain in memory, and the *)
(* soundness of every store a restart may find.                              *)

Linked ==
  /\ \A i \in 1..Len(chain) : chain[i].index = i - 1
  /\ chain # <<>> => chain[1].previousHash = M!NullHash
  /\ \A i \in 2..Len(chain) : chain[i].previousHash = BlockHash(chain[i-1])
  /\ pc \in AddSteps => /\ block[1].index = Len(chain)
                        /\ block[1].previousHash = LastHash
                        /\ Len(chain) < MaxHeight
  /\ pc \in BuildSteps => Len(chain) = 1

IInv == Shape /\ Linked /\ SoundStores

(* The blocks of the chain in memory, and the next one, go back to its     *)
(* genesis block.                                                          *)
LEMMA ChainRooted ==
  ASSUME Shape, Linked
  PROVE  /\ chain # <<>> => Rooted(Last(chain))
         /\ pc \in AddSteps => Rooted(block[1])
<1> DEFINE a == [i \in 0..(Len(chain) - 1) |-> chain[i+1]]
<1>1. chain \in Seq(ToSet(chain)) /\ Len(chain) \in Nat
  BY DEF Shape
<1>2. ASSUME chain # <<>> PROVE Len(chain) \in Nat \ {0} /\ AncestorsOf(Last(chain), a)
  BY <1>1, <1>2 DEF Linked, AncestorsOf, Last
<1>3. ASSUME pc \in AddSteps PROVE Rooted(block[1])
  <2> DEFINE n == Len(chain)
             c == [i \in 0..n |-> IF i = n THEN block[1] ELSE chain[i+1]]
  <2>1. chain # <<>> /\ n \in Nat \ {0}
    BY <1>1, <1>2, <1>3 DEF Shape, AddSteps
  <2>2. block[1].index = n /\ block[1].previousHash = BlockHash(chain[n])
    BY <1>3 DEF Linked, LastHash, Last
  <2>3. AncestorsOf(block[1], c)
    BY <1>1, <2>1, <2>2 DEF Linked, AncestorsOf
  <2> QED
    BY <2>3 DEF Rooted
<1> QED
  BY <1>2, <1>3 DEF Rooted

(* The invariant holds before the first construction.                      *)
LEMMA InitIInv == Init => IInv
<1> SUFFICES ASSUME Init PROVE IInv
  OBVIOUS
<1>1. DB!DBTypeOK
  BY DEF Init, DB!Init, DB!DBTypeOK, DB!IsStore, DB!EmptyStore, DB!None
<1>2. SoundStores
  BY SoundEmpty DEF Init, DB!Init, SoundStores, Stores
<1>3. Shape
  <2>1. chain = <<>> /\ block = <<>> /\ ToSet(chain) = {} /\ ToSet(block) = {}
    BY DEF Init, ToSet
  <2>2. utxos \in [DOMAIN utxos -> BOOLEAN]
    BY DEF Init, DB!None
  <2>3. /\ pc = "down" /\ opened = FALSE /\ boots = 0 /\ now \in Times
        /\ difficulty = 4 /\ lastAdjustment = 0
    BY DEF Init, DB!Init
  <2>4. opened = (pc # "down")
    BY <2>3
  <2>5. pc \notin AddSteps
    BY <2>3 DEF AddSteps
  <2>6. boots \in 0..MaxBoots /\ Len(chain) <= MaxHeight + 1 /\ Len(block) = 0
    BY <2>1, <2>3, ChainAssumption
  <2>7. chain \in Seq(ToSet(chain)) /\ block \in Seq(ToSet(block))
    BY <2>1
  <2> QED
    BY <1>1, <2>1, <2>2, <2>3, <2>4, <2>5, <2>6, <2>7 DEF Shape
<1>4. Linked
  BY DEF Init, Linked, AddSteps, BuildSteps
<1> QED
  BY <1>2, <1>3, <1>4 DEF IInv

Steps == {"down", "opened", "idle", "adjusted"} \cup BuildSteps \cup AddSteps \cup CloseSteps

(* A step that writes to the store and moves on in the same member function. *)
LEMMA StoreStepIInv ==
  ASSUME IInv, NEW from, NEW to, StoreStep(from, to), StoresKept,
         from \in Steps \ {"down", "opened"}, to \in Steps \ {"down", "opened"},
         from \in AddSteps <=> to \in AddSteps,
         to \in BuildSteps => from \in BuildSteps
  PROVE  IInv'
<1>1. /\ pc = from /\ pc' = to
      /\ UNCHANGED <<order, cache, chain, utxos, difficulty, lastAdjustment, now,
                     block, boots>>
  BY DEF StoreStep, At, cacheVars
<1>2. DB!DBTypeOK' /\ SoundStores' /\ opened' = opened
  BY DEF StoresKept
<1>3. opened' = (pc' # "down") /\ pc' \in Steps
  BY <1>1, <1>2 DEF IInv, Shape
<1>4. Shape'
  BY <1>1, <1>2, <1>3 DEF IInv, Shape, Steps
<1>5. Linked'
  BY <1>1 DEF IInv, Linked, LastHash
<1> QED
  BY <1>2, <1>4, <1>5 DEF IInv

(* What is not the store when the object is gone. *)
LEMMA ForgetIInv ==
  ASSUME IInv, Forget, DB!Close \/ DB!PowerLoss
  PROVE  IInv'
<1>1. DB!DBTypeOK' /\ SoundStores' /\ opened' = FALSE
  BY EndSound DEF IInv, Shape, DB!DBTypeOK
<1>2. chain' = <<>> /\ block' = <<>> /\ ToSet(chain)' = {} /\ ToSet(block)' = {}
  BY DEF Forget, ToSet
<1>3. (utxos \in [DOMAIN utxos -> BOOLEAN])'
  BY DEF Forget, DB!None
<1>4. /\ pc' = "down" /\ boots' = boots /\ now' = now
      /\ difficulty' = 4 /\ lastAdjustment' = 0
  BY DEF Forget
<1>5. opened' = (pc' # "down") /\ pc' \notin AddSteps /\ pc' \notin BuildSteps
  BY <1>1, <1>4 DEF AddSteps, BuildSteps
<1>6. Len(chain') <= MaxHeight + 1 /\ Len(block') = 0
  BY <1>2, ChainAssumption
<1>7. (chain \in Seq(ToSet(chain)) /\ block \in Seq(ToSet(block)))'
  BY <1>2
<1>8. Shape'
  BY <1>1, <1>2, <1>3, <1>4, <1>5, <1>6, <1>7 DEF Shape, IInv
<1>9. Linked'
  BY <1>2, <1>5 DEF Linked
<1> QED
  BY <1>1, <1>8, <1>9 DEF IInv

(* Opening the store keeps the invariant (blockchain.cpp:8-18).            *)
LEMMA BootIInv == ASSUME IInv, Boot PROVE IInv'
<1>1. /\ pc = "down" /\ pc' = "opened" /\ boots' \in 0..MaxBoots
      /\ lastAdjustment' = now /\ opened' = TRUE /\ engine' \in Engines
      /\ UNCHANGED <<order, cache, chain, utxos, difficulty, now, block,
                     disk, stable, memdb>>
  BY ChainAssumption DEF Boot, At, cacheVars, DB!Open, IInv, Shape
<1>2. DB!DBTypeOK' /\ SoundStores'
  BY <1>1 DEF IInv, Shape, DB!DBTypeOK, SoundStores, Stores
<1>3. pc' \notin AddSteps /\ pc \notin AddSteps /\ pc' \notin BuildSteps
  BY <1>1 DEF AddSteps, BuildSteps
<1>4. Shape'
  BY <1>1, <1>2, <1>3 DEF IInv, Shape
<1>5. Linked'
  BY <1>1, <1>3 DEF IInv, Linked
<1> QED
  BY <1>2, <1>4, <1>5 DEF IInv

(* The utxo set stays a set of outputs with a flag (utxo.cpp:4-14).        *)
LEMMA UpdatedType ==
  ASSUME NEW set, set \in [DOMAIN set -> BOOLEAN], NEW list
  PROVE  UpdatedUTXOs(set, list) \in [DOMAIN UpdatedUTXOs(set, list) -> BOOLEAN]
  BY DEF UpdatedUTXOs

(* Creating a genesis block keeps the invariant (blockchain.cpp:69-77).    *)
LEMMA GenesisIInv ==
  ASSUME IInv, NEW target \in Nat \ {0}, NEW to \in {"idle", "genesisMined"},
         At("opened", to), CreateGenesis(target)
  PROVE  IInv'
<1> DEFINE b == GenesisBlock(target)
<1>1. /\ pc = "opened" /\ pc' = to /\ difficulty' = target /\ chain' = <<b>>
      /\ UNCHANGED <<order, cache, lastAdjustment, now, block, boots>>
      /\ UpdateUTXOs(b)
  BY DEF At, CreateGenesis, cacheVars
<1>2. DB!DBTypeOK' /\ SoundStores' /\ opened' = opened
  BY <1>1, SpendSound DEF StoresKept, IInv, Shape
<1>3. /\ b.index = 0 /\ b.previousHash = M!NullHash /\ b.difficulty = target
      /\ b.timestamp = now /\ b.transactions = <<Coinbase(GenesisOutput, now)>>
  BY DEF GenesisBlock, NewBlock
<1>4. now \in Times
  BY DEF IInv, Shape
<1>5. IsBlock(b)
  <2> DEFINE c == Coinbase(GenesisOutput, now)
  <2>1. ToSet(<<c>>) = {c}
    BY DEF ToSet
  <2>2. b.transactions \in Seq(ToSet(b.transactions))
    <3> HIDE DEF b, c
    <3>1. b.transactions = <<c>>
      BY <1>3 DEF c
    <3> QED
      BY <2>1, <3>1
  <2> QED
    BY <1>3, <1>4, <2>2 DEF IsBlock
<1>6. (utxos \in [DOMAIN utxos -> BOOLEAN])'
  BY <1>1, UpdatedType DEF UpdateUTXOs, IInv, Shape
<1>7. pc \notin AddSteps /\ pc' \notin AddSteps /\ pc' \in Steps
  BY <1>1 DEF AddSteps, Steps, BuildSteps
<1>8. opened' = (pc' # "down")
  BY <1>1, <1>2 DEF IInv, Shape
<1> HIDE DEF b
<1>9. ToSet(chain') = {b} /\ ToSet(block') = {}
  <2>1. block = <<>>
    BY <1>7 DEF IInv, Shape
  <2> QED
    BY <1>1, <2>1 DEF ToSet
<1>10. /\ chain' \in Seq(ToSet(chain')) /\ Len(chain') <= MaxHeight + 1
       /\ chain' # <<>> /\ Len(chain') = 1 /\ chain'[1] = b
  BY <1>1, <1>9, ChainAssumption
<1>11. Shape'
  BY <1>1, <1>2, <1>5, <1>6, <1>7, <1>8, <1>9, <1>10 DEF IInv, Shape, Steps
<1>12. Linked'
  BY <1>3, <1>7, <1>10 DEF Linked
<1> QED
  BY <1>2, <1>11, <1>12 DEF IInv

(* Finding an old store keeps the invariant (blockchain.cpp:46-66).        *)
LEMMA LoadIInv == ASSUME IInv, LoadFromDB PROVE IInv'
<1> DEFINE target == IF DB!Has("meta", "difficulty")
                     THEN DB!Visible["meta"]["difficulty"] ELSE difficulty
<1>1. DB!Visible \in Stores
  BY DEF DB!Visible, Stores
<1>2. target \in Nat \ {0}
  BY <1>1 DEF IInv, Shape, SoundStores, Sound, MetaIn, DB!Has
<1>3. At("opened", "idle") /\ CreateGenesis(target)
  BY DEF LoadFromDB
<1> HIDE DEF target
<1> QED
  BY <1>2, <1>3, GenesisIInv

(* A fresh start keeps the invariant (blockchain.cpp:22-26).               *)
LEMMA FreshIInv == ASSUME IInv, FreshGenesis PROVE IInv'
  BY GenesisIInv DEF FreshGenesis, IInv, Shape

(* Adjusting the difficulty keeps the invariant, and the difficulty above  *)
(* zero (blockchain.cpp:151-161).                                          *)
LEMMA AdjustIInv == ASSUME IInv, AdjustDifficulty PROVE IInv'
<1>1. difficulty' \in Nat \ {0} /\ DB!SetMeta("difficulty", difficulty')
  BY DEF AdjustDifficulty, IInv, Shape
<1>2. /\ pc = "idle" /\ pc' = "adjusted" /\ lastAdjustment' = now
      /\ UNCHANGED <<order, cache, chain, utxos, now, block, boots>>
  BY DEF AdjustDifficulty, At, cacheVars
<1>3. DB!DBTypeOK' /\ SoundStores' /\ opened' = opened
  BY <1>1, SetMetaSound DEF StoresKept, IInv, Shape
<1>4. pc \notin AddSteps /\ pc' \notin AddSteps /\ pc' \in Steps /\ pc' \notin BuildSteps
  BY <1>2 DEF AddSteps, BuildSteps, Steps
<1>5. opened' = (pc' # "down")
  BY <1>2, <1>3 DEF IInv, Shape
<1>6. Shape'
  BY <1>1, <1>2, <1>3, <1>4, <1>5 DEF IInv, Shape, Steps
<1>7. Linked'
  BY <1>2, <1>4 DEF IInv, Linked
<1> QED
  BY <1>3, <1>6, <1>7 DEF IInv

(* Mining a block keeps the invariant (blockchain.cpp:123-134).            *)
LEMMA MineIInv ==
  ASSUME IInv, NEW list, list \in Seq(ToSet(list)), MineBlock(list)
  PROVE  IInv'
<1> DEFINE b == NewBlock(Len(chain), LastHash, list, difficulty)
<1>1. /\ pc \in {"idle", "adjusted"} /\ pc' = "mined" /\ block' = <<b>>
      /\ UNCHANGED <<order, cache, chain, difficulty, lastAdjustment, now, boots>>
      /\ UpdateUTXOs(b) /\ Len(chain) < MaxHeight
  BY DEF MineBlock, At, cacheVars
<1>2. DB!DBTypeOK' /\ SoundStores' /\ opened' = opened
  BY <1>1, SpendSound DEF StoresKept, IInv, Shape
<1>3. /\ b.index = Len(chain) /\ b.previousHash = LastHash /\ b.difficulty = difficulty
      /\ b.timestamp = now /\ b.transactions = list
  BY DEF NewBlock
<1>4. now \in Times
  BY DEF IInv, Shape
<1>5. IsBlock(b)
  <2>1. chain \in Seq(ToSet(chain))
    BY DEF IInv, Shape
  <2> QED
    BY <1>3, <1>4, <2>1 DEF IsBlock, IInv, Shape
<1>6. (utxos \in [DOMAIN utxos -> BOOLEAN])'
  BY <1>1, UpdatedType DEF UpdateUTXOs, IInv, Shape
<1>7. pc' \in AddSteps /\ pc' \in Steps \ {"down", "opened"} /\ pc' \notin BuildSteps
  BY <1>1 DEF AddSteps, BuildSteps, Steps
<1>8. opened' = (pc' # "down")
  BY <1>1, <1>2 DEF IInv, Shape
<1> HIDE DEF b
<1>9. ToSet(block') = {b} /\ block'[1] = b /\ Len(block') = 1 /\ block' \in Seq({b})
  BY <1>1 DEF ToSet
<1>10. Shape'
  BY <1>1, <1>2, <1>5, <1>6, <1>7, <1>8, <1>9 DEF IInv, Shape, Steps
<1>11. Linked'
  BY <1>1, <1>3, <1>7, <1>9 DEF IInv, Linked, LastHash
<1> QED
  BY <1>2, <1>10, <1>11 DEF IInv

(* Entering the block into the chain keeps the invariant                   *)
(* (blockchain.cpp:141-147).                                               *)
LEMMA PushIInv == ASSUME IInv, PushBlock PROVE IInv'
<1> DEFINE b == block[1]
<1>1. /\ pc = "named" /\ pc' = "idle" /\ chain' = Append(chain, b) /\ block' = <<>>
      /\ UNCHANGED <<opened, engine, disk, stable, memdb, utxos, difficulty,
                     lastAdjustment, now, boots>>
  BY DEF PushBlock, At, dbVars
<1>2. DB!DBTypeOK' /\ SoundStores'
  BY <1>1 DEF IInv, Shape, DB!DBTypeOK, SoundStores, Stores
<1>3. pc \in AddSteps /\ pc' \notin AddSteps /\ pc' \in Steps /\ pc' \notin BuildSteps
  BY <1>1 DEF AddSteps, BuildSteps, Steps
<1>4. b \in ToSet(block) /\ b.index = Len(chain) /\ b.previousHash = LastHash
  BY <1>3 DEF IInv, Shape, ToSet, Linked
<1> DEFINE S == ToSet(chain)
           n == Len(chain)
<1>5. chain \in Seq(S) /\ n \in Nat \ {0} /\ n <= MaxHeight + 1
  BY <1>1 DEF IInv, Shape
<1> HIDE DEF b, S, n
<1>6. /\ chain' \in Seq(S \cup {b}) /\ Len(chain') = n + 1
      /\ chain'[n + 1] = b /\ \A i \in 1..n : chain'[i] = chain[i]
  BY <1>1, <1>5 DEF n
<1>7. ToSet(chain') = S \cup {b} /\ ToSet(block') = {}
  <2>1. S = {chain[i] : i \in 1..n}
    BY <1>5 DEF S, n, ToSet
  <2>2. ToSet(chain') = {chain'[i] : i \in 1..(n+1)}
    BY <1>6 DEF ToSet
  <2>3. ToSet(block') = {}
    BY <1>1 DEF ToSet
  <2> QED
    BY <1>5, <1>6, <2>1, <2>2, <2>3
<1>8. \A c \in ToSet(chain') : IsBlock(c)
  BY <1>4, <1>7 DEF IInv, Shape, S
<1>9. opened' = (pc' # "down")
  BY <1>1 DEF IInv, Shape
<1>10. n < MaxHeight
  BY <1>3 DEF IInv, Linked, n
<1>11. chain' # <<>> /\ Len(chain') <= MaxHeight + 1 /\ Len(block') = 0 /\ block' \in Seq({})
  BY <1>1, <1>5, <1>6, <1>10, ChainAssumption
<1>12. Shape'
  BY <1>1, <1>2, <1>3, <1>6, <1>7, <1>8, <1>9, <1>11 DEF IInv, Shape, Steps
<1>13. Linked'
  <2>1. b.previousHash = BlockHash(chain[n]) /\ b.index = n
    BY <1>4 DEF LastHash, Last, n
  <2>2. /\ \A i \in 1..n : chain[i].index = i - 1
        /\ chain[1].previousHash = M!NullHash
        /\ \A i \in 2..n : chain[i].previousHash = BlockHash(chain[i-1])
    BY <1>5 DEF IInv, Linked, n
  <2>3. ASSUME NEW i \in 1..(n+1) PROVE chain'[i].index = i - 1
    <3>1. CASE i = n + 1
      BY <1>5, <1>6, <2>1, <3>1
    <3>2. CASE i \in 1..n
      BY <1>6, <2>2, <3>2
    <3> QED
      BY <1>5, <3>1, <3>2
  <2>4. chain'[1].previousHash = M!NullHash
    BY <1>5, <1>6, <2>2
  <2>5. ASSUME NEW i \in 2..(n+1) PROVE chain'[i].previousHash = BlockHash(chain'[i-1])
    <3>1. i - 1 \in 1..n /\ chain'[i-1] = chain[i-1]
      BY <1>5, <1>6
    <3>2. CASE i = n + 1
      BY <1>5, <1>6, <2>1, <3>1, <3>2
    <3>3. CASE i \in 2..n
      BY <1>6, <2>2, <3>1, <3>3
    <3> QED
      BY <1>5, <3>2, <3>3
  <2> QED
    BY <1>3, <1>6, <2>3, <2>4, <2>5 DEF Linked
<1> QED
  BY <1>2, <1>12, <1>13 DEF IInv

(* Look-ups and the clock keep the invariant (blockchain.cpp:208-216).     *)
LEMMA QuietIInv ==
  ASSUME IInv, Tick \/ \E h : GetBlockByHash(h)
  PROVE  IInv'
<1>1. /\ UNCHANGED <<opened, engine, disk, stable, memdb, chain, utxos, difficulty,
                     lastAdjustment, pc, block, boots>>
      /\ now' \in Times
  BY DEF Tick, GetBlockByHash, dbVars, cacheVars, IInv, Shape
<1>2. DB!DBTypeOK' /\ SoundStores'
  BY <1>1 DEF IInv, Shape, DB!DBTypeOK, SoundStores, Stores
<1>3. Shape'
  BY <1>1, <1>2 DEF IInv, Shape
<1>4. Linked'
  BY <1>1 DEF IInv, Linked, LastHash
<1> QED
  BY <1>2, <1>3, <1>4 DEF IInv

(* Every step keeps the invariant.                                         *)
LEMMA StepIInv == IInv /\ [Next]_vars => IInv'
<1> SUFFICES ASSUME IInv, [Next]_vars PROVE IInv'
  OBVIOUS
<1> USE DEF Steps, AddSteps, BuildSteps, CloseSteps
<1>1. DB!DBTypeOK /\ SoundStores
  BY DEF IInv, Shape
<1>2. chain # <<>> => Rooted(Last(chain))
  BY ChainRooted DEF IInv
<1>3. pc \in AddSteps => Rooted(block[1])
  BY ChainRooted DEF IInv
<1>4. CASE Construct
  <2>1. CASE Boot
    BY <2>1, BootIInv
  <2>2. CASE LoadFromDB
    BY <2>2, LoadIInv
  <2>3. CASE FreshGenesis
    BY <2>3, FreshIInv
  <2>4. CASE FreshPersist
    <3>1. chain # <<>>
      BY <2>4 DEF FreshPersist, StoreStep, At, IInv, Shape
    <3> QED
      BY <1>1, <1>2, <2>4, <3>1, PersistSound, StoreStepIInv DEF FreshPersist
  <2>5. CASE FreshHeight
    BY <1>1, <2>5, SetMetaSound, StoreStepIInv DEF FreshHeight
  <2>6. CASE FreshBest
    BY <1>1, <2>6, SetMetaSound, StoreStepIInv DEF FreshBest
  <2>7. CASE FreshDifficulty
    <3>1. difficulty \in Nat \ {0}
      BY DEF IInv, Shape
    <3> QED
      BY <1>1, <2>7, <3>1, SetMetaSound, StoreStepIInv DEF FreshDifficulty
  <2> QED
    BY <1>4, <2>1, <2>2, <2>3, <2>4, <2>5, <2>6, <2>7 DEF Construct
<1>5. CASE AddBlock
  <2>1. CASE AdjustDifficulty
    BY <2>1, AdjustIInv
  <2>2. CASE \E list \in Payloads : MineBlock(list)
    BY <2>2, MineIInv, ChainAssumption
  <2>3. CASE StoreBlock
    <3>1. pc \in AddSteps
      BY <2>3 DEF StoreBlock, StoreStep, At
    <3> QED
      BY <1>1, <1>3, <2>3, <3>1, PersistSound, StoreStepIInv DEF StoreBlock
  <2>4. CASE StoreHeight
    BY <1>1, <2>4, SetMetaSound, StoreStepIInv DEF StoreHeight
  <2>5. CASE StoreBest
    BY <1>1, <2>5, SetMetaSound, StoreStepIInv DEF StoreBest
  <2>6. CASE PushBlock
    BY <2>6, PushIInv
  <2> QED
    BY <1>5, <2>1, <2>2, <2>3, <2>4, <2>5, <2>6 DEF AddBlock
<1>6. CASE Destruct
  <2>1. CASE CloseHeight
    BY <1>1, <2>1, SetMetaSound, StoreStepIInv DEF CloseHeight
  <2>2. CASE CloseBest
    BY <1>1, <2>2, SetMetaSound, StoreStepIInv DEF CloseBest
  <2>3. CASE CloseDifficulty
    <3>1. difficulty \in Nat \ {0}
      BY DEF IInv, Shape
    <3> QED
      BY <1>1, <2>3, <3>1, SetMetaSound, StoreStepIInv DEF CloseDifficulty
  <2>4. CASE Close
    BY <2>4, ForgetIInv DEF Close
  <2> QED
    BY <1>6, <2>1, <2>2, <2>3, <2>4 DEF Destruct
<1>7. CASE \E b \in ToSet(chain) : GetBlockByHash(BlockHash(b))
  BY <1>7, QuietIInv
<1>8. CASE Crash
  BY <1>8, ForgetIInv DEF Crash
<1>9. CASE PowerLoss
  BY <1>9, ForgetIInv DEF PowerLoss
<1>10. CASE Tick
  BY <1>10, QuietIInv
<1>11. CASE UNCHANGED vars
  <2>1. UNCHANGED <<opened, engine, disk, stable, memdb, chain, utxos, difficulty,
                    lastAdjustment, now, pc, block, boots>>
    BY <1>11 DEF vars, dbVars
  <2>2. DB!DBTypeOK' /\ SoundStores'
    BY <1>1, <2>1 DEF DB!DBTypeOK, SoundStores, Stores
  <2>3. Shape'
    BY <2>1, <2>2 DEF IInv, Shape
  <2>4. Linked'
    BY <2>1 DEF IInv, Linked, LastHash
  <2> QED
    BY <2>2, <2>3, <2>4 DEF IInv
<1> QED
  BY <1>4, <1>5, <1>6, <1>7, <1>8, <1>9, <1>10, <1>11 DEF Next

(* The inductive invariant: types, the links of the chain in memory, and   *)
(* the soundness of every store a restart could find                       *)
(* (blockchain.cpp:8-148).                                                 *)
THEOREM Invariance == Spec => []IInv
<1> QED
  BY InitIInv, StepIInv, PTL DEF Spec

(* A block's transactions are its caller's or those of a genesis block.    *)
LEMMA SubmittedStep ==
  ASSUME IInv, TypeOK, [Next]_vars
  PROVE  TypeOK'
<1>1. Shape'
  BY StepIInv DEF IInv
<1>2. \A b \in ToSet(chain) \cup ToSet(block) : b.transactions \in Seq(Tx)
  BY DEF TypeOK
<1> DEFINE Kept == \A b \in ToSet(chain') \cup ToSet(block') : b.transactions \in Seq(Tx)
<1>3. ASSUME NEW target, CreateGenesis(target) PROVE Kept
  <2>1. GenesisBlock(target).transactions = <<Coinbase(GenesisOutput, now)>>
    BY DEF GenesisBlock, NewBlock
  <2>2. Coinbase(GenesisOutput, now) \in Tx
    <3>1. now \in Times
      BY DEF IInv, Shape
    <3> QED
      BY <3>1 DEF Tx
  <2>3. chain' = <<GenesisBlock(target)>> /\ block' = block
    BY <1>3 DEF CreateGenesis
  <2>4. ToSet(chain') = {GenesisBlock(target)}
    BY <2>3 DEF ToSet
  <2>5. GenesisBlock(target).transactions \in Seq(Tx)
    BY <2>1, <2>2
  <2> QED
    BY <1>2, <2>3, <2>4, <2>5
<1>4. ASSUME NEW list \in Payloads, MineBlock(list) PROVE Kept
  <2>1. list \in Seq(Tx)
    <3>1. ToSet(list) \subseteq Tx
      BY DEF Tx, Submitted
    <3>2. list \in Seq(ToSet(list))
      BY ChainAssumption
    <3> QED
      BY <3>1, <3>2
  <2>2. PICK b : block' = <<b>> /\ b.transactions = list /\ chain' = chain
    BY <1>4 DEF MineBlock, NewBlock
  <2>3. ToSet(block') = {b}
    BY <2>2 DEF ToSet
  <2> QED
    BY <1>2, <2>1, <2>2, <2>3
<1>5. ASSUME PushBlock PROVE Kept
  <2>1. block \in Seq(ToSet(block)) /\ Len(block) = 1 /\ chain \in Seq(ToSet(chain))
    BY <1>5 DEF PushBlock, At, IInv, Shape, AddSteps
  <2>2. block[1] \in ToSet(block)
    BY <2>1 DEF ToSet
  <2>3. chain' = Append(chain, block[1]) /\ ToSet(block') = {}
    BY <1>5 DEF PushBlock, ToSet
  <2>4. \A b \in ToSet(chain') : b \in ToSet(chain) \/ b = block[1]
    BY <2>1, <2>3 DEF ToSet
  <2> QED
    BY <1>2, <2>2, <2>3, <2>4
<1>6. ASSUME Forget PROVE Kept
  BY <1>6 DEF Forget, ToSet
<1>7. ASSUME chain' = chain, block' = block PROVE Kept
  BY <1>2, <1>7
<1> HIDE DEF Kept
<1>8. Kept
  <2>1. CASE LoadFromDB \/ FreshGenesis
    BY <1>3, <2>1 DEF LoadFromDB, FreshGenesis
  <2>2. CASE \E list \in Payloads : MineBlock(list)
    BY <1>4, <2>2
  <2>3. CASE Close \/ Crash \/ PowerLoss
    BY <1>6, <2>3 DEF Close, Crash, PowerLoss
  <2>4. CASE FreshPersist \/ FreshHeight \/ FreshBest \/ FreshDifficulty \/ StoreBlock
               \/ StoreHeight \/ StoreBest \/ CloseHeight \/ CloseBest \/ CloseDifficulty
    BY <1>7, <2>4 DEF FreshPersist, FreshHeight, FreshBest, FreshDifficulty, StoreBlock,
       StoreHeight, StoreBest, CloseHeight, CloseBest, CloseDifficulty, StoreStep
  <2>5. CASE Boot \/ AdjustDifficulty \/ Tick \/ UNCHANGED vars
               \/ \E b \in ToSet(chain) : GetBlockByHash(BlockHash(b))
    BY <1>7, <2>5 DEF Boot, AdjustDifficulty, Tick, GetBlockByHash, vars
  <2> QED
    BY <1>5, <2>1, <2>2, <2>3, <2>4, <2>5 DEF Next, Construct, AddBlock, Destruct
<1> QED
  BY <1>1, <1>8 DEF TypeOK, Kept

(* The variables keep their types: back() is never called on an empty      *)
(* chain, and the store is open from construction to destruction           *)
(* (blockchain.cpp:8-43, 129).                                             *)
THEOREM TypeCorrect == Spec => []TypeOK
<1>1. Init => TypeOK
  BY InitIInv DEF Init, TypeOK, IInv, ToSet
<1>2. IInv /\ TypeOK /\ [Next]_vars => (IInv /\ TypeOK)'
  BY StepIInv, SubmittedStep
<1> QED
  BY <1>1, <1>2, InitIInv, PTL DEF Spec

(* Whatever is refused, crashes or loses power, a height on record names a  *)
(* block of that height that is stored with its transactions (persistBlock, *)
(* blockchain.cpp:97-120).                                                  *)
THEOREM BatchesWhole == Spec => []BatchWhole
<1>1. IInv => BatchWhole
  BY DEF IInv, SoundStores, Sound, BatchWhole
<1> QED
  BY <1>1, Invariance, PTL

-----------------------------------------------------------------------------
(* Durability, for a LevelDB that refuses no write.  The stores that a       *)
(* restart of this session's engine may find all hold its blocks.            *)

DurableStores == IF engine = "leveldb" THEN stable ELSE {memdb}

InPlace(n) == \A i \in 0..(n - 1) : i \in DOMAIN DB!Visible["h"]

Durable(b) == \A s \in DurableStores : BlockHash(b) \in DOMAIN s["b"]

Ordered(s) == HeightsIn(s) /\ LinkedIn(s)

StoredSteps == {"stored", "counted", "named"}

DInv ==
  /\ \A s \in Stores : Ordered(s)
  /\ pc \notin {"down", "opened", "genesisMined"} => InPlace(Len(chain))
  /\ pc \in StoredSteps => InPlace(Len(chain) + 1) /\ Durable(block[1])
  /\ \A i \in 2..Len(chain) : Durable(chain[i])

(* A write to an open store is seen at once, and by every later restart once *)
(* it was synced.                                                            *)
LEMMA WriteEffect ==
  ASSUME DB!DBTypeOK, ~WritesFail, opened, NEW p, NEW d, NEW sync, DB!Write(p, d, sync)
  PROVE  /\ DB!Visible' = DB!Apply(DB!Visible, p, d)
         /\ DB!Visible \in DurableStores /\ DurableStores \subseteq Stores
         /\ sync => DurableStores' = {DB!Visible'}
         /\ DurableStores' \subseteq DurableStores \cup {DB!Visible'}
  BY ChainAssumption
  DEF DB!DBTypeOK, DB!Write, DB!Refused, DB!dbVars, Stores, DurableStores, DB!Visible

(* A meta write keeps heights and parents in order, when the height it     *)
(* writes is covered.                                                      *)
LEMMA OrderedMeta ==
  ASSUME NEW s, NEW k, NEW v, Ordered(s),
         k = "height" => v \in Nat \ {0} /\ \A i \in 0..(v - 1) : i \in DOMAIN s["h"]
  PROVE  Ordered(DB!Apply(s, DB!One("meta", k, v), DB!NoDels))
<1> DEFINE new == DB!Apply(s, DB!One("meta", k, v), DB!NoDels)
<1>1. \A t \in {"b", "h"} : /\ DOMAIN new[t] = DOMAIN s[t]
                           /\ \A x \in DOMAIN s[t] : new[t][x] = s[t][x]
  BY MetaTables DEF DB!Tables
<1>2. /\ DOMAIN new["meta"] = DOMAIN s["meta"] \cup {k}
      /\ new["meta"][k] = v
      /\ \A x \in DOMAIN s["meta"] \ {k} : new["meta"][x] = s["meta"][x]
  BY MetaTables
<1> HIDE DEF new
<1>3. HeightsIn(new)
  BY <1>1, <1>2 DEF Ordered, HeightsIn
<1>4. LinkedIn(new)
  BY <1>1 DEF Ordered, LinkedIn
<1> QED
  BY <1>3, <1>4 DEF Ordered, new

(* The deletions of updateUTXOs keep heights and parents in order.         *)
LEMMA OrderedSpend ==
  ASSUME NEW s, NEW list, Ordered(s)
  PROVE  Ordered(DB!Apply(s, DB!EmptyStore, SpentRecords(list)))
<1> DEFINE new == DB!Apply(s, DB!EmptyStore, SpentRecords(list))
<1>1. \A t \in {"b", "h", "meta"} :
         /\ DOMAIN new[t] = DOMAIN s[t]
         /\ \A x \in DOMAIN s[t] : new[t][x] = s[t][x]
  BY SpendTables DEF DB!Tables
<1> HIDE DEF new
<1> QED
  BY <1>1 DEF Ordered, HeightsIn, LinkedIn, new

(* A block whose hash is known already takes the place of a block with the   *)
(* same index and the same parent, so no child of it loses its link.         *)
LEMMA OrderedBlock ==
  ASSUME NEW s, NEW b, Sound(s), Ordered(s), Rooted(b),
         b.index > 1 => /\ b.previousHash \in DOMAIN s["b"]
                        /\ s["b"][b.previousHash].index = b.index - 1
  PROVE  Ordered(DB!Apply(s, BlockRecords(b), DB!NoDels))
<1> DEFINE new == DB!Apply(s, BlockRecords(b), DB!NoDels)
           hb  == BlockHash(b)
<1>1. /\ DOMAIN new["b"] = DOMAIN s["b"] \cup {hb}
      /\ new["b"][hb] = b
      /\ \A h \in DOMAIN s["b"] \ {hb} : new["b"][h] = s["b"][h]
  BY BlockTables
<1>2. HeightsIn(new)
  BY BlockTables DEF Ordered, HeightsIn
<1> HIDE DEF new
<1>3. \A h \in DOMAIN s["b"] : new["b"][h].index = s["b"][h].index
  <2> TAKE h \in DOMAIN s["b"]
  <2>1. CASE h = hb
    BY <1>1, <2>1, RootedIndex DEF Sound, BlocksIn
  <2>2. CASE h # hb
    BY <1>1, <2>2
  <2> QED
    BY <2>1, <2>2
<1>4. ASSUME NEW h \in DOMAIN new["b"], new["b"][h].index > 1
      PROVE  /\ new["b"][h].previousHash \in DOMAIN new["b"]
             /\ new["b"][new["b"][h].previousHash].index = new["b"][h].index - 1
  <2>1. CASE h = hb
    BY <1>1, <1>3, <1>4, <2>1
  <2>2. CASE h # hb
    <3>1. h \in DOMAIN s["b"] /\ new["b"][h] = s["b"][h]
      BY <1>1, <2>2
    <3> QED
      BY <1>1, <1>3, <1>4, <3>1 DEF Ordered, LinkedIn
  <2> QED
    BY <2>1, <2>2
<1> QED
  BY <1>2, <1>4 DEF Ordered, LinkedIn, new

(* Writing a meta record keeps the durability invariant (setMeta).         *)
LEMMA MetaDInv ==
  ASSUME IInv, DInv, ~WritesFail, NEW k, NEW v, DB!SetMeta(k, v),
         k = "height" => v \in Nat \ {0} /\ InPlace(v),
         UNCHANGED <<chain, block>>,
         pc \notin {"down", "opened", "genesisMined"},
         pc' \in StoredSteps => pc \in StoredSteps
  PROVE  DInv'
<1> DEFINE V == DB!Visible
           p == DB!One("meta", k, v)
<1>1. opened /\ DB!DBTypeOK
  BY DEF IInv, Shape
<1>2. DB!Write(p, DB!NoDels, FALSE)
  BY DEF DB!SetMeta, DB!Put
<1>3. /\ V' = DB!Apply(V, p, DB!NoDels) /\ V \in DurableStores
      /\ DurableStores' \subseteq DurableStores \cup {V'}
  BY <1>1, <1>2, WriteEffect
<1>4. V \in Stores /\ \A s \in Stores' : s \in Stores \/ s = V'
  BY <1>1, <1>2, <1>3, WriteStores
<1>5. DOMAIN V'["b"] = DOMAIN V["b"] /\ DOMAIN V'["h"] = DOMAIN V["h"]
  BY <1>3, MetaTables DEF DB!Tables
<1>6. Ordered(V')
  BY <1>3, <1>4, OrderedMeta DEF DInv, InPlace
<1> HIDE DEF V, p
<1>7. \A s \in Stores' : Ordered(s)
  BY <1>4, <1>6 DEF DInv
<1>8. \A n : InPlace(n) => InPlace(n)'
  BY <1>5 DEF InPlace, V
<1>9. \A b : Durable(b) => \A s \in DurableStores' : BlockHash(b) \in DOMAIN s["b"]
  BY <1>3, <1>5 DEF Durable
<1>10. (pc' \in StoredSteps => InPlace(Len(chain) + 1) /\ Durable(block[1]))
       /\ InPlace(Len(chain))
  BY DEF DInv
<1>11. \A i \in 2..Len(chain) : Durable(chain[i])
  BY DEF DInv
<1> QED
  BY <1>7, <1>8, <1>9, <1>10, <1>11 DEF DInv, InPlace, Durable

(* What persistBlock does to heights and parents on record.                *)
LEMMA PersistDInv ==
  ASSUME IInv, DInv, ~WritesFail, NEW b, PersistBlock(b), Rooted(b),
         b.index > 1 => /\ b.previousHash \in DOMAIN DB!Visible["b"]
                        /\ DB!Visible["b"][b.previousHash].index = b.index - 1,
         UNCHANGED <<chain, block>>, opened
  PROVE  /\ \A s \in Stores' : Ordered(s)
         /\ b.index \in DOMAIN DB!Visible'["h"]
         /\ DOMAIN DB!Visible["h"] \subseteq DOMAIN DB!Visible'["h"]
         /\ \A s \in DurableStores' : BlockHash(b) \in DOMAIN s["b"]
         /\ \A c : Durable(c) => \A s \in DurableStores' : BlockHash(c) \in DOMAIN s["b"]
<1> DEFINE V == DB!Visible
           p == BlockRecords(b)
<1>1. DB!DBTypeOK /\ SoundStores
  BY DEF IInv, Shape
<1>2. DB!Write(p, DB!NoDels, TRUE)
  BY DEF PersistBlock, DB!WriteBatch
<1>3. /\ V' = DB!Apply(V, p, DB!NoDels) /\ V \in DurableStores
      /\ DurableStores' = {V'}
  BY <1>1, <1>2, WriteEffect
<1>4. V \in Stores /\ \A s \in Stores' : s \in Stores \/ s = V'
  BY <1>1, <1>2, <1>3, WriteStores
<1>5. /\ DOMAIN V'["b"] = DOMAIN V["b"] \cup {BlockHash(b)}
      /\ DOMAIN V'["h"] = DOMAIN V["h"] \cup {b.index}
  BY <1>3, BlockTables
<1>6. Ordered(V')
  BY <1>1, <1>3, <1>4, OrderedBlock DEF DInv, SoundStores
<1> HIDE DEF V, p
<1>7. \A s \in Stores' : Ordered(s)
  BY <1>4, <1>6 DEF DInv
<1> QED
  BY <1>3, <1>5, <1>7 DEF V, Durable

(* What updateUTXOs does to heights and parents on record: nothing.        *)
LEMMA SpendDInv ==
  ASSUME IInv, DInv, ~WritesFail, NEW b, UpdateUTXOs(b), opened
  PROVE  /\ \A s \in Stores' : Ordered(s)
         /\ DOMAIN DB!Visible'["h"] = DOMAIN DB!Visible["h"]
         /\ \A c : Durable(c) => \A s \in DurableStores' : BlockHash(c) \in DOMAIN s["b"]
<1> DEFINE V == DB!Visible
           d == SpentRecords(b.transactions)
<1>1. DB!DBTypeOK /\ SoundStores
  BY DEF IInv, Shape
<1>2. DB!Write(DB!EmptyStore, d, TRUE)
  BY DEF UpdateUTXOs, DB!WriteBatch
<1>3. /\ V' = DB!Apply(V, DB!EmptyStore, d) /\ V \in DurableStores
      /\ DurableStores' = {V'}
  <2> HIDE DEF d
  <2> QED
    BY <1>1, <1>2, WriteEffect
<1>4. V \in Stores /\ \A s \in Stores' : s \in Stores \/ s = V'
  <2> HIDE DEF d
  <2> QED
    BY <1>1, <1>2, <1>3, WriteStores
<1>5. DOMAIN V'["b"] = DOMAIN V["b"] /\ DOMAIN V'["h"] = DOMAIN V["h"]
  BY <1>3, SpendTables DEF DB!Tables
<1>6. Ordered(V')
  BY <1>3, <1>4, OrderedSpend DEF DInv
<1> HIDE DEF V, d
<1>7. \A s \in Stores' : Ordered(s)
  BY <1>4, <1>6 DEF DInv
<1> QED
  BY <1>3, <1>5, <1>7 DEF V, Durable

(* The durability invariant holds before the first construction.           *)
LEMMA InitDInv == Init => DInv
<1> SUFFICES ASSUME Init PROVE DInv
  OBVIOUS
<1>1. Ordered(DB!EmptyStore)
  BY DEF Ordered, HeightsIn, LinkedIn, DB!EmptyStore, DB!None, DB!Tables
<1> QED
  BY <1>1 DEF Init, DB!Init, DInv, Stores, StoredSteps

(* An object without a chain keeps the durability invariant.               *)
LEMMA ResetDInv ==
  ASSUME DInv, IInv, Forget, DB!Close \/ DB!PowerLoss
  PROVE  DInv'
<1>1. Ordered(DB!EmptyStore)
  BY DEF Ordered, HeightsIn, LinkedIn, DB!EmptyStore, DB!None, DB!Tables
<1>2. Stores' \subseteq Stores \cup {DB!EmptyStore}
  BY DEF Stores, DB!Close, DB!PowerLoss, IInv, Shape, DB!DBTypeOK
<1>3. pc' = "down" /\ chain' = <<>>
  BY DEF Forget
<1> QED
  BY <1>1, <1>2, <1>3 DEF DInv, StoredSteps

(* Creating a genesis block keeps the durability invariant                 *)
(* (blockchain.cpp:69-77).                                                 *)
LEMMA GenesisDInv ==
  ASSUME IInv, DInv, ~WritesFail, FreshGenesis \/ LoadFromDB
  PROVE  DInv'
<1>1. PICK b : UpdateUTXOs(b) /\ chain' = <<b>>
  BY DEF FreshGenesis, LoadFromDB, CreateGenesis
<1>2. pc = "opened" /\ opened /\ pc' \in {"genesisMined", "idle"}
  BY DEF FreshGenesis, LoadFromDB, At, IInv, Shape
<1>3. /\ \A s \in Stores' : Ordered(s)
      /\ DOMAIN DB!Visible'["h"] = DOMAIN DB!Visible["h"]
  BY <1>1, <1>2, SpendDInv
<1>4. LoadFromDB => 0 \in DOMAIN DB!Visible["h"]
  BY DEF LoadFromDB, HeightStored, DB!Has, DInv, Ordered, HeightsIn, DB!Visible, Stores
<1>5. FreshGenesis => pc' = "genesisMined"
  BY DEF FreshGenesis, At
<1>6. pc' \notin StoredSteps /\ Len(chain') = 1
  BY <1>1, <1>2 DEF StoredSteps
<1>7. pc' # "genesisMined" => InPlace(Len(chain))'
  BY <1>3, <1>4, <1>5, <1>6 DEF InPlace
<1> QED
  BY <1>3, <1>6, <1>7 DEF DInv

(* Storing the genesis block of a fresh store (blockchain.cpp:27).         *)
LEMMA FreshPersistDInv ==
  ASSUME IInv, DInv, ~WritesFail, FreshPersist
  PROVE  DInv'
<1> DEFINE b == Last(chain)
<1>1. /\ pc = "genesisMined" /\ pc' = "genesisStored" /\ PersistBlock(b)
      /\ UNCHANGED <<chain, block>>
  BY DEF FreshPersist, StoreStep, At
<1>2. opened /\ chain # <<>> /\ chain \in Seq(ToSet(chain)) /\ Rooted(b)
  BY <1>1, ChainRooted DEF IInv, Shape
<1>3. Len(chain) = 1 /\ b = chain[1] /\ b.index = 0
  <2>1. Len(chain) = 1
    BY <1>1 DEF IInv, Linked, BuildSteps
  <2> QED
    BY <2>1 DEF IInv, Linked, Last
<1> HIDE DEF b
<1>4. (\A s \in Stores : Ordered(s))' /\ 0 \in DOMAIN DB!Visible'["h"]
  BY <1>1, <1>2, <1>3, PersistDInv
<1>5. pc' \notin StoredSteps /\ InPlace(Len(chain))'
  BY <1>1, <1>3, <1>4 DEF StoredSteps, InPlace
<1> QED
  BY <1>1, <1>3, <1>4, <1>5 DEF DInv

(* Mining a block keeps the durability invariant (blockchain.cpp:123-134). *)
LEMMA MineDInv ==
  ASSUME IInv, DInv, ~WritesFail, NEW list, MineBlock(list)
  PROVE  DInv'
<1>1. PICK b : UpdateUTXOs(b)
  BY DEF MineBlock
<1>2. pc \in {"idle", "adjusted"} /\ pc' = "mined" /\ chain' = chain /\ opened
  BY DEF MineBlock, At, IInv, Shape
<1>3. /\ \A s \in Stores' : Ordered(s)
      /\ DOMAIN DB!Visible'["h"] = DOMAIN DB!Visible["h"]
      /\ \A c : Durable(c) => \A s \in DurableStores' : BlockHash(c) \in DOMAIN s["b"]
  BY <1>1, <1>2, SpendDInv
<1>4. pc' \notin StoredSteps /\ InPlace(Len(chain)) /\ \A i \in 2..Len(chain) : Durable(chain[i])
  BY <1>2 DEF DInv, StoredSteps
<1> QED
  BY <1>2, <1>3, <1>4 DEF DInv, InPlace, Durable

(* Storing the mined block (blockchain.cpp:137).                           *)
LEMMA StoreBlockDInv ==
  ASSUME IInv, DInv, ~WritesFail, StoreBlock
  PROVE  DInv'
<1> DEFINE b == block[1]
           n == Len(chain)
           V == DB!Visible
<1>1. /\ pc = "mined" /\ pc' = "stored" /\ PersistBlock(b)
      /\ UNCHANGED <<chain, block>>
  BY DEF StoreBlock, StoreStep, At
<1>2. pc \in AddSteps /\ opened
  BY <1>1 DEF AddSteps, IInv, Shape
<1>3. /\ Rooted(b) /\ b.index = n /\ b.previousHash = BlockHash(chain[n])
      /\ n \in Nat \ {0} /\ chain[n].index = n - 1
  <2>1. Rooted(b)
    BY <1>2, ChainRooted DEF IInv
  <2>2. b.index = n /\ b.previousHash = BlockHash(chain[n])
    BY <1>2 DEF IInv, Linked, LastHash, Last
  <2>3. n \in Nat \ {0}
    BY <1>1 DEF IInv, Shape
  <2> QED
    BY <2>1, <2>2, <2>3 DEF IInv, Linked
<1>4. V \in DurableStores /\ V \in Stores
  BY <1>2, ChainAssumption
  DEF DB!Visible, DurableStores, Stores, IInv, Shape, DB!DBTypeOK
<1>5. ASSUME n > 1
      PROVE  /\ b.previousHash \in DOMAIN V["b"]
             /\ V["b"][b.previousHash].index = n - 1
  <2>1. b.previousHash \in DOMAIN V["b"]
    BY <1>3, <1>4, <1>5 DEF DInv, Durable
  <2>2. /\ Rooted(V["b"][b.previousHash])
        /\ BlockHash(V["b"][b.previousHash]) = b.previousHash
    BY <1>4, <2>1 DEF IInv, SoundStores, Sound, BlocksIn
  <2>3. Rooted(chain[n])
    BY <1>3, ChainRooted DEF IInv, Shape, Last
  <2> QED
    BY <1>3, <2>1, <2>2, <2>3, RootedIndex
<1> HIDE DEF V, b, n
<1>6. /\ \A s \in Stores' : Ordered(s)
      /\ n \in DOMAIN V'["h"] /\ DOMAIN V["h"] \subseteq DOMAIN V'["h"]
      /\ \A s \in DurableStores' : BlockHash(b) \in DOMAIN s["b"]
      /\ \A c : Durable(c) => \A s \in DurableStores' : BlockHash(c) \in DOMAIN s["b"]
  BY <1>1, <1>2, <1>3, <1>5, PersistDInv DEF V
<1>7. InPlace(n) /\ \A i \in 2..n : Durable(chain[i])
  BY <1>1 DEF DInv, n
<1>8. (InPlace(Len(chain)) /\ InPlace(Len(chain) + 1))'
  BY <1>1, <1>3, <1>6, <1>7 DEF InPlace, V, n
<1> QED
  BY <1>1, <1>6, <1>7, <1>8 DEF DInv, Durable, b, n

(* Only what is stored enters the chain in memory                          *)
(* (blockchain.cpp:137-141).                                               *)
LEMMA PushDInv ==
  ASSUME IInv, DInv, PushBlock
  PROVE  DInv'
<1> DEFINE n == Len(chain)
<1>1. /\ pc = "named" /\ pc' = "idle" /\ chain' = Append(chain, block[1])
      /\ UNCHANGED <<opened, engine, disk, stable, memdb>>
  BY DEF PushBlock, At, dbVars
<1>2. chain \in Seq(ToSet(chain)) /\ n \in Nat
  BY DEF IInv, Shape
<1>3. Len(chain') = n + 1 /\ chain'[n+1] = block[1] /\ \A i \in 1..n : chain'[i] = chain[i]
  BY <1>1, <1>2
<1>4. InPlace(n + 1) /\ Durable(block[1]) /\ pc' \notin StoredSteps
  BY <1>1 DEF DInv, StoredSteps
<1>5. Stores' = Stores /\ DurableStores' = DurableStores /\ DB!Visible' = DB!Visible
  BY <1>1 DEF Stores, DurableStores, DB!Visible
<1>6. \A i \in 2..(n+1) : Durable(chain'[i])
  BY <1>2, <1>3, <1>4 DEF DInv
<1> HIDE DEF n
<1> QED
  BY <1>3, <1>4, <1>5, <1>6 DEF DInv, Durable, InPlace

(* Every step keeps the durability invariant, when no write is refused.    *)
LEMMA StepDInv == ~WritesFail /\ IInv /\ DInv /\ [Next]_vars => DInv'
<1> SUFFICES ASSUME ~WritesFail, IInv, DInv, [Next]_vars PROVE DInv'
  OBVIOUS
<1> USE DEF StoredSteps
<1>1. CASE Boot
  <2>1. chain' = <<>> /\ pc' = "opened" /\ Stores' = Stores
    BY <1>1 DEF Boot, At, IInv, Shape, DB!Open, Stores
  <2> QED
    BY <2>1 DEF DInv
<1>2. CASE LoadFromDB \/ FreshGenesis
  BY <1>2, GenesisDInv
<1>3. CASE FreshPersist
  BY <1>3, FreshPersistDInv
<1>4. ASSUME FreshHeight \/ CloseHeight \/ StoreHeight PROVE DInv'
  <2>1. Len(chain) \in Nat \ {0}
    BY <1>4 DEF FreshHeight, CloseHeight, StoreHeight, StoreStep, At, IInv, Shape
  <2>2. CASE FreshHeight
    <3>1. Len(chain) = 1
      BY <2>2 DEF FreshHeight, StoreStep, At, IInv, Linked, BuildSteps
    <3> QED
      BY <2>2, <3>1, MetaDInv DEF FreshHeight, StoreStep, At, DInv
  <2>3. CASE CloseHeight
    BY <2>1, <2>3, MetaDInv DEF CloseHeight, StoreStep, At, DInv
  <2>4. CASE StoreHeight
    BY <2>1, <2>4, MetaDInv DEF StoreHeight, StoreStep, At, DInv
  <2> QED
    BY <1>4, <2>2, <2>3, <2>4
<1>5. CASE FreshBest
  BY <1>5, MetaDInv DEF FreshBest, StoreStep, At
<1>6. CASE FreshDifficulty
  BY <1>6, MetaDInv DEF FreshDifficulty, StoreStep, At
<1>7. CASE AdjustDifficulty
  BY <1>7, MetaDInv DEF AdjustDifficulty, At
<1>8. CASE \E list \in Payloads : MineBlock(list)
  BY <1>8, MineDInv
<1>9. CASE StoreBlock
  BY <1>9, StoreBlockDInv
<1>10. CASE StoreBest
  BY <1>10, MetaDInv DEF StoreBest, StoreStep, At
<1>11. CASE PushBlock
  BY <1>11, PushDInv
<1>12. CASE CloseBest
  BY <1>12, MetaDInv DEF CloseBest, StoreStep, At
<1>13. CASE CloseDifficulty
  BY <1>13, MetaDInv DEF CloseDifficulty, StoreStep, At
<1>14. CASE Close \/ Crash \/ PowerLoss
  BY <1>14, ResetDInv DEF Close, Crash, PowerLoss
<1>15. CASE UNCHANGED vars \/ Tick \/ \E b \in ToSet(chain) : GetBlockByHash(BlockHash(b))
  <2>1. UNCHANGED <<opened, engine, disk, stable, memdb, chain, pc, block>>
    BY <1>15 DEF vars, dbVars, Tick, GetBlockByHash
  <2> QED
    BY <2>1 DEF DInv, Stores, InPlace, Durable, DurableStores, DB!Visible
<1> QED
  BY <1>1, <1>2, <1>3, <1>4, <1>5, <1>6, <1>7, <1>8, <1>9, <1>10, <1>11, <1>12,
     <1>13, <1>14, <1>15 DEF Next, Construct, AddBlock, Destruct

(* When no write is refused: a height on record never exceeds the blocks     *)
(* that are stored, stored blocks stay linked, and the chain in memory       *)
(* survives a loss of power at any moment (addBlock, blockchain.cpp:123-148). *)
THEOREM Durability ==
  ASSUME ~WritesFail
  PROVE  Spec => [](HeightIndexed /\ ParentStored /\ ChainDurable)
<1>1. IInv /\ DInv => HeightIndexed /\ ParentStored /\ ChainDurable
  BY DEF DInv, Ordered, HeightIndexed, ParentStored, ChainDurable, Durable, DurableStores
<1>2. Init => DInv
  BY InitDInv
<1>3. IInv /\ DInv /\ [Next]_vars => DInv'
  BY StepDInv
<1> QED
  BY <1>1, <1>2, <1>3, InitIInv, StepIInv, PTL DEF Spec

(* The height a restart reads counts blocks that are there ("Save to DB     *)
(* first", blockchain.cpp:136-138): the part of Durability on heights.      *)
THEOREM HeightsIndexed ==
  ASSUME ~WritesFail
  PROVE  Spec => []HeightIndexed
<1>1. HeightIndexed /\ ParentStored /\ ChainDurable => HeightIndexed
  OBVIOUS
<1> QED
  BY <1>1, Durability, PTL

(* Stored blocks stay linked under later sessions: the part of Durability   *)
(* on parents (persistBlock, blockchain.cpp:97-120).                        *)
THEOREM ParentsStored ==
  ASSUME ~WritesFail
  PROVE  Spec => []ParentStored
<1>1. HeightIndexed /\ ParentStored /\ ChainDurable => ParentStored
  OBVIOUS
<1> QED
  BY <1>1, Durability, PTL

-----------------------------------------------------------------------------
(* The ledger that the chain implements                                    *)

(* A batch leaves the tables alone that it neither puts into nor deletes    *)
(* from.                                                                    *)
LEMMA SameTable ==
  ASSUME NEW s, DB!IsStore(s), NEW p, NEW d, NEW t \in DB!Tables,
         p[t] = DB!None, d[t] = {}
  PROVE  DB!Apply(s, p, d)[t] = s[t]
<1>1. s[t] = [k \in DOMAIN s[t] |-> s[t][k]]
  BY DEF DB!IsStore
<1>2. DB!Apply(s, p, d)[t] =
        [k \in DOMAIN s[t] |-> IF k \in {} THEN p[t][k] ELSE s[t][k]]
  BY DEF DB!Apply, DB!None
<1> QED
  BY <1>1, <1>2

(* Every block of the chain in memory goes back to its genesis block.      *)
LEMMA MemberRooted ==
  ASSUME Shape, Linked, NEW i \in 1..Len(chain)
  PROVE  Rooted(chain[i]) /\ chain[i].index = i - 1
<1> DEFINE a == [j \in 0..(i - 1) |-> chain[j+1]]
<1>1. chain \in Seq(ToSet(chain)) /\ Len(chain) \in Nat
  BY DEF Shape
<1>2. chain[i].index = i - 1 /\ i \in Nat \ {0} /\ i <= Len(chain)
  BY <1>1 DEF Linked
<1>3. chain # <<>> /\ chain[1].previousHash = M!NullHash
  BY <1>1, <1>2 DEF Linked
<1>4. \A j \in 0..(i-1) : a[j].index = j
  BY <1>1, <1>2 DEF Linked
<1>5. \A j \in 1..(i-1) : a[j].previousHash = BlockHash(a[j-1])
  BY <1>1, <1>2 DEF Linked
<1>6. a[i-1] = chain[i] /\ a[0] = chain[1]
  BY <1>2
<1> HIDE DEF a
<1>7. AncestorsOf(chain[i], a)
  BY <1>2, <1>3, <1>4, <1>5, <1>6 DEF AncestorsOf
<1> QED
  BY <1>2, <1>7 DEF Rooted

-----------------------------------------------------------------------------
(* Where the blocks of this session are in the store.  All that a loss of    *)
(* power may take back are records of the meta table.                        *)

Kept(b) == /\ BlockHash(b) \in DOMAIN DB!Visible["b"]
           /\ DB!Visible["b"][BlockHash(b)] = b

Placed(b) == /\ b.index \in DOMAIN DB!Visible["h"]
             /\ DB!Visible["h"][b.index] = BlockHash(b)

Synced == \A s \in stable : s["b"] = disk["b"] /\ s["h"] = disk["h"]

LInv == /\ Synced
        /\ \A i \in 2..Len(chain) : Kept(chain[i]) /\ Placed(chain[i])
        /\ pc \in StoredSteps => Kept(block[1]) /\ Placed(block[1])

SameBlocks == /\ DB!Visible'["b"] = DB!Visible["b"] /\ DB!Visible'["h"] = DB!Visible["h"]
              /\ disk'["b"] = disk["b"] /\ disk'["h"] = disk["h"]
              /\ Synced'

(* A write that touches neither the blocks nor their places.               *)
LEMMA OtherWrite ==
  ASSUME DB!DBTypeOK, Synced, NEW p, NEW d, NEW sync, DB!Write(p, d, sync),
         \A t \in {"b", "h"} : p[t] = DB!None /\ d[t] = {}
  PROVE  SameBlocks
<1>1. \A t \in {"b", "h"} : /\ DB!Apply(disk, p, d)[t] = disk[t]
                           /\ DB!Apply(memdb, p, d)[t] = memdb[t]
  BY SameTable DEF DB!DBTypeOK, DB!Tables
<1>2. CASE UNCHANGED DB!dbVars
  BY <1>2 DEF DB!dbVars, SameBlocks, Synced, DB!Visible
<1>3. CASE /\ opened /\ engine = "leveldb"
           /\ disk' = DB!Apply(disk, p, d)
           /\ stable' = IF sync THEN {disk'} ELSE stable \cup {disk'}
           /\ UNCHANGED <<opened, engine, memdb>>
  BY <1>1, <1>3 DEF SameBlocks, Synced, DB!Visible
<1>4. CASE /\ opened /\ engine = "memory"
           /\ memdb' = DB!Apply(memdb, p, d)
           /\ UNCHANGED <<opened, engine, disk, stable>>
  BY <1>1, <1>4 DEF SameBlocks, Synced, DB!Visible
<1> QED
  BY <1>2, <1>3, <1>4 DEF DB!Write

(* A meta record is not a block (setMeta).                                 *)
LEMMA SetMetaOther ==
  ASSUME DB!DBTypeOK, Synced, NEW k, NEW v, DB!SetMeta(k, v)
  PROVE  SameBlocks
<1>1. DB!Write(DB!One("meta", k, v), DB!NoDels, FALSE)
  BY DEF DB!SetMeta, DB!Put
<1>2. \A t \in {"b", "h"} : DB!One("meta", k, v)[t] = DB!None /\ DB!NoDels[t] = {}
  BY DEF DB!One, DB!EmptyStore, DB!NoDels, DB!Tables
<1> QED
  BY <1>1, <1>2, OtherWrite

(* updateUTXOs deletes no block (blockchain.cpp:164-182).                  *)
LEMMA SpendOther ==
  ASSUME DB!DBTypeOK, Synced, NEW b, UpdateUTXOs(b)
  PROVE  SameBlocks
<1> DEFINE dels == SpentRecords(b.transactions)
<1>1. DB!Write(DB!EmptyStore, dels, TRUE)
  BY DEF UpdateUTXOs, DB!WriteBatch
<1>2. \A t \in {"b", "h"} : DB!EmptyStore[t] = DB!None /\ dels[t] = {}
  BY DEF SpentRecords, DB!EmptyStore, DB!NoDels, DB!Tables
<1> HIDE DEF dels
<1> QED
  BY <1>1, <1>2, OtherWrite

(* What neither writes a block nor enters one into the chain keeps the     *)
(* invariant.                                                              *)
LEMMA QuietLInv ==
  ASSUME LInv, SameBlocks,
         chain' = chain \/ Len(chain') = 1,
         pc' \in StoredSteps => pc \in StoredSteps /\ block' = block
  PROVE  LInv'
<1>1. Synced'
  BY DEF SameBlocks
<1>2. ASSUME pc' \in StoredSteps PROVE Kept(block[1])' /\ Placed(block[1])'
  <2>1. block' = block /\ Kept(block[1]) /\ Placed(block[1])
    BY <1>2 DEF LInv
  <2> QED
    BY <2>1 DEF SameBlocks, Kept, Placed
<1>3. ASSUME NEW i \in 2..Len(chain') PROVE Kept(chain[i])' /\ Placed(chain[i])'
  <2>1. Len(chain') # 1
    <3>1. \A j \in 2..1 : FALSE
      OBVIOUS
    <3> QED
      BY <1>3, <3>1
  <2>2. Kept(chain[i]) /\ Placed(chain[i])
    BY <1>3, <2>1 DEF LInv
  <2> QED
    BY <1>3, <2>1, <2>2 DEF SameBlocks, Kept, Placed
<1> QED
  BY <1>1, <1>2, <1>3 DEF LInv

(* persistBlock changes one hash and one height, in every store that is     *)
(* left (blockchain.cpp:97-120).                                            *)
LEMMA PersistEffect ==
  ASSUME DB!DBTypeOK, Synced, opened, ~WritesFail, NEW b, PersistBlock(b)
  PROVE  /\ Synced'
         /\ BlockHash(b) \in DOMAIN DB!Visible'["b"]
         /\ DB!Visible'["b"][BlockHash(b)] = b
         /\ b.index \in DOMAIN DB!Visible'["h"]
         /\ DB!Visible'["h"][b.index] = BlockHash(b)
         /\ \A h \in DOMAIN DB!Visible["b"] \ {BlockHash(b)} :
              /\ h \in DOMAIN DB!Visible'["b"]
              /\ DB!Visible'["b"][h] = DB!Visible["b"][h]
         /\ \A i \in DOMAIN DB!Visible["h"] \ {b.index} :
              /\ i \in DOMAIN DB!Visible'["h"]
              /\ DB!Visible'["h"][i] = DB!Visible["h"][i]
<1> DEFINE p == BlockRecords(b)
<1>1. DB!Write(p, DB!NoDels, TRUE)
  BY DEF PersistBlock, DB!WriteBatch
<1> HIDE DEF p
<1>2. DB!Visible' = DB!Apply(DB!Visible, p, DB!NoDels)
  BY <1>1, WriteEffect
<1>3. Synced'
  BY <1>1 DEF DB!Write, DB!dbVars, Synced
<1> QED
  BY <1>2, <1>3, BlockTables DEF p

(* Before the first construction nothing is stored.                        *)
LEMMA InitLInv == Init => LInv
  BY DEF Init, DB!Init, LInv, Synced, StoredSteps

(* Storing the genesis block of a fresh store (blockchain.cpp:27).         *)
LEMMA FreshPersistLInv ==
  ASSUME IInv, LInv, ~WritesFail, FreshPersist
  PROVE  LInv'
<1>1. /\ pc = "genesisMined" /\ pc' = "genesisStored" /\ PersistBlock(Last(chain))
      /\ UNCHANGED <<chain, block>>
  BY DEF FreshPersist, StoreStep, At
<1>2. opened /\ DB!DBTypeOK /\ Len(chain) = 1
  BY <1>1 DEF IInv, Shape, Linked, BuildSteps
<1>3. Synced'
  BY <1>1, <1>2, PersistEffect DEF LInv
<1> QED
  BY <1>1, <1>2, <1>3 DEF LInv, StoredSteps

(* Storing the mined block: no earlier block of the session has its hash    *)
(* or its height (blockchain.cpp:137).                                      *)
LEMMA StoreBlockLInv ==
  ASSUME IInv, LInv, ~WritesFail, StoreBlock
  PROVE  LInv'
<1> DEFINE b == block[1]
<1>1. /\ pc = "mined" /\ pc' = "stored" /\ PersistBlock(b)
      /\ UNCHANGED <<chain, block>>
  BY DEF StoreBlock, StoreStep, At
<1>2. pc \in AddSteps /\ opened /\ DB!DBTypeOK
  BY <1>1 DEF AddSteps, IInv, Shape
<1>3. Len(chain) \in Nat
  BY DEF IInv, Shape
<1>4. Rooted(b) /\ b.index = Len(chain)
  BY <1>2, ChainRooted DEF IInv, Linked
<1>5. ASSUME NEW i \in 2..Len(chain)
      PROVE  BlockHash(chain[i]) # BlockHash(b) /\ chain[i].index # b.index
  <2>1. Rooted(chain[i]) /\ chain[i].index = i - 1
    BY <1>3, MemberRooted DEF IInv
  <2> HIDE DEF b
  <2> QED
    BY <1>3, <1>4, <2>1, RootedIndex
<1>6. Synced' /\ Kept(b)' /\ Placed(b)'
  BY <1>1, <1>2, PersistEffect DEF LInv, Kept, Placed
<1>7. ASSUME NEW i \in 2..Len(chain) PROVE Kept(chain[i])' /\ Placed(chain[i])'
  BY <1>1, <1>2, <1>5, PersistEffect DEF LInv, Kept, Placed
<1> QED
  BY <1>1, <1>6, <1>7 DEF LInv

(* The block that enters the chain is the one that was stored              *)
(* (blockchain.cpp:141).                                                   *)
LEMMA PushLInv ==
  ASSUME IInv, LInv, PushBlock
  PROVE  LInv'
<1> DEFINE n == Len(chain)
<1>1. /\ pc = "named" /\ pc' = "idle" /\ chain' = Append(chain, block[1])
      /\ UNCHANGED <<opened, engine, disk, stable, memdb>>
  BY DEF PushBlock, At, dbVars
<1>2. chain \in Seq(ToSet(chain)) /\ n \in Nat
  BY DEF IInv, Shape
<1>3. Len(chain') = n + 1 /\ chain'[n+1] = block[1] /\ \A i \in 1..n : chain'[i] = chain[i]
  BY <1>1, <1>2
<1>4. pc \in StoredSteps /\ pc' \notin StoredSteps
  BY <1>1 DEF StoredSteps
<1>5. Synced' /\ DB!Visible' = DB!Visible
  BY <1>1 DEF LInv, Synced, DB!Visible
<1>6. \A i \in 2..(n+1) : Kept(chain'[i]) /\ Placed(chain'[i])
  BY <1>2, <1>3, <1>4 DEF LInv
<1> HIDE DEF n
<1> QED
  BY <1>3, <1>4, <1>5, <1>6 DEF LInv, Kept, Placed

(* Without a chain in memory only the stores matter.                       *)
LEMMA ForgetLInv ==
  ASSUME IInv, LInv, Forget, DB!Close \/ DB!PowerLoss
  PROVE  LInv'
<1>1. pc' = "down" /\ chain' = <<>>
  BY DEF Forget
<1>2. Synced'
  BY DEF LInv, Synced, DB!Close, DB!PowerLoss
<1> QED
  BY <1>1, <1>2 DEF LInv, StoredSteps

(* Every step keeps the places of this session's blocks, when no write is  *)
(* refused.                                                                 *)
LEMMA StepLInv == ~WritesFail /\ IInv /\ LInv /\ [Next]_vars => LInv'
<1> SUFFICES ASSUME ~WritesFail, IInv, LInv, [Next]_vars PROVE LInv'
  OBVIOUS
<1> USE DEF StoredSteps
<1>1. DB!DBTypeOK /\ Synced
  BY DEF IInv, Shape, LInv
<1>2. CASE Boot
  <2>1. chain' = <<>> /\ pc' = "opened" /\ stable' = stable /\ disk' = disk
    BY <1>2 DEF Boot, At, IInv, Shape, DB!Open
  <2> QED
    BY <1>1, <2>1 DEF LInv, Synced
<1>3. CASE LoadFromDB \/ FreshGenesis
  <2>1. PICK b : UpdateUTXOs(b) /\ chain' = <<b>>
    BY <1>3 DEF FreshGenesis, LoadFromDB, CreateGenesis
  <2>2. pc' \in {"genesisMined", "idle"}
    BY <1>3 DEF FreshGenesis, LoadFromDB, At
  <2> QED
    BY <1>1, <2>1, <2>2, SpendOther, QuietLInv
<1>4. CASE FreshPersist
  BY <1>4, FreshPersistLInv
<1>5. CASE StoreBlock
  BY <1>5, StoreBlockLInv
<1>6. ASSUME NEW from, NEW to, StoreStep(from, to),
             \E k, v : DB!SetMeta(k, v), to \in StoredSteps => from \in StoredSteps
      PROVE  LInv'
  BY <1>1, <1>6, SetMetaOther, QuietLInv DEF StoreStep, At
<1>7. CASE FreshHeight \/ FreshBest \/ FreshDifficulty
  BY <1>6, <1>7 DEF FreshHeight, FreshBest, FreshDifficulty
<1>8. CASE StoreHeight \/ StoreBest
  BY <1>6, <1>8 DEF StoreHeight, StoreBest
<1>9. CASE CloseHeight \/ CloseBest \/ CloseDifficulty
  BY <1>6, <1>9 DEF CloseHeight, CloseBest, CloseDifficulty
<1>10. CASE AdjustDifficulty
  BY <1>1, <1>10, SetMetaOther, QuietLInv DEF AdjustDifficulty, At
<1>11. CASE \E list \in Payloads : MineBlock(list)
  <2>1. PICK b : UpdateUTXOs(b)
    BY <1>11 DEF MineBlock
  <2>2. chain' = chain /\ pc' = "mined"
    BY <1>11 DEF MineBlock, At
  <2> QED
    BY <1>1, <2>1, <2>2, SpendOther, QuietLInv
<1>12. CASE PushBlock
  BY <1>12, PushLInv
<1>13. CASE Close \/ Crash \/ PowerLoss
  BY <1>13, ForgetLInv DEF Close, Crash, PowerLoss
<1>14. CASE UNCHANGED vars \/ Tick \/ \E b \in ToSet(chain) : GetBlockByHash(BlockHash(b))
  <2>1. UNCHANGED <<opened, engine, disk, stable, memdb, chain, pc, block>>
    BY <1>14 DEF vars, dbVars, Tick, GetBlockByHash
  <2>2. SameBlocks
    BY <1>1, <2>1 DEF SameBlocks, Synced, DB!Visible
  <2> QED
    BY <2>1, <2>2, QuietLInv
<1> QED
  BY <1>2, <1>3, <1>4, <1>5, <1>7, <1>8, <1>9, <1>10, <1>11, <1>12, <1>13, <1>14
  DEF Next, Construct, AddBlock, Destruct

-----------------------------------------------------------------------------
(* The refinement *)

Count == IF "height" \in DOMAIN disk["meta"] THEN disk["meta"]["height"] ELSE 0

(* A step that writes no block leaves the ledger alone or recounts it.     *)
LEMMA RecountStep ==
  ASSUME DInv', disk'["b"] = disk["b"], disk'["h"] = disk["h"]
  PROVE  [Ledger!Next]_(Ledger!vars)
<1>1. HeightsIn(disk)'
  BY DEF DInv, Ordered, Stores
<1>2. Count' \in Nat /\ \A i \in 0..(Count' - 1) : i \in DOMAIN disk'["h"]
  BY <1>1 DEF HeightsIn, Count
<1> QED
  BY <1>2 DEF Ledger!Next, Ledger!Recount, Ledger!vars, Count

(* The tables of blocks and places after persistBlock are the ledger's     *)
(* after an append (blockchain.cpp:97-120).                                *)
LEMMA BlockApplied ==
  ASSUME NEW s, DB!IsStore(s), NEW b
  PROVE  LET new == DB!Apply(s, BlockRecords(b), DB!NoDels) IN
         /\ new["b"] = [g \in DOMAIN s["b"] \cup {BlockHash(b)} |->
                         IF g = BlockHash(b) THEN b ELSE s["b"][g]]
         /\ new["h"] = [i \in DOMAIN s["h"] \cup {b.index} |->
                         IF i = b.index THEN BlockHash(b) ELSE s["h"][i]]
         /\ new["meta"] = s["meta"]
<1> DEFINE p == BlockRecords(b)
           new == DB!Apply(s, p, DB!NoDels)
<1>1. /\ p["b"] = [h \in {BlockHash(b)} |-> b]
      /\ p["h"] = [i \in {b.index} |-> BlockHash(b)]
      /\ p["meta"] = DB!None
  BY DEF BlockRecords, DB!EmptyStore, DB!Tables
<1>2. \A t \in DB!Tables : DB!NoDels[t] = {}
  BY DEF DB!NoDels
<1> HIDE DEF p
<1>3. new["meta"] = s["meta"]
  BY <1>1, <1>2, SameTable DEF DB!Tables
<1>4. \A t \in DB!Tables :
        new[t] = [k \in (DOMAIN s[t] \cup DOMAIN p[t]) \ {} |->
                    IF k \in DOMAIN p[t] THEN p[t][k] ELSE s[t][k]]
  BY <1>2 DEF DB!Apply
<1>5. new["b"] = [k \in (DOMAIN s["b"] \cup {BlockHash(b)}) \ {} |->
                    IF k \in {BlockHash(b)} THEN b ELSE s["b"][k]]
  <2>1. new["b"] = [k \in (DOMAIN s["b"] \cup DOMAIN p["b"]) \ {} |->
                      IF k \in DOMAIN p["b"] THEN p["b"][k] ELSE s["b"][k]]
    BY <1>4 DEF DB!Tables
  <2> HIDE DEF new
  <2> QED
    BY <1>1, <2>1
<1>6. new["h"] = [k \in (DOMAIN s["h"] \cup {b.index}) \ {} |->
                    IF k \in {b.index} THEN BlockHash(b) ELSE s["h"][k]]
  <2>1. new["h"] = [k \in (DOMAIN s["h"] \cup DOMAIN p["h"]) \ {} |->
                      IF k \in DOMAIN p["h"] THEN p["h"][k] ELSE s["h"][k]]
    BY <1>4 DEF DB!Tables
  <2> HIDE DEF new
  <2> QED
    BY <1>1, <2>1
<1> HIDE DEF new
<1> QED
  BY <1>3, <1>5, <1>6 DEF new, p

(* persistBlock appends to the ledger when the parent is at the height     *)
(* below; what it replaces has the header of the new block.                *)
LEMMA AppendStep ==
  ASSUME IInv, NEW b, Rooted(b), PersistBlock(b),
         b.index > 1 => /\ b.index - 1 \in DOMAIN DB!Visible["h"]
                        /\ DB!Visible["h"][b.index - 1] = b.previousHash
  PROVE  [Ledger!Next]_(Ledger!vars)
<1> DEFINE h == BlockHash(b)
<1>1. DB!Write(BlockRecords(b), DB!NoDels, TRUE)
  BY DEF PersistBlock, DB!WriteBatch
<1>2. CASE disk' = disk
  BY <1>2 DEF Ledger!vars
<1>3. CASE /\ engine = "leveldb"
           /\ disk' = DB!Apply(disk, BlockRecords(b), DB!NoDels)
  <2>1. /\ disk'["b"] = [g \in DOMAIN disk["b"] \cup {h} |->
                           IF g = h THEN b ELSE disk["b"][g]]
        /\ disk'["h"] = [i \in DOMAIN disk["h"] \cup {b.index} |->
                           IF i = b.index THEN h ELSE disk["h"][i]]
        /\ disk'["meta"] = disk["meta"]
    <3>1. DB!IsStore(disk)
      BY DEF IInv, Shape, DB!DBTypeOK
    <3> QED
      BY <1>3, <3>1, BlockApplied
  <2>2. h \in DOMAIN disk'["b"] /\ disk'["b"][h] = b
    BY <2>1
  <2>3. Ledger!Follows(b)
    BY <1>3 DEF Ledger!Follows, DB!Visible
  <2>4. ASSUME h \in DOMAIN disk["b"] PROVE Ledger!SameHeader(disk["b"][h], b)
    <3>1. Rooted(disk["b"][h]) /\ BlockHash(disk["b"][h]) = h
      BY <2>4 DEF IInv, SoundStores, Sound, BlocksIn, Stores
    <3>2. disk["b"][h].index = b.index
      BY <3>1, RootedIndex
    <3>3. /\ disk["b"][h].previousHash = b.previousHash
          /\ disk["b"][h].timestamp = b.timestamp
          /\ disk["b"][h].difficulty = b.difficulty
      BY <3>1 DEF BlockHash
    <3> QED
      BY <3>2, <3>3 DEF Ledger!SameHeader
  <2>5. Ledger!Append(h, b)
    BY <2>1, <2>3, <2>4 DEF Ledger!Append
  <2> QED
    BY <2>2, <2>5 DEF Ledger!Next
<1> QED
  BY <1>1, <1>2, <1>3 DEF DB!Write, DB!dbVars

(* Every step of the chain is a step of the ledger or none.                *)
LEMMA StepLedger ==
  ASSUME ~WritesFail, IInv, DInv, LInv, [Next]_vars, DInv', LInv'
  PROVE  [Ledger!Next]_(Ledger!vars)
<1>1. DB!DBTypeOK /\ Synced
  BY DEF IInv, Shape, LInv
<1>2. CASE disk' = disk
  BY <1>2 DEF Ledger!vars
<1>3. CASE SameBlocks
  BY <1>3, RecountStep DEF SameBlocks
<1>4. CASE FreshPersist
  <2>1. /\ pc = "genesisMined" /\ PersistBlock(Last(chain)) /\ chain # <<>>
    BY <1>4 DEF FreshPersist, StoreStep, At, IInv, Shape
  <2>2. Len(chain) = 1
    BY <2>1 DEF IInv, Linked, BuildSteps
  <2>3. Rooted(Last(chain)) /\ Last(chain).index = 0
    BY <2>1, <2>2, ChainRooted DEF IInv, Linked, Last
  <2> QED
    BY <2>1, <2>3, AppendStep
<1>5. CASE StoreBlock
  <2> DEFINE b == block[1]
             n == Len(chain)
  <2>1. pc = "mined" /\ PersistBlock(b)
    BY <1>5 DEF StoreBlock, StoreStep, At
  <2>2. pc \in AddSteps
    BY <2>1 DEF AddSteps
  <2>3. n \in Nat
    BY DEF IInv, Shape
  <2>4. Rooted(b) /\ b.index = n /\ b.previousHash = BlockHash(chain[n])
    BY <2>2, ChainRooted DEF IInv, Linked, LastHash, Last
  <2>5. ASSUME n > 1
        PROVE  n - 1 \in DOMAIN DB!Visible["h"] /\ DB!Visible["h"][n - 1] = b.previousHash
    <3>1. n \in 2..Len(chain) /\ n \in 1..Len(chain)
      BY <2>3, <2>5
    <3>2. Placed(chain[n]) /\ chain[n].index = n - 1
      BY <3>1, MemberRooted DEF LInv, IInv
    <3> HIDE DEF b, n
    <3> QED
      BY <2>4, <3>2 DEF Placed
  <2> HIDE DEF b
  <2> QED
    BY <2>1, <2>4, <2>5, AppendStep
<1>6. CASE \E k, v : DB!SetMeta(k, v)
  BY <1>1, <1>3, <1>6, SetMetaOther
<1>7. CASE \E b : UpdateUTXOs(b)
  BY <1>1, <1>3, <1>7, SpendOther
<1>8. CASE PowerLoss
  <2>1. disk' \in stable
    BY <1>8 DEF PowerLoss, DB!PowerLoss
  <2> QED
    BY <1>1, <2>1, RecountStep DEF Synced
<1>9. ASSUME Construct PROVE [Ledger!Next]_(Ledger!vars)
  BY <1>2, <1>4, <1>6, <1>7, <1>9
  DEF Construct, Boot, DB!Open, LoadFromDB, FreshGenesis, CreateGenesis,
      FreshHeight, FreshBest, FreshDifficulty
<1>10. ASSUME AddBlock PROVE [Ledger!Next]_(Ledger!vars)
  BY <1>2, <1>5, <1>6, <1>7, <1>10
  DEF AddBlock, AdjustDifficulty, MineBlock, StoreHeight, StoreBest, PushBlock, dbVars
<1>11. ASSUME Destruct PROVE [Ledger!Next]_(Ledger!vars)
  BY <1>2, <1>6, <1>11 DEF Destruct, CloseHeight, CloseBest, CloseDifficulty, Close, DB!Close
<1>12. CASE UNCHANGED vars \/ Tick \/ \E b \in ToSet(chain) : GetBlockByHash(BlockHash(b))
  BY <1>2, <1>12 DEF vars, dbVars, Tick, GetBlockByHash
<1>13. CASE Crash
  BY <1>2, <1>13 DEF Crash, DB!Close
<1> QED
  BY <1>8, <1>9, <1>10, <1>11, <1>12, <1>13 DEF Next

(* When no write is refused, the store implements the ledger: batches,     *)
(* crashes, losses of power and restarts append one block onto its parent, *)
(* recount what is there or change nothing (blockchain.cpp:97-148).        *)
THEOREM LedgerImplemented ==
  ASSUME ~WritesFail
  PROVE  Spec => ImplementsLedger
<1>1. Init => Ledger!Init
  BY DEF Init, DB!Init, DB!EmptyStore, DB!None, DB!Tables, Ledger!Init
<1>2. Init => IInv /\ DInv /\ LInv
  BY InitIInv, InitDInv, InitLInv
<1>3. IInv /\ DInv /\ LInv /\ [Next]_vars => (IInv /\ DInv /\ LInv)'
  BY StepIInv, StepDInv, StepLInv
<1>4. /\ IInv /\ DInv /\ LInv /\ [Next]_vars /\ (IInv /\ DInv /\ LInv)'
      => [Ledger!Next]_(Ledger!vars)
  BY StepLedger
<1> QED
  BY <1>1, <1>2, <1>3, <1>4, PTL DEF Spec, ImplementsLedger, Ledger!Spec

-----------------------------------------------------------------------------
(* The cache of blocks                                                       *)

Distinct(s) == \A i, j \in 1..Len(s) : s[i] = s[j] => i = j

Lists(s, S) == s \in Seq(S) /\ Distinct(s) /\ S = {s[i] : i \in 1..Len(s)}

(* A list without repetitions has as many entries as different keys.       *)
LEMMA ListLength ==
  ASSUME NEW s, NEW S, Lists(s, S)
  PROVE  IsFiniteSet(S) /\ Cardinality(S) = Len(s)
<1>1. Len(s) \in Nat /\ s \in [1..Len(s) -> S]
  BY DEF Lists
<1>2. s \in Bijection(1..Len(s), S)
  BY <1>1 DEF Lists, Distinct, Bijection, Injection, Surjection, IsInjective
<1>3. IsFiniteSet(1..Len(s)) /\ Cardinality(1..Len(s)) = Len(s)
  BY <1>1, FS_Interval
<1> QED
  BY <1>2, <1>3, FS_Bijection DEF ExistsBijection

(* A new key at the front of a list (list::push_front).                    *)
LEMMA ConsLists ==
  ASSUME NEW s, NEW S, Lists(s, S), NEW k, k \notin S
  PROVE  Lists(<<k>> \o s, S \cup {k})
<1> DEFINE T == S \cup {k}
           t == <<k>> \o s
           n == Len(s)
<1>1. /\ n \in Nat /\ s \in Seq(S)
      /\ \A i, j \in 1..n : s[i] = s[j] => i = j
      /\ S = {s[j] : j \in 1..n}
  BY DEF Lists, Distinct
<1>2. s \in Seq(T) /\ <<k>> \in Seq(T) /\ Len(<<k>>) = 1 /\ <<k>>[1] = k
  BY <1>1
<1>3. /\ t \in Seq(T) /\ Len(t) = 1 + n
      /\ \A i \in 1..(1 + n) : t[i] = IF i <= 1 THEN <<k>>[i] ELSE s[i - 1]
  BY <1>2, ConcatProperties
<1> HIDE DEF t, n
<1>4. t[1] = k
  BY <1>1, <1>2, <1>3
<1>5. \A i \in 1..(1 + n) : i # 1 => i - 1 \in 1..n /\ t[i] = s[i - 1]
  BY <1>1, <1>3
<1>6. \A i \in 1..(1 + n) : i # 1 => t[i] \in S
  BY <1>1, <1>5
<1>7. ASSUME NEW i \in 1..(1 + n), NEW j \in 1..(1 + n), t[i] = t[j] PROVE i = j
  <2>1. CASE i = 1 \/ j = 1
    BY <1>4, <1>6, <1>7, <2>1
  <2>2. CASE i # 1 /\ j # 1
    <3>1. i - 1 \in 1..n /\ j - 1 \in 1..n /\ s[i - 1] = s[j - 1]
      BY <1>5, <1>7, <2>2
    <3>2. i - 1 = j - 1
      BY <1>1, <3>1
    <3> QED
      BY <1>1, <3>2
  <2> QED
    BY <2>1, <2>2
<1>8. \A j \in 1..n : j + 1 \in 1..(1 + n) /\ t[j + 1] = s[j]
  <2> TAKE j \in 1..n
  <2>1. j + 1 \in 1..(1 + n) /\ j + 1 # 1 /\ (j + 1) - 1 = j
    BY <1>1
  <2> QED
    BY <1>5, <2>1
<1>9. T \subseteq {t[i] : i \in 1..(1 + n)}
  <2>1. k \in {t[i] : i \in 1..(1 + n)}
    BY <1>1, <1>4
  <2>2. ASSUME NEW x \in S PROVE x \in {t[i] : i \in 1..(1 + n)}
    <3>1. PICK j \in 1..n : x = s[j]
      BY <1>1
    <3>2. j + 1 \in 1..(1 + n) /\ x = t[j + 1]
      BY <1>8, <3>1
    <3> QED
      BY <3>2
  <2> QED
    BY <2>1, <2>2
<1>10. {t[i] : i \in 1..(1 + n)} \subseteq T
  BY <1>4, <1>6
<1> QED
  BY <1>3, <1>7, <1>9, <1>10 DEF Lists, Distinct, t

(* A list without one of its keys (list::erase).                           *)
LEMMA RemoveLists ==
  ASSUME NEW s, NEW S, Lists(s, S), NEW i \in 1..Len(s)
  PROVE  Lists(SubSeq(s, 1, i-1) \o SubSeq(s, i+1, Len(s)), S \ {s[i]})
<1> DEFINE n == Len(s)
           l == SubSeq(s, 1, i-1)
           r == SubSeq(s, i+1, n)
           t == l \o r
           at(j) == IF j < i THEN j ELSE j + 1
<1>1. /\ n \in Nat /\ s \in Seq(S) /\ i \in 1..n
      /\ \A j, m \in 1..n : s[j] = s[m] => j = m
      /\ S = {s[j] : j \in 1..n}
  BY DEF Lists, Distinct
<1>2. /\ l \in Seq(S) /\ Len(l) = i - 1
      /\ \A j \in 1..(i-1) : l[j] = s[j]
  <2>1. \A j \in 1..(i-1) : s[j] \in S
    BY <1>1
  <2>2. /\ l \in Seq(S) /\ Len(l) = IF 1 <= i-1 THEN (i-1)-1+1 ELSE 0
        /\ \A j \in 1..((i-1)-1+1) : l[j] = s[1+j-1]
    BY <1>1, <2>1, SubSeqProperties
  <2> HIDE DEF l
  <2> QED
    BY <1>1, <2>2
<1>3. /\ r \in Seq(S) /\ Len(r) = n - i
      /\ \A j \in 1..(n-i) : r[j] = s[j+i]
  <2>1. \A j \in (i+1)..n : s[j] \in S
    BY <1>1
  <2>2. /\ r \in Seq(S) /\ Len(r) = IF i+1 <= n THEN n-(i+1)+1 ELSE 0
        /\ \A j \in 1..(n-(i+1)+1) : r[j] = s[(i+1)+j-1]
    BY <1>1, <2>1, SubSeqProperties, SMTT(30)
  <2>3. /\ n-(i+1)+1 = n-i /\ \A j \in 1..(n-i) : (i+1)+j-1 = j+i
        /\ (IF i+1 <= n THEN n-(i+1)+1 ELSE 0) = n-i
    BY <1>1
  <2> HIDE DEF r
  <2> QED
    BY <2>2, <2>3
<1>4. /\ t \in Seq(S) /\ Len(t) = (i - 1) + (n - i)
      /\ \A j \in 1..((i - 1) + (n - i)) :
           t[j] = IF j <= i - 1 THEN l[j] ELSE r[j - (i - 1)]
  <2> HIDE DEF l, r
  <2>1. /\ l \o r \in Seq(S) /\ Len(l \o r) = Len(l) + Len(r)
        /\ \A j \in 1..(Len(l) + Len(r)) :
             (l \o r)[j] = IF j <= Len(l) THEN l[j] ELSE r[j - Len(l)]
    BY <1>2, <1>3, ConcatProperties
  <2> QED
    BY <1>2, <1>3, <2>1
<1> HIDE DEF l, r, t, n
<1>5. (i - 1) + (n - i) = n - 1
  BY <1>1
<1>6. \A j \in 1..(n-1) : at(j) \in 1..n /\ at(j) # i
  BY <1>1
<1>7. \A j \in 1..(n-1) : t[j] = s[at(j)]
  <2> TAKE j \in 1..(n-1)
  <2>1. CASE j < i
    <3>1. j <= i - 1 /\ j \in 1..(i-1)
      BY <1>1, <2>1
    <3> QED
      BY <1>2, <1>4, <1>5, <2>1, <3>1
  <2>2. CASE ~(j < i)
    <3>1. j - (i - 1) \in 1..(n-i) /\ (j - (i - 1)) + i = j + 1 /\ ~(j <= i - 1)
      BY <1>1, <2>2
    <3>2. t[j] = r[j - (i - 1)]
      BY <1>4, <1>5, <3>1
    <3>3. r[j - (i - 1)] = s[(j - (i - 1)) + i]
      BY <1>3, <3>1
    <3> QED
      BY <2>2, <3>1, <3>2, <3>3
  <2> QED
    BY <2>1, <2>2
<1>8. \A j, m \in 1..(n-1) : at(j) = at(m) => j = m
  BY <1>1
<1>9. \A m \in 1..n : m # i => \E j \in 1..(n-1) : m = at(j)
  <2> TAKE m \in 1..n
  <2>1. CASE m < i
    <3>1. m \in 1..(n-1) /\ at(m) = m
      BY <1>1, <2>1
    <3> QED
      BY <3>1
  <2>2. CASE m > i
    <3>1. m - 1 \in 1..(n-1) /\ at(m-1) = m
      BY <1>1, <2>2
    <3> QED
      BY <3>1
  <2> QED
    BY <1>1, <2>1, <2>2
<1> HIDE DEF at
<1>10. \A j, m \in 1..(n-1) : t[j] = t[m] => j = m
  <2> TAKE j, m \in 1..(n-1)
  <2>1. t[j] = t[m] => at(j) = at(m)
    BY <1>1, <1>6, <1>7
  <2> QED
    BY <1>8, <2>1
<1>11. \A j \in 1..(n-1) : t[j] \in S \ {s[i]}
  BY <1>1, <1>6, <1>7
<1>12. ASSUME NEW x \in S \ {s[i]} PROVE x \in {t[j] : j \in 1..(n-1)}
  <2>1. PICK m \in 1..n : x = s[m] /\ m # i
    BY <1>1
  <2>2. PICK j \in 1..(n-1) : m = at(j)
    BY <1>9, <2>1
  <2> QED
    BY <1>7, <2>1, <2>2
<1>13. Len(t) = n - 1 /\ t \in Seq(S \ {s[i]})
  BY <1>4, <1>5, <1>11
<1>14. S \ {s[i]} = {t[j] : j \in 1..(n-1)}
  BY <1>11, <1>12
<1> QED
  BY <1>10, <1>13, <1>14 DEF Lists, Distinct, t, l, r, n

(* A list without its last key (list::pop_back).                           *)
LEMMA FrontLists ==
  ASSUME NEW s, NEW S, Lists(s, S), Len(s) > 0
  PROVE  Lists(BlockCache!Front(s), S \ {BlockCache!Last(s)})
<1>1. Len(s) \in 1..Len(s) /\ s \in Seq(S)
  BY DEF Lists
<1>2. SubSeq(s, Len(s)+1, Len(s)) = <<>>
  BY <1>1, SubSeqEmpty
<1>3. SubSeq(s, 1, Len(s)-1) \in Seq(S)
  <2>1. \A j \in 1..(Len(s)-1) : s[j] \in S
    BY <1>1
  <2> QED
    BY <1>1, <2>1, SubSeqProperties
<1>4. SubSeq(s, 1, Len(s)-1) \o SubSeq(s, Len(s)+1, Len(s)) = SubSeq(s, 1, Len(s)-1)
  BY <1>2, <1>3, ConcatEmptySeq
<1>5. Lists(SubSeq(s, 1, Len(s)-1) \o SubSeq(s, Len(s)+1, Len(s)), S \ {s[Len(s)]})
  BY <1>1, RemoveLists
<1> QED
  BY <1>4, <1>5 DEF BlockCache!Front, BlockCache!Last

(* The order with a key moved to its front lists the keys of the cache and  *)
(* that one.                                                               *)
LEMMA MovedLists ==
  ASSUME Lists(order, DOMAIN cache), NEW k
  PROVE  Lists(BlockCache!MovedToFront(k), DOMAIN cache \cup {k})
<1>1. CASE k \in DOMAIN cache
  <2>1. \E i \in 1..Len(order) : order[i] = k
    BY <1>1 DEF Lists
  <2>2. /\ BlockCache!Position(k) \in 1..Len(order)
        /\ order[BlockCache!Position(k)] = k
    BY <2>1 DEF BlockCache!Position
  <2>3. Lists(BlockCache!RemoveAt(order, BlockCache!Position(k)), DOMAIN cache \ {k})
    BY <2>2, RemoveLists DEF BlockCache!RemoveAt
  <2>4. (DOMAIN cache \ {k}) \cup {k} = DOMAIN cache \cup {k}
    OBVIOUS
  <2> QED
    BY <1>1, <2>3, <2>4, ConsLists DEF BlockCache!MovedToFront, BlockCache!Cons
<1>2. CASE k \notin DOMAIN cache
  BY <1>2, ConsLists DEF BlockCache!MovedToFront, BlockCache!Cons
<1> QED
  BY <1>1, <1>2

(* The cache counts its keys.                                              *)
LEMMA CountedKeys == \A S : BlockCache!Cardinality(S) = Cardinality(S)
  BY DEF BlockCache!Cardinality, Cardinality

(* put lists every key once, evicts down to the capacity and forgets no     *)
(* other value (cache.cpp:5).                                              *)
LEMMA PutLists ==
  ASSUME Lists(order, DOMAIN cache), Len(order) <= Cap, NEW k, NEW v,
         BlockCache!Put(k, v)
  PROVE  /\ Lists(order', DOMAIN cache') /\ Len(order') <= Cap
         /\ \A h \in DOMAIN cache' : \/ h = k /\ cache'[h] = v
                                     \/ h \in DOMAIN cache /\ cache'[h] = cache[h]
<1> DEFINE moved  == BlockCache!MovedToFront(k)
           stored == [x \in DOMAIN cache \cup {k} |-> IF x = k THEN v ELSE cache[x]]
           full   == Cardinality(DOMAIN stored) > Cap
<1>1. /\ order' = IF full THEN BlockCache!Front(moved) ELSE moved
      /\ cache' = IF full THEN [x \in DOMAIN stored \ {BlockCache!Last(moved)} |-> stored[x]]
                          ELSE stored
  BY CountedKeys DEF BlockCache!Put
<1>2. DOMAIN stored = DOMAIN cache \cup {k}
  OBVIOUS
<1>3. \A h \in DOMAIN stored : \/ h = k /\ stored[h] = v
                               \/ h \in DOMAIN cache /\ stored[h] = cache[h]
  OBVIOUS
<1>4. Lists(moved, DOMAIN stored)
  BY <1>2, MovedLists
<1>5. /\ IsFiniteSet(DOMAIN cache) /\ Cardinality(DOMAIN cache) = Len(order)
      /\ IsFiniteSet(DOMAIN stored) /\ Cardinality(DOMAIN stored) = Len(moved)
  BY <1>4, ListLength
<1>6. Len(order) \in Nat /\ Len(moved) \in Nat /\ Cap \in Nat
  BY <1>4, ChainAssumption DEF Lists
<1>7. Len(moved) <= Cap + 1
  <2>1. \/ Cardinality(DOMAIN stored) = Cardinality(DOMAIN cache)
        \/ Cardinality(DOMAIN stored) = Cardinality(DOMAIN cache) + 1
    BY <1>2, <1>5, FS_AddElement
  <2> HIDE DEF stored, moved
  <2> QED
    BY <1>5, <1>6, <2>1
<1> HIDE DEF moved, stored
<1>8. CASE full
  <2>1. Len(moved) > 0
    BY <1>5, <1>6, <1>8
  <2>2. /\ order' = BlockCache!Front(moved)
        /\ cache' = [x \in DOMAIN stored \ {BlockCache!Last(moved)} |-> stored[x]]
    BY <1>1, <1>8
  <2>3. DOMAIN cache' = DOMAIN stored \ {BlockCache!Last(moved)}
    BY <2>2
  <2>4. Lists(order', DOMAIN cache')
    BY <1>4, <2>1, <2>2, <2>3, FrontLists
  <2>5. BlockCache!Last(moved) \in DOMAIN stored
    BY <1>4, <2>1 DEF Lists, BlockCache!Last
  <2>6. Len(order') = Len(moved) - 1
    BY <1>5, <2>3, <2>4, <2>5, ListLength, FS_RemoveElement
  <2>7. Len(order') <= Cap
    BY <1>6, <1>7, <2>6
  <2> QED
    BY <1>3, <2>2, <2>3, <2>4, <2>7
<1>9. CASE ~full
  <2>1. order' = moved /\ cache' = stored
    BY <1>1, <1>9
  <2>2. Len(order') <= Cap
    BY <1>5, <1>6, <1>9, <2>1
  <2> QED
    BY <1>3, <1>4, <2>1, <2>2
<1> QED
  BY <1>8, <1>9

(* What the cache holds are blocks of the chain in memory, but never its    *)
(* genesis block.                                                          *)
Loaded == \A h \in DOMAIN cache :
            \E i \in 2..Len(chain) : h = BlockHash(chain[i]) /\ cache[h] = chain[i]

CInv == Lists(order, DOMAIN cache) /\ Len(order) <= Cap /\ Loaded

(* An empty cache.                                                          *)
LEMMA EmptyCache == order = <<>> /\ cache = DB!None => CInv
<1> SUFFICES ASSUME order = <<>>, cache = DB!None PROVE CInv
  OBVIOUS
<1>1. DOMAIN cache = {} /\ Len(order) = 0 /\ order \in Seq({})
  BY DEF DB!None
<1>2. {order[i] : i \in 1..0} = {}
  OBVIOUS
<1>3. \A i, j \in 1..0 : order[i] = order[j] => i = j
  OBVIOUS
<1> QED
  BY <1>1, <1>2, <1>3, ChainAssumption DEF CInv, Lists, Distinct, Loaded

(* A step that leaves the cache and the chain alone, or makes a chain where *)
(* there was none.                                                         *)
LEMMA QuietCInv ==
  ASSUME Shape, CInv, UNCHANGED cacheVars, chain' = chain \/ chain = <<>>
  PROVE  CInv'
<1>1. order' = order /\ cache' = cache
  BY DEF cacheVars
<1>2. Loaded'
  <2>1. CASE chain' = chain
    BY <1>1, <2>1 DEF CInv, Loaded
  <2>2. CASE chain = <<>>
    <3>1. Len(chain) = 0
      BY <2>2
    <3>2. \A i \in 2..0 : FALSE
      OBVIOUS
    <3>3. DOMAIN cache = {}
      BY <3>1, <3>2 DEF CInv, Loaded
    <3> QED
      BY <1>1, <3>3 DEF Loaded
  <2> QED
    BY <2>1, <2>2
<1> QED
  BY <1>1, <1>2 DEF CInv

(* addBlock enters the new block after it is in the chain                   *)
(* (blockchain.cpp:141-146).                                               *)
LEMMA PushCInv ==
  ASSUME Shape, CInv, PushBlock
  PROVE  CInv'
<1>1. /\ chain' = Append(chain, block[1])
      /\ BlockCache!Put(BlockHash(block[1]), block[1])
  BY DEF PushBlock
<1>2. /\ Lists(order', DOMAIN cache') /\ Len(order') <= Cap
      /\ \A h \in DOMAIN cache' :
           \/ h = BlockHash(block[1]) /\ cache'[h] = block[1]
           \/ h \in DOMAIN cache /\ cache'[h] = cache[h]
  BY <1>1, PutLists DEF CInv
<1>3. /\ chain # <<>> /\ Len(chain) \in Nat \ {0}
      /\ Len(chain') = Len(chain) + 1 /\ chain'[Len(chain) + 1] = block[1]
      /\ \A i \in 2..Len(chain) : i \in 2..Len(chain') /\ chain'[i] = chain[i]
  <2>1. chain \in Seq(ToSet(chain)) /\ chain # <<>>
    BY DEF Shape, PushBlock, At
  <2> QED
    BY <1>1, <2>1
<1>4. ASSUME NEW h \in DOMAIN cache'
      PROVE  \E i \in 2..Len(chain') : h = BlockHash(chain'[i]) /\ cache'[h] = chain'[i]
  <2>1. CASE h = BlockHash(block[1]) /\ cache'[h] = block[1]
    <3>1. Len(chain) + 1 \in 2..Len(chain')
      BY <1>3
    <3> QED
      BY <1>3, <2>1, <3>1
  <2>2. CASE h \in DOMAIN cache /\ cache'[h] = cache[h]
    <3>1. PICK i \in 2..Len(chain) : h = BlockHash(chain[i]) /\ cache[h] = chain[i]
      BY <2>2 DEF CInv, Loaded
    <3> QED
      BY <1>3, <2>2, <3>1
  <2> QED
    BY <1>2, <2>1, <2>2
<1> QED
  BY <1>2, <1>4 DEF CInv, Loaded

(* getBlockByHash moves a block and changes none (cache.cpp:9).            *)
LEMMA GetCInv ==
  ASSUME Shape, CInv, NEW h, GetBlockByHash(h)
  PROVE  CInv'
<1>1. h \in DOMAIN cache /\ cache' = cache /\ chain' = chain
  BY DEF GetBlockByHash, BlockCache!Cached, BlockCache!Get
<1>2. order' = BlockCache!MovedToFront(h)
  BY <1>1 DEF GetBlockByHash, BlockCache!Get
<1>3. DOMAIN cache \cup {h} = DOMAIN cache
  BY <1>1
<1>4. Lists(order', DOMAIN cache)
  BY <1>2, <1>3, MovedLists DEF CInv
<1>5. Len(order') = Len(order)
  BY <1>4, ListLength DEF CInv
<1> QED
  BY <1>1, <1>4, <1>5 DEF CInv, Loaded

(* Every step keeps the cache a list of blocks of the chain.               *)
LEMMA StepCInv ==
  ASSUME Shape, CInv, [Next]_vars
  PROVE  CInv'
<1>1. CASE UNCHANGED vars
  BY <1>1, QuietCInv DEF vars
<1>2. CASE Construct
  <2>1. Construct => UNCHANGED cacheVars /\ (chain' = chain \/ chain = <<>>)
    BY DEF Construct, Boot, LoadFromDB, FreshGenesis, CreateGenesis, FreshPersist,
           FreshHeight, FreshBest, FreshDifficulty, StoreStep, At, Shape
  <2> QED
    BY <1>2, <2>1, QuietCInv
<1>3. CASE AddBlock
  <2>1. CASE PushBlock
    BY <2>1, PushCInv
  <2>2. CASE ~PushBlock
    <3>1. UNCHANGED cacheVars /\ chain' = chain
      BY <1>3, <2>2 DEF AddBlock, AdjustDifficulty, MineBlock, StoreBlock, StoreHeight,
                        StoreBest, StoreStep
    <3> QED
      BY <3>1, QuietCInv
  <2> QED
    BY <2>1, <2>2
<1>4. CASE Destruct
  <2>1. CASE Close
    <3>1. order' = <<>> /\ cache' = DB!None
      BY <2>1 DEF Close, Forget
    <3>2. (order = <<>> /\ cache = DB!None => CInv)'
      BY EmptyCache, PTL
    <3> QED
      BY <3>1, <3>2 DEF DB!None
  <2>2. CASE ~Close
    <3>1. UNCHANGED cacheVars /\ chain' = chain
      BY <1>4, <2>2 DEF Destruct, CloseHeight, CloseBest, CloseDifficulty, StoreStep
    <3> QED
      BY <3>1, QuietCInv
  <2> QED
    BY <2>1, <2>2
<1>5. CASE \E b \in ToSet(chain) : GetBlockByHash(BlockHash(b))
  BY <1>5, GetCInv
<1>6. CASE Crash \/ PowerLoss
  <2>1. order' = <<>> /\ cache' = DB!None
    BY <1>6 DEF Crash, PowerLoss, Forget
  <2>2. (order = <<>> /\ cache = DB!None => CInv)'
    BY EmptyCache, PTL
  <2> QED
    BY <2>1, <2>2 DEF DB!None
<1>7. CASE Tick
  BY <1>7, QuietCInv DEF Tick
<1> QED
  BY <1>1, <1>2, <1>3, <1>4, <1>5, <1>6, <1>7 DEF Next

(* When no write is refused, the cache lists each of its blocks once, within *)
(* its capacity, and the store has every one of them as the cache has it:   *)
(* a block enters the cache only after persistBlock (blockchain.cpp:135-146, *)
(* cache.cpp:5-9).                                                         *)
THEOREM CacheAgrees ==
  ASSUME ~WritesFail
  PROVE  Spec => []CacheCoherent
<1>1. Init => IInv /\ DInv /\ LInv /\ CInv
  BY InitIInv, InitDInv, InitLInv, EmptyCache DEF Init
<1>2. IInv /\ DInv /\ LInv /\ CInv /\ [Next]_vars => (IInv /\ DInv /\ LInv /\ CInv)'
  BY StepIInv, StepDInv, StepLInv, StepCInv DEF IInv
<1>3. LInv /\ CInv => CacheCoherent
  <2>1. CInv => BlockCache!Agreement
    BY DEF CInv, Lists, Distinct, BlockCache!Agreement
  <2> QED
    BY <2>1 DEF LInv, CInv, Loaded, Kept, CacheCoherent
<1> QED
  BY <1>1, <1>2, <1>3, PTL DEF Spec

-----------------------------------------------------------------------------
(* What a restart recovers *)

(* What each batch does to the outputs on record.                          *)
LEMMA OutputTables ==
  ASSUME NEW s, NEW b, NEW k, NEW v
  PROVE  /\ DOMAIN DB!Apply(s, BlockRecords(b), DB!NoDels)["u"] =
              DOMAIN s["u"] \cup Outputs(b.transactions)
         /\ DOMAIN DB!Apply(s, DB!EmptyStore, SpentRecords(b.transactions))["u"] =
              DOMAIN s["u"] \ Inputs(b.transactions)
         /\ DOMAIN DB!Apply(s, DB!One("meta", k, v), DB!NoDels)["u"] = DOMAIN s["u"]
<1>1. "u" \in DB!Tables /\ DB!NoDels["u"] = {} /\ DB!EmptyStore["u"] = DB!None
  BY DEF DB!Tables, DB!NoDels, DB!EmptyStore
<1>2. DOMAIN BlockRecords(b)["u"] = Outputs(b.transactions)
  BY DEF BlockRecords, DB!EmptyStore, DB!Tables
<1>3. SpentRecords(b.transactions)["u"] = Inputs(b.transactions)
  BY DEF SpentRecords, DB!NoDels, DB!Tables
<1>4. DOMAIN DB!None = {}
  BY DEF DB!None
<1>5. \A p, d : DOMAIN DB!Apply(s, p, d)["u"] = (DOMAIN s["u"] \cup DOMAIN p["u"]) \ d["u"]
  BY <1>1, ApplyTable
<1>6. DOMAIN DB!Apply(s, BlockRecords(b), DB!NoDels)["u"] =
        DOMAIN s["u"] \cup Outputs(b.transactions)
  BY <1>1, <1>2, <1>5
<1>7. DOMAIN DB!Apply(s, DB!EmptyStore, SpentRecords(b.transactions))["u"] =
        DOMAIN s["u"] \ Inputs(b.transactions)
  BY <1>1, <1>3, <1>4, <1>5
<1>8. DOMAIN DB!Apply(s, DB!One("meta", k, v), DB!NoDels)["u"] = DOMAIN s["u"]
  BY MetaTables DEF DB!Tables
<1> QED
  BY <1>6, <1>7, <1>8

-----------------------------------------------------------------------------
(* Unspent outputs                                                           *)

Covered(o) == \/ utxos[o]
              \/ o \in DOMAIN DB!Visible["u"]
              \/ o \in Outputs(chain[1].transactions)
              \/ pc = "mined" /\ o \in Outputs(block[1].transactions)

CoinInv == IF pc \in {"down", "opened"} THEN utxos = DB!None
           ELSE \A o \in DOMAIN utxos : Covered(o)

(* An output that a list of transactions leaves unspent is created by it,  *)
(* or was unspent and is not an input of it (blockchain.cpp:164-182).      *)
LEMMA LeftUnspent ==
  ASSUME NEW set, NEW list, list \in Seq(ToSet(list)), NEW o \in DOMAIN UpdatedUTXOs(set, list),
         ~UpdatedUTXOs(set, list)[o]
  PROVE  \/ o \in Outputs(list)
         \/ o \in DOMAIN set /\ ~set[o] /\ o \notin Inputs(list)
<1> SUFFICES ASSUME o \notin Outputs(list)
             PROVE  o \in DOMAIN set /\ ~set[o] /\ o \notin Inputs(list)
  OBVIOUS
<1> DEFINE creators == {i \in 1..Len(list) : o \in OutputsOf(list[i])}
           spenders == {i \in 1..Len(list) : o \in ToSet(list[i].inputs)}
<1>1. ToSet(list) = {list[i] : i \in 1..Len(list)}
  BY DEF ToSet
<1>2. creators = {}
  BY <1>1 DEF Outputs
<1>3. o \in DOMAIN set
  BY DEF UpdatedUTXOs
<1>4. UpdatedUTXOs(set, list)[o] = (\/ \E i \in spenders : \A j \in creators : j < i
                                    \/ creators = {} /\ set[o])
  BY <1>3 DEF UpdatedUTXOs
<1> HIDE DEF creators
<1>5. spenders = {} /\ ~set[o]
  BY <1>2, <1>4
<1>6. o \notin Inputs(list)
  <2>1. \A i \in 1..Len(list) : o \notin ToSet(list[i].inputs)
    BY <1>5
  <2> QED
    BY <1>1, <2>1 DEF Inputs
<1> QED
  BY <1>3, <1>5, <1>6

(* What updateUTXOs does to the outputs on record.                         *)
LEMMA SpendOutputs ==
  ASSUME IInv, ~WritesFail, opened, NEW b, UpdateUTXOs(b)
  PROVE  /\ utxos' = UpdatedUTXOs(utxos, b.transactions)
         /\ DOMAIN DB!Visible'["u"] = DOMAIN DB!Visible["u"] \ Inputs(b.transactions)
<1> DEFINE d == SpentRecords(b.transactions)
<1>1. DB!Write(DB!EmptyStore, d, TRUE) /\ DB!DBTypeOK
  BY DEF UpdateUTXOs, DB!WriteBatch, IInv, Shape
<1>2. DB!Visible' = DB!Apply(DB!Visible, DB!EmptyStore, d)
  <2> HIDE DEF d
  <2> QED
    BY <1>1, WriteEffect
<1> QED
  BY <1>2, OutputTables DEF UpdateUTXOs

(* setMeta leaves the outputs on record alone.                             *)
LEMMA MetaOutputs ==
  ASSUME IInv, ~WritesFail, opened, NEW k, NEW v, DB!SetMeta(k, v)
  PROVE  DOMAIN DB!Visible'["u"] = DOMAIN DB!Visible["u"]
<1>1. DB!Write(DB!One("meta", k, v), DB!NoDels, FALSE) /\ DB!DBTypeOK
  BY DEF DB!SetMeta, DB!Put, IInv, Shape
<1>2. DB!Visible' = DB!Apply(DB!Visible, DB!One("meta", k, v), DB!NoDels)
  BY <1>1, WriteEffect
<1> QED
  BY <1>2, OutputTables

(* persistBlock adds to the outputs on record.                             *)
LEMMA BlockOutputs ==
  ASSUME IInv, ~WritesFail, opened, NEW b, PersistBlock(b)
  PROVE  DOMAIN DB!Visible'["u"] = DOMAIN DB!Visible["u"] \cup Outputs(b.transactions)
<1>1. DB!Write(BlockRecords(b), DB!NoDels, TRUE) /\ DB!DBTypeOK
  BY DEF PersistBlock, DB!WriteBatch, IInv, Shape
<1>2. DB!Visible' = DB!Apply(DB!Visible, BlockRecords(b), DB!NoDels)
  BY <1>1, WriteEffect
<1> QED
  BY <1>2, OutputTables

(* A genesis block's outputs are all there is in the utxo set after it      *)
(* (blockchain.cpp:69-77).                                                 *)
LEMMA GenesisCoins ==
  ASSUME IInv, CoinInv, LoadFromDB \/ FreshGenesis
  PROVE  CoinInv'
<1>1. /\ pc = "opened" /\ pc' \notin {"down", "opened"}
      /\ \E t : CreateGenesis(t)
  BY DEF LoadFromDB, FreshGenesis, At
<1>2. PICK t : CreateGenesis(t)
  BY <1>1
<1>3. /\ utxos' = UpdatedUTXOs(utxos, GenesisBlock(t).transactions)
      /\ chain' = <<GenesisBlock(t)>>
  BY <1>2 DEF CreateGenesis, UpdateUTXOs
<1>4. DOMAIN utxos = {}
  BY <1>1 DEF CoinInv, DB!None
<1>5. DOMAIN utxos' = Outputs(chain'[1].transactions)
  BY <1>3, <1>4 DEF UpdatedUTXOs
<1> QED
  BY <1>1, <1>5 DEF CoinInv, Covered

(* addBlock takes the records of the inputs away before it enters those of  *)
(* the outputs: in between, they are in the new block (blockchain.cpp:134). *)
LEMMA MineCoins ==
  ASSUME IInv, CoinInv, ~WritesFail, NEW list \in Payloads, MineBlock(list)
  PROVE  CoinInv'
<1> DEFINE b == NewBlock(Len(chain), LastHash, list, difficulty)
<1>1. /\ pc \in {"idle", "adjusted"} /\ pc' = "mined" /\ chain' = chain
      /\ block' = <<b>> /\ UpdateUTXOs(b) /\ opened
  BY DEF MineBlock, At, IInv, Shape
<1>2. b.transactions = list
  BY DEF NewBlock
<1>3. list \in Seq(ToSet(list))
  BY ChainAssumption
<1> HIDE DEF b
<1>4. /\ utxos' = UpdatedUTXOs(utxos, list)
      /\ DOMAIN DB!Visible'["u"] = DOMAIN DB!Visible["u"] \ Inputs(list)
  BY <1>1, <1>2, SpendOutputs
<1>5. ASSUME NEW o \in DOMAIN utxos', ~utxos'[o]
      PROVE  \/ o \in DOMAIN DB!Visible'["u"]
             \/ o \in Outputs(chain'[1].transactions)
             \/ o \in Outputs(block'[1].transactions)
  <2>1. CASE o \in Outputs(list)
    BY <1>1, <1>2, <2>1
  <2>2. CASE o \in DOMAIN utxos /\ ~utxos[o] /\ o \notin Inputs(list)
    <3>1. o \in DOMAIN DB!Visible["u"] \/ o \in Outputs(chain[1].transactions)
      BY <1>1, <2>2 DEF CoinInv, Covered
    <3> QED
      BY <1>1, <1>4, <2>2, <3>1
  <2> QED
    BY <1>3, <1>4, <1>5, <2>1, <2>2, LeftUnspent
<1> QED
  BY <1>1, <1>5 DEF CoinInv, Covered

(* A step that takes no record of an output away.                          *)
LEMMA QuietCoins ==
  ASSUME CoinInv, pc \notin {"down", "opened"}, pc' \notin {"down", "opened"},
         utxos' = utxos, chain'[1] = chain[1],
         DOMAIN DB!Visible["u"] \subseteq DOMAIN DB!Visible'["u"],
         \/ pc # "mined"
         \/ Outputs(block[1].transactions) \subseteq DOMAIN DB!Visible'["u"]
  PROVE  CoinInv'
  BY DEF CoinInv, Covered

(* Every step keeps the unspent outputs on record.                         *)
LEMMA StepCoins ==
  ASSUME IInv, CoinInv, ~WritesFail, [Next]_vars
  PROVE  CoinInv'
<1>1. CASE UNCHANGED vars \/ Tick \/ \E b \in ToSet(chain) : GetBlockByHash(BlockHash(b))
  <2>1. UNCHANGED <<engine, disk, memdb, chain, utxos, pc, block>>
    BY <1>1 DEF vars, dbVars, Tick, GetBlockByHash
  <2> QED
    BY <2>1 DEF CoinInv, Covered, DB!Visible
<1>2. CASE Boot
  BY <1>2 DEF Boot, At, CoinInv
<1>3. CASE LoadFromDB \/ FreshGenesis
  BY <1>3, GenesisCoins
<1>4. ASSUME NEW from, NEW to, NEW k, NEW v, StoreStep(from, to), DB!SetMeta(k, v),
             from \notin {"down", "opened", "mined"}, to \notin {"down", "opened"}
      PROVE  CoinInv'
  <2>1. pc = from /\ pc' = to /\ utxos' = utxos /\ chain' = chain
    BY <1>4 DEF StoreStep, At
  <2>2. opened
    BY <1>4, <2>1 DEF IInv, Shape
  <2>3. DOMAIN DB!Visible'["u"] = DOMAIN DB!Visible["u"]
    BY <1>4, <2>2, MetaOutputs
  <2> QED
    BY <1>4, <2>1, <2>3, QuietCoins
<1>5. CASE FreshHeight \/ FreshBest \/ FreshDifficulty \/ StoreHeight \/ StoreBest
           \/ CloseHeight \/ CloseBest \/ CloseDifficulty
  BY <1>4, <1>5 DEF FreshHeight, FreshBest, FreshDifficulty, StoreHeight, StoreBest,
                    CloseHeight, CloseBest, CloseDifficulty
<1>6. CASE FreshPersist \/ StoreBlock
  <2>1. /\ pc \in {"genesisMined", "mined"} /\ pc' \in {"genesisStored", "stored"}
        /\ utxos' = utxos /\ chain' = chain
        /\ \/ pc = "genesisMined" /\ PersistBlock(Last(chain))
           \/ pc = "mined" /\ PersistBlock(block[1])
    BY <1>6 DEF FreshPersist, StoreBlock, StoreStep, At
  <2>2. opened
    BY <2>1 DEF IInv, Shape
  <2>3. CASE pc = "genesisMined" /\ PersistBlock(Last(chain))
    BY <2>1, <2>2, <2>3, BlockOutputs, QuietCoins
  <2>4. CASE pc = "mined" /\ PersistBlock(block[1])
    BY <2>1, <2>2, <2>4, BlockOutputs, QuietCoins
  <2> QED
    BY <2>1, <2>3, <2>4
<1>7. CASE AdjustDifficulty
  <2>1. /\ pc = "idle" /\ pc' = "adjusted" /\ utxos' = utxos /\ chain' = chain
        /\ \E v : DB!SetMeta("difficulty", v)
    BY <1>7 DEF AdjustDifficulty, At
  <2>2. opened
    BY <2>1 DEF IInv, Shape
  <2>3. DOMAIN DB!Visible'["u"] = DOMAIN DB!Visible["u"]
    BY <2>1, <2>2, MetaOutputs
  <2> QED
    BY <2>1, <2>3, QuietCoins
<1>8. CASE \E list \in Payloads : MineBlock(list)
  BY <1>8, MineCoins
<1>9. CASE PushBlock
  <2>1. /\ pc = "named" /\ pc' = "idle" /\ utxos' = utxos
        /\ chain' = Append(chain, block[1])
        /\ UNCHANGED <<engine, disk, memdb>>
    BY <1>9 DEF PushBlock, At, dbVars
  <2>2. chain \in Seq(ToSet(chain)) /\ chain # <<>>
    BY <2>1 DEF IInv, Shape
  <2>3. chain'[1] = chain[1] /\ DB!Visible' = DB!Visible
    BY <2>1, <2>2 DEF DB!Visible
  <2> QED
    BY <2>1, <2>3, QuietCoins
<1>10. CASE Close \/ Crash \/ PowerLoss
  BY <1>10 DEF Close, Crash, PowerLoss, Forget, CoinInv, DB!None
<1> QED
  BY <1>1, <1>2, <1>3, <1>5, <1>6, <1>7, <1>8, <1>9, <1>10
  DEF Next, Construct, AddBlock, Destruct

(* When no write is refused, every coin that a balance would count is on    *)
(* record as unspent, in whatever order the blocks create and spend it,     *)
(* but for the coin of a genesis block that was not stored                  *)
(* (blockchain.cpp:97-120, 164-182).                                        *)
THEOREM SpendableRecorded ==
  ASSUME ~WritesFail
  PROVE  Spec => []SpendableStored
<1>1. Init => IInv /\ CoinInv
  BY InitIInv DEF Init, CoinInv
<1>2. IInv /\ CoinInv /\ [Next]_vars => (IInv /\ CoinInv)'
  BY StepIInv, StepCoins
<1>3. CoinInv => SpendableStored
  BY DEF CoinInv, Covered, SpendableStored
<1> QED
  BY <1>1, <1>2, <1>3, PTL DEF Spec

-----------------------------------------------------------------------------
(* The difficulty on record                                                  *)

\* Nothing but the height is on record before the height.
Started(s) == {"bestHash", "difficulty"} \cap DOMAIN s["meta"] # {} =>
                "height" \in DOMAIN s["meta"]

\* The best block is on record, or it is a genesis block.
BestIn(s) == "bestHash" \in DOMAIN s["meta"] =>
               \E r : /\ Rooted(r) /\ BlockHash(r) = s["meta"]["bestHash"]
                      /\ r.index = 0 \/ BlockHash(r) \in DOMAIN s["b"]

Fits(b, target) == b.difficulty = target \/ (b.index + 1) % Window = 0

DiffIn(s) ==
  {"bestHash", "difficulty"} \subseteq DOMAIN s["meta"] =>
    LET h == s["meta"]["bestHash"]
    IN  h \in DOMAIN s["b"] => Fits(s["b"][h], s["meta"]["difficulty"])

RecoveryIn(s) == Started(s) /\ BestIn(s) /\ DiffIn(s)

(* Blocks with the same hash that go back to a genesis block have the same  *)
(* difficulty and index (calculateHash, block.cpp:27-36).                  *)
LEMMA SameFit ==
  ASSUME NEW b, NEW c, Rooted(b), Rooted(c), BlockHash(b) = BlockHash(c), NEW target
  PROVE  Fits(b, target) <=> Fits(c, target)
<1>1. b.index = c.index
  BY RootedIndex
<1>2. b.difficulty = c.difficulty
  BY DEF BlockHash
<1> QED
  BY <1>1, <1>2 DEF Fits

(* A new store.                                                            *)
LEMMA EmptyRecovery == RecoveryIn(DB!EmptyStore)
  BY DEF RecoveryIn, Started, BestIn, DiffIn, DB!EmptyStore, DB!None, DB!Tables

(* The deletions of updateUTXOs.                                           *)
LEMMA SpendRecovery ==
  ASSUME NEW s, NEW list, RecoveryIn(s)
  PROVE  RecoveryIn(DB!Apply(s, DB!EmptyStore, SpentRecords(list)))
<1> DEFINE new == DB!Apply(s, DB!EmptyStore, SpentRecords(list))
<1>1. \A t \in {"b", "meta"} : /\ DOMAIN new[t] = DOMAIN s[t]
                              /\ \A x \in DOMAIN s[t] : new[t][x] = s[t][x]
  BY SpendTables DEF DB!Tables
<1> HIDE DEF new
<1> QED
  BY <1>1 DEF RecoveryIn, Started, BestIn, DiffIn, new

(* persistBlock: when the best block's hash is that of the new block, a     *)
(* block with it is on record already (blockchain.cpp:97-120).             *)
LEMMA BlockRecovery ==
  ASSUME NEW s, NEW b, Sound(s), RecoveryIn(s), Rooted(b),
         b.index = 0 => "bestHash" \notin DOMAIN s["meta"]
  PROVE  RecoveryIn(DB!Apply(s, BlockRecords(b), DB!NoDels))
<1> DEFINE new == DB!Apply(s, BlockRecords(b), DB!NoDels)
<1>1. /\ DOMAIN new["b"] = DOMAIN s["b"] \cup {BlockHash(b)}
      /\ new["b"][BlockHash(b)] = b
      /\ \A h \in DOMAIN s["b"] \ {BlockHash(b)} : new["b"][h] = s["b"][h]
      /\ DOMAIN new["meta"] = DOMAIN s["meta"]
      /\ \A x \in DOMAIN s["meta"] : new["meta"][x] = s["meta"][x]
  BY BlockTables
<1> HIDE DEF new
<1>2. Started(new) /\ BestIn(new)
  BY <1>1 DEF RecoveryIn, Started, BestIn
<1>3. ASSUME {"bestHash", "difficulty"} \subseteq DOMAIN s["meta"],
             s["meta"]["bestHash"] \in DOMAIN new["b"]
      PROVE  Fits(new["b"][s["meta"]["bestHash"]], s["meta"]["difficulty"])
  <2> DEFINE h == s["meta"]["bestHash"]
  <2>1. CASE h = BlockHash(b)
    <3>1. PICK r : /\ Rooted(r) /\ BlockHash(r) = h
                   /\ r.index = 0 \/ BlockHash(r) \in DOMAIN s["b"]
      BY <1>3 DEF RecoveryIn, BestIn
    <3>2. r.index = b.index /\ b.index # 0
      BY <1>3, <2>1, <3>1, RootedIndex
    <3>3. h \in DOMAIN s["b"]
      BY <3>1, <3>2
    <3>4. Rooted(s["b"][h]) /\ BlockHash(s["b"][h]) = h
      BY <3>3 DEF Sound, BlocksIn
    <3>5. Fits(s["b"][h], s["meta"]["difficulty"])
      BY <1>3, <3>3 DEF RecoveryIn, DiffIn
    <3> QED
      BY <1>1, <2>1, <3>4, <3>5, SameFit
  <2>2. CASE h # BlockHash(b)
    <3>1. h \in DOMAIN s["b"] /\ new["b"][h] = s["b"][h]
      BY <1>1, <1>3, <2>2
    <3> QED
      BY <1>3, <3>1 DEF RecoveryIn, DiffIn
  <2> QED
    BY <2>1, <2>2
<1>4. DiffIn(new)
  BY <1>1, <1>3 DEF DiffIn
<1> QED
  BY <1>2, <1>4 DEF RecoveryIn, new

(* setMeta: a new best block must fit the difficulty on record, a new       *)
(* difficulty the best block on record, and both need a height.            *)
LEMMA MetaRecovery ==
  ASSUME NEW s, NEW k, NEW v, Sound(s), RecoveryIn(s),
         k \in {"bestHash", "difficulty"} => "height" \in DOMAIN s["meta"],
         k = "bestHash" =>
           \E r : /\ Rooted(r) /\ BlockHash(r) = v
                  /\ r.index = 0 \/ v \in DOMAIN s["b"]
                  /\ "difficulty" \in DOMAIN s["meta"] => Fits(r, s["meta"]["difficulty"]),
         k = "difficulty" /\ "bestHash" \in DOMAIN s["meta"] =>
           \E r : /\ Rooted(r) /\ BlockHash(r) = s["meta"]["bestHash"]
                  /\ Fits(r, v)
  PROVE  RecoveryIn(DB!Apply(s, DB!One("meta", k, v), DB!NoDels))
<1> DEFINE new == DB!Apply(s, DB!One("meta", k, v), DB!NoDels)
<1>1. /\ DOMAIN new["b"] = DOMAIN s["b"]
      /\ \A h \in DOMAIN s["b"] : new["b"][h] = s["b"][h]
      /\ DOMAIN new["meta"] = DOMAIN s["meta"] \cup {k}
      /\ new["meta"][k] = v
      /\ \A x \in DOMAIN s["meta"] \ {k} : new["meta"][x] = s["meta"][x]
  BY MetaTables DEF DB!Tables
<1> HIDE DEF new
<1>2. Started(new)
  BY <1>1 DEF RecoveryIn, Started
<1>3. BestIn(new)
  <2>1. CASE k = "bestHash"
    BY <1>1, <2>1 DEF BestIn
  <2>2. CASE k # "bestHash"
    BY <1>1, <2>2 DEF RecoveryIn, BestIn
  <2> QED
    BY <2>1, <2>2
<1>4. \A r : \A h \in DOMAIN s["b"] :
        Rooted(r) /\ BlockHash(r) = h => \A t : Fits(r, t) => Fits(s["b"][h], t)
  BY SameFit DEF Sound, BlocksIn
<1>5. DiffIn(new)
  <2>1. CASE k = "bestHash"
    BY <1>1, <1>4, <2>1 DEF DiffIn
  <2>2. CASE k = "difficulty"
    BY <1>1, <1>4, <2>2 DEF DiffIn
  <2>3. CASE k \notin {"bestHash", "difficulty"}
    BY <1>1, <2>3 DEF RecoveryIn, DiffIn
  <2> QED
    BY <2>1, <2>2, <2>3
<1> QED
  BY <1>2, <1>3, <1>5 DEF RecoveryIn, new

(* What the session knows: the difficulty on record is the current one, the *)
(* last block fits it, and between the steps that name a best block that    *)
(* block is the last one.                                                  *)
Meta == DB!Visible["meta"]

Current ==
  /\ "difficulty" \in DOMAIN Meta => Meta["difficulty"] = difficulty
  /\ Last(chain).difficulty = difficulty \/ Len(chain) % Window = 0
  /\ pc \in AddSteps => block[1].difficulty = difficulty
  /\ pc \notin {"genesisMined", "genesisStored"} => "height" \in DOMAIN Meta
  /\ pc = "genesisMined" => "bestHash" \notin DOMAIN Meta
  /\ pc = "named" => "bestHash" \in DOMAIN Meta /\ Meta["bestHash"] = BlockHash(block[1])
  /\ (\/ Len(chain) > 1 /\ pc # "named"
      \/ pc \in {"genesisNamed", "closingBest", "closingDone"})
     => "bestHash" \in DOMAIN Meta /\ Meta["bestHash"] = LastHash

RInv == /\ \A s \in Stores : RecoveryIn(s)
        /\ pc \notin {"down", "opened"} => Current

(* What a restart may find after setMeta, and what the session reads.      *)
LEMMA SetMetaRecovery ==
  ASSUME IInv, RInv, ~WritesFail, opened, NEW k, NEW v, DB!SetMeta(k, v),
         k \in {"bestHash", "difficulty"} => "height" \in DOMAIN Meta,
         k = "bestHash" =>
           \E r : /\ Rooted(r) /\ BlockHash(r) = v
                  /\ r.index = 0 \/ v \in DOMAIN DB!Visible["b"]
                  /\ "difficulty" \in DOMAIN Meta => Fits(r, Meta["difficulty"]),
         k = "difficulty" /\ "bestHash" \in DOMAIN Meta =>
           \E r : Rooted(r) /\ BlockHash(r) = Meta["bestHash"] /\ Fits(r, v)
  PROVE  /\ \A s \in Stores' : RecoveryIn(s)
         /\ DOMAIN Meta' = DOMAIN Meta \cup {k}
         /\ Meta'[k] = v
         /\ \A x \in DOMAIN Meta \ {k} : Meta'[x] = Meta[x]
<1>1. DB!Write(DB!One("meta", k, v), DB!NoDels, FALSE) /\ DB!DBTypeOK
  BY DEF DB!SetMeta, DB!Put, IInv, Shape
<1>2. DB!Visible' = DB!Apply(DB!Visible, DB!One("meta", k, v), DB!NoDels)
  BY <1>1, WriteEffect
<1>3. /\ DB!Visible \in Stores
      /\ \A s \in Stores' : s \in Stores \/ s = DB!Visible'
  BY <1>1, <1>2, WriteStores
<1>4. RecoveryIn(DB!Apply(DB!Visible, DB!One("meta", k, v), DB!NoDels))
  BY <1>3, MetaRecovery DEF IInv, SoundStores, RInv, Meta
<1> QED
  BY <1>2, <1>3, <1>4, MetaTables DEF RInv, Meta

(* The same for the batches of persistBlock and updateUTXOs.               *)
LEMMA BatchRecovery ==
  ASSUME IInv, RInv, ~WritesFail, opened, NEW b,
         \/ UpdateUTXOs(b)
         \/ /\ PersistBlock(b) /\ Rooted(b)
            /\ b.index = 0 => "bestHash" \notin DOMAIN Meta
  PROVE  /\ \A s \in Stores' : RecoveryIn(s)
         /\ DOMAIN Meta' = DOMAIN Meta
         /\ \A x \in DOMAIN Meta : Meta'[x] = Meta[x]
<1>1. DB!DBTypeOK
  BY DEF IInv, Shape
<1>2. CASE UpdateUTXOs(b)
  <2> DEFINE d == SpentRecords(b.transactions)
  <2>1. DB!Write(DB!EmptyStore, d, TRUE)
    BY <1>2 DEF UpdateUTXOs, DB!WriteBatch
  <2>2. /\ DB!Visible' = DB!Apply(DB!Visible, DB!EmptyStore, d)
        /\ DB!Visible \in Stores
        /\ \A s \in Stores' : s \in Stores \/ s = DB!Visible'
    <3> HIDE DEF d
    <3> QED
      BY <1>1, <2>1, WriteEffect, WriteStores
  <2>3. RecoveryIn(DB!Apply(DB!Visible, DB!EmptyStore, d))
    BY <2>2, SpendRecovery DEF RInv
  <2>4. /\ DOMAIN Meta' = DOMAIN Meta
        /\ \A x \in DOMAIN Meta : Meta'[x] = Meta[x]
    BY <2>2, SpendTables DEF Meta, DB!Tables
  <2> HIDE DEF d
  <2> QED
    BY <2>2, <2>3, <2>4 DEF RInv
<1>3. CASE /\ PersistBlock(b) /\ Rooted(b)
           /\ b.index = 0 => "bestHash" \notin DOMAIN Meta
  <2>1. DB!Write(BlockRecords(b), DB!NoDels, TRUE)
    BY <1>3 DEF PersistBlock, DB!WriteBatch
  <2>2. /\ DB!Visible' = DB!Apply(DB!Visible, BlockRecords(b), DB!NoDels)
        /\ DB!Visible \in Stores
        /\ \A s \in Stores' : s \in Stores \/ s = DB!Visible'
    BY <1>1, <2>1, WriteEffect, WriteStores
  <2>3. RecoveryIn(DB!Apply(DB!Visible, BlockRecords(b), DB!NoDels))
    BY <1>3, <2>2, BlockRecovery DEF RInv, IInv, SoundStores, Meta
  <2>4. /\ DOMAIN Meta' = DOMAIN Meta
        /\ \A x \in DOMAIN Meta : Meta'[x] = Meta[x]
    BY <2>2, BlockTables DEF Meta
  <2> QED
    BY <2>2, <2>3, <2>4 DEF RInv
<1> QED
  BY <1>2, <1>3

(* The last block of the chain in memory: where it is, and that it fits the *)
(* current difficulty.                                                     *)
LEMMA LastKnown ==
  ASSUME IInv, DInv, RInv, pc \notin {"down", "opened"}
  PROVE  /\ opened /\ Current /\ Len(chain) \in Nat \ {0}
         /\ Rooted(Last(chain)) /\ Last(chain).index = Len(chain) - 1
         /\ Last(chain).index = 0 \/ LastHash \in DOMAIN DB!Visible["b"]
         /\ Fits(Last(chain), difficulty)
<1>1. /\ opened /\ chain # <<>> /\ Len(chain) \in Nat \ {0}
      /\ Last(chain) = chain[Len(chain)]
  <2>1. chain \in Seq(ToSet(chain)) /\ chain # <<>> /\ opened
    BY DEF IInv, Shape
  <2> QED
    BY <2>1 DEF Last
<1>2. Rooted(Last(chain))
  BY <1>1, ChainRooted DEF IInv
<1>3. Last(chain).index = Len(chain) - 1
  BY <1>1 DEF IInv, Linked
<1>4. DB!Visible \in DurableStores
  BY <1>1, ChainAssumption DEF DB!Visible, DurableStores, IInv, Shape, DB!DBTypeOK
<1>5. ASSUME Len(chain) # 1 PROVE LastHash \in DOMAIN DB!Visible["b"]
  <2>1. Len(chain) \in 2..Len(chain)
    BY <1>1, <1>5
  <2>2. Durable(chain[Len(chain)])
    BY <2>1 DEF DInv
  <2> QED
    BY <1>1, <1>4, <2>2 DEF Durable, LastHash
<1>6. Current /\ (Last(chain).index + 1) = Len(chain)
  BY <1>1, <1>3 DEF RInv
<1>7. Fits(Last(chain), difficulty)
  BY <1>6 DEF Current, Fits
<1> QED
  BY <1>1, <1>2, <1>3, <1>5, <1>6, <1>7

(* A meta record that is written within a member function.                 *)
LEMMA MetaStepRecovery ==
  ASSUME IInv, DInv, RInv, ~WritesFail,
         NEW from, NEW to, NEW k, NEW v, StoreStep(from, to), DB!SetMeta(k, v),
         \/ <<from, to, k, v>> = <<"genesisStored", "genesisCounted", "height", v>>
         \/ <<from, to, k, v>> = <<"genesisCounted", "genesisNamed", "bestHash", LastHash>>
         \/ <<from, to, k, v>> = <<"genesisNamed", "idle", "difficulty", difficulty>>
         \/ <<from, to, k, v>> = <<"stored", "counted", "height", v>>
         \/ <<from, to, k, v>> = <<"counted", "named", "bestHash", BlockHash(block[1])>>
         \/ <<from, to, k, v>> = <<"idle", "closing", "height", v>>
         \/ <<from, to, k, v>> = <<"closing", "closingBest", "bestHash", LastHash>>
         \/ <<from, to, k, v>> = <<"closingBest", "closingDone", "difficulty", difficulty>>
  PROVE  RInv'
<1>1. /\ pc = from /\ pc' = to /\ UNCHANGED <<chain, difficulty, block>>
      /\ pc \notin {"down", "opened", "genesisMined", "named"}
  BY DEF StoreStep, At
<1>2. /\ opened /\ Current /\ Rooted(Last(chain)) /\ Fits(Last(chain), difficulty)
      /\ Last(chain).index = 0 \/ LastHash \in DOMAIN DB!Visible["b"]
  BY <1>1, LastKnown
<1>3. from # "genesisStored" => "height" \in DOMAIN Meta
  BY <1>1, <1>2 DEF Current
<1>4. "difficulty" \in DOMAIN Meta => Meta["difficulty"] = difficulty
  BY <1>2 DEF Current
<1>5. CASE k = "height"
  <2>1. /\ \A s \in Stores' : RecoveryIn(s)
        /\ DOMAIN Meta' = DOMAIN Meta \cup {k} /\ Meta'[k] = v
        /\ \A x \in DOMAIN Meta \ {k} : Meta'[x] = Meta[x]
    BY <1>2, <1>5, SetMetaRecovery
  <2>2. Current'
    BY <1>1, <1>2, <1>5, <2>1 DEF Current, LastHash, AddSteps
  <2> QED
    BY <2>1, <2>2 DEF RInv
<1>6. CASE k = "bestHash" /\ v = LastHash
  <2>1. /\ \A s \in Stores' : RecoveryIn(s)
        /\ DOMAIN Meta' = DOMAIN Meta \cup {k} /\ Meta'[k] = v
        /\ \A x \in DOMAIN Meta \ {k} : Meta'[x] = Meta[x]
    BY <1>2, <1>3, <1>4, <1>6, SetMetaRecovery DEF LastHash
  <2>2. Current'
    BY <1>1, <1>2, <1>6, <2>1 DEF Current, LastHash, AddSteps
  <2> QED
    BY <2>1, <2>2 DEF RInv
<1>7. CASE k = "difficulty" /\ v = difficulty
  <2>1. "bestHash" \in DOMAIN Meta /\ Meta["bestHash"] = LastHash
    BY <1>1, <1>2, <1>7 DEF Current
  <2>2. /\ \A s \in Stores' : RecoveryIn(s)
        /\ DOMAIN Meta' = DOMAIN Meta \cup {k} /\ Meta'[k] = v
        /\ \A x \in DOMAIN Meta \ {k} : Meta'[x] = Meta[x]
    BY <1>2, <1>3, <1>7, <2>1, SetMetaRecovery DEF LastHash
  <2>3. Current'
    BY <1>1, <1>2, <1>7, <2>1, <2>2 DEF Current, LastHash, AddSteps
  <2> QED
    BY <2>2, <2>3 DEF RInv
<1>8. CASE from = "counted" /\ to = "named" /\ k = "bestHash" /\ v = BlockHash(block[1])
  <2>1. Rooted(block[1])
    BY <1>1, <1>8, ChainRooted DEF IInv, AddSteps
  <2>2. v \in DOMAIN DB!Visible["b"]
    <3>1. Durable(block[1])
      BY <1>1, <1>8 DEF DInv, StoredSteps
    <3>2. DB!Visible \in DurableStores
      BY <1>2, ChainAssumption DEF DB!Visible, DurableStores, IInv, Shape, DB!DBTypeOK
    <3> QED
      BY <1>8, <3>1, <3>2 DEF Durable
  <2>3. block[1].difficulty = difficulty
    BY <1>1, <1>2, <1>8 DEF Current, AddSteps
  <2>4. /\ \A s \in Stores' : RecoveryIn(s)
        /\ DOMAIN Meta' = DOMAIN Meta \cup {k} /\ Meta'[k] = v
        /\ \A x \in DOMAIN Meta \ {k} : Meta'[x] = Meta[x]
    BY <1>2, <1>3, <1>4, <1>8, <2>1, <2>2, <2>3, SetMetaRecovery DEF Fits
  <2>5. Current'
    BY <1>1, <1>2, <1>8, <2>4 DEF Current, LastHash, AddSteps
  <2> QED
    BY <2>4, <2>5 DEF RInv
<1> QED
  BY <1>5, <1>6, <1>7, <1>8

(* A new genesis block takes the difficulty that is on record; a store      *)
(* without a height has none (blockchain.cpp:46-77).                       *)
LEMMA GenesisRecovery ==
  ASSUME IInv, DInv, RInv, ~WritesFail, LoadFromDB \/ FreshGenesis
  PROVE  RInv'
<1>1. pc = "opened" /\ opened
  BY DEF LoadFromDB, FreshGenesis, At, IInv, Shape
<1>2. PICK t : CreateGenesis(t) /\ (LoadFromDB =>
                 t = IF DB!Has("meta", "difficulty") THEN Meta["difficulty"] ELSE difficulty)
  BY DEF LoadFromDB, FreshGenesis, Meta
<1>3. /\ chain' = <<GenesisBlock(t)>> /\ UpdateUTXOs(GenesisBlock(t))
      /\ difficulty' = t /\ block' = block
  BY <1>2 DEF CreateGenesis
<1>4. /\ \A s \in Stores' : RecoveryIn(s)
      /\ DOMAIN Meta' = DOMAIN Meta
      /\ \A x \in DOMAIN Meta : Meta'[x] = Meta[x]
  BY <1>1, <1>3, BatchRecovery
<1>5. Len(chain') = 1 /\ Last(chain').difficulty = difficulty'
  <2>1. Len(chain') = 1 /\ chain'[1] = GenesisBlock(t)
    BY <1>3
  <2> QED
    BY <1>3, <2>1 DEF Last, GenesisBlock, NewBlock
<1>6. DB!Visible \in Stores /\ Started(DB!Visible) /\ HeightsIn(DB!Visible)
  <2>1. DB!Visible \in Stores
    BY DEF DB!Visible, Stores
  <2> QED
    BY <2>1 DEF RInv, RecoveryIn, DInv, Ordered
<1>7. CASE LoadFromDB
  <2>1. pc' = "idle" /\ "height" \in DOMAIN Meta
    BY <1>7 DEF LoadFromDB, At, HeightStored, DB!Has, Meta
  <2>2. "difficulty" \in DOMAIN Meta => t = Meta["difficulty"]
    BY <1>1, <1>2, <1>7 DEF DB!Has, Meta
  <2>3. Current'
    BY <1>3, <1>4, <1>5, <2>1, <2>2 DEF Current, AddSteps
  <2> QED
    BY <1>4, <2>3 DEF RInv
<1>8. CASE FreshGenesis
  <2>1. pc' = "genesisMined" /\ ~HeightStored
    BY <1>8 DEF FreshGenesis, At
  <2>2. "height" \notin DOMAIN Meta
    BY <1>1, <1>6, <2>1 DEF HeightStored, DB!Has, HeightsIn, Meta
  <2>3. "bestHash" \notin DOMAIN Meta /\ "difficulty" \notin DOMAIN Meta
    BY <1>6, <2>2 DEF Started, Meta
  <2>4. Current'
    BY <1>3, <1>4, <1>5, <2>1, <2>3 DEF Current, AddSteps
  <2> QED
    BY <1>4, <2>4 DEF RInv
<1> QED
  BY <1>7, <1>8

(* persistBlock, of a genesis block while no best block is on record and of *)
(* a new block.                                                            *)
LEMMA PersistRecovery ==
  ASSUME IInv, DInv, RInv, ~WritesFail, FreshPersist \/ StoreBlock
  PROVE  RInv'
<1>1. /\ pc \in {"genesisMined", "mined"} /\ UNCHANGED <<chain, difficulty, block>>
      /\ pc = "genesisMined" => pc' = "genesisStored" /\ PersistBlock(Last(chain))
      /\ pc = "mined" => pc' = "stored" /\ PersistBlock(block[1])
  BY DEF FreshPersist, StoreBlock, StoreStep, At
<1>2. opened /\ Current /\ Rooted(Last(chain)) /\ Len(chain) \in Nat \ {0}
  BY <1>1, LastKnown
<1>3. PICK b : /\ PersistBlock(b) /\ Rooted(b)
               /\ b.index = 0 => "bestHash" \notin DOMAIN Meta
  <2>1. CASE pc = "genesisMined"
    BY <1>1, <1>2, <2>1 DEF Current
  <2>2. CASE pc = "mined"
    <3>1. pc \in AddSteps
      BY <2>2 DEF AddSteps
    <3>2. Rooted(block[1]) /\ block[1].index = Len(chain)
      BY <3>1, ChainRooted DEF IInv, Linked
    <3> QED
      BY <1>1, <1>2, <2>2, <3>2
  <2> QED
    BY <1>1, <2>1, <2>2
<1>4. /\ \A s \in Stores' : RecoveryIn(s)
      /\ DOMAIN Meta' = DOMAIN Meta
      /\ \A x \in DOMAIN Meta : Meta'[x] = Meta[x]
  BY <1>2, <1>3, BatchRecovery
<1>5. ASSUME pc = "genesisMined" PROVE Len(chain) = 1
  BY <1>5 DEF IInv, Linked, BuildSteps
<1>6. Current'
  BY <1>1, <1>2, <1>4, <1>5 DEF Current, LastHash, AddSteps
<1> QED
  BY <1>4, <1>6 DEF RInv

(* adjustDifficulty is due when the best block on record is the last of a   *)
(* window, or when every block is (blockchain.cpp:150-162).                *)
LEMMA AdjustRecovery ==
  ASSUME IInv, DInv, RInv, ~WritesFail, AdjustDifficulty
  PROVE  RInv'
<1>1. PICK next : /\ pc = "idle" /\ pc' = "adjusted" /\ difficulty' = next
                  /\ DB!SetMeta("difficulty", next)
                  /\ UNCHANGED <<chain, block>>
                  /\ Len(chain) % Window = 0
  BY DEF AdjustDifficulty, At, AdjustmentDue
<1>2. /\ opened /\ Current /\ Len(chain) \in Nat \ {0}
      /\ Rooted(Last(chain)) /\ Last(chain).index = Len(chain) - 1
  BY <1>1, LastKnown
<1>3. Window \in Nat \ {0}
  BY ChainAssumption
<1>4. ASSUME "bestHash" \in DOMAIN Meta
      PROVE  \E r : Rooted(r) /\ BlockHash(r) = Meta["bestHash"] /\ Fits(r, next)
  <2>1. CASE Len(chain) > 1
    <3>1. BlockHash(Last(chain)) = Meta["bestHash"]
      BY <1>1, <1>2, <2>1 DEF Current, LastHash
    <3>2. Last(chain).index + 1 = Len(chain)
      BY <1>2
    <3>3. Fits(Last(chain), next)
      BY <1>1, <3>2 DEF Fits
    <3> QED
      BY <1>2, <3>1, <3>3
  <2>2. CASE Len(chain) = 1
    <3>1. Window = 1
      BY <1>1, <1>3, <2>2
    <3>2. PICK r : Rooted(r) /\ BlockHash(r) = Meta["bestHash"]
      <4>1. DB!Visible \in Stores
        BY DEF DB!Visible, Stores
      <4> QED
        BY <1>4, <4>1 DEF RInv, RecoveryIn, BestIn, Meta
    <3>3. r.index \in Nat
      BY <3>2, RootedParent
    <3>4. Fits(r, next)
      BY <3>1, <3>3 DEF Fits
    <3> QED
      BY <3>2, <3>4
  <2>3. Len(chain) > 1 \/ Len(chain) = 1
    BY <1>2
  <2> QED
    BY <2>1, <2>2, <2>3
<1>5. "height" \in DOMAIN Meta
  BY <1>1, <1>2 DEF Current
<1>6. /\ \A s \in Stores' : RecoveryIn(s)
      /\ DOMAIN Meta' = DOMAIN Meta \cup {"difficulty"}
      /\ Meta'["difficulty"] = next
      /\ \A x \in DOMAIN Meta \ {"difficulty"} : Meta'[x] = Meta[x]
  BY <1>1, <1>2, <1>4, <1>5, SetMetaRecovery
<1>7. Current'
  BY <1>1, <1>2, <1>6 DEF Current, LastHash, AddSteps
<1> QED
  BY <1>6, <1>7 DEF RInv

(* A new block is mined with the current difficulty.                       *)
LEMMA MineRecovery ==
  ASSUME IInv, DInv, RInv, ~WritesFail, NEW list, MineBlock(list)
  PROVE  RInv'
<1> DEFINE b == NewBlock(Len(chain), LastHash, list, difficulty)
<1>1. /\ pc \in {"idle", "adjusted"} /\ pc' = "mined" /\ UpdateUTXOs(b)
      /\ block' = <<b>> /\ UNCHANGED <<chain, difficulty>>
  BY DEF MineBlock, At
<1>2. opened /\ Current
  BY <1>1, LastKnown
<1>3. b.difficulty = difficulty
  BY DEF NewBlock
<1> HIDE DEF b
<1>4. /\ \A s \in Stores' : RecoveryIn(s)
      /\ DOMAIN Meta' = DOMAIN Meta
      /\ \A x \in DOMAIN Meta : Meta'[x] = Meta[x]
  BY <1>1, <1>2, BatchRecovery
<1>5. Current'
  BY <1>1, <1>2, <1>3, <1>4 DEF Current, LastHash, AddSteps
<1> QED
  BY <1>4, <1>5 DEF RInv

(* The block that is entered into the chain is the one on record as best.   *)
LEMMA PushRecovery ==
  ASSUME IInv, DInv, RInv, PushBlock
  PROVE  RInv'
<1>1. /\ pc = "named" /\ pc' = "idle" /\ chain' = Append(chain, block[1])
      /\ UNCHANGED <<engine, disk, stable, memdb, difficulty>>
  BY DEF PushBlock, At, dbVars
<1>2. Stores' = Stores /\ Meta' = Meta
  BY <1>1 DEF Stores, Meta, DB!Visible
<1>3. /\ Current /\ Len(chain) \in Nat \ {0}
      /\ chain \in Seq(ToSet(chain))
  BY <1>1, LastKnown DEF IInv, Shape
<1>4. Last(chain') = block[1]
  <2>1. Len(chain') = Len(chain) + 1 /\ chain'[Len(chain) + 1] = block[1]
    BY <1>1, <1>3
  <2> QED
    BY <2>1 DEF Last
<1>5. Current'
  BY <1>1, <1>2, <1>3, <1>4 DEF Current, LastHash, AddSteps
<1> QED
  BY <1>2, <1>5 DEF RInv

(* Every step keeps what a restart reads consistent.                       *)
LEMMA StepRInv ==
  ASSUME IInv, DInv, RInv, ~WritesFail, [Next]_vars
  PROVE  RInv'
<1>1. CASE UNCHANGED vars \/ Tick \/ \E b \in ToSet(chain) : GetBlockByHash(BlockHash(b))
  <2>1. UNCHANGED <<engine, disk, stable, memdb, chain, difficulty, pc, block>>
    BY <1>1 DEF vars, dbVars, Tick, GetBlockByHash
  <2> QED
    BY <2>1 DEF RInv, Current, Stores, Meta, LastHash, DB!Visible
<1>2. CASE Boot
  BY <1>2 DEF Boot, At, DB!Open, RInv, Stores
<1>3. CASE LoadFromDB \/ FreshGenesis
  BY <1>3, GenesisRecovery
<1>4. CASE FreshPersist \/ StoreBlock
  BY <1>4, PersistRecovery
<1>5. CASE FreshHeight \/ FreshBest \/ FreshDifficulty
  BY <1>5, MetaStepRecovery DEF FreshHeight, FreshBest, FreshDifficulty
<1>6. CASE StoreHeight \/ StoreBest
  BY <1>6, MetaStepRecovery DEF StoreHeight, StoreBest
<1>7. CASE CloseHeight \/ CloseBest \/ CloseDifficulty
  BY <1>7, MetaStepRecovery DEF CloseHeight, CloseBest, CloseDifficulty
<1>8. CASE AdjustDifficulty
  BY <1>8, AdjustRecovery
<1>9. CASE \E list \in Payloads : MineBlock(list)
  BY <1>9, MineRecovery
<1>10. CASE PushBlock
  BY <1>10, PushRecovery
<1>11. CASE Close \/ Crash \/ PowerLoss
  <2>1. pc' = "down" /\ (DB!Close \/ DB!PowerLoss)
    BY <1>11 DEF Close, Crash, PowerLoss, Forget
  <2>2. Stores' \subseteq Stores \cup {DB!EmptyStore}
    BY <2>1 DEF Stores, DB!Close, DB!PowerLoss, IInv, Shape, DB!DBTypeOK
  <2>3. \A s \in Stores' : RecoveryIn(s)
    BY <2>2, EmptyRecovery DEF RInv
  <2> QED
    BY <2>1, <2>3 DEF RInv
<1> QED
  BY <1>1, <1>2, <1>3, <1>4, <1>5, <1>6, <1>7, <1>8, <1>9, <1>10, <1>11
  DEF Next, Construct, AddBlock, Destruct

(* When no write is refused, the difficulty a restart reads is that of the  *)
(* block it would take for the best one, or that block ends a window, at    *)
(* whatever write a crash or a loss of power falls (blockchain.cpp:16-44,   *)
(* 123-162).                                                               *)
THEOREM DifficultyKept ==
  ASSUME ~WritesFail
  PROVE  Spec => []DifficultyRecovered
<1>1. Init => IInv /\ DInv /\ RInv
  BY InitIInv, InitDInv, EmptyRecovery DEF Init, DB!Init, RInv, Stores
<1>2. IInv /\ DInv /\ RInv /\ [Next]_vars => (IInv /\ DInv /\ RInv)'
  BY StepIInv, StepDInv, StepRInv
<1>3. RInv => DifficultyRecovered
  BY DEF RInv, RecoveryIn, DiffIn, Fits, DifficultyRecovered
<1> QED
  BY <1>1, <1>2, <1>3, PTL DEF Spec

-----------------------------------------------------------------------------
(* The chain under the program *)

(* A step of the chain object, which mines any list of transactions.       *)
ChainStep == \/ [Next]_vars
             \/ \E list : list \in Seq(ToSet(list)) /\ MineBlock(list)

(* The invariants of the chain hold whatever is mined (blockchain.cpp:123). *)
LEMMA ChainStepInv ==
  ASSUME ~WritesFail, IInv, DInv, ChainStep
  PROVE  IInv' /\ DInv'
BY StepIInv, StepDInv, MineIInv, MineDInv DEF ChainStep

(* Blocks and transactions that every loss of power leaves are never fewer. *)
Grown == \A new \in stable' : \E old \in stable :
  \A t \in {"b", "t"} : DOMAIN old[t] \subseteq DOMAIN new[t]

(* A write that deletes neither blocks nor transactions.                   *)
LEMMA WriteGrows ==
  ASSUME DB!DBTypeOK, NEW p, NEW d, NEW sync, DB!Write(p, d, sync),
         d["b"] = {}, d["t"] = {}
  PROVE  Grown
<1>1. DB!DBTypeOK
  OBVIOUS
<1>2. \A new \in stable' : new \in stable \/ new = DB!Apply(disk, p, d)
  BY DEF DB!Write, DB!dbVars
<1>3. disk \in stable
  BY DEF DB!DBTypeOK
<1>4. \A t \in {"b", "t"} : DOMAIN disk[t] \subseteq DOMAIN DB!Apply(disk, p, d)[t]
  BY DEF DB!Apply, DB!Tables
<1> QED
  BY <1>2, <1>3, <1>4 DEF Grown

(* No step of the chain object takes a block or a transaction off the       *)
(* record: only spent outputs are ever deleted (blockchain.cpp:163-175).    *)
LEMMA ChainStepGrows ==
  ASSUME IInv, ChainStep
  PROVE  Grown
<1>1. DB!DBTypeOK
  BY DEF IInv, Shape
<1>2. DB!NoDels["b"] = {} /\ DB!NoDels["t"] = {}
  BY DEF DB!NoDels, DB!Tables
<1>3. ASSUME NEW k, NEW v, DB!SetMeta(k, v) PROVE Grown
  <2>1. DB!Write(DB!One("meta", k, v), DB!NoDels, FALSE)
    BY <1>3 DEF DB!SetMeta, DB!Put
  <2> QED
    BY <1>1, <1>2, <2>1, WriteGrows
<1>4. ASSUME NEW b, UpdateUTXOs(b) PROVE Grown
  <2>1. DB!Write(DB!EmptyStore, SpentRecords(b.transactions), TRUE)
    BY <1>4 DEF UpdateUTXOs, DB!WriteBatch
  <2>2. /\ SpentRecords(b.transactions)["b"] = {}
        /\ SpentRecords(b.transactions)["t"] = {}
    BY DEF SpentRecords, DB!NoDels, DB!Tables
  <2> QED
    BY <1>1, <2>1, <2>2, WriteGrows
<1>5. ASSUME NEW b, PersistBlock(b) PROVE Grown
  <2>1. DB!Write(BlockRecords(b), DB!NoDels, TRUE)
    BY <1>5 DEF PersistBlock, DB!WriteBatch
  <2> QED
    BY <1>1, <1>2, <2>1, WriteGrows
<1>6. ASSUME stable' \subseteq stable PROVE Grown
  BY <1>6 DEF Grown
<1>7. CASE \E list : MineBlock(list)
  BY <1>4, <1>7 DEF MineBlock
<1>8. CASE LoadFromDB \/ FreshGenesis
  BY <1>4, <1>8 DEF LoadFromDB, FreshGenesis, CreateGenesis
<1>9. CASE FreshPersist \/ StoreBlock
  BY <1>5, <1>9 DEF FreshPersist, StoreBlock
<1>10. CASE \/ FreshHeight \/ FreshBest \/ FreshDifficulty \/ StoreHeight \/ StoreBest
            \/ CloseHeight \/ CloseBest \/ CloseDifficulty
  BY <1>3, <1>10 DEF FreshHeight, FreshBest, FreshDifficulty, StoreHeight, StoreBest,
     CloseHeight, CloseBest, CloseDifficulty
<1>11. CASE AdjustDifficulty
  <2>1. \E v : DB!SetMeta("difficulty", v)
    BY <1>11 DEF AdjustDifficulty
  <2> QED
    BY <1>3, <2>1
<1>12. CASE Close \/ Crash \/ PowerLoss
  BY <1>6, <1>12 DEF Close, Crash, PowerLoss, DB!Close, DB!PowerLoss
<1>13. CASE Boot \/ PushBlock \/ Tick \/ UNCHANGED vars \/ \E h : GetBlockByHash(h)
  BY <1>6, <1>13 DEF Boot, DB!Open, PushBlock, Tick, GetBlockByHash, vars, dbVars
<1> QED
  BY <1>7, <1>8, <1>9, <1>10, <1>11, <1>12, <1>13
  DEF ChainStep, Next, Construct, AddBlock, Destruct

-----------------------------------------------------------------------------
(* The program *)

Phases == {"off", "chain", "mining", "confirming", "network", "serving", "leaving"}

(* The chain has a stored last block once it was mined on, until main ends, *)
(* and what was announced is on record.                                    *)
MInv ==
  /\ step \in Phases /\ payload \in Seq(ToSet(payload))
  /\ step \in {"confirming", "network", "serving"} => Len(chain) >= 2
  /\ AnnouncedDurable

(* What was announced stays on record while records only grow.             *)
LEMMA HistoryKept ==
  ASSUME Grown, AnnouncedDurable, announced' = announced
  PROVE  AnnouncedDurable'
BY DEF Grown, AnnouncedDurable

(* The pool refuses both drafts, so main mines its reward alone             *)
(* (main.cpp:90-100; mempool.cpp:10-13; transaction.cpp:73-77).            *)
LEMMA RewardAlone ==
  ASSUME TakeTransactions
  PROVE  txs' = {} /\ payload' = <<CoinbaseTx>>
<1>1. txs' = {}
  BY DEF TakeTransactions, Pool!Add, Pool!IsValid, Draft
<1>2. PICK top \in Pool!GetTopTxs({}, TopCount) : payload' = <<CoinbaseTx>> \o top
  BY <1>1 DEF TakeTransactions
<1>3. Pool!Cardinality({}) = 0
  BY FS_EmptySet DEF Pool!Cardinality, Cardinality
<1>4. PICK s \in [1..0 -> {}] : top = SubSeq(s, 1, IF TopCount < Len(s) THEN TopCount ELSE Len(s))
  BY <1>3 DEF Pool!GetTopTxs, Pool!Sorted, Pool!SetToSeqs
<1>5. s = <<>> /\ Len(s) = 0
  BY <1>4
<1>6. (IF TopCount < Len(s) THEN TopCount ELSE Len(s)) = 0
  BY <1>5, MainAssumption
<1>7. top = <<>>
  BY <1>4, <1>6, SubSeqEmpty
<1>8. payload' = <<CoinbaseTx>>
  <2> DEFINE c == CoinbaseTx
  <2> HIDE DEF c
  <2>1. <<c>> \o <<>> = <<c>>
    OBVIOUS
  <2> QED
    BY <1>2, <1>7, <2>1 DEF c
<1> QED
  BY <1>1, <1>8

(* Every step of the program is a step of the chain object or leaves it     *)
(* alone.                                                                  *)
LEMMA MainChainStep ==
  ASSUME MInv, [MainNext]_<<vars, mainVars>>
  PROVE  ChainStep
<1>1. CASE Mine
  BY <1>1 DEF Mine, ChainStep, MInv, Next, AddBlock
<1>2. CASE Launch \/ BuildChain \/ Mined \/ Leave \/ Exit \/ Die \/ Tick
  BY <1>2 DEF Launch, BuildChain, Mined, Leave, Exit, Die, ChainStep, Next, Construct,
     AddBlock, Destruct
<1>3. CASE TakeTransactions \/ RemoveConfirmed \/ Announce \/ StartFails
             \/ UNCHANGED <<vars, mainVars>>
  BY <1>3 DEF TakeTransactions, RemoveConfirmed, Announce, StartFails, ChainStep
<1> QED
  BY <1>1, <1>2, <1>3 DEF MainNext

(* Lists of one and of none are lists of what they hold.                   *)
LEMMA OneInSeq == \A x : <<x>> \in Seq(ToSet(<<x>>)) /\ <<>> \in Seq(ToSet(<<>>))
BY DEF ToSet

(* Every step of the program.                                              *)
LEMMA StepMInv ==
  ASSUME IInv, DInv, MInv, ~WritesFail, [MainNext]_<<vars, mainVars>>
  PROVE  MInv'
<1>1. Grown
  BY MainChainStep, ChainStepGrows
<1>2. ASSUME announced' = announced, payload' \in {payload, <<>>, <<CoinbaseTx>>},
             step' \in {"off", "chain", "mining", "leaving"}
      PROVE  MInv'
  BY <1>1, <1>2, HistoryKept, OneInSeq DEF MInv, Phases
<1>3. CASE Launch \/ TakeTransactions \/ Leave \/ Die
  BY <1>2, <1>3, RewardAlone DEF Launch, TakeTransactions, Leave, Die, ForgetMain, Goto
<1>4. CASE BuildChain \/ Mine \/ Exit
  BY <1>2, <1>4 DEF BuildChain, Mine, Exit, ForgetMain, mainVars
<1>5. CASE Mined
  <2>1. /\ step' = "confirming" /\ pc = "named" /\ announced' = announced
        /\ chain' = Append(chain, block[1])
    BY <1>5 DEF Mined, Goto, PushBlock, At
  <2>2. payload' = payload /\ chain \in Seq(ToSet(chain)) /\ chain # <<>>
    BY <1>5, <2>1 DEF IInv, Shape, Mined
  <2>3. Len(chain') >= 2
    BY <2>1, <2>2
  <2>4. step' \in Phases /\ payload' \in Seq(ToSet(payload'))
    BY <2>1, <2>2 DEF MInv, Phases
  <2>5. AnnouncedDurable'
    BY <1>1, <2>1, HistoryKept DEF MInv
  <2> QED
    BY <2>3, <2>4, <2>5 DEF MInv
<1>6. CASE RemoveConfirmed \/ StartFails
  <2>1. /\ step' \in {"network", "serving"} /\ step \in {"confirming", "network"}
        /\ chain' = chain /\ announced' = announced /\ payload' \in {payload, <<>>}
    BY <1>6 DEF RemoveConfirmed, StartFails, Goto, vars
  <2> QED
    BY <1>1, <2>1, HistoryKept, OneInSeq DEF MInv, Phases
<1>7. CASE Announce
  <2>1. /\ step = "network" /\ step' = "serving"
        /\ announced' = announced \cup {[hash |-> LastHash, engine |-> engine]}
        /\ UNCHANGED <<engine, stable, chain, payload>>
    BY <1>7 DEF Announce, Goto, vars, dbVars
  <2>2. engine = "leveldb" => \A s \in stable : LastHash \in DOMAIN s["b"]
    <3>1. Len(chain) >= 2 /\ chain \in Seq(ToSet(chain))
      BY <2>1 DEF MInv, IInv, Shape
    <3>2. Durable(chain[Len(chain)])
      BY <3>1 DEF DInv
    <3> QED
      BY <3>2 DEF Durable, DurableStores, LastHash, Last
  <2>3. AnnouncedDurable'
    BY <2>1, <2>2 DEF MInv, AnnouncedDurable
  <2> QED
    BY <2>1, <2>3 DEF MInv, Phases
<1>8. CASE (Tick /\ UNCHANGED mainVars) \/ UNCHANGED <<vars, mainVars>>
  <2>1. UNCHANGED <<stable, chain, step, payload, announced>>
    BY <1>8 DEF Tick, vars, dbVars, mainVars
  <2> QED
    BY <2>1 DEF MInv, AnnouncedDurable
<1> QED
  BY <1>3, <1>4, <1>5, <1>6, <1>7, <1>8 DEF MainNext

(* The invariants hold of the whole program.                               *)
LEMMA MainInvariance ==
  ASSUME ~WritesFail
  PROVE  MainSpec => [](IInv /\ DInv /\ MInv)
<1>1. MainInit => IInv /\ DInv /\ MInv
  <2>1. MainInit => MInv
    BY OneInSeq DEF MainInit, MInv, Phases, AnnouncedDurable
  <2> QED
    BY <2>1, InitIInv, InitDInv DEF MainInit
<1>2. IInv /\ DInv /\ MInv /\ [MainNext]_<<vars, mainVars>> => (IInv /\ DInv /\ MInv)'
  BY MainChainStep, ChainStepInv, StepMInv
<1> QED
  BY <1>1, <1>2, PTL DEF MainSpec

(* With a LevelDB that refuses no write, a block that peers were told of is *)
(* on record whatever power is lost, for any schedule of crashes and        *)
(* restarts (main.cpp:101, 139; blockchain.cpp:137).                        *)
THEOREM AnnouncementsDurable ==
  ASSUME ~WritesFail
  PROVE  MainSpec => []AnnouncedDurable
<1>1. IInv /\ DInv /\ MInv => AnnouncedDurable
  BY DEF MInv
<1> QED
  BY <1>1, MainInvariance, PTL
=============================================================================
