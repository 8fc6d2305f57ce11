----------------------------- MODULE MCStructures -----------------------------
(***************************************************************************)
(* The data structures the node is built on, checked against what they     *)
(* promise.  A behaviour is about one of them: either calls of the cache   *)
(* in any order, or an argument of the pure functions that grows.          *)
(***************************************************************************)
EXTENDS LRUCache

CONSTANTS Hash,       \* transaction hashes
          Byte,       \* bytes of an address, or digits if below 58
          Data,       \* bytes of a message
          Height,     \* heights of blocks
          Gap,        \* time between blocks: the clock may be set back
          Tokens,     \* of a contract's source
          Limits,     \* of gas
          PrivateKeys, Words,  \* see Script
          MaxLength,  \* bound: hashes of a tree, bytes of an address, tokens
          TargetBlockTime, AdjustmentInterval,  \* see DifficultyAdjuster
          BlockLen, LengthLen, ByteValues,      \* see Digest
          Width, DigitValues                    \* see HeightIndex

ASSUME ByteAssumption == Byte \subseteq 0..255

ASSUME DifficultyAssumption ==
  TargetBlockTime \in Nat /\ AdjustmentInterval \in Nat \ {0} /\ Gap \subseteq Int

ASSUME DigestAssumption == BlockLen \in Nat \ {0} /\ LengthLen \in 0..BlockLen

ASSUME HeightAssumption ==
  Width \in Nat \ {0, 1} /\ DigitValues \in Nat \ {0, 1} /\ Height \subseteq Nat

VARIABLES subject,  \* the structure of this behaviour
          others,   \* history: key -> how many other keys were used after it
          latest,   \* history: key -> the value last put
          arg       \* the argument of the pure functions, a sequence

history == <<others, latest>>

M == INSTANCE Merkle

V == INSTANCE RexVM

\* Some four bytes that depend on all of them and on their order.
Checksum(data) ==
  LET sum == FoldLeft(LAMBDA acc, b : (7 * acc + b + 1) % 256, 5, data)
  IN  <<sum, (sum + 1) % 256, 0, Len(data) % 256>>

A == INSTANCE Base58

S == INSTANCE Script

D == INSTANCE DifficultyAdjuster

H == INSTANCE Digest WITH Base <- ByteValues

I == INSTANCE HeightIndex WITH Base <- DigitValues

MCGap == {-3, 0, 2, 4, 7, 40}

\* Opcodes that do something, and the literal "0b".
MCTokens == {[keyword |-> op] : op \in {"SHA256", "SSTORE", "SLOAD", "HALT", "REVERT"}}
              \cup {[literal |-> <<"SHA256", "HALT">>]}

\* A keyword, or the characters of a literal.
ASSUME TokenAssumption ==
  /\ \A token \in Tokens :
       IF "keyword" \in DOMAIN token THEN token.keyword \in V!Keywords
       ELSE token.literal \in Seq(ToSet(token.literal))
  /\ Limits \subseteq Nat

MCWords == {S!Op("OP_DUP"), S!Op("OP_HASH160"), S!Op("OP_EQUALVERIFY"), S!Op("OP_CHECKSIG"),
            S!PublicKeyToAddress(S!DerivePublicKey("ann"))}
             \cup {S!Hash160(S!DerivePublicKey(k)) : k \in PrivateKeys}

MCInit == /\ Init /\ others = [k \in {} |-> 0] /\ latest = [k \in {} |-> k] /\ arg = <<>>
          /\ subject \in {"cache", "leaves", "bytes", "tokens", "words", "gaps",
                          "message", "heights"}

\* A key used again, or for the first time, is one more after those that were
\* used before it but not since.
UsedNow(k) ==
  others' = [j \in DOMAIN others \cup {k} |->
    IF j = k THEN 0
    ELSE IF k \in DOMAIN others /\ others[k] < others[j] THEN others[j] ELSE others[j] + 1]

CallPut(k, v) ==
  /\ subject = "cache" /\ Put(k, v) /\ UsedNow(k)
  /\ latest' = [j \in DOMAIN latest \cup {k} |-> IF j = k THEN v ELSE latest[j]]
  /\ UNCHANGED <<subject, arg>>

CallGet(k) ==
  /\ subject = "cache" /\ Get(k)
  /\ IF Cached(k) THEN UsedNow(k) ELSE UNCHANGED others
  /\ UNCHANGED <<subject, latest, arg>>

\* An argument gets one element more.
Grow(kind, x, length) == /\ subject = kind /\ Len(arg) < length
                         /\ arg' = Append(arg, x)
                         /\ UNCHANGED <<vars, history, subject>>

\* A height may come again, and a lower one after a higher one: after a restart
\* they count from one.
MCNext == \/ \E k \in Key : CallGet(k) \/ \E v \in Value : CallPut(k, v)
          \/ \E h \in Hash : Grow("leaves", h, MaxLength)
          \/ \E b \in Byte : Grow("bytes", b, MaxLength)
          \/ \E t \in Tokens : Grow("tokens", t, MaxLength)
          \/ \E w \in Words : Grow("words", w, MaxLength)
          \/ \E g \in Gap : Grow("gaps", g, MaxLength)
          \/ \E b \in Data : Grow("message", b, MaxLength)
          \/ \E h \in Height : Grow("heights", h, 3)

MCSpec == MCInit /\ [][MCNext]_<<vars, history, subject, arg>>

-----------------------------------------------------------------------------
(* The cache holds the keys after which fewer others were used than it may  *)
(* hold, in the order of their last use, each with the value last put: a    *)
(* hit counts as a use, a miss does not (cache.cpp:2-11).                   *)
CacheRecent ==
  /\ Agreement
  /\ DOMAIN cache = {k \in DOMAIN others : others[k] < Cap}
  /\ \A i \in 1..Len(order) : others[order[i]] = i - 1
  /\ \A k \in DOMAIN cache : cache[k] = latest[k]

(* A Merkle root stands for one list of its length: no other one has the    *)
(* same root, although an odd layer repeats its last hash                   *)
(* (merkle.cpp:9-26).                                                       *)
RootBinds ==
  subject = "leaves" => \A other \in [1..Len(arg) -> Hash] :
    M!BuildRoot(other) = M!BuildRoot(arg) => other = arg

AllZero(s) == s # <<>> /\ \A i \in DOMAIN s : s[i] = 0

(* Encoding and decoding are inverse to each other, but that a number that  *)
(* is all zeros, and written in one zero more, gets one more on the way: no *)
(* two other byte strings share an address.  And an address gives back the  *)
(* version and the payload it was made of: the checksum is over the same    *)
(* bytes on both sides (base58.cpp:9-112).                                  *)
AddressInverse ==
  subject = "bytes" =>
    LET expected == IF AllZero(arg) THEN Cons(0, arg) ELSE arg
    IN  /\ A!Decode(A!Encode(arg)) = expected
        /\ (\A i \in DOMAIN arg : arg[i] < 58) => A!Encode(A!Decode(arg)) = expected
        /\ \A version \in Byte :
             A!DecodeCheck(A!EncodeCheck(version, arg))
               = [ok |-> TRUE, version |-> version, payload |-> arg]

(* A run that does not revert has had all the gas it could use: under every *)
(* higher limit it does and costs the same, and a lower limit than what it  *)
(* used makes it revert (vm.cpp:32-91, gas.h:7-11).                         *)
GasMonotone ==
  subject = "tokens" => \A limit, higher \in Limits, input \in {"", "in"} :
    LET program == V!Compile(arg)
        run  == V!Execute(program, input, limit)
        more == V!Execute(program, input, higher)
    IN  limit <= higher =>
          /\ run.gasUsed <= limit
          /\ ~run.reverted => run = more
          /\ more.gasUsed <= limit => run = more
          /\ more.gasUsed > limit => run.reverted

\* Whether the script accepts what signer signed, with the key of holder.
Opens(signer, holder, signed, spent) ==
  S!VerifyP2PKH(arg, S!BuildUnlockP2PKH(S!Sign(signer, signed), S!DerivePublicKey(holder)),
                spent)

(* Whatever words a script is made of, it accepts the signature of one key  *)
(* at most, and for the transaction that was signed only.  The script that  *)
(* buildP2PKH makes of a key's hash opens for that key; the one that       *)
(* createCoinbase makes of the miner's address, which is not the hash,     *)
(* opens for nobody (script.cpp:5-45, transaction.cpp:29).                 *)
OneKeyOpens == subject = "words" =>
  LET openers == {k \in PrivateKeys : Opens(k, k, "tx", "tx")}
  IN  /\ \A k, j \in openers : k = j
      /\ \A k, j \in PrivateKeys, t, u \in {"tx", "other"} :
           Opens(k, j, t, u) => k = j /\ t = u
      /\ \A k \in PrivateKeys :
           LET pub == S!DerivePublicKey(k)
           IN  /\ arg = S!BuildP2PKH(S!Hash160(pub)) => openers = {k}
               /\ arg = S!BuildP2PKH(S!PublicKeyToAddress(pub)) => openers = {}

Elapsed(times) == SumFunction(times)

(* The more time the blocks took, the lower the next difficulty, by one at  *)
(* most and from 1 to 32, also when the clock ran backwards; and the block *)
(* named as the next adjustment is the first one that needs it             *)
(* (difficulty.cpp:5-36).                                                  *)
DifficultyFollowsTime == subject = "gaps" =>
  /\ \A current \in 1..32 :
       LET after(t) == D!Calculate(current, 0, t)
       IN  /\ after(Elapsed(arg)) \in {current - 1, current, current + 1} \cap 1..32
           /\ \A n \in DOMAIN arg :
                LET t == Elapsed(SubSeq(arg, 1, n))
                IN  t <= Elapsed(arg) => after(t) >= after(Elapsed(arg))
  /\ LET next == D!NextAdjustmentBlock(Len(arg))
     IN  /\ D!NeedsAdjustment(next) /\ Len(arg) < next
         /\ \A h \in Len(arg) + 1..next - 1 : ~D!NeedsAdjustment(h)

(* No two messages are padded to the same blocks, also when a message ends  *)
(* with bytes that padding is made of and when it leaves room for no more   *)
(* than the marker or not even for the length: so a hash stands for one     *)
(* message if the compression function does (sha256.cpp:38-72,              *)
(* ripemd160.cpp:63-97, sha3.cpp:67-81).                                    *)
DigestBinds == subject = "message" =>
  \A other \in BoundedSeq(Data, MaxLength) :
    (\/ H!SHA256(other) = H!SHA256(arg)
     \/ H!RIPEMD160(other) = H!RIPEMD160(arg)
     \/ H!SHA3(other) = H!SHA3(arg)) => other = arg

(* Whatever proof is shown for it, of another list or of another leaf, a    *)
(* hash that is not in the tree does not verify: accepting too little, as   *)
(* the code does of right children, it never accepts too much               *)
(* (merkle.h:5, 16; merkle.cpp:28-66).                                      *)
ProofsSound ==
  subject = "leaves" => \A other \in BoundedSeq(Hash, MaxLength), g, h \in Hash :
    M!VerifyProof(M!BuildRoot(arg), h, M!GenerateProof(other, g)) => h \in ToSet(arg)

(* A look-up by height that finds something finds the block last entered at *)
(* that height: though entries are not padded and look-ups are, no height   *)
(* gets the key of another one (blockchain.cpp:102, leveldb.cpp:21-26, 176). *)
HeightsToldApart ==
  subject = "heights" => \A h \in Height :
    I!GetHashAtHeight(I!Persisted(arg), h) \in {0, SelectLastInSeq(arg, LAMBDA g : g = h)}
=============================================================================
