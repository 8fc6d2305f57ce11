-------------------------------- MODULE Script --------------------------------
(***************************************************************************)
(* Pay-to-public-key-hash scripts, src/src/core/script.cpp, over the keys  *)
(* of src/src/crypto/ecdsa.cpp.  A script is the sequence of its words; a  *)
(* hash has one argument, and only the key makes its signatures.           *)
(***************************************************************************)
EXTENDS Naturals, Sequences, SequencesExt

Op(name) == <<name>>

DerivePublicKey(priv) == <<"public key", priv>>

Hash160(pub) == <<"hash", pub>>

\* What the wallet shows: the same hash in base 58, another word.
PublicKeyToAddress(pub) == <<"address", pub>>

Sign(priv, txHash) == [by |-> DerivePublicKey(priv), of |-> txHash]

Verify(pub, txHash, sig) == sig = [by |-> pub, of |-> txHash]

BuildP2PKH(hash) ==
  <<Op("OP_DUP"), Op("OP_HASH160"), hash, Op("OP_EQUALVERIFY"), Op("OP_CHECKSIG")>>

BuildUnlockP2PKH(sig, pub) == [sig |-> sig, pub |-> pub]

-----------------------------------------------------------------------------
\* find("OP_HASH160 ") + 11: a word follows.  find never fails here, as 11 is
\* added to npos before it is compared; the text is then cut inside a word.
HashStart(lock) == SelectInSeq(Front(lock), LAMBDA w : w = Op("OP_HASH160")) + 1

\* find(" OP_EQUALVERIFY"): a word precedes.
HashEnd(lock) == SelectInSeq(Tail(lock), LAMBDA w : w = Op("OP_EQUALVERIFY"))

\* The words between the two; the length is unsigned, so that an end that is
\* not behind the start stands for the end of the script.
ExpectedHash(lock) ==
  LET start == HashStart(lock)
      end   == HashEnd(lock)
  IN  IF start = 1 THEN <<Op("cut")>>
      ELSE SubSeq(lock, start, IF start <= end THEN end ELSE Len(lock))

\* Mutant: the key is not compared with the hash.
VerifySignatureOnly(lock, unlock, txHash) ==
  /\ lock # <<>> /\ HashEnd(lock) # 0
  /\ Verify(unlock.pub, txHash, unlock.sig)

VerifyP2PKH(lock, unlock, txHash) ==
  /\ lock # <<>> /\ HashEnd(lock) # 0
  /\ <<Hash160(unlock.pub)>> = ExpectedHash(lock)
  /\ Verify(unlock.pub, txHash, unlock.sig)
=============================================================================
