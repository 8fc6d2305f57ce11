------------------------------- MODULE Base58 -------------------------------
(***************************************************************************)
(* Addresses in base 58, src/src/crypto/base58.cpp.  A byte string is a    *)
(* sequence of numbers below 256, a character its place in ALPHABET, from  *)
(* zero ("1" is 0).  The arithmetic is the code's: long division of the    *)
(* bytes, and multiplication with a carry.                                 *)
(***************************************************************************)
EXTENDS Naturals, Sequences, SequencesExt

CONSTANT Checksum(_)  \* the first four bytes of a double SHA-256

Zeros(n) == [i \in 1..n |-> 0]

LeadingZeros(s) ==
  LET first == SelectInSeq(s, LAMBDA x : x # 0)
  IN  IF first = 0 THEN Len(s) ELSE first - 1

\* One byte of a division: the quotient has no leading zero.
DivideByte(acc, b) ==
  LET cur == acc.rem * 256 + b
  IN  [quotient |-> IF acc.quotient # <<>> \/ cur \div 58 > 0
                    THEN Append(acc.quotient, (cur \div 58) % 256) ELSE <<>>,
       rem |-> cur % 58]

Divide(bytes) == FoldLeft(DivideByte, [quotient |-> <<>>, rem |-> 0], bytes)

\* One division, which makes one digit.
NextDigit(s, n) ==
  IF s.left = <<>> THEN s
  ELSE LET d == Divide(s.left)
       IN  [left |-> d.quotient, digits |-> Cons(d.rem, s.digits)]

\* The loop of divisions, at most two for each byte.
Digits(bytes) ==
  FoldLeft(NextDigit, [left |-> bytes, digits |-> <<>>], Zeros(2 * Len(bytes))).digits

\* Zero has a digit of its own, beside those of the leading zero bytes.
Encode(data) == Zeros(LeadingZeros(data)) \o Digits(data)

MultiplyByte(acc, b) ==
  [bytes |-> Cons((acc.carry + 58 * b) % 256, acc.bytes), carry |-> (acc.carry + 58 * b) \div 256]

\* The bytes so far times 58, and one digit more, from the last byte to the first.
Shift(bytes, digit) ==
  LET s == FoldLeft(MultiplyByte, [bytes |-> <<>>, carry |-> digit], Reverse(bytes))
  IN  IF s.carry = 0 THEN s.bytes ELSE Cons(s.carry, s.bytes)

Decode(encoded) == Zeros(LeadingZeros(encoded)) \o FoldLeft(Shift, <<>>, encoded)

EncodeCheck(version, payload) ==
  LET data == Cons(version, payload) IN Encode(data \o Checksum(data))

Rejected == [ok |-> FALSE]

\* Mutant: the version byte is left out of the checksum.
CheckPayload(encoded) ==
  LET data == Decode(encoded)
      rest == SubSeq(data, 2, Len(data) - 4)
  IN  IF Len(data) >= 5 /\ SubSeq(data, Len(data) - 3, Len(data)) = Checksum(rest)
      THEN [ok |-> TRUE, version |-> data[1], payload |-> rest]
      ELSE Rejected

DecodeCheck(encoded) ==
  LET data == Decode(encoded)
      body == SubSeq(data, 1, Len(data) - 4)
  IN  IF Len(data) >= 5 /\ SubSeq(data, Len(data) - 3, Len(data)) = Checksum(body)
      THEN [ok |-> TRUE, version |-> Head(body), payload |-> Tail(body)]
      ELSE Rejected
=============================================================================
