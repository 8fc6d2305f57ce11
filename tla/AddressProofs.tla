---------------------------- MODULE AddressProofs ----------------------------
(***************************************************************************)
(* Theorems about addresses, see Base58: the divisions and multiplications *)
(* of its loops, the numbers that strings of digits stand for, and that an *)
(* address is told by the bytes it was made of and tells them.             *)
(***************************************************************************)
EXTENDS MCStructures, Sums, SequenceTheorems

-----------------------------------------------------------------------------
(* Addresses *)

\* Reading the digits s from u on makes v.
Reads(s, base, u, v) ==
  \E r \in [0..Len(s) -> Nat] :
    /\ r[0] = u /\ r[Len(s)] = v
    /\ \A i \in 1..Len(s) : r[i] = r[i-1] * base + s[i]

\* No leading zero.
Proper(s) == s # <<>> => s[1] # 0

(* Nothing is read from no digits.                                         *)
LEMMA ReadsNothing ==
  ASSUME NEW base, NEW s, Len(s) = 0, NEW u \in Nat
  PROVE  Reads(s, base, u, u)
<1> DEFINE r == [i \in 0..0 |-> u]
<1>1. r \in [0..0 -> Nat] /\ r[0] = u
  OBVIOUS
<1>2. \A i \in 1..0 : FALSE
  OBVIOUS
<1> HIDE DEF r
<1> QED
  BY <1>1, <1>2 DEF Reads

(* What is read is a number.                                               *)
LEMMA ReadsNat ==
  ASSUME NEW T, NEW s \in Seq(T), NEW base, NEW u, NEW v, Reads(s, base, u, v)
  PROVE  u \in Nat /\ v \in Nat
<1>1. PICK n \in Nat : n = Len(s)
  OBVIOUS
<1>2. PICK r \in [0..n -> Nat] : r[0] = u /\ r[n] = v
  BY <1>1 DEF Reads
<1> QED
  BY <1>2

(* One digit more at the end.                                              *)
LEMMA ReadsAppend ==
  ASSUME NEW base \in Nat, NEW s \in Seq(Nat), NEW u, NEW v, Reads(s, base, u, v),
         NEW x \in Nat
  PROVE  Reads(Append(s, x), base, u, v * base + x)
<1>1. PICK n \in Nat : n = Len(s)
  OBVIOUS
<1>2. PICK r \in [0..n -> Nat] : /\ r[0] = u /\ r[n] = v
                                 /\ \A i \in 1..n : r[i] = r[i-1] * base + s[i]
  BY <1>1 DEF Reads
<1>3. PICK t : t = Append(s, x)
  OBVIOUS
<1>4. Len(t) = n + 1 /\ t[n+1] = x /\ \A i \in 1..n : t[i] = s[i]
  BY <1>1, <1>3
<1>5. PICK w \in Nat : w = v * base + x
  <2>1. v \in Nat
    BY <1>1, ReadsNat
  <2>2. v * base \in Nat
    BY ONLY <2>1, base \in Nat
  <2> QED
    BY <2>2
<1> DEFINE more == [i \in 0..n+1 |-> IF i = n + 1 THEN w ELSE r[i]]
<1>6. more \in [0..n+1 -> Nat]
  <2> SUFFICES ASSUME NEW i \in 0..n+1, i # n + 1 PROVE r[i] \in Nat
    BY <1>5
  <2>1. i \in 0..n
    OBVIOUS
  <2> QED
    BY <1>2, <2>1
<1>7. more[0] = u /\ more[n+1] = w /\ \A i \in 0..n : more[i] = r[i]
  <2>1. \A i \in 0..n : i \in 0..n+1 /\ i # n + 1
    OBVIOUS
  <2>2. 0 \in 0..n /\ n + 1 \in 0..n+1
    OBVIOUS
  <2> QED
    BY <1>2, <2>1, <2>2
<1> HIDE DEF more
<1>8. \A i \in 1..n+1 : more[i] = more[i-1] * base + t[i]
  <2> TAKE i \in 1..n+1
  <2>1. CASE i = n + 1
    <3>1. i - 1 = n /\ n \in 0..n
      BY <2>1
    <3>2. more[i-1] = v
      BY <1>2, <1>7, <3>1
    <3> QED
      BY <1>4, <1>5, <1>7, <2>1, <3>2
  <2>2. CASE i # n + 1
    <3>1. i \in 1..n /\ i \in 0..n /\ i - 1 \in 0..n
      BY <2>2
    <3> QED
      BY <1>2, <1>4, <1>7, <3>1
  <2> QED
    BY <2>1, <2>2
<1>9. Reads(t, base, u, w)
  BY <1>4, <1>6, <1>7, <1>8 DEF Reads
<1> QED
  BY <1>3, <1>5, <1>9

(* One digit more at the front.                                            *)
LEMMA ReadsCons ==
  ASSUME NEW base \in Nat, NEW s \in Seq(Nat), NEW u \in Nat, NEW x \in Nat, NEW v,
         Reads(s, base, u * base + x, v), NEW t \in Seq(Nat), Len(t) = Len(s) + 1, t[1] = x,
         \A i \in 1..Len(s) : t[i+1] = s[i]
  PROVE  Reads(t, base, u, v)
<1>1. PICK n \in Nat : n = Len(s)
  OBVIOUS
<1>2. PICK r \in [0..n -> Nat] : /\ r[0] = u * base + x /\ r[n] = v
                                 /\ \A i \in 1..n : r[i] = r[i-1] * base + s[i]
  BY <1>1 DEF Reads
<1> DEFINE more == [i \in 0..n+1 |-> IF i = 0 THEN u ELSE r[i-1]]
<1>3. more \in [0..n+1 -> Nat]
  <2> SUFFICES ASSUME NEW i \in 0..n+1, i # 0 PROVE r[i-1] \in Nat
    OBVIOUS
  <2>1. i - 1 \in 0..n
    OBVIOUS
  <2> QED
    BY <1>2, <2>1
<1>4. more[0] = u /\ \A i \in 0..n : more[i+1] = r[i]
  <2>1. \A i \in 0..n : i + 1 \in 0..n+1 /\ i + 1 # 0 /\ (i + 1) - 1 = i
    OBVIOUS
  <2>2. 0 \in 0..n+1
    OBVIOUS
  <2> QED
    BY <2>1, <2>2
<1> HIDE DEF more
<1>5. more[n+1] = v
  <2>1. n \in 0..n
    OBVIOUS
  <2> QED
    BY <1>2, <1>4, <2>1
<1>6. \A i \in 1..n+1 : more[i] = more[i-1] * base + t[i]
  <2> TAKE i \in 1..n+1
  <2>1. PICK j \in 0..n : i = j + 1 /\ i - 1 = j
    <3>1. i - 1 \in 0..n /\ i = (i - 1) + 1
      OBVIOUS
    <3> QED
      BY <3>1
  <2>2. more[i] = r[j]
    BY <1>4, <2>1
  <2>3. CASE j = 0
    BY <1>2, <1>4, <2>1, <2>2, <2>3
  <2>4. CASE j # 0
    <3>1. PICK k \in 0..n : j = k + 1 /\ j - 1 = k /\ j \in 1..n
      <4>1. j - 1 \in 0..n /\ j = (j - 1) + 1 /\ j \in 1..n
        BY <2>4
      <4> QED
        BY <4>1
    <3>2. more[j] = r[k]
      BY <1>4, <3>1
    <3>3. r[j] = r[k] * base + s[j] /\ t[i] = s[j]
      BY <1>1, <1>2, <2>1, <3>1
    <3> QED
      BY <2>1, <2>2, <3>2, <3>3
  <2> QED
    BY <2>3, <2>4
<1>7. Len(t) = n + 1
  BY <1>1
<1> QED
  BY <1>3, <1>4, <1>5, <1>6, <1>7 DEF Reads

(* Leading zeros do not count.                                             *)
LEMMA ReadsZeros ==
  ASSUME NEW base \in Nat, NEW c \in Seq(Nat), NEW v, Reads(c, base, 0, v), NEW z \in Nat,
         NEW t \in Seq(Nat), Len(t) = z + Len(c), \A i \in 1..z : t[i] = 0,
         \A i \in 1..Len(c) : t[z+i] = c[i]
  PROVE  Reads(t, base, 0, v)
<1>1. PICK n \in Nat : n = Len(c)
  OBVIOUS
<1>2. PICK r \in [0..n -> Nat] : /\ r[0] = 0 /\ r[n] = v
                                 /\ \A i \in 1..n : r[i] = r[i-1] * base + c[i]
  BY <1>1 DEF Reads
<1> DEFINE more == [i \in 0..z+n |-> IF i <= z THEN 0 ELSE r[i-z]]
<1>3. more \in [0..z+n -> Nat]
  <2> SUFFICES ASSUME NEW i \in 0..z+n, ~(i <= z) PROVE r[i-z] \in Nat
    OBVIOUS
  <2>1. i - z \in 0..n
    OBVIOUS
  <2> QED
    BY <1>2, <2>1
<1>4. (\A i \in 0..z : more[i] = 0) /\ \A j \in 0..n : more[z+j] = r[j]
  <2>1. \A i \in 0..z : more[i] = 0
    OBVIOUS
  <2>2. ASSUME NEW j \in 0..n PROVE more[z+j] = r[j]
    <3>1. CASE j = 0
      BY <1>2, <3>1
    <3>2. CASE j # 0
      <4>1. z + j \in 0..z+n /\ ~(z + j <= z) /\ (z + j) - z = j
        BY <3>2
      <4> QED
        BY <4>1
    <3> QED
      BY <3>1, <3>2
  <2> HIDE DEF more
  <2> QED
    BY <2>1, <2>2
<1> HIDE DEF more
<1>5. \A i \in 1..z+n : more[i] = more[i-1] * base + t[i]
  <2> TAKE i \in 1..z+n
  <2>1. CASE i <= z
    <3>1. i \in 1..z /\ i \in 0..z /\ i - 1 \in 0..z
      BY <2>1
    <3>2. more[i] = 0 /\ more[i-1] = 0 /\ t[i] = 0
      BY <1>4, <3>1
    <3> QED
      BY <3>2
  <2>2. CASE ~(i <= z)
    <3>1. PICK j \in 1..n : i = z + j
      <4>1. i - z \in 1..n /\ i = z + (i - z)
        BY <2>2
      <4> QED
        BY <4>1
    <3>2. PICK k \in 0..n : j - 1 = k /\ i - 1 = z + k
      <4>1. j - 1 \in 0..n /\ i - 1 = z + (j - 1)
        BY <3>1
      <4> QED
        BY <4>1
    <3>3. more[i] = r[j] /\ more[i-1] = r[k] /\ t[i] = c[j]
      BY <1>1, <1>4, <3>1, <3>2
    <3> QED
      BY <1>2, <3>2, <3>3
  <2> QED
    BY <2>1, <2>2
<1>6. more[0] = 0 /\ more[z+n] = v /\ Len(t) = z + n
  <2>1. 0 \in 0..z /\ n \in 0..n
    OBVIOUS
  <2> QED
    BY <1>1, <1>2, <1>4, <2>1
<1> QED
  BY <1>3, <1>5, <1>6 DEF Reads

(* Every sequence of digits can be read.                                   *)
LEMMA ReadsSomething ==
  ASSUME NEW base \in Nat, NEW s \in Seq(Nat)
  PROVE  \E v \in Nat : Reads(s, base, 0, v)
<1> DEFINE Bad == {n \in Nat : \E t \in Seq(Nat) :
                     Len(t) = n /\ ~ \E v \in Nat : Reads(t, base, 0, v)}
<1> SUFFICES ASSUME Bad # {} PROVE FALSE
  OBVIOUS
<1>1. PICK n \in Bad : \A m \in Bad : n <= m
  <2>1. Bad \subseteq Nat
    OBVIOUS
  <2> HIDE DEF Bad
  <2> QED
    BY <2>1, NatMin
<1>2. PICK t \in Seq(Nat) : Len(t) = n /\ ~ \E v \in Nat : Reads(t, base, 0, v)
  BY <1>1
<1>3. n \in Nat /\ n # 0
  BY <1>1, <1>2, ReadsNothing
<1>4. PICK l \in Nat : n = l + 1 /\ ~(n <= l)
  <2>1. n - 1 \in Nat /\ n = (n - 1) + 1 /\ ~(n <= n - 1)
    BY <1>3
  <2> QED
    BY <2>1
<1>5. PICK f : f = SubSeq(t, 1, l)
  OBVIOUS
<1>6. f \in Seq(Nat) /\ Len(f) = l /\ t = Append(f, t[n]) /\ t[n] \in Nat
  <2>1. f \in Seq(Nat) /\ Len(f) = l /\ t[n] \in Nat
    BY <1>2, <1>3, <1>4, <1>5
  <2>2. t = Append(f, t[n])
    BY <1>2, <1>3, <1>4, <1>5
  <2> QED
    BY <2>1, <2>2
<1>7. l \notin Bad
  BY <1>1, <1>4
<1>8. PICK v \in Nat : Reads(f, base, 0, v)
  BY <1>6, <1>7
<1>9. PICK x \in Nat : x = t[n] /\ t = Append(f, x)
  BY <1>6
<1>10. Reads(Append(f, x), base, 0, v * base + x)
  BY <1>6, <1>8, ReadsAppend
<1>11. Reads(t, base, 0, v * base + x) /\ v * base + x \in Nat
  <2>1. v * base \in Nat
    BY ONLY v \in Nat, base \in Nat
  <2>2. PICK w \in Nat : w = v * base
    BY <2>1
  <2>3. w + x \in Nat
    BY ONLY w \in Nat, x \in Nat
  <2> QED
    BY <1>9, <1>10, <2>2, <2>3, Zenon
<1> QED
  BY <1>2, <1>11

\* What is read from the first i of the n digits s, from nothing on, is r[i].
Reading(r, base, s, n) ==
  /\ n = Len(s) /\ r[0] = 0
  /\ \A i \in 1..n : r[i] = r[i-1] * base + s[i]

(* What begins with a digit that is not zero does not become zero.         *)
LEMMA ReadsNonzero ==
  ASSUME NEW base \in Nat \ {0}, NEW s \in Seq(Nat), Proper(s), NEW n \in Nat,
         NEW r \in [0..n -> Nat], Reading(r, base, s, n)
  PROVE  \A i \in 1..n : r[i] # 0
<1>1. n = Len(s) /\ r[0] = 0
  BY DEF Reading
<1>2. \A i \in 1..n : r[i] = r[i-1] * base + s[i] /\ s[i] \in Nat
  BY DEF Reading
<1> DEFINE Bad == {i \in 1..n : r[i] = 0}
<1>3. Bad = {}
  <2> SUFFICES ASSUME Bad # {} PROVE FALSE
    OBVIOUS
  <2>1. PICK i \in Bad : \A j \in Bad : i <= j
    <3>1. Bad \subseteq Nat
      OBVIOUS
    <3> HIDE DEF Bad
    <3> QED
      BY <3>1, NatMin
  <2>2. i \in 1..n /\ r[i] = 0 /\ s[i] \in Nat
    BY <1>2, <2>1
  <2>3. CASE i = 1
    <3>1. r[1] = 0 * base + s[1] /\ s[1] # 0
      BY <1>1, <1>2, <2>2, <2>3 DEF Proper
    <3> QED
      BY <2>2, <2>3, <3>1
  <2>4. CASE i # 1
    <3>1. PICK j \in 1..n : j = i - 1 /\ ~(i <= j)
      <4>1. i - 1 \in 1..n /\ ~(i <= i - 1)
        BY <2>2, <2>4
      <4> QED
        BY <4>1
    <3>2. r[j] \in Nat /\ r[j] # 0
      <4>1. j \in 0..n
        OBVIOUS
      <4>2. r[j] \in Nat
        BY ONLY <4>1, r \in [0..n -> Nat]
      <4>3. r[j] # 0
        BY <2>1, <3>1
      <4> QED
        BY <4>2, <4>3
    <3>3. PICK m \in Nat : m = r[j] /\ m # 0
      BY <3>2
    <3>4. m * base \in Nat /\ m * base # 0
      BY ONLY <3>3, m \in Nat, base \in Nat \ {0}
    <3>5. r[i] = m * base + s[i]
      BY <1>2, <2>2, <3>1, <3>3
    <3>6. PICK k \in Nat : k = m * base /\ k # 0
      BY <3>4
    <3> QED
      BY <2>2, <3>5, <3>6
  <2> QED
    BY <2>3, <2>4
<1> QED
  BY <1>3

(* A number with a leading digit is not zero.                              *)
LEMMA ReadsPositive ==
  ASSUME NEW base \in Nat \ {0}, NEW s \in Seq(Nat), NEW v, Reads(s, base, 0, v), Proper(s),
         s # <<>>
  PROVE  v # 0
<1>1. PICK n \in Nat : n = Len(s) /\ n # 0
  OBVIOUS
<1>2. PICK r \in [0..n -> Nat] : Reading(r, base, s, n) /\ r[n] = v
  BY <1>1 DEF Reads, Reading
<1>3. \A i \in 1..n : r[i] # 0
  BY <1>2, ReadsNonzero, Zenon
<1>4. n \in 1..n
  BY <1>1
<1> QED
  BY <1>2, <1>3, <1>4

(* A digit and what is before it are told by the number they make.         *)
LEMMA ReadQuotient ==
  ASSUME NEW base \in Nat \ {0}, NEW x \in Nat, NEW y \in Nat, NEW a \in 0..base-1,
         NEW b \in 0..base-1, x * base + a = y * base + b
  PROVE  x = y /\ a = b
<1>1. ASSUME NEW p \in Nat, NEW q \in Nat, p < q PROVE p * base + base <= q * base
  <2>1. PICK d \in Nat : q = (p + 1) + d
    <3>1. q - (p + 1) \in Nat /\ q = (p + 1) + (q - (p + 1))
      BY <1>1
    <3> QED
      BY <3>1
  <2>2. q * base = (p * base + base) + d * base
    BY <2>1
  <2>3. d * base \in Nat /\ p * base \in Nat
    BY ONLY d \in Nat, p \in Nat, base \in Nat \ {0}
  <2>4. PICK i, j, k \in Nat : i = d * base /\ j = p * base /\ k = q * base
    <3>1. q * base \in Nat
      BY ONLY q \in Nat, base \in Nat \ {0}
    <3> QED
      BY <2>3, <3>1
  <2>5. k = (j + base) + i
    BY <2>2, <2>4
  <2>6. j + base <= k
    BY <2>5
  <2> QED
    BY <2>4, <2>6
<1>2. PICK i, j \in Nat : i = x * base /\ j = y * base
  <2>1. x * base \in Nat /\ y * base \in Nat
    BY ONLY x \in Nat, y \in Nat, base \in Nat \ {0}
  <2> QED
    BY <2>1
<1>3. i + a = j + b
  BY <1>2
<1>4. ~(x < y)
  BY <1>1, <1>2, <1>3
<1>5. ~(y < x)
  BY <1>1, <1>2, <1>3
<1>6. x = y
  BY <1>4, <1>5
<1>7. i = j
  BY <1>2, <1>6
<1> QED
  BY <1>3, <1>6, <1>7

(* Two numbers without leading zeros that are equal have the same digits.  *)
LEMMA ReadsUnique ==
  ASSUME NEW base \in Nat \ {0}, NEW s \in Seq(0..base-1), NEW t \in Seq(0..base-1), NEW v,
         Reads(s, base, 0, v), Reads(t, base, 0, v), Proper(s), Proper(t)
  PROVE  s = t
<1>1. PICK n \in Nat : n = Len(s)
  OBVIOUS
<1>2. PICK m \in Nat : m = Len(t)
  OBVIOUS
<1>3. PICK f \in [0..n -> Nat] : /\ f[0] = 0 /\ f[n] = v
                                 /\ \A i \in 1..n : f[i] = f[i-1] * base + s[i]
  BY <1>1 DEF Reads
<1>4. PICK g \in [0..m -> Nat] : /\ g[0] = 0 /\ g[m] = v
                                 /\ \A i \in 1..m : g[i] = g[i-1] * base + t[i]
  BY <1>2 DEF Reads
<1>5. ASSUME NEW i \in 1..n, NEW j \in 1..m, f[i] = g[j]
      PROVE  f[i-1] = g[j-1] /\ s[i] = t[j]
  <2>1. PICK x, y \in Nat : x = f[i-1] /\ y = g[j-1]
    <3>1. i - 1 \in 0..n /\ j - 1 \in 0..m
      OBVIOUS
    <3> QED
      BY <1>3, <1>4, <3>1
  <2>2. PICK a, b \in 0..base-1 : a = s[i] /\ b = t[j]
    BY <1>1, <1>2
  <2>3. x * base + a = y * base + b
    BY <1>3, <1>4, <1>5, <2>1, <2>2
  <2>4. x = y /\ a = b
    BY ONLY <2>3, x \in Nat, y \in Nat, a \in 0..base-1, b \in 0..base-1,
       base \in Nat \ {0}, ReadQuotient
  <2> QED
    BY <2>1, <2>2, <2>4
<1> DEFINE Bad == {k \in Nat : k <= n /\ k <= m /\ f[n-k] # g[m-k]}
<1>6. Bad = {}
  <2> SUFFICES ASSUME Bad # {} PROVE FALSE
    OBVIOUS
  <2>1. PICK k \in Bad : \A l \in Bad : k <= l
    <3>1. Bad \subseteq Nat
      OBVIOUS
    <3> HIDE DEF Bad
    <3> QED
      BY <3>1, NatMin
  <2>2. k \in Nat /\ k <= n /\ k <= m /\ f[n-k] # g[m-k]
    BY <2>1
  <2>3. k # 0
    BY <1>3, <1>4, <2>2
  <2>4. PICK l \in Nat : k = l + 1 /\ ~(k <= l)
    <3>1. k - 1 \in Nat /\ k = (k - 1) + 1 /\ ~(k <= k - 1)
      BY <2>2, <2>3
    <3> QED
      BY <3>1
  <2>5. f[n-l] = g[m-l]
    <3>1. l <= n /\ l <= m
      BY <2>2, <2>4
    <3> QED
      BY <2>1, <2>4, <3>1
  <2>6. n - l \in 1..n /\ m - l \in 1..m /\ (n - l) - 1 = n - k /\ (m - l) - 1 = m - k
    BY <2>2, <2>4
  <2>7. f[(n - l) - 1] = g[(m - l) - 1]
    BY <1>5, <2>5, <2>6
  <2> QED
    BY <2>2, <2>6, <2>7
<1>7. \A i \in 1..n : f[i] # 0
  <2>1. s \in Seq(Nat) /\ Reading(f, base, s, n)
    BY <1>1, <1>3 DEF Reading
  <2> QED
    BY <2>1, ReadsNonzero, Zenon
<1>8. \A i \in 1..m : g[i] # 0
  <2>1. t \in Seq(Nat) /\ Reading(g, base, t, m)
    BY <1>2, <1>4 DEF Reading
  <2> QED
    BY <2>1, ReadsNonzero, Zenon
<1>9. n = m
  <2>1. CASE n < m
    <3>1. n \in Nat /\ n <= n /\ n <= m /\ n - n = 0 /\ m - n \in 1..m
      BY <2>1
    <3>2. f[n-n] = g[m-n]
      BY <1>6, <3>1
    <3> QED
      BY <1>3, <1>8, <3>1, <3>2
  <2>2. CASE m < n
    <3>1. m \in Nat /\ m <= m /\ m <= n /\ m - m = 0 /\ n - m \in 1..n
      BY <2>2
    <3>2. f[n-m] = g[m-m]
      BY <1>6, <3>1
    <3> QED
      BY <1>4, <1>7, <3>1, <3>2
  <2> QED
    BY <2>1, <2>2
<1>10. \A i \in 1..n : s[i] = t[i]
  <2> TAKE i \in 1..n
  <2>1. n - i \in Nat /\ n - i <= n /\ n - i <= m /\ n - (n - i) = i /\ m - (n - i) = i
    BY <1>9
  <2>2. f[n - (n - i)] = g[m - (n - i)]
    BY <1>6, <2>1
  <2>3. f[i] = g[i] /\ i \in 1..m
    BY <1>9, <2>1, <2>2
  <2> QED
    BY <1>5, <2>3
<1>11. s \in Seq(Nat) /\ t \in Seq(Nat) /\ Len(s) = Len(t)
  BY <1>1, <1>2, <1>9
<1>12. \A i \in 1..Len(s) : s[i] = t[i]
  BY <1>1, <1>10
<1> QED
  BY ONLY <1>11, <1>12, SeqEqual

DividedBy(acc, b, any) == A!DivideByte(acc, b)
DivideFold == INSTANCE Folding WITH Op <- DividedBy

\* The bytes read so far are divided by 58: what is read from them is v.
Division(acc, v) ==
  /\ acc.quotient \in Seq(0..255) /\ Proper(acc.quotient) /\ acc.rem \in 0..57
  /\ \E x \in Nat : Reads(acc.quotient, 256, 0, x) /\ v = 58 * x + acc.rem

(* Nothing but zero is read from no digits.                                *)
LEMMA ReadsZero ==
  ASSUME NEW base, NEW s, Len(s) = 0, NEW u, NEW v, Reads(s, base, u, v)
  PROVE  u = v
  BY DEF Reads

(* One byte more is divided (base58.cpp:20-25).                            *)
LEMMA DivideStep ==
  ASSUME NEW acc, NEW v, Division(acc, v), NEW b \in 0..255
  PROVE  /\ Division(A!DivideByte(acc, b), v * 256 + b)
         /\ Len(A!DivideByte(acc, b).quotient) <= Len(acc.quotient) + 1
         /\ acc.quotient # <<>> =>
              /\ A!DivideByte(acc, b).quotient # <<>>
              /\ A!DivideByte(acc, b).quotient[1] = acc.quotient[1]
<1>1. PICK q \in Seq(0..255), r \in 0..57 : q = acc.quotient /\ r = acc.rem /\ Proper(q)
  BY DEF Division
<1>2. PICK x \in Nat : Reads(q, 256, 0, x) /\ v = 58 * x + r
  BY <1>1 DEF Division
<1>3. PICK cur \in Nat : cur = r * 256 + b
  OBVIOUS
<1>4. cur % 58 \in 0..57 /\ cur \div 58 \in 0..255 /\ cur = 58 * (cur \div 58) + (cur % 58)
  <2>1. cur \in Int /\ 58 \in Nat \ {0}
    OBVIOUS
  <2>2. cur % 58 \in 0..57 /\ cur \div 58 \in Int /\ cur = 58 * (cur \div 58) + (cur % 58)
    BY <2>1, DivMod
  <2>3. cur <= 57 * 256 + 255
    BY <1>3
  <2>4. cur \div 58 \in 0..255
    BY <2>2, <2>3
  <2> QED
    BY <2>2, <2>4
<1>5. PICK d \in 0..255 : d = cur \div 58
  BY <1>4
<1>6. PICK m \in 0..57 : m = cur % 58
  BY <1>4
<1>7. d % 256 = d
  <2>1. d \in Nat /\ d < 256 /\ 256 \in Nat \ {0}
    OBVIOUS
  <2> QED
    BY <2>1, ModSmall
<1>8. A!DivideByte(acc, b)
        = [quotient |-> IF q # <<>> \/ d > 0 THEN Append(q, d) ELSE <<>>, rem |-> m]
  BY <1>1, <1>3, <1>7, <1>5, <1>6 DEF A!DivideByte
<1>9. v * 256 + b = 58 * (x * 256 + d) + m
  <2>1. cur = 58 * d + m
    BY <1>4, <1>5, <1>6
  <2> QED
    BY <1>2, <1>3, <2>1
<1>10. q \in Seq(Nat) /\ Len(q) \in Nat
  <2>1. 0..255 \subseteq Nat
    OBVIOUS
  <2> QED
    <3>1. q \in Seq(Nat)
      BY ONLY <2>1, q \in Seq(0..255), SeqMonotonic
    <3> QED
      BY <3>1
<1>11. CASE q # <<>> \/ d > 0
  <2>1. PICK t : t = Append(q, d)
    OBVIOUS
  <2>2. /\ t \in Seq(0..255) /\ Len(t) = Len(q) + 1 /\ t # <<>>
        /\ q # <<>> => t[1] = q[1]
        /\ q = <<>> => t[1] = d
    BY <2>1
  <2>3. Reads(t, 256, 0, x * 256 + d)
    <3>1. d \in Nat /\ 256 \in Nat
      OBVIOUS
    <3> QED
      BY <1>2, <1>10, <2>1, <3>1, ReadsAppend
  <2>4. Proper(t)
    BY <1>1, <1>11, <2>2 DEF Proper
  <2>5. A!DivideByte(acc, b) = [quotient |-> t, rem |-> m]
    BY <1>8, <1>11, <2>1
  <2>6. A!DivideByte(acc, b).quotient = t /\ A!DivideByte(acc, b).rem = m
    BY <2>5
  <2>7. x * 256 + d \in Nat
    OBVIOUS
  <2>8. Division(A!DivideByte(acc, b), v * 256 + b)
    BY <1>9, <2>2, <2>3, <2>4, <2>6, <2>7 DEF Division
  <2> QED
    BY <1>1, <2>2, <2>6, <2>8
<1>12. CASE q = <<>> /\ d = 0
  <2>1. x = 0
    BY <1>2, <1>12, ReadsZero
  <2>2. A!DivideByte(acc, b).quotient = q /\ A!DivideByte(acc, b).rem = m
    BY <1>8, <1>12
  <2>3. v * 256 + b = 58 * 0 + m
    BY <1>9, <1>12, <2>1
  <2>4. Division(A!DivideByte(acc, b), v * 256 + b)
    BY <1>1, <1>2, <2>1, <2>2, <2>3 DEF Division
  <2> QED
    BY <1>1, <1>10, <1>12, <2>2, <2>4
<1> QED
  BY <1>11, <1>12

\* What a division of the bytes from base on has made of the first i is h[i].
DivideFolded(h, base, s, n) ==
  /\ h[0] = base
  /\ \A i \in 1..n : h[i] = DividedBy(h[i-1], s[i], s)
  /\ DivideFold!Fold(base, s, s) = h[n]

(* A division takes one byte after the other.                              *)
LEMMA DividePlaces ==
  ASSUME NEW base, NEW s, NEW n \in Nat, DOMAIN s = 1..n
  PROVE  \E h : DivideFolded(h, base, s, n)
<1>1. \E h : /\ h[0] = base
             /\ \A i \in 1..n : h[i] = DividedBy(h[i-1], s[i], s)
             /\ DivideFold!Fold(base, s, s) = h[n]
  BY ONLY DivideFold!FoldPlaces, n \in Nat, DOMAIN s = 1..n
<1> QED
  BY <1>1, Zenon DEF DivideFolded

\* What is left to divide: how often it can be done.
Work(s) == IF s # <<>> /\ s[1] < 58 THEN 2 * Len(s) - 1 ELSE 2 * Len(s)

(* A division divides: two of them make the number a byte shorter          *)
(* (base58.cpp:17-28).                                                     *)
LEMMA DivideIs ==
  ASSUME NEW s \in Seq(0..255), s # <<>>, NEW v, Reads(s, 256, 0, v)
  PROVE  Division(A!Divide(s), v) /\ Work(A!Divide(s).quotient) < Work(s)
<1>1. PICK n \in Nat \ {0} : n = Len(s) /\ DOMAIN s = 1..n
  OBVIOUS
<1>2. PICK r \in [0..n -> Nat] : /\ r[0] = 0 /\ r[n] = v
                                 /\ \A i \in 1..n : r[i] = r[i-1] * 256 + s[i]
  BY <1>1, Zenon DEF Reads
<1>3. PICK none : none = [quotient |-> <<>>, rem |-> 0]
  OBVIOUS
<1>4. A!Divide(s) = DivideFold!Fold(none, s, s)
  <2>1. A!Divide(s) = DivideFold!Fold([quotient |-> <<>>, rem |-> 0], s, s)
    BY DEF A!Divide, A!FoldLeft, A!MapThenFoldSet, DivideFold!Fold, DivideFold!Last, A!Max,
           DividedBy
  <2> QED
    BY <1>3, <2>1
<1>5. PICK h : /\ h[0] = none
               /\ \A i \in 1..n : h[i] = DividedBy(h[i-1], s[i], s)
               /\ DivideFold!Fold(none, s, s) = h[n]
  <2>1. n \in Nat /\ DOMAIN s = 1..n
    BY <1>1
  <2>2. \E h : DivideFolded(h, none, s, n)
    BY <2>1, DividePlaces, Zenon
  <2> QED
    BY <2>2, Zenon DEF DivideFolded
<1>6. \A i \in 1..n : h[i] = A!DivideByte(h[i-1], s[i]) /\ s[i] \in 0..255 /\ i - 1 \in 0..n
  BY <1>1, <1>5 DEF DividedBy
<1>7. none.quotient = <<>> /\ none.rem = 0
  BY <1>3
<1>8. Division(none, 0)
  <2>1. PICK q : q = none.quotient
    OBVIOUS
  <2>2. q \in Seq(0..255) /\ Proper(q) /\ Len(q) = 0
    BY <1>7, <2>1 DEF Proper
  <2>3. Reads(q, 256, 0, 0)
    BY <2>2, ReadsNothing
  <2>4. 0 \in Nat /\ 0 = 58 * 0 + 0 /\ 0 \in 0..57
    OBVIOUS
  <2> QED
    BY <1>7, <2>1, <2>2, <2>3, <2>4 DEF Division
<1> DEFINE Short(i) == Len(h[i].quotient) <= i
           After(i) == IF s[1] < 58 THEN Len(h[i].quotient) <= i - 1
                       ELSE h[i].quotient # <<>> /\ h[i].quotient[1] < 58
           Good(i) == Division(h[i], r[i]) /\ Short(i) /\ (i # 0 => After(i))
           Bad == {i \in 0..n : ~Good(i)}
<1>9. Good(0)
  BY <1>2, <1>5, <1>7, <1>8
<1>10. Good(1)
  <2>1. PICK b \in 0..255 : b = s[1] /\ h[1] = A!DivideByte(none, b)
    <3>1. 1 \in 1..n /\ 1 - 1 = 0
      OBVIOUS
    <3> QED
      BY <1>5, <1>6, <3>1
  <2>2. A!DivideByte(none, b)
          = [quotient |-> IF <<>> # <<>> \/ (0 * 256 + b) \div 58 > 0
                          THEN Append(<<>>, ((0 * 256 + b) \div 58) % 256) ELSE <<>>,
             rem |-> (0 * 256 + b) % 58]
    BY <1>7 DEF A!DivideByte
  <2>3. PICK d \in 0..4 : d = (0 * 256 + b) \div 58 /\ (d = 0 <=> b < 58)
    OBVIOUS
  <2>4. d % 256 = d
    <3>1. d \in Nat /\ d < 256 /\ 256 \in Nat \ {0}
      OBVIOUS
    <3> QED
      BY <3>1, ModSmall
  <2>5. A!DivideByte(none, b).quotient = IF d > 0 THEN Append(<<>>, d) ELSE <<>>
    BY <2>2, <2>3, <2>4
  <2>6. Append(<<>>, d) = <<d>> /\ Len(<<d>>) = 1 /\ <<d>>[1] = d /\ Len(<<>>) = 0
    OBVIOUS
  <2>7. Short(1) /\ After(1)
    BY <2>1, <2>3, <2>5, <2>6
  <2>8. Division(A!DivideByte(none, b), 0 * 256 + b)
    BY <1>8, DivideStep
  <2>9. r[1] = 0 * 256 + b
    <3>1. 1 \in 1..n /\ 1 - 1 = 0
      OBVIOUS
    <3> QED
      BY <1>2, <2>1, <3>1
  <2> QED
    BY <2>1, <2>7, <2>8, <2>9
<1>11. Bad = {}
  <2> SUFFICES ASSUME Bad # {} PROVE FALSE
    OBVIOUS
  <2>1. PICK i \in Bad : \A j \in Bad : i <= j
    <3>1. Bad \subseteq Nat
      OBVIOUS
    <3> HIDE DEF Bad
    <3> QED
      BY <3>1, NatMin
  <2>2. i \in 0..n /\ ~Good(i)
    BY <2>1
  <2>3. i # 0 /\ i # 1
    <3> HIDE DEF Good
    <3> QED
      BY <1>9, <1>10, <2>2
  <2>4. i \in 1..n /\ i - 1 \in 1..n /\ i - 1 # 0 /\ ~(i <= i - 1) /\ i - 1 \in 0..n
    BY <2>2, <2>3
  <2>5. Good(i - 1)
    <3> HIDE DEF Good
    <3> QED
      BY <2>1, <2>4
  <2>6. PICK acc : \E b \in 0..255 : acc = h[i-1] /\ b = s[i] /\ h[i] = A!DivideByte(acc, b)
    BY <1>6, <2>4
  <2> PICK b \in 0..255 : acc = h[i-1] /\ b = s[i] /\ h[i] = A!DivideByte(acc, b)
    BY <2>6
  <2>7. /\ Division(h[i], r[i-1] * 256 + b)
        /\ Len(h[i].quotient) <= Len(acc.quotient) + 1
        /\ acc.quotient # <<>> => /\ h[i].quotient # <<>>
                                  /\ h[i].quotient[1] = acc.quotient[1]
    <3>1. Division(acc, r[i-1])
      BY <2>5, <2>6
    <3>2. PICK w : w = r[i-1]
      OBVIOUS
    <3>3. PICK t : t = h[i]
      OBVIOUS
    <3>4. t = A!DivideByte(acc, b) /\ Division(acc, w)
      BY <2>6, <3>1, <3>2, <3>3
    <3>5. /\ Division(t, w * 256 + b)
          /\ Len(t.quotient) <= Len(acc.quotient) + 1
          /\ acc.quotient # <<>> => t.quotient # <<>> /\ t.quotient[1] = acc.quotient[1]
      <4>1. /\ Division(A!DivideByte(acc, b), w * 256 + b)
            /\ Len(A!DivideByte(acc, b).quotient) <= Len(acc.quotient) + 1
            /\ acc.quotient # <<>> => /\ A!DivideByte(acc, b).quotient # <<>>
                                      /\ A!DivideByte(acc, b).quotient[1] = acc.quotient[1]
        BY ONLY <3>4, b \in 0..255, DivideStep, Zenon
      <4> QED
        BY ONLY <3>4, <4>1, Zenon
    <3> HIDE DEF Good
    <3> QED
      BY <3>2, <3>3, <3>5
  <2>8. r[i] = r[i-1] * 256 + b
    BY <1>2, <2>4, <2>6
  <2>9. acc.quotient \in Seq(0..255) /\ h[i].quotient \in Seq(0..255)
    BY <2>5, <2>6, <2>7 DEF Division
  <2>10. Len(acc.quotient) \in Nat /\ Len(h[i].quotient) \in Nat
    BY <2>9, SMTT(30)
  <2>11. PICK l \in Nat : \E m \in Nat : l = Len(acc.quotient) /\ m = Len(h[i].quotient)
    BY <2>10
  <2> PICK m \in Nat : l = Len(acc.quotient) /\ m = Len(h[i].quotient)
    BY <2>11
  <2>12. /\ l <= i - 1 /\ m <= l + 1
         /\ IF s[1] < 58 THEN l <= (i - 1) - 1
            ELSE acc.quotient # <<>> /\ acc.quotient[1] < 58
    BY <2>4, <2>5, <2>6, <2>7, <2>11
  <2>13. m <= i /\ (s[1] < 58 => m <= i - 1)
    <3>1. PICK k \in Int : k = i
      BY <2>2
    <3>2. l <= k - 1 /\ m <= l + 1 /\ (s[1] < 58 => l <= (k - 1) - 1)
      BY <2>12, <3>1
    <3>3. m <= k /\ (s[1] < 58 => m <= k - 1)
      BY ONLY <3>2, k \in Int, l \in Nat, m \in Nat
    <3> QED
      BY <3>1, <3>3
  <2>14. ~(s[1] < 58) => h[i].quotient # <<>> /\ h[i].quotient[1] < 58
    BY <2>7, <2>12, Zenon
  <2>15. Short(i) /\ After(i)
    BY <2>13, <2>14, Zenon
  <2> QED
    BY <2>2, <2>7, <2>8, <2>15
<1>12. Good(n)
  <2> HIDE DEF Good
  <2> QED
    BY <1>11
<1>13. A!Divide(s) = h[n]
  BY <1>4, <1>5
<1>14. Division(A!Divide(s), v)
  BY <1>2, <1>12, <1>13
<1>15. PICK q \in Seq(0..255) : q = A!Divide(s).quotient
  BY <1>14 DEF Division
<1>16. Len(q) <= n /\ (IF s[1] < 58 THEN Len(q) <= n - 1 ELSE q # <<>> /\ q[1] < 58)
  BY <1>12, <1>13, <1>15
<1>17. Work(q) < Work(s)
  <2>1. Len(q) \in Nat /\ Len(s) = n /\ s # <<>>
    BY <1>1
  <2> QED
    BY <1>16, <2>1 DEF Work
<1> QED
  BY <1>14, <1>15, <1>17

(* What is left can be divided while there is something left.              *)
LEMMA WorkLeft ==
  ASSUME NEW s \in Seq(0..255)
  PROVE  Work(s) \in Nat /\ (Work(s) = 0 <=> s = <<>>) /\ Work(s) <= 2 * Len(s)
<1>1. PICK n \in Nat : n = Len(s) /\ (n = 0 <=> s = <<>>)
  OBVIOUS
<1>2. Work(s) = 2 * n - 1 \/ Work(s) = 2 * n
  BY <1>1 DEF Work
<1>3. n = 0 => Work(s) = 0
  BY <1>1 DEF Work
<1> QED
  BY <1>1, <1>2, <1>3

DividedAgain(acc, n, any) == A!NextDigit(acc, n)
DigitFold == INSTANCE Folding WITH Op <- DividedAgain

\* The digits so far, and what is left, are those of total, read from data.
Dividing(acc, data, total) ==
  /\ acc.left \in Seq(0..255) /\ acc.digits \in Seq(0..57)
  /\ acc.digits = <<>> => acc.left = data
  /\ \E v \in Nat :
       /\ Reads(acc.left, 256, 0, v) /\ Reads(acc.digits, 58, v, total)
       /\ acc.digits # <<>> =>
            /\ Proper(acc.left) /\ v <= total
            /\ v = 0 => IF total = 0 THEN acc.digits = <<0>> ELSE acc.digits[1] # 0

(* One digit more leaves less to divide (base58.cpp:17-28).                *)
LEMMA DigitStep ==
  ASSUME NEW acc, NEW data, NEW total \in Nat, Dividing(acc, data, total), NEW n
  PROVE  /\ Dividing(A!NextDigit(acc, n), data, total)
         /\ acc.left = <<>> => A!NextDigit(acc, n).left = <<>>
         /\ acc.left # <<>> => Work(A!NextDigit(acc, n).left) < Work(acc.left)
<1>1. CASE acc.left = <<>>
  <2>1. A!NextDigit(acc, n) = acc
    BY <1>1 DEF A!NextDigit
  <2> QED
    BY <1>1, <2>1
<1>2. CASE acc.left # <<>>
  <2>1. PICK left \in Seq(0..255) : left = acc.left
    BY DEF Dividing
  <2>2. PICK digits \in Seq(0..57) : digits = acc.digits
    BY DEF Dividing
  <2>3. PICK v \in Nat :
          /\ Reads(left, 256, 0, v) /\ Reads(digits, 58, v, total)
          /\ digits # <<>> =>
               /\ Proper(left) /\ v <= total
               /\ v = 0 => IF total = 0 THEN digits = <<0>> ELSE digits[1] # 0
    BY <2>1, <2>2 DEF Dividing
  <2>4. PICK d : d = A!Divide(left)
    OBVIOUS
  <2>5. left # <<>>
    BY <1>2, <2>1
  <2>6. Division(d, v) /\ Work(d.quotient) < Work(left)
    BY <2>3, <2>4, <2>5, DivideIs
  <2>7. PICK q \in Seq(0..255) : q = d.quotient
    BY <2>6 DEF Division
  <2>8. PICK m \in 0..57 : m = d.rem
    BY <2>6 DEF Division
  <2>9. PICK x \in Nat : Reads(q, 256, 0, x) /\ v = 58 * x + m
    BY <2>6, <2>7, <2>8 DEF Division
  <2>10. Proper(q)
    BY <2>6, <2>7 DEF Division
  <2>11. PICK more : more = <<m>> \o digits
    OBVIOUS
  <2>12. A!NextDigit(acc, n).left = q /\ A!NextDigit(acc, n).digits = more
    <3>1. A!NextDigit(acc, n) = [left |-> d.quotient, digits |-> A!Cons(d.rem, digits)]
      BY <1>2, <2>1, <2>2, <2>4 DEF A!NextDigit
    <3>2. A!Cons(d.rem, digits) = more
      BY <2>8, <2>11 DEF A!Cons
    <3> QED
      BY <2>7, <3>1, <3>2
  <2>13. /\ more \in Seq(0..57) /\ Len(more) = Len(digits) + 1 /\ more # <<>> /\ more[1] = m
         /\ \A i \in 1..Len(digits) : more[i+1] = digits[i]
    BY <2>11
  <2>14. Reads(more, 58, x, total)
    <3>1. v = x * 58 + m
      BY <2>9
    <3>2. digits \in Seq(Nat) /\ more \in Seq(Nat)
      <4>1. 0..57 \subseteq Nat
        OBVIOUS
      <4> QED
        BY ONLY <2>13, <4>1, digits \in Seq(0..57), SeqMonotonic
    <3>3. Reads(digits, 58, x * 58 + m, total)
      BY <2>3, <3>1
    <3>4. m \in Nat /\ 58 \in Nat
      OBVIOUS
    <3> QED
      BY ONLY <2>13, <3>2, <3>3, <3>4, x \in Nat, ReadsCons
  <2>15. x <= total
    <3>1. x <= v
      BY <2>9
    <3>2. v <= total
      <4>1. CASE digits = <<>>
        <5>1. Len(digits) = 0
          BY <4>1
        <5> QED
          BY <2>3, <5>1, ReadsZero
      <4> QED
        BY <2>3, <4>1
    <3> QED
      BY <3>1, <3>2
  <2>16. ASSUME x = 0
         PROVE  IF total = 0 THEN more = <<0>> ELSE more[1] # 0
    <3>1. v = m
      BY <2>9, <2>16
    <3>2. CASE digits = <<>>
      <4>1. Len(digits) = 0
        BY <3>2
      <4>2. v = total
        BY <2>3, <4>1, ReadsZero
      <4>3. more = <<m>>
        BY <2>11, <3>2
      <4> QED
        BY <2>13, <3>1, <4>2, <4>3
    <3>3. CASE digits # <<>>
      <4>1. left \in Seq(Nat) /\ 256 \in Nat \ {0}
        <5>1. 0..255 \subseteq Nat
          OBVIOUS
        <5>2. left \in Seq(Nat)
          BY ONLY <5>1, left \in Seq(0..255), SeqMonotonic
        <5> QED
          BY <5>2
      <4>2. Proper(left)
        BY <2>3, <3>3
      <4>3. v # 0
        BY ONLY <2>3, <2>5, <4>1, <4>2, ReadsPositive
      <4>4. total # 0
        BY <2>3, <3>3, <4>3
      <4> QED
        BY <2>13, <3>1, <4>3, <4>4
    <3> QED
      BY <3>2, <3>3
  <2>17. Dividing(A!NextDigit(acc, n), data, total)
    BY <2>7, <2>9, <2>10, <2>12, <2>13, <2>14, <2>15, <2>16, SMTT(30) DEF Dividing
  <2>18. Work(A!NextDigit(acc, n).left) < Work(acc.left)
    BY <2>1, <2>6, <2>7, <2>12
  <2> QED
    BY <1>2, <2>17, <2>18
<1> QED
  BY <1>1, <1>2

(* One digit is made after the other.                                      *)
LEMMA DigitPlaces ==
  ASSUME NEW base, NEW s, NEW n \in Nat, DOMAIN s = 1..n
  PROVE  \E h : /\ h[0] = base
                /\ \A i \in 1..n : h[i] = DividedAgain(h[i-1], s[i], s)
                /\ DigitFold!Fold(base, s, s) = h[n]
  BY ONLY DigitFold!FoldPlaces, n \in Nat, DOMAIN s = 1..n

(* Two divisions for each byte are enough: the digits are those of the     *)
(* number that the bytes are, zero has one (base58.cpp:14-28).             *)
LEMMA DigitsAre ==
  ASSUME NEW data \in Seq(0..255), data # <<>>, NEW total \in Nat, Reads(data, 256, 0, total)
  PROVE  /\ A!Digits(data) \in Seq(0..57) /\ Reads(A!Digits(data), 58, 0, total)
         /\ IF total = 0 THEN A!Digits(data) = <<0>> ELSE Proper(A!Digits(data))
<1>1. PICK n \in Nat : n = 2 * Len(data)
  <2>1. Len(data) \in Nat
    OBVIOUS
  <2> QED
    BY <2>1
<1>2. PICK zeros : zeros = A!Zeros(n) /\ DOMAIN zeros = 1..n
  <2>1. A!Zeros(n) = [i \in 1..n |-> 0]
    BY DEF A!Zeros
  <2> QED
    BY <2>1
<1>3. PICK all : all = [left |-> data, digits |-> <<>>]
  OBVIOUS
<1>4. A!Digits(data) = DigitFold!Fold(all, zeros, zeros).digits
  <2>1. A!Digits(data)
          = DigitFold!Fold([left |-> data, digits |-> <<>>], A!Zeros(2 * Len(data)),
                           A!Zeros(2 * Len(data))).digits
    BY DEF A!Digits, A!FoldLeft, A!MapThenFoldSet, DigitFold!Fold, DigitFold!Last, A!Max,
           DividedAgain
  <2> QED
    BY <1>1, <1>2, <1>3, <2>1
<1>5. PICK h : /\ h[0] = all
               /\ \A i \in 1..n : h[i] = DividedAgain(h[i-1], zeros[i], zeros)
               /\ DigitFold!Fold(all, zeros, zeros) = h[n]
  BY ONLY <1>2, n \in Nat, DigitPlaces
<1>6. all.left = data /\ all.digits = <<>>
  BY <1>3
<1>7. Dividing(all, data, total)
  <2>1. PICK none : none = all.digits
    OBVIOUS
  <2>2. none \in Seq(0..57) /\ none = <<>> /\ Len(none) = 0
    BY <1>6, <2>1
  <2>3. Reads(none, 58, total, total)
    BY <2>2, ReadsNothing
  <2> QED
    BY <1>6, <2>1, <2>2, <2>3 DEF Dividing
<1> DEFINE Enough(i) == h[i].left = <<>> \/ Work(h[i].left) + i <= n
           Good(i) == Dividing(h[i], data, total) /\ Enough(i)
           Bad == {i \in 0..n : ~Good(i)}
<1>8. Good(0)
  <2>1. Work(data) \in Nat /\ Work(data) <= 2 * Len(data)
    BY WorkLeft
  <2> QED
    BY <1>1, <1>5, <1>6, <1>7, <2>1
<1>9. Bad = {}
  <2> SUFFICES ASSUME Bad # {} PROVE FALSE
    OBVIOUS
  <2>1. PICK i \in Bad : \A j \in Bad : i <= j
    <3>1. Bad \subseteq Nat
      OBVIOUS
    <3> HIDE DEF Bad
    <3> QED
      BY <3>1, NatMin
  <2>2. i \in 0..n /\ ~Good(i)
    BY <2>1
  <2>3. i # 0
    <3> HIDE DEF Good
    <3> QED
      BY <1>8, <2>2
  <2>4. i \in 1..n /\ i - 1 \in 0..n /\ ~(i <= i - 1)
    BY <2>2, <2>3
  <2>5. Good(i - 1)
    <3> HIDE DEF Good
    <3> QED
      BY <2>1, <2>4
  <2>6. PICK acc : acc = h[i-1] /\ Dividing(acc, data, total)
    BY <2>5
  <2>7. PICK t, zero : t = h[i] /\ t = A!NextDigit(acc, zero)
    BY <1>5, <2>4, <2>6 DEF DividedAgain
  <2>8. /\ Dividing(t, data, total)
        /\ acc.left = <<>> => t.left = <<>>
        /\ acc.left # <<>> => Work(t.left) < Work(acc.left)
    BY ONLY <2>6, <2>7, total \in Nat, DigitStep
  <2>9. acc.left \in Seq(0..255) /\ t.left \in Seq(0..255)
    BY <2>6, <2>8 DEF Dividing
  <2>10. Work(acc.left) \in Nat /\ Work(t.left) \in Nat
    BY <2>9, WorkLeft
  <2>11. acc.left = <<>> \/ Work(acc.left) + (i - 1) <= n
    BY <2>5, <2>6
  <2>12. t.left = <<>> \/ Work(t.left) + i <= n
    BY <2>4, <2>8, <2>10, <2>11
  <2> QED
    BY <2>2, <2>7, <2>8, <2>12
<1>10. Good(n)
  <2> HIDE DEF Good
  <2> QED
    BY <1>9
<1>11. PICK end : end = h[n] /\ Dividing(end, data, total) /\ A!Digits(data) = end.digits
  BY <1>4, <1>5, <1>10
<1>12. end.left = <<>>
  <2>1. end.left \in Seq(0..255)
    BY <1>11 DEF Dividing
  <2>2. Work(end.left) \in Nat /\ (Work(end.left) = 0 <=> end.left = <<>>)
    BY <2>1, WorkLeft
  <2>3. end.left = <<>> \/ Work(end.left) + n <= n
    BY <1>10, <1>11
  <2> QED
    BY <2>2, <2>3
<1>13. end.digits # <<>>
  BY <1>11, <1>12 DEF Dividing
<1>14. PICK v \in Nat :
         /\ Reads(end.left, 256, 0, v) /\ Reads(end.digits, 58, v, total)
         /\ v = 0 => IF total = 0 THEN end.digits = <<0>> ELSE end.digits[1] # 0
  BY <1>11, <1>13 DEF Dividing
<1>15. v = 0
  <2>1. Len(end.left) = 0
    BY <1>12
  <2> QED
    BY <1>14, <2>1, ReadsZero
<1>16. end.digits \in Seq(0..57)
  BY <1>11 DEF Dividing
<1> QED
  BY <1>11, <1>14, <1>15, <1>16 DEF Proper

(* One byte more is put before the others.                                 *)
LEMMA ByteBefore ==
  ASSUME NEW bytes \in Seq(0..255), NEW u \in Nat, NEW m \in 0..255, NEW total,
         Reads(bytes, 256, u * 256 + m, total)
  PROVE  Reads(<<m>> \o bytes, 256, u, total)
<1>1. PICK more : more = <<m>> \o bytes
  OBVIOUS
<1>2. PICK base \in Nat : base = 256
  OBVIOUS
<1>3. Reads(bytes, base, u * base + m, total)
  BY <1>2
<1>4. /\ more \in Seq(0..255) /\ Len(more) = Len(bytes) + 1 /\ more[1] = m
      /\ \A i \in 1..Len(bytes) : more[i+1] = bytes[i]
  BY <1>1
<1>5. bytes \in Seq(Nat) /\ more \in Seq(Nat) /\ m \in Nat
  <2>1. 0..255 \subseteq Nat
    OBVIOUS
  <2> QED
    BY <1>4, <2>1, SeqMonotonic
<1>6. Reads(more, base, u, total)
  BY ONLY <1>3, <1>4, <1>5, base \in Nat, u \in Nat, ReadsCons
<1> QED
  BY <1>1, <1>2, <1>6

MultipliedBy(acc, b, any) == A!MultiplyByte(acc, b)
MultiplyFold == INSTANCE Folding WITH Op <- MultipliedBy

\* The last bytes times 58, and the carry for the others, which are number:
\* read after those they make total.
Multiplied(acc, number, total) ==
  /\ acc.bytes \in Seq(0..255) /\ acc.carry \in 0..57
  /\ Reads(acc.bytes, 256, 58 * number + acc.carry, total)

(* One byte more is multiplied (base58.cpp:72-76).                         *)
LEMMA MultiplyStep ==
  ASSUME NEW acc, NEW number \in Nat, NEW total, NEW b \in 0..255,
         Multiplied(acc, number * 256 + b, total)
  PROVE  /\ Multiplied(A!MultiplyByte(acc, b), number, total)
         /\ A!MultiplyByte(acc, b).bytes # <<>>
         /\ b # 0 => A!MultiplyByte(acc, b).carry # 0 \/ A!MultiplyByte(acc, b).bytes[1] # 0
<1>1. PICK bytes \in Seq(0..255) : bytes = acc.bytes
  BY DEF Multiplied
<1>2. PICK carry \in 0..57 : carry = acc.carry
  BY DEF Multiplied
<1>3. Reads(bytes, 256, 58 * (number * 256 + b) + carry, total)
  BY <1>1, <1>2 DEF Multiplied
<1>4. PICK t \in Nat : t = carry + 58 * b
  OBVIOUS
<1>5. t % 256 \in 0..255 /\ t \div 256 \in 0..57 /\ t = 256 * (t \div 256) + (t % 256)
  <2>1. t \in Int /\ 256 \in Nat \ {0}
    OBVIOUS
  <2>2. t % 256 \in 0..255 /\ t \div 256 \in Int /\ t = 256 * (t \div 256) + (t % 256)
    BY <2>1, DivMod
  <2>3. t <= 57 + 58 * 255
    BY <1>4
  <2>4. t \div 256 \in 0..57
    BY <2>2, <2>3
  <2> QED
    BY <2>2, <2>4
<1>6. PICK m \in 0..255 : m = t % 256
  BY <1>5
<1>7. PICK c \in 0..57 : c = t \div 256
  BY <1>5
<1>8. t = 256 * c + m
  BY <1>5, <1>6, <1>7
<1>9. PICK more : more = <<m>> \o bytes
  OBVIOUS
<1>10. A!MultiplyByte(acc, b).bytes = more /\ A!MultiplyByte(acc, b).carry = c
  <2>1. A!MultiplyByte(acc, b) = [bytes |-> A!Cons(t % 256, bytes), carry |-> t \div 256]
    BY <1>1, <1>2, <1>4 DEF A!MultiplyByte
  <2>2. A!Cons(t % 256, bytes) = more
    BY <1>6, <1>9 DEF A!Cons
  <2> QED
    BY <1>7, <2>1, <2>2
<1>11. /\ more \in Seq(0..255) /\ Len(more) = Len(bytes) + 1 /\ more # <<>> /\ more[1] = m
       /\ \A i \in 1..Len(bytes) : more[i+1] = bytes[i]
  BY <1>9
<1>12. PICK u \in Nat : u = 58 * number + c
  OBVIOUS
<1>13. Reads(more, 256, u, total)
  <2>1. 58 * (number * 256 + b) + carry = u * 256 + m
    BY <1>4, <1>8, <1>12
  <2>2. Reads(bytes, 256, u * 256 + m, total)
    BY <1>3, <2>1
  <2> QED
    BY <1>9, <2>2, ByteBefore
<1>14. Multiplied(A!MultiplyByte(acc, b), number, total)
  BY <1>10, <1>11, <1>12, <1>13 DEF Multiplied
<1>15. b # 0 => c # 0 \/ m # 0
  BY <1>4, <1>8
<1> QED
  BY <1>10, <1>11, <1>14, <1>15

(* A multiplication takes one byte after the other.                        *)
LEMMA MultiplyPlaces ==
  ASSUME NEW base, NEW s, NEW n \in Nat, DOMAIN s = 1..n
  PROVE  \E h : /\ h[0] = base
                /\ \A i \in 1..n : h[i] = MultipliedBy(h[i-1], s[i], s)
                /\ MultiplyFold!Fold(base, s, s) = h[n]
  BY ONLY MultiplyFold!FoldPlaces, n \in Nat, DOMAIN s = 1..n

\* What the multiplication has made of the last i bytes is h[i].
ShiftedIn(h, s, digit, n) ==
  /\ h[0] = [bytes |-> <<>>, carry |-> digit]
  /\ \A i \in 1..n : h[i] = A!MultiplyByte(h[i-1], s[(n - i) + 1])
  /\ A!Shift(s, digit) = IF h[n].carry = 0 THEN h[n].bytes
                         ELSE <<h[n].carry>> \o h[n].bytes

(* The bytes are multiplied from the last to the first, and what is carried *)
(* on comes before them (base58.cpp:70-81).                                *)
LEMMA ShiftPlaces ==
  ASSUME NEW s, NEW digit, NEW n \in Nat, n = Len(s)
  PROVE  \E h : ShiftedIn(h, s, digit, n)
<1>1. PICK back : back = A!Reverse(s) /\ DOMAIN back = 1..n
  <2>1. A!Reverse(s) = [i \in 1..n |-> s[(n - i) + 1]]
    BY DEF A!Reverse
  <2>2. DOMAIN A!Reverse(s) = 1..n
    BY <2>1
  <2> QED
    BY <2>2
<1>2. \A i \in 1..n : back[i] = s[(n - i) + 1]
  BY <1>1 DEF A!Reverse
<1>3. PICK start : start = [bytes |-> <<>>, carry |-> digit]
  OBVIOUS
<1>4. PICK end : end = MultiplyFold!Fold(start, back, back)
  OBVIOUS
<1>5. A!Shift(s, digit) = IF end.carry = 0 THEN end.bytes ELSE <<end.carry>> \o end.bytes
  <2> DEFINE done == MultiplyFold!Fold([bytes |-> <<>>, carry |-> digit], A!Reverse(s),
                                       A!Reverse(s))
  <2>1. A!Shift(s, digit) = IF done.carry = 0 THEN done.bytes ELSE A!Cons(done.carry, done.bytes)
    BY DEF A!Shift, A!FoldLeft, A!MapThenFoldSet, MultiplyFold!Fold, MultiplyFold!Last, A!Max,
           MultipliedBy
  <2>2. done = end
    BY <1>1, <1>3, <1>4
  <2> HIDE DEF done
  <2> QED
    BY <2>1, <2>2 DEF A!Cons
<1>6. PICK h : /\ h[0] = start
               /\ \A i \in 1..n : h[i] = MultipliedBy(h[i-1], back[i], back)
               /\ MultiplyFold!Fold(start, back, back) = h[n]
  BY <1>1, MultiplyPlaces
<1>7. \A i \in 1..n : h[i] = A!MultiplyByte(h[i-1], s[(n - i) + 1])
  BY <1>2, <1>6 DEF MultipliedBy
<1>8. end = h[n]
  BY <1>4, <1>6
<1> QED
  BY <1>3, <1>5, <1>6, <1>7, <1>8, Zenon DEF ShiftedIn

(* The bytes so far are multiplied by 58, and the digit is added           *)
(* (base58.cpp:70-81).                                                     *)
LEMMA ShiftIs ==
  ASSUME NEW s \in Seq(0..255), Proper(s), NEW v \in Nat, Reads(s, 256, 0, v),
         NEW digit \in 0..57
  PROVE  /\ A!Shift(s, digit) \in Seq(0..255) /\ Proper(A!Shift(s, digit))
         /\ Reads(A!Shift(s, digit), 256, 0, v * 58 + digit)
<1>1. PICK n \in Nat : n = Len(s) /\ DOMAIN s = 1..n
  OBVIOUS
<1>2. PICK r \in [0..n -> Nat] : /\ r[0] = 0 /\ r[n] = v
                                 /\ \A i \in 1..n : r[i] = r[i-1] * 256 + s[i]
  BY <1>1 DEF Reads
<1>3. PICK h : ShiftedIn(h, s, digit, n)
  BY <1>1, ShiftPlaces
<1>4. PICK start : start = h[0]
  OBVIOUS
<1>5. start.bytes = <<>> /\ start.carry = digit
  BY <1>3, <1>4 DEF ShiftedIn
<1>6. PICK end : end = h[n]
  OBVIOUS
<1>7. A!Shift(s, digit) = IF end.carry = 0 THEN end.bytes ELSE <<end.carry>> \o end.bytes
  BY <1>3, <1>6, Zenon DEF ShiftedIn
<1>8. \A i \in 1..n : s[i] \in 0..255
  <2> SUFFICES ASSUME NEW i \in 1..n PROVE s[i] \in 0..255
    OBVIOUS
  <2>1. PICK T : T = 0..255
    OBVIOUS
  <2>2. s \in Seq(T)
    BY <2>1
  <2>3. s[i] \in T
    BY <1>1, <2>2
  <2> QED
    BY <2>1, <2>3
<1>9. PICK total \in Nat : total = v * 58 + digit
  OBVIOUS
<1>10. Multiplied(start, r[n], total)
  <2>1. PICK none : none = start.bytes
    OBVIOUS
  <2>2. none \in Seq(0..255) /\ Len(none) = 0 /\ start.carry = digit
    BY <1>5, <2>1
  <2>3. Reads(none, 256, total, total)
    BY <2>2, ReadsNothing
  <2>4. 58 * r[n] + start.carry = total
    BY <1>2, <1>9, <2>2
  <2> QED
    BY <2>1, <2>2, <2>3, <2>4 DEF Multiplied
<1> DEFINE Good(i) == /\ Multiplied(h[i], r[n-i], total)
                      /\ i # 0 /\ s[(n-i)+1] # 0 => h[i].carry # 0 \/ h[i].bytes[1] # 0
                      /\ i = 0 => h[i].bytes = <<>>
           Bad == {i \in 0..n : ~Good(i)}
<1>11. Good(0)
  BY <1>4, <1>5, <1>10
<1>12. Bad = {}
  <2> SUFFICES ASSUME Bad # {} PROVE FALSE
    OBVIOUS
  <2>1. PICK i \in Bad : \A j \in Bad : i <= j
    <3>1. Bad \subseteq Nat
      OBVIOUS
    <3> HIDE DEF Bad
    <3> QED
      BY <3>1, NatMin
  <2>2. i \in 0..n /\ ~Good(i)
    BY <2>1
  <2>3. i # 0
    <3> HIDE DEF Good
    <3> QED
      BY <1>11, <2>2
  <2>4. i \in 1..n /\ i - 1 \in 0..n /\ ~(i <= i - 1)
    BY <2>2, <2>3
  <2>5. Good(i - 1)
    <3> HIDE DEF Good
    <3> QED
      BY <2>1, <2>4
  <2>6. PICK p \in 1..n : p = (n - i) + 1 /\ p - 1 = n - i /\ p = n - (i - 1) /\ p - 1 \in 0..n
    BY <2>4
  <2>7. PICK b \in 0..255 : b = s[p]
    BY <1>8
  <2>8. PICK acc : acc = h[i-1]
    OBVIOUS
  <2>9. PICK t : t = h[i]
    OBVIOUS
  <2>10. t = A!MultiplyByte(acc, b)
    BY <1>3, <2>4, <2>6, <2>7, <2>8, <2>9 DEF ShiftedIn
  <2>11. PICK number \in Nat : number = r[p-1] /\ r[p] = number * 256 + b
    <3>1. r[p-1] \in Nat /\ r[p] = r[p-1] * 256 + s[p]
      BY <1>2, <2>6
    <3> QED
      BY <2>7, <3>1, Zenon
  <2>12. Multiplied(acc, number * 256 + b, total)
    BY <2>5, <2>6, <2>8, <2>11
  <2>13. /\ Multiplied(t, number, total)
         /\ b # 0 => t.carry # 0 \/ t.bytes[1] # 0
    <3>1. /\ Multiplied(A!MultiplyByte(acc, b), number, total)
          /\ b # 0 => A!MultiplyByte(acc, b).carry # 0 \/ A!MultiplyByte(acc, b).bytes[1] # 0
      BY ONLY <2>12, number \in Nat, b \in 0..255, MultiplyStep, Zenon
    <3> QED
      BY ONLY <2>10, <3>1, Zenon
  <2> QED
    BY <2>2, <2>3, <2>6, <2>7, <2>9, <2>11, <2>13
<1>13. Good(n)
  <2> HIDE DEF Good
  <2> QED
    BY <1>12
<1>14. PICK bytes \in Seq(0..255) : bytes = end.bytes
  BY <1>6, <1>13 DEF Multiplied
<1>15. PICK carry \in 0..57 : carry = end.carry
  BY <1>6, <1>13 DEF Multiplied
<1>16. Reads(bytes, 256, carry, total)
  <2>1. n - n = 0 /\ 58 * 0 + carry = carry
    OBVIOUS
  <2>2. Multiplied(end, 0, total)
    BY <1>2, <1>6, <1>13, <2>1
  <2> QED
    BY <1>14, <1>15, <2>1, <2>2 DEF Multiplied
<1>17. carry = 0 => Proper(bytes)
  <2>1. CASE n = 0
    BY <1>6, <1>13, <1>14, <2>1 DEF Proper
  <2>2. CASE n # 0
    <3>1. s # <<>> /\ (n - n) + 1 = 1
      BY <1>1, <2>2
    <3>2. s[1] # 0
      BY <3>1 DEF Proper
    <3> QED
      BY <1>6, <1>13, <1>14, <1>15, <2>2, <3>1, <3>2 DEF Proper
  <2> QED
    BY <2>1, <2>2
<1>18. CASE carry = 0
  <2>1. A!Shift(s, digit) = bytes
    BY <1>7, <1>14, <1>15, <1>18
  <2> QED
    BY <1>9, <1>16, <1>17, <1>18, <2>1
<1>19. CASE carry # 0
  <2>1. PICK more : more = <<carry>> \o bytes
    OBVIOUS
  <2>2. A!Shift(s, digit) = more
    BY <1>7, <1>14, <1>15, <1>19, <2>1
  <2>3. /\ more \in Seq(0..255) /\ Len(more) = Len(bytes) + 1 /\ more # <<>> /\ more[1] = carry
        /\ \A i \in 1..Len(bytes) : more[i+1] = bytes[i]
    <3>1. carry \in 0..255
      OBVIOUS
    <3> QED
      BY <2>1, <3>1
  <2>4. Reads(bytes, 256, 0 * 256 + carry, total)
    <3>1. 0 * 256 + carry = carry
      OBVIOUS
    <3> QED
      BY <1>16, <3>1
  <2>5. Reads(more, 256, 0, total)
    <3>1. carry \in 0..255 /\ 0 \in Nat
      OBVIOUS
    <3> QED
      BY <2>1, <2>4, <3>1, ByteBefore
  <2>6. Proper(more)
    BY <1>19, <2>3 DEF Proper
  <2> QED
    BY <1>9, <2>2, <2>3, <2>5, <2>6
<1> QED
  BY <1>18, <1>19

ShiftedBy(bytes, digit, any) == A!Shift(bytes, digit)
ShiftFold == INSTANCE Folding WITH Op <- ShiftedBy

\* The bytes that the digits stand for.
Number(digits) == ShiftFold!Fold(<<>>, digits, digits)

\* What a fold of the digits from base on has made of the first i is h[i].
ShiftFolded(h, base, s, n) ==
  /\ h[0] = base
  /\ \A i \in 1..n : h[i] = ShiftedBy(h[i-1], s[i], s)
  /\ ShiftFold!Fold(base, s, s) = h[n]

(* A decoder takes one digit after the other.                              *)
LEMMA ShiftFoldPlaces ==
  ASSUME NEW base, NEW s, NEW n \in Nat, DOMAIN s = 1..n
  PROVE  \E h : ShiftFolded(h, base, s, n)
<1>1. \E h : /\ h[0] = base
             /\ \A i \in 1..n : h[i] = ShiftedBy(h[i-1], s[i], s)
             /\ ShiftFold!Fold(base, s, s) = h[n]
  BY ONLY ShiftFold!FoldPlaces, n \in Nat, DOMAIN s = 1..n
<1> QED
  BY <1>1, Zenon DEF ShiftFolded

\* What stands for the first i digits is h[i].
NumberedIn(h, s, n) ==
  /\ h[0] = <<>> /\ h[n] = Number(s)
  /\ \A i \in 1..n : h[i] = A!Shift(h[i-1], s[i])

(* It is made of one digit after the other (base58.cpp:67-81).             *)
LEMMA NumberPlaces ==
  ASSUME NEW s, NEW n \in Nat, DOMAIN s = 1..n
  PROVE  \E h : NumberedIn(h, s, n)
<1>1. PICK none : none = <<>>
  OBVIOUS
<1>2. PICK h : ShiftFolded(h, none, s, n)
  BY ShiftFoldPlaces
<1>3. Number(s) = h[n] /\ h[0] = none
  BY <1>1, <1>2, Zenon DEF Number, ShiftFolded
<1>4. \A i \in 1..n : h[i] = A!Shift(h[i-1], s[i])
  BY <1>2 DEF ShiftFolded, ShiftedBy
<1> QED
  BY <1>1, <1>3, <1>4, Zenon DEF NumberedIn

\* The bytes that are number, the first of them not zero.
Stands(bytes, number) ==
  bytes \in Seq(0..255) /\ Proper(bytes) /\ Reads(bytes, 256, 0, number)

(* The bytes that digits stand for are the number that they are            *)
(* (base58.cpp:67-81).                                                     *)
LEMMA NumberIs ==
  ASSUME NEW s \in Seq(0..57), NEW v, Reads(s, 58, 0, v)
  PROVE  Stands(Number(s), v)
<1>1. PICK n \in Nat : n = Len(s) /\ DOMAIN s = 1..n
  OBVIOUS
<1>2. \A i \in 1..n : s[i] \in 0..57
  <2> SUFFICES ASSUME NEW i \in 1..n PROVE s[i] \in 0..57
    OBVIOUS
  <2>1. PICK T : T = 0..57
    OBVIOUS
  <2>2. s \in Seq(T)
    BY <2>1
  <2>3. s[i] \in T
    BY <1>1, <2>2
  <2> QED
    BY <2>1, <2>3
<1>3. PICK r \in [0..n -> Nat] : /\ r[0] = 0 /\ r[n] = v
                                 /\ \A i \in 1..n : r[i] = r[i-1] * 58 + s[i]
  BY <1>1 DEF Reads
<1>4. PICK h : NumberedIn(h, s, n)
  <2>1. DOMAIN s = 1..n
    BY <1>1
  <2> QED
    BY <2>1, NumberPlaces
<1>5. PICK none : none = <<>>
  OBVIOUS
<1>6. h[0] = none /\ Number(s) = h[n]
  BY <1>4, <1>5 DEF NumberedIn
<1>7. Stands(none, 0)
  <2>1. none \in Seq(0..255) /\ Len(none) = 0 /\ Proper(none)
    BY <1>5 DEF Proper
  <2> QED
    BY <2>1, ReadsNothing DEF Stands
<1> DEFINE Bad == {i \in 0..n : ~Stands(h[i], r[i])}
<1>8. Bad = {}
  <2> SUFFICES ASSUME Bad # {} PROVE FALSE
    OBVIOUS
  <2>1. PICK i \in Bad : \A j \in Bad : i <= j
    <3>1. Bad \subseteq Nat
      OBVIOUS
    <3> HIDE DEF Bad
    <3> QED
      BY <3>1, NatMin
  <2>2. i \in 0..n /\ ~Stands(h[i], r[i])
    BY <2>1
  <2>3. i # 0
    BY <1>3, <1>6, <1>7, <2>2
  <2>4. i \in 1..n /\ i - 1 \in 0..n /\ ~(i <= i - 1)
    BY <2>2, <2>3
  <2>5. i - 1 \notin Bad
    BY <2>1, <2>4
  <2>6. Stands(h[i-1], r[i-1])
    BY <2>4, <2>5
  <2>7. PICK bytes \in Seq(0..255) : bytes = h[i-1] /\ Proper(bytes)
    BY <2>6 DEF Stands
  <2>8. PICK number \in Nat : number = r[i-1] /\ Reads(bytes, 256, 0, number)
    BY <2>4, <2>6, <2>7 DEF Stands
  <2>9. PICK digit \in 0..57 : digit = s[i]
    BY <1>2, <2>4
  <2>10. PICK t : t = A!Shift(bytes, digit)
    OBVIOUS
  <2>11. Stands(t, number * 58 + digit)
    <3>1. /\ A!Shift(bytes, digit) \in Seq(0..255) /\ Proper(A!Shift(bytes, digit))
          /\ Reads(A!Shift(bytes, digit), 256, 0, number * 58 + digit)
      BY ONLY <2>7, <2>8, bytes \in Seq(0..255), number \in Nat, digit \in 0..57, ShiftIs, Zenon
    <3> QED
      BY ONLY <2>10, <3>1, Zenon DEF Stands
  <2>12. h[i] = t
    BY <1>4, <2>4, <2>7, <2>9, <2>10 DEF NumberedIn
  <2>13. r[i] = number * 58 + digit
    BY <1>3, <2>4, <2>8, <2>9
  <2> QED
    BY <2>2, <2>11, <2>12, <2>13
<1>9. Stands(h[n], r[n])
  <2>1. n \in 0..n /\ n \notin Bad
    BY <1>8
  <2> QED
    BY <2>1
<1> QED
  BY <1>3, <1>6, <1>9

\* z zeros and then the digits or bytes c.
Padded(t, z, c) ==
  /\ Len(t) = z + Len(c)
  /\ \A i \in 1..z : t[i] = 0
  /\ \A i \in 1..Len(c) : t[z+i] = c[i]

(* Zeros are put before the others (base58.cpp:30-32, 83-84).              *)
LEMMA ZerosBefore ==
  ASSUME NEW z \in Nat, NEW T, 0 \in T, NEW c \in Seq(T)
  PROVE  A!Zeros(z) \o c \in Seq(T) /\ Padded(A!Zeros(z) \o c, z, c)
<1>1. PICK zeros \in Seq(T) : /\ zeros = A!Zeros(z) /\ Len(zeros) = z
                             /\ \A i \in 1..z : zeros[i] = 0
  <2>1. PICK f : f = [i \in 1..z |-> 0]
    OBVIOUS
  <2>2. f \in Seq(T) /\ Len(f) = z /\ \A i \in 1..z : f[i] = 0
    BY <2>1
  <2>3. f = A!Zeros(z)
    BY <2>1 DEF A!Zeros
  <2> QED
    BY <2>2, <2>3
<1>2. PICK t : t = zeros \o c
  OBVIOUS
<1>3. /\ t \in Seq(T) /\ Len(t) = Len(zeros) + Len(c)
      /\ \A i \in 1..Len(zeros) + Len(c) :
           t[i] = IF i <= Len(zeros) THEN zeros[i] ELSE c[i - Len(zeros)]
  BY ONLY <1>2, zeros \in Seq(T), c \in Seq(T), ConcatProperties
<1>4. PICK n \in Nat : n = Len(c)
  OBVIOUS
<1>5. \A i \in 1..z + n : t[i] = IF i <= z THEN zeros[i] ELSE c[i - z]
  BY <1>1, <1>3, <1>4
<1>6. \A i \in 1..z : t[i] = 0
  BY <1>1, <1>5
<1>7. \A i \in 1..n : t[z+i] = c[i]
  <2> SUFFICES ASSUME NEW i \in 1..n PROVE t[z+i] = c[i]
    OBVIOUS
  <2>1. z + i \in 1..z + n /\ ~(z + i <= z) /\ (z + i) - z = i
    OBVIOUS
  <2> QED
    BY <1>5, <2>1
<1>8. Len(t) = z + n
  BY <1>1, <1>3, <1>4
<1> QED
  BY <1>1, <1>2, <1>3, <1>4, <1>6, <1>7, <1>8 DEF Padded

(* Two sequences padded alike are the same.                                *)
LEMMA PaddedSame ==
  ASSUME NEW T, NEW s \in Seq(T), NEW t \in Seq(T), NEW c \in Seq(T), NEW z \in Nat,
         Padded(s, z, c), Padded(t, z, c)
  PROVE  s = t
<1>1. PICK n \in Nat : n = Len(c)
  OBVIOUS
<1>2. Len(s) = z + n /\ Len(t) = z + n
  BY <1>1 DEF Padded
<1>3. \A i \in 1..z + n : s[i] = t[i]
  <2> TAKE i \in 1..z + n
  <2>1. CASE i \in 1..z
    BY <2>1 DEF Padded
  <2>2. CASE i \notin 1..z
    <3>1. PICK j \in 1..n : i = z + j
      <4>1. i - z \in 1..n /\ i = z + (i - z)
        BY <2>2
      <4> QED
        BY <4>1
    <3>2. s[z + j] = c[j] /\ t[z + j] = c[j]
      BY <1>1 DEF Padded
    <3> QED
      BY <3>1, <3>2
  <2> QED
    BY <2>1, <2>2
<1>4. \A i \in 1..Len(s) : s[i] = t[i]
  BY <1>2, <1>3
<1> QED
  BY ONLY <1>2, <1>4, s \in Seq(T), t \in Seq(T), SeqEqual

(* The leading zeros are counted (base58.cpp:10-12, 63-65).                *)
LEMMA LeadingCounted ==
  ASSUME NEW t \in Seq(Nat), NEW z \in Nat, NEW c \in Seq(Nat), Padded(t, z, c), Proper(c)
  PROVE  A!LeadingZeros(t) = z
<1> DEFINE Nonzero == {i \in 1..Len(t) : t[i] # 0}
<1>1. A!LeadingZeros(t)
        = IF (IF Nonzero # {} THEN A!Min(Nonzero) ELSE 0) = 0 THEN Len(t)
          ELSE (IF Nonzero # {} THEN A!Min(Nonzero) ELSE 0) - 1
  BY DEF A!LeadingZeros, A!SelectInSeq
<1>2. PICK n \in Nat : n = Len(c) /\ Len(t) = z + n
  BY DEF Padded
<1>3. CASE n = 0
  <2>1. Nonzero = {}
    <3> SUFFICES ASSUME NEW i \in 1..Len(t) PROVE t[i] = 0
      OBVIOUS
    <3>1. i \in 1..z
      BY <1>2, <1>3
    <3> QED
      BY <3>1 DEF Padded
  <2> HIDE DEF Nonzero
  <2> QED
    BY <1>1, <1>2, <1>3, <2>1
<1>4. CASE n # 0
  <2>1. z + 1 \in Nonzero
    <3>1. c # <<>> /\ 1 \in 1..Len(c) /\ z + 1 \in 1..Len(t)
      BY <1>2, <1>4
    <3>2. t[z+1] = c[1] /\ c[1] # 0
      BY <3>1 DEF Padded, Proper
    <3> QED
      BY <3>1, <3>2
  <2>2. \A i \in Nonzero : z + 1 <= i
    <3> SUFFICES ASSUME NEW i \in 1..Len(t), i <= z PROVE t[i] = 0
      BY <1>2
    <3>1. i \in 1..z
      OBVIOUS
    <3> QED
      BY <3>1 DEF Padded
  <2>3. \A i \in Nonzero : i \in Int
    BY <1>2
  <2>4. PICK min : min = A!Min(Nonzero)
    OBVIOUS
  <2> HIDE DEF Nonzero
  <2>5. min \in Nonzero /\ \A i \in Nonzero : min <= i
    BY <2>1, <2>2, <2>4 DEF A!Min
  <2>6. min = z + 1
    BY <2>1, <2>2, <2>3, <2>5
  <2>7. Nonzero # {} /\ min # 0 /\ min - 1 = z
    BY <2>1, <2>6
  <2> QED
    BY <1>1, <2>4, <2>7
<1> QED
  BY <1>3, <1>4

(* Whatever is not proper is zeros and something that is.                  *)
LEMMA Parts ==
  ASSUME NEW T \in SUBSET Nat, NEW t \in Seq(T)
  PROVE  \E z \in Nat, c \in Seq(T) : Padded(t, z, c) /\ Proper(c)
<1>1. PICK n \in Nat : n = Len(t)
  OBVIOUS
<1> DEFINE Far == {z \in 0..n : z < n => t[z+1] # 0}
<1>2. PICK z \in Far : \A y \in Far : z <= y
  <2>1. Far \subseteq Nat /\ n \in Far
    OBVIOUS
  <2> HIDE DEF Far
  <2> QED
    BY <2>1, NatMin
<1>3. z \in 0..n /\ (z < n => t[z+1] # 0)
  BY <1>2
<1>4. \A i \in 1..z : t[i] = 0
  <2> SUFFICES ASSUME NEW i \in 1..z, t[i] # 0 PROVE FALSE
    OBVIOUS
  <2>1. i - 1 \in 0..n /\ (i - 1) + 1 = i /\ ~(z <= i - 1)
    BY <1>3
  <2>2. i - 1 \in Far
    BY <2>1
  <2> QED
    BY <1>2, <2>1, <2>2
<1>5. PICK c : c = SubSeq(t, z + 1, n)
  OBVIOUS
<1>6. /\ c \in Seq(T) /\ Len(c) = n - z
      /\ \A i \in 1..n - z : c[i] = t[z+i]
  <2>1. CASE z = n
    <3>1. c = <<>>
      BY <1>1, <1>5, <2>1
    <3> QED
      BY <2>1, <3>1
  <2>2. CASE z < n
    <3>1. z + 1 \in 1..n /\ n \in 1..n
      BY <1>3, <2>2
    <3>2. /\ c \in Seq(T) /\ Len(c) = IF z + 1 <= n THEN n - (z + 1) + 1 ELSE 0
          /\ \A i \in 1..n - (z + 1) + 1 : c[i] = t[(z + 1) + i - 1]
      BY <1>1, <1>5, <3>1, SubSeqProperties
    <3>3. n - (z + 1) + 1 = n - z /\ \A i \in 1..n - z : (z + 1) + i - 1 = z + i
      BY <1>3
    <3> QED
      BY <3>1, <3>2, <3>3
  <2> QED
    BY <1>3, <2>1, <2>2
<1>7. Padded(t, z, c)
  BY <1>1, <1>3, <1>4, <1>6 DEF Padded
<1>8. Proper(c)
  <2> SUFFICES ASSUME c # <<>> PROVE c[1] # 0
    BY DEF Proper
  <2>1. z < n
    BY <1>3, <1>6
  <2>2. 1 \in 1..n - z
    BY <1>3, <2>1
  <2> QED
    BY <1>3, <1>6, <2>1, <2>2
<1> QED
  BY <1>3, <1>6, <1>7, <1>8

\* One zero more for a number that is all zeros.
Returned(s) == IF AllZero(s) THEN <<0>> \o s ELSE s

(* A number is all zeros if nothing is left behind its leading zeros.      *)
LEMMA AllZeroParts ==
  ASSUME NEW s \in Seq(Nat), NEW z \in Nat, NEW c \in Seq(Nat), Padded(s, z, c), Proper(c)
  PROVE  AllZero(s) <=> s # <<>> /\ c = <<>>
<1>1. PICK n \in Nat : n = Len(c) /\ (n = 0 <=> c = <<>>)
  OBVIOUS
<1>2. PICK l \in Nat : l = Len(s) /\ DOMAIN s = 1..l
  OBVIOUS
<1>3. l = z + n
  BY <1>1, <1>2 DEF Padded
<1>4. CASE c = <<>>
  <2>1. \A i \in 1..l : s[i] = 0
    BY <1>1, <1>3, <1>4 DEF Padded
  <2> QED
    BY <1>2, <1>4, <2>1 DEF AllZero
<1>5. CASE c # <<>>
  <2>1. 1 \in 1..Len(c) /\ z + 1 \in 1..l
    BY <1>1, <1>3, <1>5
  <2>2. s[z+1] = c[1] /\ c[1] # 0
    BY <1>5, <2>1 DEF Padded, Proper
  <2> QED
    BY <1>2, <1>5, <2>1, <2>2 DEF AllZero
<1> QED
  BY <1>4, <1>5

(* A zero behind zeros, or before them, is one of them.                    *)
LEMMA OneZeroMore ==
  ASSUME NEW T, 0 \in T, NEW s \in Seq(T), NEW t \in Seq(T), NEW z \in Nat,
         NEW one, one = << 0 >>, Padded(s, z, one),
         NEW none, none = <<>>, Padded(t, z, none)
  PROVE  Padded(s, z + 1, none) /\ <<0>> \o t \in Seq(T) /\ Padded(<<0>> \o t, z + 1, none)
<1>1. Len(one) = 1 /\ one[1] = 0 /\ Len(none) = 0
  OBVIOUS
<1>2. Len(s) = z + 1 /\ \A i \in 1..z + 1 : s[i] = 0
  <2>1. Len(s) = z + 1 /\ (\A i \in 1..z : s[i] = 0) /\ s[z+1] = 0
    BY <1>1 DEF Padded
  <2>2. \A i \in 1..z + 1 : i \in 1..z \/ i = z + 1
    OBVIOUS
  <2> QED
    BY <2>1, <2>2
<1>3. Padded(s, z + 1, none)
  BY <1>1, <1>2 DEF Padded
<1>4. PICK more : more = <<0>> \o t
  OBVIOUS
<1>5. /\ more \in Seq(T) /\ Len(more) = 1 + Len(t) /\ more[1] = 0
      /\ \A i \in 1..Len(t) : more[i+1] = t[i]
  BY <1>4
<1>6. Len(t) = z /\ \A i \in 1..z : t[i] = 0
  BY <1>1 DEF Padded
<1>7. Len(more) = z + 1
  BY <1>5, <1>6
<1>8. \A i \in 1..z + 1 : more[i] = 0
  <2> TAKE i \in 1..z + 1
  <2>1. CASE i = 1
    BY <1>5, <2>1
  <2>2. CASE i # 1
    <3>1. i - 1 \in 1..z /\ (i - 1) + 1 = i
      BY <2>2
    <3>2. more[(i - 1) + 1] = t[i - 1]
      BY <1>5, <1>6, <3>1
    <3> QED
      BY <1>6, <3>1, <3>2
  <2> QED
    BY <2>1, <2>2
<1>9. Padded(more, z + 1, none)
  BY <1>1, <1>7, <1>8 DEF Padded
<1> QED
  BY <1>3, <1>4, <1>5, <1>9

(* Bytes and digits are numbers.                                           *)
LEMMA BytesNumbers == Seq(0..255) \subseteq Seq(Nat) /\ Seq(0..57) \subseteq Seq(Nat)
<1>1. ASSUME NEW T, T \subseteq Nat PROVE Seq(T) \subseteq Seq(Nat)
  BY ONLY <1>1, SeqMonotonic, Zenon
<1>2. 0..255 \subseteq Nat /\ 0..57 \subseteq Nat
  OBVIOUS
<1> QED
  BY ONLY <1>1, <1>2, Zenon

(* A decoder gives back the zeros, and the bytes of the number behind them *)
(* (base58.cpp:60-86).                                                     *)
LEMMA DecodedParts ==
  ASSUME NEW s \in Seq(0..57), NEW z \in Nat, NEW c \in Seq(0..57), Padded(s, z, c), Proper(c),
         NEW v \in Nat, Reads(c, 58, 0, v)
  PROVE  /\ A!Decode(s) \in Seq(0..255)
         /\ \E b : Stands(b, v) /\ Padded(A!Decode(s), z, b)
<1>1. s \in Seq(Nat) /\ c \in Seq(Nat)
  BY BytesNumbers
<1>2. A!LeadingZeros(s) = z
  BY <1>1, LeadingCounted
<1>3. A!Decode(s) = A!Zeros(A!LeadingZeros(s)) \o Number(s)
  BY DEF A!Decode, A!FoldLeft, A!MapThenFoldSet, ShiftFold!Fold, ShiftFold!Last, A!Max,
         Number, ShiftedBy
<1>4. A!Decode(s) = A!Zeros(z) \o Number(s)
  BY <1>2, <1>3
<1>5. Reads(s, 58, 0, v)
  <2>1. PICK base \in Nat : base = 58
    OBVIOUS
  <2>2. Reads(c, base, 0, v)
    BY <2>1
  <2>3. /\ Len(s) = z + Len(c) /\ (\A i \in 1..z : s[i] = 0)
        /\ \A i \in 1..Len(c) : s[z+i] = c[i]
    BY DEF Padded
  <2>4. Reads(s, base, 0, v)
    BY ONLY <1>1, <2>2, <2>3, base \in Nat, z \in Nat, ReadsZeros
  <2> QED
    BY <2>1, <2>4
<1>6. Stands(Number(s), v)
  BY <1>5, NumberIs
<1>7. PICK b : b = Number(s) /\ b \in Seq(0..255)
  BY <1>6 DEF Stands
<1>8. A!Zeros(z) \o b \in Seq(0..255) /\ Padded(A!Zeros(z) \o b, z, b)
  <2>1. PICK T : T = 0..255
    OBVIOUS
  <2>2. 0 \in T /\ b \in Seq(T)
    BY <1>7, <2>1
  <2>3. A!Zeros(z) \o b \in Seq(T) /\ Padded(A!Zeros(z) \o b, z, b)
    BY ONLY <2>2, z \in Nat, ZerosBefore
  <2> QED
    BY <2>1, <2>3
<1> QED
  BY <1>4, <1>6, <1>7, <1>8

(* An encoder gives back the zeros, and the digits of the number behind    *)
(* them: of zero too (base58.cpp:9-35).                                    *)
LEMMA EncodedParts ==
  ASSUME NEW t \in Seq(0..255), t # <<>>, NEW z \in Nat, NEW c \in Seq(0..255),
         Padded(t, z, c), Proper(c), NEW v \in Nat, Reads(c, 256, 0, v)
  PROVE  /\ A!Encode(t) \in Seq(0..57)
         /\ \E d : /\ d \in Seq(0..57) /\ Reads(d, 58, 0, v) /\ Padded(A!Encode(t), z, d)
                   /\ IF v = 0 THEN d = <<0>> ELSE Proper(d)
<1>1. t \in Seq(Nat) /\ c \in Seq(Nat)
  BY BytesNumbers
<1>2. A!LeadingZeros(t) = z
  BY <1>1, LeadingCounted
<1>3. PICK d : d = A!Digits(t)
  OBVIOUS
<1>4. A!Encode(t) = A!Zeros(z) \o d
  BY <1>2, <1>3 DEF A!Encode
<1>5. Reads(t, 256, 0, v)
  <2>1. PICK base \in Nat : base = 256
    OBVIOUS
  <2>2. Reads(c, base, 0, v)
    BY <2>1
  <2>3. /\ Len(t) = z + Len(c) /\ (\A i \in 1..z : t[i] = 0)
        /\ \A i \in 1..Len(c) : t[z+i] = c[i]
    BY DEF Padded
  <2>4. Reads(t, base, 0, v)
    BY ONLY <1>1, <2>2, <2>3, base \in Nat, z \in Nat, ReadsZeros
  <2> QED
    BY <2>1, <2>4
<1>6. d \in Seq(0..57) /\ Reads(d, 58, 0, v) /\ IF v = 0 THEN d = <<0>> ELSE Proper(d)
  BY <1>3, <1>5, DigitsAre
<1>7. A!Zeros(z) \o d \in Seq(0..57) /\ Padded(A!Zeros(z) \o d, z, d)
  <2>1. PICK T : T = 0..57
    OBVIOUS
  <2>2. 0 \in T /\ d \in Seq(T)
    BY <1>6, <2>1
  <2>3. A!Zeros(z) \o d \in Seq(T) /\ Padded(A!Zeros(z) \o d, z, d)
    BY ONLY <2>2, z \in Nat, ZerosBefore
  <2> QED
    BY <2>1, <2>3
<1> QED
  BY <1>4, <1>6, <1>7

(* Nothing is encoded as nothing.                                          *)
LEMMA NothingEncoded ==
  ASSUME NEW t, t = <<>>
  PROVE  A!Encode(t) = <<>>
<1>1. PICK all : all = [left |-> t, digits |-> <<>>]
  OBVIOUS
<1>2. PICK zeros : zeros = A!Zeros(2 * Len(t))
  OBVIOUS
<1>3. DOMAIN zeros = 1..0
  <2>1. zeros = [i \in 1..2 * Len(t) |-> 0] /\ 2 * Len(t) = 0
    BY <1>2 DEF A!Zeros
  <2> QED
    BY <2>1
<1>4. A!Digits(t) = DigitFold!Fold(all, zeros, zeros).digits
  <2>1. A!Digits(t)
          = DigitFold!Fold([left |-> t, digits |-> <<>>], A!Zeros(2 * Len(t)),
                           A!Zeros(2 * Len(t))).digits
    BY DEF A!Digits, A!FoldLeft, A!MapThenFoldSet, DigitFold!Fold, DigitFold!Last, A!Max,
           DividedAgain
  <2> QED
    BY <1>1, <1>2, <2>1
<1>5. DigitFold!Fold(all, zeros, zeros) = all
  <2>1. 0 \in Nat
    OBVIOUS
  <2>2. \E h : h[0] = all /\ DigitFold!Fold(all, zeros, zeros) = h[0]
    BY ONLY <1>3, <2>1, DigitPlaces
  <2> QED
    BY <2>2
<1>6. A!Digits(t) = <<>>
  BY <1>1, <1>4, <1>5
<1>7. A!LeadingZeros(t) = 0
  <2>1. t \in Seq(Nat) /\ Len(t) = 0
    OBVIOUS
  <2>2. Padded(t, 0, t) /\ Proper(t)
    BY <2>1 DEF Padded, Proper
  <2> QED
    BY <2>1, <2>2, LeadingCounted
<1>8. A!Zeros(0) = <<>>
  BY DEF A!Zeros
<1> QED
  BY <1>6, <1>7, <1>8 DEF A!Encode

(* Nothing is left of the bytes of zero, and something of any other number. *)
LEMMA StandsFor ==
  ASSUME NEW b, NEW v \in Nat, Stands(b, v)
  PROVE  b = <<>> <=> v = 0
<1>1. b \in Seq(0..255) /\ Proper(b) /\ Reads(b, 256, 0, v)
  BY DEF Stands
<1>2. b \in Seq(Nat) /\ 256 \in Nat \ {0}
  BY <1>1, BytesNumbers
<1>3. b # <<>> => v # 0
  BY ONLY <1>1, <1>2, ReadsPositive
<1>4. CASE b = <<>>
  <2>1. Len(b) = 0
    BY <1>4
  <2>2. v = 0
    BY <1>1, <2>1, ReadsZero
  <2> QED
    BY <1>4, <2>2
<1> QED
  BY <1>3, <1>4

(* Bytes are what they were when their address is decoded, with a zero more *)
(* if all of them are zero (base58.cpp:9-86).                              *)
LEMMA DecodeEncode ==
  ASSUME NEW t \in Seq(0..255)
  PROVE  A!Decode(A!Encode(t)) = Returned(t)
<1>1. PICK none : none = <<>>
  OBVIOUS
<1>2. none \in Seq(0..57) /\ none \in Seq(0..255) /\ Len(none) = 0 /\ Proper(none)
  BY <1>1 DEF Proper
<1>3. PICK nil \in Nat : nil = 0 /\ Reads(none, 58, 0, nil)
  <2>1. Reads(none, 58, 0, 0)
    BY <1>2, ReadsNothing
  <2> QED
    BY <2>1
<1>4. t \in Seq(Nat) /\ none \in Seq(Nat)
  BY <1>2, BytesNumbers
<1>5. PICK z \in Nat, c \in Seq(0..255) : Padded(t, z, c) /\ Proper(c)
  <2>1. PICK T : T = 0..255
    OBVIOUS
  <2>2. T \in SUBSET Nat /\ t \in Seq(T)
    BY <2>1
  <2>3. \E z \in Nat, c \in Seq(T) : Padded(t, z, c) /\ Proper(c)
    BY ONLY <2>2, Parts
  <2> QED
    BY <2>1, <2>3, Zenon
<1>6. c \in Seq(Nat)
  BY BytesNumbers
<1>7. PICK v \in Nat : Reads(c, 256, 0, v)
  <2>1. 256 \in Nat
    OBVIOUS
  <2> QED
    BY <1>6, <2>1, ReadsSomething
<1>8. Stands(c, v)
  BY <1>5, <1>7 DEF Stands
<1>9. AllZero(t) <=> t # <<>> /\ c = <<>>
  BY <1>4, <1>5, <1>6, AllZeroParts
<1>10. CASE t = <<>>
  <2>1. A!Encode(t) = none
    BY <1>1, <1>10, NothingEncoded
  <2>2. Padded(none, nil, none)
    BY <1>2, <1>3 DEF Padded
  <2>3. A!Decode(none) \in Seq(0..255) /\ \E b : Stands(b, nil) /\ Padded(A!Decode(none), nil, b)
    BY ONLY <1>2, <1>3, <2>2, nil \in Nat, DecodedParts
  <2>4. PICK b : Stands(b, nil) /\ Padded(A!Decode(none), nil, b)
    BY <2>3
  <2>5. b = <<>>
    BY <1>3, <2>4, StandsFor
  <2>6. Len(A!Decode(none)) = 0
    BY <1>3, <2>4, <2>5 DEF Padded
  <2>7. A!Decode(none) = <<>>
    BY <2>3, <2>6
  <2> QED
    BY <1>9, <1>10, <2>1, <2>7 DEF Returned
<1>11. CASE t # <<>>
  <2>1. PICK e \in Seq(0..57) :
          /\ e = A!Encode(t)
          /\ \E d : /\ d \in Seq(0..57) /\ Reads(d, 58, 0, v) /\ Padded(e, z, d)
                   /\ IF v = 0 THEN d = <<0>> ELSE Proper(d)
    <3>1. /\ A!Encode(t) \in Seq(0..57)
          /\ \E d : /\ d \in Seq(0..57) /\ Reads(d, 58, 0, v) /\ Padded(A!Encode(t), z, d)
                   /\ IF v = 0 THEN d = <<0>> ELSE Proper(d)
      BY ONLY <1>5, <1>7, <1>11, t \in Seq(0..255), c \in Seq(0..255), z \in Nat, v \in Nat,
              EncodedParts, Zenon
    <3> QED
      BY <3>1, Zenon
  <2>2. PICK d \in Seq(0..57) : /\ Reads(d, 58, 0, v) /\ Padded(e, z, d)
                               /\ IF v = 0 THEN d = <<0>> ELSE Proper(d)
    BY <2>1, Zenon
  <2>3. CASE v # 0
    <3>1. A!Decode(e) \in Seq(0..255) /\ \E b : Stands(b, v) /\ Padded(A!Decode(e), z, b)
      BY <2>2, <2>3, DecodedParts
    <3>2. PICK b : Stands(b, v) /\ Padded(A!Decode(e), z, b)
      BY <3>1
    <3>3. b = c
      <4>1. PICK base \in Nat \ {0} : base = 256
        OBVIOUS
      <4>2. base - 1 = 255
        BY <4>1
      <4>3. /\ b \in Seq(0..base-1) /\ c \in Seq(0..base-1) /\ Proper(b) /\ Proper(c)
            /\ Reads(b, base, 0, v) /\ Reads(c, base, 0, v)
        BY <1>8, <3>2, <4>1, <4>2 DEF Stands
      <4> QED
        BY ONLY <4>3, base \in Nat \ {0}, ReadsUnique
    <3>4. A!Decode(e) = t
      <4>1. PICK T : T = 0..255
        OBVIOUS
      <4>2. /\ A!Decode(e) \in Seq(T) /\ t \in Seq(T) /\ c \in Seq(T)
            /\ Padded(A!Decode(e), z, c) /\ Padded(t, z, c)
        BY <1>5, <3>1, <3>2, <3>3, <4>1
      <4> QED
        BY ONLY <4>2, z \in Nat, PaddedSame
    <3>5. ~AllZero(t)
      BY <1>8, <1>9, <2>3, StandsFor
    <3> QED
      BY <2>1, <3>4, <3>5 DEF Returned
  <2>4. CASE v = 0
    <3>1. c = none
      BY <1>1, <1>8, <2>4, StandsFor
    <3>2. d = <<0>>
      BY <2>2, <2>4
    <3>3. Padded(e, z + 1, none) /\ <<0>> \o t \in Seq(0..255) /\ Padded(<<0>> \o t, z + 1, none)
      <4>1. PICK T : T = 0..255
        OBVIOUS
      <4>2. 0..57 \subseteq 0..255
        OBVIOUS
      <4>3. e \in Seq(T)
        BY <4>1, <4>2, SeqMonotonic
      <4>4. 0 \in T /\ t \in Seq(T)
        BY <4>1
      <4>5. Padded(e, z, d) /\ Padded(t, z, none)
        BY <1>5, <2>2, <3>1
      <4>6. Padded(e, z + 1, none) /\ <<0>> \o t \in Seq(T) /\ Padded(<<0>> \o t, z + 1, none)
        BY ONLY <1>1, <3>2, <4>3, <4>4, <4>5, z \in Nat, OneZeroMore
      <4> QED
        BY <4>1, <4>6
    <3>4. PICK y \in Nat : y = z + 1
      OBVIOUS
    <3>5. Padded(e, y, none) /\ Padded(<<0>> \o t, y, none)
      BY <3>3, <3>4
    <3>6. A!Decode(e) \in Seq(0..255) /\ \E b : Stands(b, nil) /\ Padded(A!Decode(e), y, b)
      BY ONLY <1>2, <1>3, <3>5, e \in Seq(0..57), y \in Nat, nil \in Nat, DecodedParts
    <3>7. Padded(A!Decode(e), y, none)
      <4>1. PICK b : Stands(b, nil) /\ Padded(A!Decode(e), y, b)
        BY <3>6
      <4>2. b = none
        BY <1>1, <1>3, <4>1, StandsFor
      <4> QED
        BY <4>1, <4>2
    <3>8. A!Decode(e) = <<0>> \o t
      <4>1. PICK T : T = 0..255
        OBVIOUS
      <4>2. PICK more : more = <<0>> \o t
        OBVIOUS
      <4>3. /\ A!Decode(e) \in Seq(T) /\ more \in Seq(T) /\ none \in Seq(T)
            /\ Padded(A!Decode(e), y, none) /\ Padded(more, y, none)
        BY <1>2, <3>3, <3>5, <3>6, <3>7, <4>1, <4>2
      <4>4. A!Decode(e) = more
        BY ONLY <4>3, y \in Nat, PaddedSame
      <4> QED
        BY <4>2, <4>4
    <3>9. AllZero(t)
      BY <1>1, <1>9, <1>11, <3>1
    <3> QED
      BY <2>1, <3>8, <3>9 DEF Returned
  <2> QED
    BY <2>3, <2>4
<1> QED
  BY <1>10, <1>11

(* An address is what it was when its bytes are encoded, with a zero more   *)
(* if it is all zeros (base58.cpp:9-86).                                   *)
LEMMA EncodeDecode ==
  ASSUME NEW s \in Seq(0..57)
  PROVE  A!Encode(A!Decode(s)) = Returned(s)
<1>1. PICK none : none = <<>>
  OBVIOUS
<1>2. none \in Seq(0..57) /\ none \in Seq(0..255) /\ Len(none) = 0 /\ Proper(none)
  BY <1>1 DEF Proper
<1>3. s \in Seq(Nat)
  BY BytesNumbers
<1>4. PICK z \in Nat, c \in Seq(0..57) : Padded(s, z, c) /\ Proper(c)
  <2>1. PICK T : T = 0..57
    OBVIOUS
  <2>2. T \in SUBSET Nat /\ s \in Seq(T)
    BY <2>1
  <2>3. \E z \in Nat, c \in Seq(T) : Padded(s, z, c) /\ Proper(c)
    BY ONLY <2>2, Parts
  <2> QED
    BY <2>1, <2>3, Zenon
<1>5. c \in Seq(Nat)
  BY BytesNumbers
<1>6. PICK v \in Nat : Reads(c, 58, 0, v)
  <2>1. 58 \in Nat
    OBVIOUS
  <2> QED
    BY <1>5, <2>1, ReadsSomething
<1>7. AllZero(s) <=> s # <<>> /\ c = <<>>
  BY <1>3, <1>4, <1>5, AllZeroParts
<1>8. PICK t \in Seq(0..255) : t = A!Decode(s)
  BY <1>4, <1>6, DecodedParts
<1>9. PICK b : Stands(b, v) /\ Padded(t, z, b)
  BY <1>4, <1>6, <1>8, DecodedParts
<1>10. b \in Seq(0..255) /\ Proper(b) /\ Reads(b, 256, 0, v) /\ (b = <<>> <=> v = 0)
  BY <1>9, StandsFor DEF Stands
<1>11. c = <<>> <=> v = 0
  <2>1. 58 \in Nat \ {0}
    OBVIOUS
  <2>2. c # <<>> => v # 0
    BY ONLY <1>4, <1>5, <1>6, <2>1, ReadsPositive
  <2>3. CASE c = <<>>
    <3>1. Len(c) = 0
      BY <2>3
    <3> QED
      BY <1>6, <2>3, <3>1, ReadsZero
  <2> QED
    BY <2>2, <2>3
<1>12. Len(t) = z + Len(b) /\ Len(s) = z + Len(c)
  BY <1>4, <1>9 DEF Padded
<1>13. CASE v = 0 /\ z = 0
  <2>1. t = <<>> /\ s = <<>>
    <3>1. Len(b) = 0 /\ Len(c) = 0
      BY <1>10, <1>11, <1>13
    <3>2. Len(t) = 0 /\ Len(s) = 0
      BY <1>12, <1>13, <3>1
    <3> QED
      BY <3>2
  <2>2. A!Encode(t) = <<>>
    BY <2>1, NothingEncoded
  <2> QED
    BY <1>7, <1>8, <2>1, <2>2 DEF Returned
<1>14. CASE v # 0 \/ z # 0
  <2>1. t # <<>>
    <3>1. Len(t) # 0
      <4>1. Len(b) \in Nat /\ (v # 0 => Len(b) # 0)
        BY <1>10
      <4> QED
        BY <1>12, <1>14, <4>1
    <3> QED
      BY <3>1
  <2>2. PICK e \in Seq(0..57) : e = A!Encode(t)
    BY <1>9, <1>10, <2>1, EncodedParts
  <2>3. PICK d \in Seq(0..57) : /\ Reads(d, 58, 0, v) /\ Padded(e, z, d)
                               /\ IF v = 0 THEN d = <<0>> ELSE Proper(d)
    BY <1>9, <1>10, <2>1, <2>2, EncodedParts
  <2>4. PICK T : T = 0..57
    OBVIOUS
  <2>5. e \in Seq(T) /\ s \in Seq(T) /\ c \in Seq(T) /\ 0 \in T
    BY <2>4
  <2>6. CASE v # 0
    <3>1. d = c
      <4>1. PICK base \in Nat \ {0} : base = 58
        OBVIOUS
      <4>2. base - 1 = 57
        BY <4>1
      <4>3. /\ d \in Seq(0..base-1) /\ c \in Seq(0..base-1) /\ Proper(d) /\ Proper(c)
            /\ Reads(d, base, 0, v) /\ Reads(c, base, 0, v)
        BY <1>4, <1>6, <2>3, <2>6, <4>1, <4>2
      <4> QED
        BY ONLY <4>3, base \in Nat \ {0}, ReadsUnique
    <3>2. Padded(e, z, c) /\ Padded(s, z, c)
      BY <1>4, <2>3, <3>1
    <3>3. e = s
      BY ONLY <2>5, <3>2, z \in Nat, PaddedSame
    <3> QED
      BY <1>7, <1>8, <1>11, <2>2, <2>6, <3>3 DEF Returned
  <2>7. CASE v = 0
    <3>1. d = <<0>> /\ Padded(e, z, d) /\ Padded(s, z, none)
      BY <1>1, <1>4, <1>11, <2>3, <2>7
    <3>2. Padded(e, z + 1, none) /\ <<0>> \o s \in Seq(T) /\ Padded(<<0>> \o s, z + 1, none)
      BY ONLY <1>1, <2>5, <3>1, z \in Nat, OneZeroMore
    <3>3. PICK y \in Nat : y = z + 1
      OBVIOUS
    <3>4. PICK more : more = <<0>> \o s
      OBVIOUS
    <3>5. /\ more \in Seq(T) /\ none \in Seq(T)
          /\ Padded(e, y, none) /\ Padded(more, y, none)
      BY <1>1, <3>2, <3>3, <3>4
    <3>6. e = more
      BY ONLY <2>5, <3>5, y \in Nat, PaddedSame
    <3>7. s # <<>>
      <4>1. z # 0
        BY <1>14, <2>7
      <4>2. Len(s) # 0
        BY <1>12, <4>1
      <4> QED
        BY <4>2
    <3> QED
      BY <1>7, <1>8, <1>11, <2>2, <2>7, <3>4, <3>6, <3>7 DEF Returned
  <2> QED
    BY <2>6, <2>7
<1> QED
  BY <1>13, <1>14

Summed(acc, b, any) == (7 * acc + b + 1) % 256
SumFold == INSTANCE Folding WITH Op <- Summed

\* What a sum of the bytes from base on has made of the first i is h[i].
SumFolded(h, base, s, n) ==
  /\ h[0] = base
  /\ \A i \in 1..n : h[i] = Summed(h[i-1], s[i], s)
  /\ SumFold!Fold(base, s, s) = h[n]

(* A checksum takes one byte after the other.                              *)
LEMMA SumPlaces ==
  ASSUME NEW base, NEW s, NEW n \in Nat, DOMAIN s = 1..n
  PROVE  \E h : SumFolded(h, base, s, n)
<1>1. \E h : /\ h[0] = base
             /\ \A i \in 1..n : h[i] = Summed(h[i-1], s[i], s)
             /\ SumFold!Fold(base, s, s) = h[n]
  BY ONLY SumFold!FoldPlaces, n \in Nat, DOMAIN s = 1..n
<1> QED
  BY <1>1, Zenon DEF SumFolded

(* A checksum is four bytes, and the first two are not both zero.          *)
LEMMA ChecksumBytes ==
  ASSUME NEW data \in Seq(0..255), data # <<>>
  PROVE  /\ Checksum(data) \in Seq(0..255) /\ Len(Checksum(data)) = 4
         /\ ~(Checksum(data)[1] = 0 /\ Checksum(data)[2] = 0)
<1>1. PICK n \in Nat \ {0} : n = Len(data) /\ DOMAIN data = 1..n
  OBVIOUS
<1>2. PICK w \in Nat \ {0} : w = 256
  OBVIOUS
<1>3. PICK sum : sum = SumFold!Fold(5, data, data)
  OBVIOUS
<1>4. Checksum(data) = <<sum, (sum + 1) % 256, 0, n % 256>>
  <2>1. Checksum(data) = <<SumFold!Fold(5, data, data), (SumFold!Fold(5, data, data) + 1) % 256,
                           0, Len(data) % 256>>
    BY DEF Checksum, FoldLeft, MapThenFoldSet, SumFold!Fold, SumFold!Last, Max, Summed
  <2> QED
    BY <1>1, <1>3, <2>1
<1>5. sum \in 0..255
  <2>1. PICK five : five = 5
    OBVIOUS
  <2>2. PICK h : SumFolded(h, five, data, n)
    BY <1>1, SumPlaces
  <2>3. PICK T : T = 0..255
    OBVIOUS
  <2>4. T \subseteq Nat /\ five \in T /\ 0..w-1 = T /\ data \in Seq(T)
    BY <1>2, <2>1, <2>3
  <2>5. \A i \in 1..n : data[i] \in T
    BY <1>1, <2>4
  <2> DEFINE Bad == {i \in 0..n : h[i] \notin T}
  <2>6. Bad = {}
    <3> SUFFICES ASSUME Bad # {} PROVE FALSE
      OBVIOUS
    <3>1. PICK i \in Bad : \A j \in Bad : i <= j
      <4>1. Bad \subseteq Nat
        OBVIOUS
      <4> HIDE DEF Bad
      <4> QED
        BY <4>1, NatMin
    <3>2. i \in 0..n /\ h[i] \notin T
      BY <3>1
    <3>3. i # 0
      BY <2>2, <2>4, <3>2 DEF SumFolded
    <3>4. i \in 1..n /\ i - 1 \in 0..n /\ ~(i <= i - 1)
      BY <3>2, <3>3
    <3>5. i - 1 \notin Bad
      BY <3>1, <3>4
    <3>6. PICK before \in Nat : before = h[i-1]
      BY <2>4, <3>4, <3>5
    <3>7. PICK b \in Nat : b = data[i]
      BY <2>4, <2>5, <3>4
    <3>8. h[i] = (7 * before + b + 1) % w
      BY <1>2, <2>2, <3>4, <3>6, <3>7 DEF Summed, SumFolded
    <3>9. 7 * before + b + 1 \in Nat
      OBVIOUS
    <3>10. h[i] \in 0..w-1
      BY <3>8, <3>9, ModWord
    <3> QED
      BY <2>4, <3>2, <3>10
  <2>7. h[n] \in T
    <3>1. n \in 0..n /\ n \notin Bad
      BY <2>6
    <3> QED
      BY <3>1
  <2> QED
    BY <1>3, <2>1, <2>2, <2>3, <2>7 DEF SumFolded
<1>6. PICK next \in 0..255 : next = (sum + 1) % 256 /\ ~(sum = 0 /\ next = 0)
  <2>1. sum + 1 \in Nat
    BY <1>5
  <2>2. (sum + 1) % w \in 0..w-1
    BY <2>1, ModWord
  <2>3. sum = 0 => (sum + 1) % 256 = 1
    <3>1. 1 \in Nat /\ 1 < 256 /\ 256 \in Nat \ {0}
      OBVIOUS
    <3>2. 1 % 256 = 1
      BY <3>1, ModSmall
    <3> QED
      BY <3>2
  <2> QED
    BY <1>2, <2>2, <2>3
<1>7. PICK last \in 0..255 : last = n % 256
  <2>1. n % w \in 0..w-1
    BY ModWord
  <2> QED
    BY <1>2, <2>1
<1>8. Checksum(data) = <<sum, next, 0, last>>
  BY <1>4, <1>6, <1>7
<1>9. PICK T : T = 0..255
  OBVIOUS
<1>10. sum \in T /\ next \in T /\ 0 \in T /\ last \in T
  BY <1>5, <1>9
<1>11. PICK four : four = <<sum, next, 0, last>>
  OBVIOUS
<1>12. four \in Seq(T) /\ Len(four) = 4 /\ four[1] = sum /\ four[2] = next
  BY ONLY <1>10, <1>11
<1> QED
  BY <1>6, <1>8, <1>9, <1>11, <1>12

(* An address gives back the version and the payload it was made of        *)
(* (base58.cpp:89-112).                                                    *)
LEMMA AddressGivesBack ==
  ASSUME NEW version \in 0..255, NEW payload \in Seq(0..255)
  PROVE  A!DecodeCheck(A!EncodeCheck(version, payload))
           = [ok |-> TRUE, version |-> version, payload |-> payload]
<1>1. PICK T : T = 0..255
  OBVIOUS
<1>2. version \in T /\ payload \in Seq(T)
  BY <1>1
<1>3. PICK data : data = <<version>> \o payload
  OBVIOUS
<1>4. data \in Seq(T) /\ data # <<>> /\ Head(data) = version /\ Tail(data) = payload
  <2>1. <<version>> \in Seq(T) /\ Len(<<version>>) = 1 /\ <<version>>[1] = version
    BY <1>2
  <2>2. /\ data \in Seq(T) /\ Len(data) = 1 + Len(payload)
        /\ \A i \in 1..(1 + Len(payload)) :
             data[i] = IF i <= 1 THEN <<version>>[i] ELSE payload[i - 1]
    BY ONLY <1>2, <1>3, <2>1, ConcatProperties
  <2>3. PICK l \in Nat : l = Len(payload) /\ Len(data) = 1 + l
    BY <1>2, <2>2
  <2>4. data # <<>> /\ data[1] = version
    BY <2>1, <2>2, <2>3
  <2>5. \A i \in 1..l : data[i+1] = payload[i]
    <3> TAKE i \in 1..l
    <3>1. i + 1 \in 1..(1 + l) /\ ~(i + 1 <= 1) /\ (i + 1) - 1 = i
      OBVIOUS
    <3> QED
      BY <2>2, <2>3, <3>1
  <2>6. Tail(data) \in Seq(T) /\ Len(Tail(data)) = l /\ \A i \in 1..l : Tail(data)[i] = data[i+1]
    BY <2>2, <2>3, <2>4
  <2>7. Tail(data) = payload
    <3>1. Len(Tail(data)) = Len(payload) /\ \A i \in 1..Len(Tail(data)) : Tail(data)[i] = payload[i]
      BY <2>3, <2>5, <2>6
    <3>2. Tail(data) \in Seq(T)
      BY <2>6
    <3> QED
      BY ONLY <1>2, <3>1, <3>2, SeqEqual
  <2>8. Head(data) = version
    BY <2>2, <2>4
  <2> QED
    BY <2>2, <2>4, <2>7, <2>8
<1>5. PICK four : four = Checksum(data)
  OBVIOUS
<1>6. four \in Seq(T) /\ Len(four) = 4 /\ ~(four[1] = 0 /\ four[2] = 0)
  BY <1>1, <1>4, <1>5, ChecksumBytes
<1>7. PICK full : full = data \o four
  OBVIOUS
<1>8. PICK n \in Nat \ {0} : n = Len(data)
  BY <1>4
<1>9. /\ full \in Seq(T) /\ Len(full) = n + 4
      /\ \A i \in 1..n : full[i] = data[i]
      /\ \A i \in 1..4 : full[n+i] = four[i]
  <2>1. /\ full \in Seq(T) /\ Len(full) = Len(data) + Len(four)
        /\ \A i \in 1..(Len(data) + Len(four)) :
             full[i] = IF i <= Len(data) THEN data[i] ELSE four[i - Len(data)]
    <3>1. /\ data \o four \in Seq(T) /\ Len(data \o four) = Len(data) + Len(four)
          /\ \A i \in 1..(Len(data) + Len(four)) :
               (data \o four)[i] = IF i <= Len(data) THEN data[i] ELSE four[i - Len(data)]
      BY ONLY <1>4, <1>6, ConcatProperties, Zenon
    <3> QED
      BY ONLY <1>7, <3>1, Zenon
  <2>2. \A i \in 1..n + 4 : full[i] = IF i <= n THEN data[i] ELSE four[i - n]
    BY <1>6, <1>8, <2>1
  <2>3. \A i \in 1..4 : full[n+i] = four[i]
    <3> TAKE i \in 1..4
    <3>1. n + i \in 1..n + 4 /\ ~(n + i <= n) /\ (n + i) - n = i
      OBVIOUS
    <3> QED
      BY <2>2, <3>1
  <2>4. \A i \in 1..n : full[i] = data[i]
    BY <2>2
  <2> QED
    BY <1>6, <1>8, <2>1, <2>3, <2>4
<1>10. ~AllZero(full)
  <2>1. n + 1 \in 1..Len(full) /\ n + 2 \in 1..Len(full)
    BY <1>9
  <2>2. full[n+1] = four[1] /\ full[n+2] = four[2]
    BY <1>9
  <2>3. DOMAIN full = 1..Len(full)
    BY <1>9
  <2> QED
    BY <1>6, <2>1, <2>2, <2>3 DEF AllZero
<1>11. A!Decode(A!EncodeCheck(version, payload)) = full
  <2>1. A!EncodeCheck(version, payload) = A!Encode(full)
    BY <1>3, <1>5, <1>7 DEF A!EncodeCheck, A!Cons
  <2>2. A!Decode(A!Encode(full)) = Returned(full)
    BY <1>1, <1>9, DecodeEncode
  <2> QED
    BY <1>10, <2>1, <2>2 DEF Returned
<1>12. SubSeq(full, 1, Len(full) - 4) = data
  <2>1. PICK body : body = SubSeq(full, 1, n)
    OBVIOUS
  <2>2. /\ body \in Seq(T) /\ Len(body) = IF 1 <= n THEN n - 1 + 1 ELSE 0
        /\ \A i \in 1..n - 1 + 1 : body[i] = full[1 + i - 1]
    BY <1>9, <2>1, SubSeqProperties
  <2>3. Len(body) = Len(data) /\ \A i \in 1..Len(body) : body[i] = data[i]
    BY <1>8, <1>9, <2>2
  <2>4. body \in Seq(T) /\ data \in Seq(T)
    BY <1>4, <2>2
  <2>5. body = data
    BY ONLY <2>3, <2>4, SeqEqual
  <2>6. Len(full) - 4 = n
    BY <1>9
  <2> QED
    BY <2>1, <2>5, <2>6
<1>13. SubSeq(full, Len(full) - 3, Len(full)) = four
  <2>1. PICK p \in Nat : p = n + 1
    OBVIOUS
  <2>2. PICK q \in Nat : q = n + 4
    OBVIOUS
  <2>3. PICK rest : rest = SubSeq(full, p, q)
    OBVIOUS
  <2>4. /\ rest \in Seq(T) /\ Len(rest) = IF p <= q THEN q - p + 1 ELSE 0
        /\ \A i \in 1..q - p + 1 : rest[i] = full[p + i - 1]
    BY <1>9, <2>1, <2>2, <2>3, SubSeqProperties
  <2>5. Len(rest) = 4 /\ \A i \in 1..4 : rest[i] = full[n + i]
    BY <2>1, <2>2, <2>4
  <2>6. Len(rest) = Len(four) /\ \A i \in 1..Len(rest) : rest[i] = four[i]
    BY <1>6, <1>9, <2>5
  <2>7. rest \in Seq(T) /\ four \in Seq(T)
    BY <1>6, <2>4
  <2>8. rest = four
    BY ONLY <2>6, <2>7, SeqEqual
  <2>9. Len(full) - 3 = p /\ Len(full) = q
    BY <1>9, <2>1, <2>2
  <2> QED
    BY <2>3, <2>8, <2>9
<1>14. Len(full) >= 5
  BY <1>9
<1> QED
  BY <1>4, <1>5, <1>11, <1>12, <1>13, <1>14 DEF A!DecodeCheck

\* The argument of addresses is a sequence of bytes.
BytesTyped == subject = "bytes" => arg \in Seq(Byte)

(* It grows by a byte at a time.                                           *)
LEMMA BytesInvariance == MCSpec => []BytesTyped
<1>1. MCInit => BytesTyped
  BY DEF MCInit, BytesTyped
<1>2. BytesTyped /\ [MCNext]_<<vars, history, subject, arg>> => BytesTyped'
  <2> SUFFICES ASSUME BytesTyped, [MCNext]_<<vars, history, subject, arg>> PROVE BytesTyped'
    OBVIOUS
  <2>1. CASE UNCHANGED <<subject, arg>>
    BY <2>1 DEF BytesTyped
  <2>2. CASE \E b \in Byte : Grow("bytes", b, MaxLength)
    BY <2>2 DEF BytesTyped, Grow
  <2>3. ASSUME NEW kind, kind # "bytes", NEW x, NEW length, Grow(kind, x, length)
        PROVE  BytesTyped'
    BY <2>3 DEF BytesTyped, Grow
  <2>4. CASE \E k \in Key : CallGet(k) \/ \E v \in Value : CallPut(k, v)
    BY <2>1, <2>4 DEF CallGet, CallPut
  <2>5. "leaves" # "bytes" /\ "tokens" # "bytes" /\ "words" # "bytes" /\ "gaps" # "bytes"
        /\ "message" # "bytes" /\ "heights" # "bytes"
    OBVIOUS
  <2> QED
    BY <2>1, <2>2, <2>3, <2>4, <2>5, Zenon DEF MCNext
<1> QED
  BY <1>1, <1>2, PTL DEF MCSpec

(* Addresses stand for what they are made of, whatever the bytes and        *)
(* however many (base58.cpp:9-112).                                        *)
THEOREM AddressesInvert == MCSpec => []AddressInverse
<1>1. BytesTyped => AddressInverse
  <2> SUFFICES ASSUME BytesTyped, subject = "bytes" PROVE AddressInverse
    BY DEF AddressInverse
  <2>1. arg \in Seq(0..255)
    <3>1. arg \in Seq(Byte)
      BY DEF BytesTyped
    <3>2. Seq(Byte) \subseteq Seq(0..255)
      BY ONLY ByteAssumption, SeqMonotonic, Zenon
    <3> QED
      BY ONLY <3>1, <3>2, Zenon
  <2>2. A!Decode(A!Encode(arg)) = Returned(arg)
    BY <2>1, DecodeEncode
  <2>3. ASSUME \A i \in DOMAIN arg : arg[i] < 58
        PROVE  A!Encode(A!Decode(arg)) = Returned(arg)
    <3>1. PICK n \in Nat : n = Len(arg) /\ DOMAIN arg = 1..n /\ arg = [i \in 1..n |-> arg[i]]
      BY <2>1
    <3>2. \A i \in 1..n : arg[i] \in 0..57
      <4> TAKE i \in 1..n
      <4>1. PICK T : T = 0..255
        OBVIOUS
      <4>2. arg[i] \in T
        BY <2>1, <3>1, <4>1
      <4>3. arg[i] < 58
        BY <2>3, <3>1
      <4> QED
        BY <4>1, <4>2, <4>3
    <3>3. arg \in Seq(0..57)
      <4>1. PICK T : T = 0..57
        OBVIOUS
      <4>2. arg \in [1..n -> T]
        BY <3>1, <3>2, <4>1
      <4>3. arg \in Seq(T)
        BY ONLY <4>2, n \in Nat
      <4> QED
        BY <4>1, <4>3
    <3> QED
      BY <3>3, EncodeDecode
  <2>4. ASSUME NEW version \in Byte
        PROVE  A!DecodeCheck(A!EncodeCheck(version, arg))
                 = [ok |-> TRUE, version |-> version, payload |-> arg]
    BY <2>1, <2>4, ByteAssumption, AddressGivesBack
  <2>5. Returned(arg) = IF AllZero(arg) THEN Cons(0, arg) ELSE arg
    BY DEF Returned, Cons
  <2> QED
    BY <2>2, <2>3, <2>4, <2>5, Zenon DEF AddressInverse
<1> QED
  BY <1>1, BytesInvariance, PTL
=============================================================================
