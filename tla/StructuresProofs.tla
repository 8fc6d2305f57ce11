-------------------------- MODULE StructuresProofs --------------------------
(***************************************************************************)
(* Theorems about the data structures of MCStructures.  The cache has an   *)
(* inductive invariant.  What is said of a pure function holds for every   *)
(* argument, so it holds in every state.                                   *)
(***************************************************************************)
EXTENDS MCStructures, Sums, SequenceTheorems

-----------------------------------------------------------------------------
(* The block cache *)

\* What is in the cache, in which order, and how long ago it was used.
CacheInv ==
  /\ order \in Seq(DOMAIN cache)
  /\ DOMAIN cache = {order[i] : i \in 1..Len(order)}
  /\ Len(order) <= Cap
  /\ \A k \in DOMAIN others : others[k] \in Nat
  /\ DOMAIN cache = {k \in DOMAIN others : others[k] < Cap}
  /\ \A i \in 1..Len(order) : others[order[i]] = i - 1
  /\ DOMAIN others \subseteq DOMAIN latest
  /\ \A k \in DOMAIN cache : cache[k] = latest[k]

(* No key is listed twice: it was used last at one time.                   *)
LEMMA OrderDistinct ==
  ASSUME CacheInv
  PROVE  \A i, j \in 1..Len(order) : order[i] = order[j] => i = j
<1> TAKE i, j \in 1..Len(order)
<1>1. others[order[i]] = i - 1 /\ others[order[j]] = j - 1 /\ i \in Int /\ j \in Int
  BY DEF CacheInv
<1> QED
  BY <1>1

(* The cache holds as many keys as are listed.                             *)
LEMMA CacheSize ==
  ASSUME CacheInv
  PROVE  IsFiniteSet(DOMAIN cache) /\ Cardinality(DOMAIN cache) = Len(order)
<1>1. Len(order) \in Nat /\ order \in [1..Len(order) -> DOMAIN cache]
  BY DEF CacheInv
<1>2. order \in Bijection(1..Len(order), DOMAIN cache)
  BY <1>1, OrderDistinct DEF CacheInv, Bijection, Injection, Surjection, IsInjective
<1>3. IsFiniteSet(1..Len(order)) /\ Cardinality(1..Len(order)) = Len(order)
  BY <1>1, FS_Interval
<1> QED
  BY <1>2, <1>3, FS_Bijection DEF ExistsBijection

\* Where a key is that is cached, behind the others if it is not, and how long
\* the list gets.
PlaceOf(k) == IF k \in DOMAIN cache THEN others[k] + 1 ELSE Len(order) + 1
LenWith(k) == IF k \in DOMAIN cache THEN Len(order) ELSE Len(order) + 1

(* The keys of the list are in the cache, and each was used.               *)
LEMMA OrderTyped ==
  ASSUME CacheInv
  PROVE  /\ Len(order) \in Nat /\ Cap \in Nat /\ Len(order) <= Cap
         /\ \A i \in 1..Len(order) : /\ order[i] \in DOMAIN cache
                                    /\ order[i] \in DOMAIN others
                                    /\ others[order[i]] = i - 1
<1>1. order \in Seq(DOMAIN cache) /\ DOMAIN cache \subseteq DOMAIN others
  BY DEF CacheInv
<1>2. Len(order) \in Nat /\ \A i \in 1..Len(order) : order[i] \in DOMAIN cache
  BY <1>1
<1> QED
  BY <1>1, <1>2, CacheAssumption DEF CacheInv

(* After the last use of a key that is not cached, Cap others were used.    *)
LEMMA Outside ==
  ASSUME CacheInv, NEW j \in DOMAIN others, j \notin DOMAIN cache
  PROVE  others[j] \in Nat /\ others[j] >= Cap
<1>1. others[j] \in Nat /\ Cap \in Nat /\ ~(others[j] < Cap)
  BY CacheAssumption DEF CacheInv
<1> QED
  BY <1>1

(* What moving a key to the front leaves at each place (list::erase and     *)
(* push_front, cache.cpp:3-4, 9).                                          *)
LEMMA MovedAt ==
  ASSUME CacheInv, NEW k
  PROVE  /\ PlaceOf(k) \in 1..LenWith(k) /\ LenWith(k) \in Nat
         /\ k \in DOMAIN cache => order[PlaceOf(k)] = k
         /\ MovedToFront(k) \in Seq(DOMAIN cache \cup {k})
         /\ Len(MovedToFront(k)) = LenWith(k)
         /\ MovedToFront(k)[1] = k
         /\ \A i \in 2..LenWith(k) :
              MovedToFront(k)[i] = IF i <= PlaceOf(k) THEN order[i-1] ELSE order[i]
<1> USE DEF PlaceOf, LenWith
<1> DEFINE T == DOMAIN cache \cup {k}
<1>1. /\ order \in Seq(T) /\ Len(order) \in Nat /\ <<k>> \in Seq(T)
      /\ Len(<<k>>) = 1 /\ <<k>>[1] = k
      /\ \A i \in 1..Len(order) : order[i] \in T
  <2>1. order \in Seq(DOMAIN cache) /\ DOMAIN cache \subseteq T
    BY DEF CacheInv
  <2>2. order \in Seq(T)
    BY <2>1, SeqMonotonic
  <2> QED
    BY <2>2
<1>2. CASE k \notin DOMAIN cache
  <2>1. MovedToFront(k) = <<k>> \o order
    BY <1>2 DEF MovedToFront, Cons
  <2>2. /\ <<k>> \o order \in Seq(T) /\ Len(<<k>> \o order) = 1 + Len(order)
        /\ \A i \in 1..(1 + Len(order)) :
             (<<k>> \o order)[i] = IF i <= 1 THEN <<k>>[i] ELSE order[i - 1]
    BY <1>1, ConcatProperties
  <2> QED
    BY <1>1, <1>2, <2>1, <2>2
<1>3. CASE k \in DOMAIN cache
  <2> DEFINE p == Position(k)
             n == Len(order)
             l == SubSeq(order, 1, p - 1)
             r == SubSeq(order, p + 1, n)
  <2>1. p \in 1..n /\ order[p] = k
    <3>1. \E i \in 1..Len(order) : order[i] = k
      <4>1. DOMAIN cache = {order[i] : i \in 1..Len(order)}
        BY DEF CacheInv
      <4> QED
        BY ONLY <1>3, <4>1
    <3>2. p = CHOOSE i \in 1..Len(order) : order[i] = k
      BY DEF Position
    <3> HIDE DEF p
    <3> QED
      BY ONLY <3>1, <3>2 DEF n
  <2>2. others[k] = p - 1
    BY <2>1 DEF CacheInv
  <2> HIDE DEF p, n
  <2>3. /\ l \in Seq(T) /\ Len(l) = p - 1
        /\ \A i \in 1..(p - 1) : l[i] = order[i]
    BY <1>1, <2>1, SubSeqProperties DEF n
  <2>4. /\ r \in Seq(T) /\ Len(r) = n - p
        /\ \A i \in 1..(n - p) : r[i] = order[p + i]
    <3>1. /\ r \in Seq(T) /\ Len(r) = IF p+1 <= n THEN n-(p+1)+1 ELSE 0
          /\ \A i \in 1..(n-(p+1)+1) : r[i] = order[(p+1)+i-1]
      BY <1>1, <2>1, SubSeqProperties DEF n
    <3> HIDE DEF r
    <3> QED
      BY <1>1, <2>1, <3>1 DEF n
  <2> HIDE DEF l, r
  <2>5. /\ l \o r \in Seq(T) /\ Len(l \o r) = n - 1
        /\ \A i \in 1..(n - 1) : (l \o r)[i] = IF i < p THEN order[i] ELSE order[i + 1]
    <3>1. /\ l \o r \in Seq(T) /\ Len(l \o r) = Len(l) + Len(r)
          /\ \A i \in 1..(Len(l) + Len(r)) :
               (l \o r)[i] = IF i <= Len(l) THEN l[i] ELSE r[i - Len(l)]
      BY <2>3, <2>4, ConcatProperties
    <3>2. n \in Nat /\ p \in 1..n /\ (p - 1) + (n - p) = n - 1
      BY <1>1, <2>1 DEF n
    <3>3. ASSUME NEW i \in 1..(n - 1)
          PROVE  (l \o r)[i] = IF i < p THEN order[i] ELSE order[i + 1]
      <4>1. CASE i < p
        <5>1. i \in 1..(p - 1) /\ i <= p - 1
          BY <3>2, <4>1
        <5> QED
          BY <2>3, <2>4, <3>1, <3>2, <4>1, <5>1
      <4>2. CASE ~(i < p)
        <5>1. i - (p - 1) \in 1..(n - p) /\ p + (i - (p - 1)) = i + 1 /\ ~(i <= p - 1)
          BY <3>2, <4>2
        <5> QED
          BY <2>3, <2>4, <3>1, <3>2, <4>2, <5>1
      <4> QED
        BY <4>1, <4>2
    <3> QED
      BY <2>3, <2>4, <3>1, <3>2, <3>3
  <2>6. MovedToFront(k) = <<k>> \o (l \o r)
    BY <1>3 DEF MovedToFront, Cons, RemoveAt, l, r, p, n
  <2>7. /\ <<k>> \o (l \o r) \in Seq(T) /\ Len(<<k>> \o (l \o r)) = 1 + (n - 1)
        /\ \A i \in 1..(1 + (n - 1)) :
             (<<k>> \o (l \o r))[i] = IF i <= 1 THEN <<k>>[i] ELSE (l \o r)[i - 1]
    BY <1>1, <2>5, ConcatProperties
  <2>8. n \in Nat /\ p \in Nat /\ 1 + (n - 1) = n
    BY <1>1, <2>1 DEF n
  <2>9. \A i \in 2..n : MovedToFront(k)[i] = IF i <= p THEN order[i-1] ELSE order[i]
    <3> TAKE i \in 2..n
    <3>1. i - 1 \in 1..(n - 1) /\ i \in 1..(1 + (n - 1)) /\ ~(i <= 1)
          /\ (i - 1 < p <=> i <= p) /\ (i - 1) + 1 = i
      BY <2>1, <2>8
    <3>2. MovedToFront(k)[i] = (l \o r)[i - 1]
      BY <2>6, <2>7, <3>1
    <3> QED
      BY <2>5, <3>1, <3>2
  <2>10. MovedToFront(k)[1] = k
    BY <1>1, <2>1, <2>6, <2>7, <2>8
  <2>11. p = others[k] + 1
    BY <2>2, <2>8
  <2>12. MovedToFront(k) \in Seq(T) /\ Len(MovedToFront(k)) = n
    BY <2>6, <2>7, <2>8
  <2>13. n = Len(order)
    BY DEF n
  <2> HIDE DEF T
  <2> QED
    BY ONLY <1>3, <2>1, <2>8, <2>9, <2>10, <2>11, <2>12, <2>13 DEF T
<1> QED
  BY <1>2, <1>3

(* What has happened since the last use of each key, when k is used: those  *)
(* in the cache before it are one further back.                            *)
LEMMA UsedAt ==
  ASSUME CacheInv, NEW k, UsedNow(k)
  PROVE  /\ DOMAIN others' = DOMAIN others \cup {k} /\ others'[k] = 0
         /\ \A j \in DOMAIN others' : others'[j] \in Nat
         /\ \A j \in DOMAIN others : j # k =>
              others'[j] = IF k \in DOMAIN others /\ others[k] < others[j]
                           THEN others[j] ELSE others[j] + 1
  BY DEF CacheInv, UsedNow

(* After a use of k the list with k at its front is in the order of use.    *)
LEMMA MovedOrder ==
  ASSUME CacheInv, NEW k, UsedNow(k)
  PROVE  /\ \A i \in 1..Len(MovedToFront(k)) : others'[MovedToFront(k)[i]] = i - 1
         /\ DOMAIN cache \cup {k}
              = {MovedToFront(k)[i] : i \in 1..Len(MovedToFront(k))}
<1> DEFINE n == Len(MovedToFront(k))
           at(i) == MovedToFront(k)[i]
           p == PlaceOf(k)
<1>1. /\ p \in 1..n /\ n \in Nat /\ at(1) = k
      /\ \A i \in 2..n : at(i) = IF i <= p THEN order[i-1] ELSE order[i]
      /\ n = IF k \in DOMAIN cache THEN Len(order) ELSE Len(order) + 1
  <2>1. n = LenWith(k)
    BY MovedAt
  <2> HIDE DEF n
  <2> QED
    BY <2>1, MovedAt DEF LenWith
<1>2. /\ Len(order) \in Nat /\ Cap \in Nat /\ Len(order) <= Cap
      /\ \A i \in 1..Len(order) : order[i] \in DOMAIN cache
      /\ \A i \in 1..Len(order) : order[i] \in DOMAIN others /\ others[order[i]] = i - 1
  BY OrderTyped
<1>3. k \in DOMAIN cache => p \in 1..Len(order) /\ order[p] = k /\ others[k] = p - 1
  BY MovedAt, <1>2 DEF PlaceOf, LenWith
<1>4. k \notin DOMAIN cache => p = Len(order) + 1 /\ (k \in DOMAIN others => others[k] >= Cap)
  BY Outside DEF PlaceOf
<1>13. /\ others'[k] = 0
       /\ \A j \in DOMAIN others : j # k =>
            others'[j] = IF k \in DOMAIN others /\ others[k] < others[j]
                         THEN others[j] ELSE others[j] + 1
  BY UsedAt
<1>5. k \in DOMAIN cache => k \in DOMAIN others
  BY DEF CacheInv
<1>12. DOMAIN cache = {order[i] : i \in 1..Len(order)}
  BY DEF CacheInv
<1> HIDE DEF n, at, p
<1>6. ASSUME NEW i \in 2..p, i <= n
      PROVE  at(i) = order[i-1] /\ i - 1 \in 1..Len(order) /\ others'[at(i)] = i - 1
  <2>1. at(i) = order[i-1] /\ i - 1 \in 1..Len(order) /\ i - 1 < p
    BY <1>1, <1>2, <1>3, <1>4, <1>6
  <2>2. others[order[i-1]] = i - 2 /\ order[i-1] \in DOMAIN others
    BY <1>2, <2>1
  <2>3. order[i-1] # k
    BY <1>2, <1>3, <2>1, <2>2
  <2>4. ~(k \in DOMAIN others /\ others[k] < others[order[i-1]])
    <3>1. CASE k \in DOMAIN cache
      <4>1. others[k] = p - 1 /\ p \in 1..Len(order)
        BY <1>3, <3>1
      <4>2. ~(p - 1 < i - 2)
        BY <1>2, <2>1, <4>1
      <4> QED
        BY <2>2, <4>1, <4>2
    <3>2. CASE k \notin DOMAIN cache /\ k \in DOMAIN others
      <4>1. others[k] \in Nat /\ others[k] >= Cap
        BY <3>2, Outside
      <4> QED
        BY <1>2, <2>1, <2>2, <4>1
    <3> QED
      BY <3>1, <3>2
  <2>5. others'[order[i-1]] = others[order[i-1]] + 1
    BY <1>13, <2>2, <2>3, <2>4
  <2> QED
    BY <2>1, <2>2, <2>5
<1>7. ASSUME NEW i \in 2..n, p < i
      PROVE  at(i) = order[i] /\ i \in 1..Len(order) /\ others'[at(i)] = i - 1
  <2>1. k \in DOMAIN cache /\ at(i) = order[i] /\ i \in 1..Len(order)
    BY <1>1, <1>2, <1>4, <1>7
  <2>2. others[order[i]] = i - 1 /\ order[i] \in DOMAIN others /\ others[k] = p - 1
    BY <1>2, <1>3, <2>1
  <2>3. order[i] # k /\ k \in DOMAIN others /\ others[k] < others[order[i]]
    BY <1>1, <1>5, <1>7, <2>1, <2>2
  <2> QED
    BY <1>13, <2>1, <2>2, <2>3
<1>8. \A i \in 1..n : others'[at(i)] = i - 1
  <2> TAKE i \in 1..n
  <2>1. CASE i = 1
    BY <1>1, <1>13, <2>1
  <2>2. CASE i \in 2..n
    BY <1>1, <1>6, <1>7, <2>2
  <2> QED
    BY <1>1, <2>1, <2>2
<1>9. \A i \in 1..n : at(i) \in DOMAIN cache \cup {k}
  <2> TAKE i \in 1..n
  <2>1. CASE i = 1
    BY <1>1, <2>1
  <2>2. CASE i \in 2..n
    BY <1>1, <1>2, <1>6, <1>7, <2>2, SMTT(30)
  <2> QED
    BY <1>1, <2>1, <2>2
<1>10. ASSUME NEW j \in DOMAIN cache \cup {k} PROVE \E i \in 1..n : j = at(i)
  <2>1. CASE j = k
    BY <1>1, <2>1
  <2>2. CASE j # k
    <3>1. PICK m \in 1..Len(order) : j = order[m] /\ m # p
      BY <1>3, <1>4, <1>10, <1>12, <2>2
    <3>2. CASE m < p
      <4>1. m + 1 \in 2..p /\ m + 1 <= n /\ (m + 1) - 1 = m
        BY <1>1, <1>2, <3>2
      <4>2. at(m+1) = order[m] /\ m + 1 \in 1..n
        BY <1>1, <1>6, <4>1
      <4> QED
        BY <3>1, <4>2
    <3>3. CASE m > p
      <4>1. m \in 2..n
        BY <1>1, <1>2, <3>3
      <4> QED
        BY <1>1, <1>7, <3>1, <3>3, <4>1
    <3> QED
      BY <1>1, <1>2, <3>1, <3>2, <3>3
  <2> QED
    BY <2>1, <2>2
<1> QED
  BY <1>8, <1>9, <1>10 DEF n, at

(* Of the keys that are not in the cache and not used now, none comes near: *)
(* Cap others have been used since.                                        *)
LEMMA FarAway ==
  ASSUME CacheInv, NEW k, UsedNow(k), NEW j \in DOMAIN others', j # k, j \notin DOMAIN cache
  PROVE  j \in DOMAIN others /\ others'[j] >= Cap
<1>1. DOMAIN others' = DOMAIN others \cup {k}
  BY UsedAt
<1>2. j \in DOMAIN others
  BY <1>1
<1>3. others[j] \in Nat /\ others[j] >= Cap /\ Cap \in Nat
  BY <1>2, Outside, CacheAssumption
<1>4. others'[j] = others[j] \/ others'[j] = others[j] + 1
  BY <1>2, UsedAt
<1> QED
  BY <1>2, <1>3, <1>4

(* put keeps the cache what it should be: the key that is evicted is the    *)
(* one after which Cap others were used (cache.cpp:2-7).                   *)
LEMMA PutStep ==
  ASSUME CacheInv, NEW k, NEW v, Put(k, v), UsedNow(k),
         latest' = [j \in DOMAIN latest \cup {k} |-> IF j = k THEN v ELSE latest[j]]
  PROVE  CacheInv'
<1> DEFINE moved  == MovedToFront(k)
           stored == [x \in DOMAIN cache \cup {k} |-> IF x = k THEN v ELSE cache[x]]
           full   == Cardinality(DOMAIN stored) > Cap
           n      == Len(moved)
<1>1. /\ order' = IF full THEN Front(moved) ELSE moved
      /\ cache' = IF full THEN [x \in DOMAIN stored \ {Last(moved)} |-> stored[x]]
                          ELSE stored
  BY DEF Put
<1>2. DOMAIN stored = DOMAIN cache \cup {k}
  OBVIOUS
<1>3. \A j \in DOMAIN stored : stored[j] = latest'[j]
  BY DEF CacheInv
<1>4. /\ moved \in Seq(DOMAIN stored) /\ n \in Nat /\ n = LenWith(k)
      /\ \A i \in 1..n : others'[moved[i]] = i - 1
      /\ DOMAIN stored = {moved[i] : i \in 1..n}
  <2>1. moved \in Seq(DOMAIN cache \cup {k}) /\ n = LenWith(k) /\ LenWith(k) \in Nat
    BY MovedAt
  <2>2. /\ \A i \in 1..n : others'[moved[i]] = i - 1
        /\ DOMAIN cache \cup {k} = {moved[i] : i \in 1..n}
    BY MovedOrder
  <2> HIDE DEF moved, n
  <2> QED
    BY <1>2, <2>1, <2>2
<1>5. full <=> n > Cap
  <2>1. IsFiniteSet(DOMAIN cache) /\ Cardinality(DOMAIN cache) = Len(order)
    BY CacheSize
  <2>2. Cardinality(DOMAIN cache \cup {k}) = LenWith(k)
    BY <2>1, FS_AddElement DEF LenWith
  <2> QED
    BY <1>2, <1>4, <2>2
<1>6. n <= Cap + 1 /\ n >= 1 /\ Cap \in Nat
  BY <1>4, OrderTyped, MovedAt DEF LenWith
<1>7. /\ DOMAIN others' = DOMAIN others \cup {k} /\ \A j \in DOMAIN others' : others'[j] \in Nat
      /\ DOMAIN others' \subseteq DOMAIN latest' /\ DOMAIN stored \subseteq DOMAIN others'
  BY <1>2, UsedAt DEF CacheInv
<1>8. \A j \in DOMAIN others' : j \notin DOMAIN stored => others'[j] >= Cap
  BY <1>2, FarAway
<1> HIDE DEF moved, stored, full, n
<1>9. CASE ~full
  <2>1. order' = moved /\ cache' = stored
    BY <1>1, <1>9
  <2>2. \A j \in DOMAIN stored : others'[j] < Cap
    <3> TAKE j \in DOMAIN stored
    <3>1. PICK i \in 1..n : j = moved[i]
      BY <1>4
    <3> QED
      BY <1>4, <1>5, <1>6, <1>9, <3>1, SMTT(30)
  <2>3. DOMAIN cache' = {j \in DOMAIN others' : others'[j] < Cap}
    <3>1. \A j \in DOMAIN others' : j \notin DOMAIN stored => ~(others'[j] < Cap)
      BY <1>6, <1>7, <1>8
    <3> QED
      BY <1>7, <2>1, <2>2, <3>1
  <2>4. /\ order' \in Seq(DOMAIN cache') /\ Len(order') <= Cap
        /\ DOMAIN cache' = {order'[i] : i \in 1..Len(order')}
        /\ \A i \in 1..Len(order') : others'[order'[i]] = i - 1
    <3>1. Len(order') = n /\ n <= Cap
      BY <1>4, <1>5, <1>6, <1>9, <2>1 DEF n
    <3> QED
      BY <1>4, <2>1, <3>1
  <2> QED
    BY <1>3, <1>7, <2>1, <2>3, <2>4 DEF CacheInv
<1>10. CASE full
  <2>1. n = Cap + 1
    BY <1>4, <1>5, <1>6, <1>10
  <2>2. Last(moved) = moved[n] /\ Front(moved) = SubSeq(moved, 1, Cap)
    BY <2>1, <1>6 DEF Last, Front, n
  <2>3. /\ order' = SubSeq(moved, 1, Cap) /\ DOMAIN cache' = DOMAIN stored \ {moved[n]}
        /\ \A j \in DOMAIN cache' : cache'[j] = stored[j]
    BY <1>1, <1>10, <2>2
  <2>4. others'[moved[n]] = Cap /\ moved[n] \in DOMAIN others'
    BY <1>4, <1>6, <1>7, <2>1
  <2>5. \A i \in 1..Cap : moved[i] \in DOMAIN stored \ {moved[n]} /\ others'[moved[i]] = i - 1
    BY <1>4, <1>6, <2>1, <2>4, SMTT(30)
  <2>6. /\ order' \in Seq(DOMAIN cache') /\ Len(order') = Cap
        /\ \A i \in 1..Cap : order'[i] = moved[i]
    <3>1. \A i \in 1..Cap : moved[i] \in DOMAIN cache'
      BY <2>3, <2>5
    <3>2. /\ SubSeq(moved, 1, Cap) \in Seq(DOMAIN cache')
          /\ Len(SubSeq(moved, 1, Cap)) = IF 1 <= Cap THEN Cap - 1 + 1 ELSE 0
          /\ \A i \in 1..(Cap - 1 + 1) : SubSeq(moved, 1, Cap)[i] = moved[1 + i - 1]
      BY <1>6, <3>1, SubSeqProperties
    <3> QED
      BY <1>6, <2>3, <3>2
  <2>7. DOMAIN cache' = {order'[i] : i \in 1..Len(order')}
    <3>1. \A j \in DOMAIN stored \ {moved[n]} : \E i \in 1..Cap : j = moved[i]
      <4> TAKE j \in DOMAIN stored \ {moved[n]}
      <4>1. PICK i \in 1..n : j = moved[i]
        BY <1>4
      <4>2. i # n
        BY <4>1
      <4>3. i \in 1..Cap
        BY <1>4, <1>6, <2>1, <4>2
      <4> QED
        BY <4>1, <4>3
    <3> QED
      BY <2>3, <2>5, <2>6, <3>1
  <2>8. \A j \in DOMAIN cache' : others'[j] < Cap
    BY <1>6, <2>5, <2>6, <2>7
  <2>9. \A j \in DOMAIN others' : j \notin DOMAIN cache' => ~(others'[j] < Cap)
    BY <1>6, <1>7, <1>8, <2>3, <2>4
  <2>10. DOMAIN cache' = {j \in DOMAIN others' : others'[j] < Cap}
    BY <1>7, <2>3, <2>8, <2>9
  <2>11. Len(order') <= Cap /\ \A i \in 1..Len(order') : others'[order'[i]] = i - 1
    BY <1>6, <2>5, <2>6
  <2>12. \A j \in DOMAIN cache' : cache'[j] = latest'[j]
    BY <1>3, <2>3
  <2> QED
    BY <1>7, <2>6, <2>7, <2>10, <2>11, <2>12 DEF CacheInv
<1> QED
  BY <1>9, <1>10

(* get keeps it as well: what it moves is in the list already               *)
(* (cache.cpp:8-12).                                                       *)
LEMMA GetStep ==
  ASSUME CacheInv, NEW k, Get(k), IF Cached(k) THEN UsedNow(k) ELSE UNCHANGED others,
         UNCHANGED latest
  PROVE  CacheInv'
<1>1. CASE k \notin DOMAIN cache
  <2>1. UNCHANGED <<order, cache, others, latest>>
    BY <1>1 DEF Get, Cached
  <2> QED
    BY <2>1, ZenonT(60) DEF CacheInv
<1>2. CASE k \in DOMAIN cache
  <2>1. order' = MovedToFront(k) /\ UNCHANGED <<cache, latest>> /\ UsedNow(k)
    BY <1>2 DEF Get, Cached
  <2>2. DOMAIN cache \cup {k} = DOMAIN cache /\ k \in DOMAIN others
    BY <1>2 DEF CacheInv
  <2>3. /\ order' \in Seq(DOMAIN cache) /\ Len(order') = Len(order)
        /\ \A i \in 1..Len(order') : others'[order'[i]] = i - 1
        /\ DOMAIN cache = {order'[i] : i \in 1..Len(order')}
    <3>1. MovedToFront(k) \in Seq(DOMAIN cache \cup {k}) /\ Len(MovedToFront(k)) = LenWith(k)
      BY MovedAt
    <3>2. /\ \A i \in 1..Len(MovedToFront(k)) : others'[MovedToFront(k)[i]] = i - 1
          /\ DOMAIN cache \cup {k}
               = {MovedToFront(k)[i] : i \in 1..Len(MovedToFront(k))}
      BY <2>1, MovedOrder
    <3> QED
      BY <1>2, <2>1, <2>2, <3>1, <3>2 DEF LenWith
  <2>4. DOMAIN others' = DOMAIN others /\ \A j \in DOMAIN others' : others'[j] \in Nat
    <3>1. DOMAIN others' = DOMAIN others \cup {k} /\ \A j \in DOMAIN others' : others'[j] \in Nat
      BY <2>1, UsedAt
    <3>2. DOMAIN others \cup {k} = DOMAIN others
      BY <2>2
    <3>3. DOMAIN others' = DOMAIN others
      BY <3>1, <3>2
    <3> QED
      BY <3>1, <3>3
  <2>5. \A j \in DOMAIN cache : others'[j] < Cap
    <3> TAKE j \in DOMAIN cache
    <3>1. PICK i \in 1..Len(order') : j = order'[i]
      BY <2>3
    <3>2. others'[j] = i - 1 /\ i \in 1..Len(order)
      BY <2>3, <3>1
    <3>3. Len(order) \in Nat /\ Cap \in Nat /\ Len(order) <= Cap
      BY OrderTyped
    <3> QED
      BY <3>2, <3>3
  <2>6. \A j \in DOMAIN others' : j \notin DOMAIN cache => ~(others'[j] < Cap)
    <3> TAKE j \in DOMAIN others'
    <3>1. j \notin DOMAIN cache => others'[j] >= Cap
      BY <1>2, <2>1, FarAway
    <3> QED
      BY <2>4, <3>1, CacheAssumption
  <2>7. DOMAIN cache = {j \in DOMAIN others' : others'[j] < Cap}
    BY <2>2, <2>4, <2>5, <2>6 DEF CacheInv
  <2> QED
    BY <2>1, <2>3, <2>4, <2>7 DEF CacheInv
<1> QED
  BY <1>1, <1>2

(* The cache holds what was used last, whatever its capacity and in         *)
(* whatever order it is called (cache.cpp:2-12).                           *)
THEOREM CacheKeepsRecent == MCSpec => []CacheRecent
<1>1. MCInit => CacheInv
  BY CacheAssumption DEF MCInit, Init, CacheInv
<1>2. CacheInv /\ [MCNext]_<<vars, history, subject, arg>> => CacheInv'
  <2> SUFFICES ASSUME CacheInv, [MCNext]_<<vars, history, subject, arg>> PROVE CacheInv'
    OBVIOUS
  <2>1. ASSUME NEW k \in Key, CallGet(k) PROVE CacheInv'
    BY <2>1, GetStep DEF CallGet
  <2>2. ASSUME NEW k \in Key, NEW v \in Value, CallPut(k, v) PROVE CacheInv'
    BY <2>2, PutStep DEF CallPut
  <2>3. CASE UNCHANGED <<vars, history>>
    BY <2>3 DEF CacheInv, vars, history
  <2>4. CASE \E kind, x, length : Grow(kind, x, length)
    BY <2>3, <2>4 DEF Grow
  <2> QED
    BY <2>1, <2>2, <2>3, <2>4, Zenon DEF MCNext
<1>3. CacheInv => CacheRecent
  BY OrderDistinct DEF CacheInv, CacheRecent, Agreement
<1> QED
  BY <1>1, <1>2, <1>3, PTL DEF MCSpec

-----------------------------------------------------------------------------
(* Arguments of the pure functions *)

ArgTyped ==
  /\ subject = "leaves"  => arg \in Seq(Hash)
  /\ subject = "bytes"   => arg \in Seq(Byte)
  /\ subject = "tokens"  => arg \in Seq(Tokens)
  /\ subject = "words"   => arg \in Seq(Words)
  /\ subject = "gaps"    => arg \in Seq(Int)
  /\ subject = "message" => arg \in Seq(Data)
  /\ subject = "heights" => arg \in Seq(Nat)

(* An argument is a sequence of what it grows by.                          *)
LEMMA ArgInvariance == MCSpec => []ArgTyped
<1>1. MCInit => ArgTyped
  BY DEF MCInit, ArgTyped
<1>2. ArgTyped /\ [MCNext]_<<vars, history, subject, arg>> => ArgTyped'
  <2> SUFFICES ASSUME ArgTyped, [MCNext]_<<vars, history, subject, arg>> PROVE ArgTyped'
    OBVIOUS
  <2>1. CASE UNCHANGED <<subject, arg>>
    BY <2>1 DEF ArgTyped
  <2>2. CASE \E h \in Hash : Grow("leaves", h, MaxLength)
    BY <2>2 DEF ArgTyped, Grow
  <2>3. CASE \E b \in Byte : Grow("bytes", b, MaxLength)
    BY <2>3 DEF ArgTyped, Grow
  <2>4. CASE \E t \in Tokens : Grow("tokens", t, MaxLength)
    BY <2>4 DEF ArgTyped, Grow
  <2>5. CASE \E w \in Words : Grow("words", w, MaxLength)
    BY <2>5 DEF ArgTyped, Grow
  <2>6. CASE \E g \in Gap : Grow("gaps", g, MaxLength)
    BY <2>6, DifficultyAssumption DEF ArgTyped, Grow
  <2>7. CASE \E b \in Data : Grow("message", b, MaxLength)
    BY <2>7 DEF ArgTyped, Grow
  <2>8. CASE \E h \in Height : Grow("heights", h, 3)
    BY <2>8, HeightAssumption DEF ArgTyped, Grow
  <2>9. CASE \E k \in Key : CallGet(k) \/ \E v \in Value : CallPut(k, v)
    BY <2>1, <2>9 DEF CallGet, CallPut
  <2> QED
    BY <2>1, <2>2, <2>3, <2>4, <2>5, <2>6, <2>7, <2>8, <2>9 DEF MCNext
<1> QED
  BY <1>1, <1>2, PTL DEF MCSpec

-----------------------------------------------------------------------------
(* The difficulty adjuster *)

(* The time that a sequence of gaps takes.                                 *)
LEMMA ElapsedInteger ==
  ASSUME NEW s \in Seq(Int)
  PROVE  Elapsed(s) \in Int
<1>1. DOMAIN s = 1..Len(s) /\ Len(s) \in Nat /\ \A i \in DOMAIN s : s[i] \in Int
  OBVIOUS
<1>2. IsFiniteSet(DOMAIN s)
  BY <1>1, FS_Interval
<1>3. SumFunctionOnSet(s, DOMAIN s) \in Int
  BY <1>1, <1>2, SumInteger
<1> QED
  BY <1>3 DEF Elapsed, SumFunction

(* calculate steps by one at most, stays from 1 to 32, and goes down with   *)
(* the time (difficulty.cpp:5-24).                                         *)
LEMMA CalculateAntitone ==
  ASSUME NEW current \in 1..32, NEW t \in Int, NEW u \in Int
  PROVE  /\ D!Calculate(current, 0, t) \in {current - 1, current, current + 1} \cap 1..32
         /\ t <= u => D!Calculate(current, 0, t) >= D!Calculate(current, 0, u)
<1>1. PICK e \in Nat : e = TargetBlockTime * AdjustmentInterval
  BY DifficultyAssumption
<1>2. D!Expected = e
  BY <1>1 DEF D!Expected
<1>3. t - 0 = t /\ u - 0 = u
  OBVIOUS
<1>4. ASSUME NEW x \in Int, NEW y \in Int, x <= y
      PROVE  D!Clamped(x) \in Int /\ D!Clamped(x) <= D!Clamped(y)
  BY <1>2, <1>4 DEF D!Clamped
<1>5. D!Calculate(current, 0, t) =
        IF D!Clamped(t) < e THEN (IF current + 1 < 32 THEN current + 1 ELSE 32)
        ELSE IF D!Clamped(t) > e /\ current > 1 THEN current - 1 ELSE current
  BY <1>2, <1>3 DEF D!Calculate
<1>6. D!Calculate(current, 0, u) =
        IF D!Clamped(u) < e THEN (IF current + 1 < 32 THEN current + 1 ELSE 32)
        ELSE IF D!Clamped(u) > e /\ current > 1 THEN current - 1 ELSE current
  BY <1>2, <1>3 DEF D!Calculate
<1>7. PICK a \in Int : a = D!Clamped(t)
  BY <1>4
<1>8. PICK b \in Int : b = D!Clamped(u)
  BY <1>4
<1>9. t <= u => a <= b
  BY <1>4, <1>7, <1>8
<1>10. current \in Int /\ 1 <= current /\ current <= 32 /\ e \in Int
  OBVIOUS
<1>11. D!Calculate(current, 0, t) \in {current - 1, current, current + 1} \cap 1..32
  <2>1. PICK c : c = D!Calculate(current, 0, t)
    OBVIOUS
  <2>2. c = IF a < e THEN (IF current + 1 < 32 THEN current + 1 ELSE 32)
            ELSE IF a > e /\ current > 1 THEN current - 1 ELSE current
    BY <1>5, <1>7, <2>1
  <2>3. c = current + 1 \/ c = current - 1 \/ c = current
    BY <1>10, <2>2
  <2>4. c \in Int /\ 1 <= c /\ c <= 32
    BY <1>10, <2>2
  <2>5. c \in 1..32
    BY <2>4
  <2> QED
    BY ONLY <2>1, <2>3, <2>5
<1>12. a <= b => D!Calculate(current, 0, t) >= D!Calculate(current, 0, u)
  BY ONLY <1>5, <1>6, <1>7, <1>8, <1>10
<1> QED
  BY <1>9, <1>11, <1>12

(* The next adjustment is the first one above the height                    *)
(* (difficulty.cpp:26-36).                                                 *)
LEMMA NextAdjustment ==
  ASSUME NEW h \in Nat
  PROVE  LET next == D!NextAdjustmentBlock(h)
         IN  /\ D!NeedsAdjustment(next) /\ h < next
             /\ \A g \in h + 1..next - 1 : ~D!NeedsAdjustment(g)
<1> DEFINE n == AdjustmentInterval
           q == h \div n
<1>1. n \in Nat \ {0} /\ q \in Nat /\ h = n * q + (h % n) /\ h % n \in 0..n-1
  <2>1. n \in Nat \ {0}
    BY DifficultyAssumption
  <2> HIDE DEF n
  <2>2. h \div n \in Nat
    BY <2>1, DivWord
  <2> QED
    BY <2>1, <2>2, DivMod
<1>2. D!NextAdjustmentBlock(h) = (q + 1) * n
  BY DEF D!NextAdjustmentBlock
<1> HIDE DEF n, q
<1>3. (q + 1) * n = n * q + n /\ (q + 1) * n \in Nat /\ n * q \in Nat
  BY <1>1
<1>4. h < (q + 1) * n
  BY <1>1, <1>3
<1>5. (q + 1) * n = n * (q + 1) + 0
  BY <1>1
<1>6. (q + 1) * n % n = 0
  BY <1>1, <1>3
<1>7. ASSUME NEW g \in h + 1..(q + 1) * n - 1, g % n = 0 PROVE FALSE
  <2>1. g \in Int /\ g > n * q /\ g < n * q + n
    BY <1>1, <1>3, <1>7
  <2>2. g \div n \in Int /\ g = n * (g \div n) + 0
    BY <1>1, <1>7, <2>1, DivMod
  <2>3. PICK r \in 0..n-1 : r = g - n * q
    BY <1>1, <1>3, <2>1
  <2>4. n * (g \div n) + 0 = n * q + r
    BY <1>3, <2>1, <2>2, <2>3
  <2>5. 0 \in 0..n-1
    BY <1>1
  <2>6. 0 = r
    <3>1. PICK a \in Int : a = g \div n
      BY <2>2
    <3>2. n \in Nat \ {0} /\ q \in Int /\ n * a + 0 = n * q + r
      BY <1>1, <2>4, <3>1
    <3>3. PICK d \in Int : d = a - q
      BY <3>2
    <3>4. n * d = r
      BY <3>2, <3>3
    <3>5. CASE d <= 0
      <4>1. n * d <= 0
        BY <3>2, <3>5
      <4> QED
        BY <3>4, <4>1
    <3>6. CASE d >= 1
      <4>1. n * d >= n
        BY <3>2, <3>6
      <4> QED
        BY <3>2, <3>4, <4>1
    <3> QED
      BY <3>5, <3>6
  <2> QED
    BY <1>3, <2>1, <2>3, <2>6
<1> QED
  BY <1>1, <1>2, <1>3, <1>4, <1>6, <1>7, SMTT(30) DEF D!NeedsAdjustment, n

(* Slower blocks never make the next difficulty higher, for every target    *)
(* and every interval (difficulty.cpp:5-36).                               *)
THEOREM DifficultyAnswersTime == MCSpec => []DifficultyFollowsTime
<1>1. ArgTyped => DifficultyFollowsTime
  <2> SUFFICES ASSUME ArgTyped, subject = "gaps" PROVE DifficultyFollowsTime
    BY DEF DifficultyFollowsTime
  <2>1. arg \in Seq(Int) /\ Len(arg) \in Nat
    BY DEF ArgTyped
  <2>2. Elapsed(arg) \in Int
    BY <2>1, ElapsedInteger
  <2>3. ASSUME NEW n \in DOMAIN arg PROVE Elapsed(SubSeq(arg, 1, n)) \in Int
    <3>1. n \in 1..Len(arg) /\ \A i \in 1..n : arg[i] \in Int
      BY <2>1
    <3>2. SubSeq(arg, 1, n) \in Seq(Int)
      BY <3>1, SubSeqProperties
    <3> QED
      BY <3>2, ElapsedInteger
  <2> QED
    BY <2>1, <2>2, <2>3, CalculateAntitone, NextAdjustment DEF DifficultyFollowsTime
<1> QED
  BY <1>1, ArgInvariance, PTL

-----------------------------------------------------------------------------
(* Keys of heights *)

(* The powers are the ones of the number of digits.                        *)
LEMMA HeightPowers ==
  /\ IsPower(I!Power, DigitValues)
  /\ \A n \in Nat : I!Power[n] \in Nat \ {0} /\ I!Power[n+1] = DigitValues * I!Power[n]
  /\ \A n, m \in Nat : n <= m => I!Power[n] <= I!Power[m]
  /\ \A n \in Nat : n < I!Power[n]
<1>1. IsPower(I!Power, DigitValues)
  BY PowerDefined DEF I!Power
<1>2. DigitValues \in Nat \ {0} /\ DigitValues > 1
  BY HeightAssumption
<1>3. \A n \in Nat : I!Power[n] \in Nat \ {0}
  BY <1>1, <1>2, PowerPositive
<1> QED
  BY <1>1, <1>2, <1>3, PowerGrows DEF IsPower

\* How many digits a number has.
DigitCount(h) ==
  CHOOSE w \in 1..h + 1 : I!Power[w] > h /\ (w > 1 => I!Power[w - 1] <= h)

(* to_string writes as many digits as it takes.                            *)
LEMMA Counted ==
  ASSUME NEW h \in Nat
  PROVE  /\ DigitCount(h) \in Nat \ {0} /\ I!Power[DigitCount(h)] > h
         /\ DigitCount(h) > 1 => I!Power[DigitCount(h) - 1] <= h
         /\ I!Decimal(h) = I!Digits(h, DigitCount(h))
<1> DEFINE Enough == {w \in 1..h + 1 : I!Power[w] > h}
<1>1. h + 1 \in Enough
  <2>1. h + 1 < I!Power[h + 1] /\ I!Power[h + 1] \in Nat
    BY HeightPowers
  <2> QED
    BY <2>1
<1>2. PICK w \in Enough : \A v \in Enough : w <= v
  <2>1. Enough \subseteq Nat
    OBVIOUS
  <2> HIDE DEF Enough
  <2> QED
    BY <1>1, <2>1, NatMin
<1>3. w > 1 => I!Power[w - 1] <= h
  <2> SUFFICES ASSUME w > 1 PROVE I!Power[w - 1] <= h
    OBVIOUS
  <2>1. w - 1 \in 1..h + 1 /\ ~(w <= w - 1) /\ w - 1 \in Nat
    BY <1>2
  <2>2. w - 1 \notin Enough
    BY <1>2, <2>1
  <2>3. I!Power[w - 1] \in Nat /\ ~(I!Power[w - 1] > h)
    BY <2>1, <2>2, HeightPowers
  <2> QED
    BY <2>3
<1>4. w \in 1..h + 1 /\ I!Power[w] > h
  BY <1>2
<1>5. /\ DigitCount(h) \in 1..h + 1 /\ I!Power[DigitCount(h)] > h
      /\ DigitCount(h) > 1 => I!Power[DigitCount(h) - 1] <= h
  BY <1>3, <1>4 DEF DigitCount
<1>6. I!Decimal(h) = I!Digits(h, DigitCount(h))
  BY DEF I!Decimal, DigitCount
<1> QED
  BY <1>5, <1>6

(* What a key has at each place.                                           *)
LEMMA DigitAt ==
  ASSUME NEW h \in Nat, NEW width \in Nat
  PROVE  /\ Len(I!Digits(h, width)) = width
         /\ \A i \in 1..width :
              I!Digits(h, width)[i] = (h \div I!Power[width - i]) % DigitValues
  BY DEF I!Digits

(* Two numbers are not written alike.                                      *)
LEMMA DecimalInjective ==
  ASSUME NEW g \in Nat, NEW h \in Nat, I!Decimal(g) = I!Decimal(h)
  PROVE  g = h
<1>1. PICK w \in Nat \ {0} : w = DigitCount(h)
  BY Counted
<1>2. PICK v \in Nat \ {0} : v = DigitCount(g)
  BY Counted
<1>3. I!Digits(g, v) = I!Digits(h, w) /\ I!Power[v] > g /\ I!Power[w] > h
  BY <1>1, <1>2, Counted
<1>4. v = w
  BY <1>3, DigitAt
<1>5. ASSUME NEW i \in Nat, i < w
      PROVE  (g \div I!Power[i]) % DigitValues = (h \div I!Power[i]) % DigitValues
  <2>1. w - i \in 1..w /\ w - (w - i) = i
    BY <1>5
  <2>2. /\ I!Digits(g, w)[w - i] = (g \div I!Power[w - (w - i)]) % DigitValues
        /\ I!Digits(h, w)[w - i] = (h \div I!Power[w - (w - i)]) % DigitValues
    BY <2>1, DigitAt
  <2> QED
    BY <1>3, <1>4, <2>1, <2>2
<1>6. /\ DigitValues \in Nat \ {0} /\ IsPower(I!Power, DigitValues) /\ w \in Nat
      /\ g < I!Power[w] /\ h < I!Power[w]
  <2>1. I!Power[w] \in Nat /\ DigitValues \in Nat \ {0}
    BY HeightPowers, HeightAssumption
  <2> QED
    BY <1>3, <1>4, <2>1, HeightPowers
<1> QED
  BY <1>5, <1>6, DigitsUnique

(* The padded key of a shorter number begins with a zero, the written form  *)
(* of no number of that length does.                                       *)
LEMMA PaddedNotDecimal ==
  ASSUME NEW g \in Nat, NEW h \in Nat, h < I!Power[Width - 1]
  PROVE  I!Decimal(g) # I!Digits(h, Width)
<1> SUFFICES ASSUME I!Decimal(g) = I!Digits(h, Width) PROVE FALSE
  OBVIOUS
<1>1. PICK v \in Nat \ {0} : v = DigitCount(g)
  BY Counted
<1>2. Width \in Nat \ {0, 1} /\ DigitValues \in Nat \ {0, 1}
  BY HeightAssumption
<1>3. I!Digits(g, v) = I!Digits(h, Width) /\ I!Power[v] > g /\ (v > 1 => I!Power[v-1] <= g)
  BY <1>1, Counted
<1>4. v = Width
  BY <1>2, <1>3, DigitAt
<1>5. PICK n \in Nat : n = Width - 1
  BY <1>2
<1>6. PICK p \in Nat \ {0} : p = I!Power[n]
  BY HeightPowers
<1>7. Width = n + 1
  BY <1>2, <1>5
<1>8. I!Power[n + 1] = DigitValues * I!Power[n]
  BY HeightPowers
<1>9. h < p /\ p <= g /\ g < DigitValues * p
  BY <1>2, <1>3, <1>4, <1>5, <1>6, <1>7, <1>8
<1>10. (g \div p) % DigitValues = (h \div p) % DigitValues
  <2>1. 1 \in 1..Width /\ Width - 1 = n
    BY <1>2, <1>5
  <2>2. /\ I!Digits(g, Width)[1] = (g \div I!Power[Width - 1]) % DigitValues
        /\ I!Digits(h, Width)[1] = (h \div I!Power[Width - 1]) % DigitValues
    BY <1>2, <2>1, DigitAt
  <2> QED
    BY <1>3, <1>4, <1>6, <2>1, <2>2
<1>11. PICK q \in Nat : q = g \div p
  BY <1>6, DivWord
<1>12. q \in 1..DigitValues - 1
  <2>1. g = p * q + (g % p) /\ g % p \in 0..p-1
    BY <1>11, DivMod
  <2>2. q # 0
    BY <1>9, <2>1
  <2>3. q < DigitValues
    <3>1. q - DigitValues \in Int
      BY <1>2, <1>11
    <3> DEFINE d == q - DigitValues
    <3>2. p * q = p * d + DigitValues * p
      BY <1>2, <3>1
    <3>4. d \in Int /\ (d >= 0 <=> q >= DigitValues)
      BY <1>2, <1>11
    <3> HIDE DEF d
    <3>3. d >= 0 => p * d >= 0
      BY <1>6, <3>4
    <3> QED
      BY <1>2, <1>9, <1>11, <2>1, <3>2, <3>3, <3>4
  <2> QED
    BY <1>2, <2>2, <2>3
<1>13. h \div p = 0
  BY <1>6, <1>9
<1>14. q % DigitValues = q /\ 0 % DigitValues = 0
  BY <1>2, <1>12, ModSmall
<1> QED
  BY <1>10, <1>11, <1>12, <1>13, <1>14

(* heightKey pads a number that has fewer digits and leaves any other one   *)
(* as it is (leveldb.cpp:21-26).                                           *)
LEMMA KeyOf ==
  ASSUME NEW h \in Nat
  PROVE  I!HeightKey(h) = IF h >= I!Power[Width - 1] THEN I!Decimal(h) ELSE I!Digits(h, Width)
<1>1. PICK w \in Nat \ {0} : w = DigitCount(h)
  BY Counted
<1>2. /\ I!Decimal(h) = I!Digits(h, w) /\ I!Power[w] > h
      /\ w > 1 => I!Power[w - 1] <= h
  BY <1>1, Counted
<1>3. Len(I!Decimal(h)) = w
  BY <1>2, DigitAt
<1>4. Width \in Nat \ {0, 1} /\ Width - 1 \in Nat
  BY HeightAssumption
<1>5. CASE w >= Width
  <2>1. w > 1 /\ w - 1 \in Nat /\ Width - 1 <= w - 1
    BY <1>4, <1>5
  <2>2. /\ I!Power[Width - 1] <= I!Power[w - 1] /\ I!Power[Width - 1] \in Nat
        /\ I!Power[w - 1] \in Nat
    BY <1>4, <2>1, HeightPowers
  <2>3. h >= I!Power[Width - 1]
    BY <1>2, <2>1, <2>2
  <2> QED
    BY <1>3, <1>5, <2>3 DEF I!HeightKey
<1>6. CASE w < Width
  <2>1. w <= Width - 1
    BY <1>4, <1>6
  <2>2. /\ I!Power[w] <= I!Power[Width - 1] /\ I!Power[Width - 1] \in Nat
        /\ I!Power[w] \in Nat
    BY <1>4, <2>1, HeightPowers
  <2>3. ~(h >= I!Power[Width - 1])
    BY <1>2, <2>2
  <2>4. ~(w >= Width)
    BY <1>4, <1>6
  <2> QED
    BY <1>3, <2>3, <2>4 DEF I!HeightKey
<1> QED
  BY <1>4, <1>5, <1>6

(* The last place of a height is the same whether heights are compared or   *)
(* what is written of them.                                                *)
LEMMA LastPlace ==
  ASSUME NEW s \in Seq(Nat), NEW h \in Nat
  PROVE  I!SelectLastInSeq(s, LAMBDA g : I!Decimal(g) = I!Decimal(h))
           = SelectLastInSeq(s, LAMBDA g : g = h)
<1>1. {i \in 1..Len(s) : I!Decimal(s[i]) = I!Decimal(h)} = {i \in 1..Len(s) : s[i] = h}
  <2>1. \A i \in 1..Len(s) : s[i] \in Nat
    OBVIOUS
  <2>2. \A i \in 1..Len(s) : I!Decimal(s[i]) = I!Decimal(h) => s[i] = h
    BY <2>1, DecimalInjective
  <2> QED
    BY <2>2
<1> DEFINE Alike == {i \in 1..Len(s) : I!Decimal(s[i]) = I!Decimal(h)}
           Same == {i \in 1..Len(s) : s[i] = h}
<1>2. I!Max(Alike) = Max(Alike)
  BY DEF I!Max, Max
<1>3. /\ I!SelectLastInSeq(s, LAMBDA g : I!Decimal(g) = I!Decimal(h))
           = IF Alike # {} THEN I!Max(Alike) ELSE 0
      /\ SelectLastInSeq(s, LAMBDA g : g = h) = IF Same # {} THEN Max(Same) ELSE 0
  BY DEF I!SelectLastInSeq, SelectLastInSeq
<1>4. Alike = Same
  BY <1>1
<1> HIDE DEF Alike, Same
<1> QED
  BY <1>2, <1>3, <1>4

(* A look-up by height finds the last block of a height that is padded to   *)
(* itself and none of a lower one, for every width and every base, and not  *)
(* only below 64 (leveldb.cpp:21-26, 176).                                 *)
LEMMA LookUp ==
  ASSUME NEW s \in Seq(Nat), NEW h \in Nat
  PROVE  I!GetHashAtHeight(I!Persisted(s), h)
           = IF h >= I!Power[Width - 1] THEN SelectLastInSeq(s, LAMBDA g : g = h) ELSE 0
<1> DEFINE index == I!Persisted(s)
<1>1. I!ToSet(s) = {s[i] : i \in 1..Len(s)} /\ \A i \in 1..Len(s) : s[i] \in Nat
  BY DEF I!ToSet
<1>2. /\ DOMAIN index = {I!Decimal(g) : g \in I!ToSet(s)}
      /\ \A k \in DOMAIN index :
           index[k] = I!SelectLastInSeq(s, LAMBDA g : I!Decimal(g) = k)
  BY DEF I!Persisted
<1> HIDE DEF index
<1>3. CASE h >= I!Power[Width - 1]
  <2>1. I!HeightKey(h) = I!Decimal(h)
    BY <1>3, KeyOf
  <2>2. CASE \E i \in 1..Len(s) : s[i] = h
    <3>1. I!Decimal(h) \in DOMAIN index
      BY <1>1, <1>2, <2>2
    <3>2. index[I!Decimal(h)] = SelectLastInSeq(s, LAMBDA g : g = h)
      BY <1>2, <3>1, LastPlace
    <3> QED
      BY <1>3, <2>1, <3>1, <3>2 DEF I!GetHashAtHeight, index
  <2>3. CASE \A i \in 1..Len(s) : s[i] # h
    <3>1. I!Decimal(h) \notin DOMAIN index
      <4>1. \A g \in I!ToSet(s) : g \in Nat /\ g # h
        BY <1>1, <2>3
      <4>2. \A g \in I!ToSet(s) : I!Decimal(g) # I!Decimal(h)
        BY <4>1, DecimalInjective
      <4> QED
        BY <1>2, <4>2
    <3>2. SelectLastInSeq(s, LAMBDA g : g = h) = 0
      <4>1. {i \in 1..Len(s) : s[i] = h} = {}
        BY <2>3
      <4> QED
        BY <4>1 DEF SelectLastInSeq
    <3>3. I!GetHashAtHeight(I!Persisted(s), h) = 0
      BY <2>1, <3>1 DEF I!GetHashAtHeight, index
    <3> QED
      BY <1>3, <3>2, <3>3
  <2> QED
    BY <2>2, <2>3
<1>4. CASE ~(h >= I!Power[Width - 1])
  <2>1. I!HeightKey(h) = I!Digits(h, Width)
    BY <1>4, KeyOf
  <2>2. h < I!Power[Width - 1]
    <3>1. Width - 1 \in Nat
      BY HeightAssumption
    <3>2. I!Power[Width - 1] \in Nat
      BY <3>1, HeightPowers
    <3> QED
      BY <1>4, <3>2
  <2>3. I!Digits(h, Width) \notin DOMAIN index
    BY <1>1, <1>2, <2>2, PaddedNotDecimal
  <2> QED
    BY <1>4, <2>1, <2>3 DEF I!GetHashAtHeight, index
<1> QED
  BY <1>3, <1>4

(* Every look-up finds the block last stored at the height if the height   *)
(* has as many digits as a key is padded to, and nothing if it has fewer:   *)
(* persistBlock does not pad (blockchain.cpp:102, leveldb.cpp:21-26, 176).  *)
LookUpExact ==
  \A h \in Height :
    I!GetHashAtHeight(I!Persisted(arg), h)
      = IF h >= I!Power[Width - 1] THEN SelectLastInSeq(arg, LAMBDA g : g = h) ELSE 0

(* For every width of a key and every radix, nothing is found at the heights *)
(* with fewer digits than a key, and what was entered last at all others    *)
(* (blockchain.cpp:102, leveldb.cpp:21-26, 176).                            *)
THEOREM HeightKeysExact == MCSpec => [](subject = "heights" => LookUpExact)
<1>1. ArgTyped => (subject = "heights" => LookUpExact)
  <2> SUFFICES ASSUME ArgTyped, subject = "heights", NEW h \in Height
               PROVE  I!GetHashAtHeight(I!Persisted(arg), h)
                        = IF h >= I!Power[Width - 1]
                          THEN SelectLastInSeq(arg, LAMBDA g : g = h) ELSE 0
    BY DEF LookUpExact
  <2>1. arg \in Seq(Nat) /\ h \in Nat
    BY HeightAssumption DEF ArgTyped
  <2> QED
    BY <2>1, LookUp
<1> QED
  BY <1>1, ArgInvariance, PTL

(* No look-up gives the block of another height, for every width and radix *)
(* (blockchain.cpp:102, leveldb.cpp:21-26, 176).                            *)
THEOREM HeightsApart == MCSpec => []HeightsToldApart
<1>1. ArgTyped => HeightsToldApart
  <2> SUFFICES ASSUME ArgTyped, subject = "heights", NEW h \in Height
               PROVE  I!GetHashAtHeight(I!Persisted(arg), h)
                        \in {0, SelectLastInSeq(arg, LAMBDA g : g = h)}
    BY DEF HeightsToldApart
  <2>1. arg \in Seq(Nat) /\ h \in Nat
    BY HeightAssumption DEF ArgTyped
  <2>2. I!GetHashAtHeight(I!Persisted(arg), h)
          = IF h >= I!Power[Width - 1] THEN SelectLastInSeq(arg, LAMBDA g : g = h) ELSE 0
    BY <2>1, LookUp
  <2> QED
    BY <2>2
<1> QED
  BY <1>1, ArgInvariance, PTL

-----------------------------------------------------------------------------
(* Merkle roots *)

Sequence(s) == \E T : s \in Seq(T)

(* A sequence is a function on its places.                                 *)
LEMMA SequencePlaces ==
  ASSUME NEW s, Sequence(s)
  PROVE  Len(s) \in Nat /\ DOMAIN s = 1..Len(s) /\ s = [i \in 1..Len(s) |-> s[i]]
<1>1. PICK T : s \in Seq(T)
  BY DEF Sequence
<1> QED
  BY <1>1

(* What is given at each place makes a sequence.                           *)
LEMMA MadeSequence ==
  ASSUME NEW s, NEW n \in Nat, DOMAIN s = 1..n, s = [i \in 1..n |-> s[i]]
  PROVE  Sequence(s) /\ Len(s) = n
<1> DEFINE T == {s[i] : i \in 1..n}
<1>1. s \in [1..n -> T]
  OBVIOUS
<1>2. s \in Seq(T)
  <2> HIDE DEF T
  <2> QED
    BY <1>1
<1>3. Len(s) = n
  <2> HIDE DEF T
  <2> QED
    BY <1>1, <1>2
<1> QED
  BY <1>2, <1>3 DEF Sequence

(* An odd layer is as long as the even number above, and has its last hash  *)
(* once more.                                                              *)
LEMMA EvenLayer ==
  ASSUME NEW s, Sequence(s), Len(s) # 0
  PROVE  /\ Sequence(M!Even(s))
         /\ Len(M!Even(s)) = IF Len(s) % 2 = 0 THEN Len(s) ELSE Len(s) + 1
         /\ \A i \in 1..Len(s) : M!Even(s)[i] = s[i]
         /\ Len(s) % 2 # 0 => M!Even(s)[Len(s) + 1] = s[Len(s)]
<1>1. PICK T : s \in Seq(T)
  BY DEF Sequence
<1>2. CASE Len(s) % 2 = 0
  <2>1. M!Even(s) = s
    BY <1>2 DEF M!Even
  <2> QED
    BY <1>2, <2>1
<1>3. CASE Len(s) % 2 # 0
  <2>1. s[Len(s)] \in T
    BY <1>1
  <2>2. M!Even(s) = Append(s, s[Len(s)])
    BY <1>3 DEF M!Even
  <2>3. /\ Append(s, s[Len(s)]) \in Seq(T)
        /\ Len(Append(s, s[Len(s)])) = Len(s) + 1
        /\ \A i \in 1..Len(s) : Append(s, s[Len(s)])[i] = s[i]
        /\ Append(s, s[Len(s)])[Len(s) + 1] = s[Len(s)]
    BY <1>1, <2>1
  <2> QED
    BY <1>3, <2>2, <2>3 DEF Sequence
<1> QED
  BY <1>2, <1>3

(* The layer above has half as many hashes, each of two of the layer.      *)
LEMMA AboveLayer ==
  ASSUME NEW s, Sequence(s), NEW l \in Nat, l = Len(s), l > 1
  PROVE  \E m \in Nat \ {0} :
           /\ m < l /\ (l = 2 * m \/ l + 1 = 2 * m)
           /\ Sequence(M!NextLayer(s)) /\ Len(M!NextLayer(s)) = m
           /\ \A i \in 1..m : M!NextLayer(s)[i]
                = M!HashPair(s[2*i - 1], IF 2*i <= l THEN s[2*i] ELSE s[l])
<1> DEFINE full == M!Even(s)
<1>1. /\ Sequence(full) /\ Len(full) = IF l % 2 = 0 THEN l ELSE l + 1
      /\ \A i \in 1..l : full[i] = s[i]
      /\ l % 2 # 0 => full[l + 1] = s[l]
  BY EvenLayer
<1>2. PICK m \in Nat \ {0} : Len(full) = 2 * m /\ m < l /\ (l = 2 * m \/ l + 1 = 2 * m)
  <2> HIDE DEF full
  <2>1. PICK q \in Nat : l = 2 * q \/ l = 2 * q + 1
    <3>1. l = 2 * (l \div 2) \/ l = 2 * (l \div 2) + 1
      OBVIOUS
    <3>2. l \div 2 \in Nat
      OBVIOUS
    <3> QED
      BY <3>1, <3>2
  <2>2. CASE l = 2 * q
    <3>1. l % 2 = 0 /\ q \in Nat \ {0} /\ q < l
      BY <2>1, <2>2
    <3> QED
      BY <1>1, <2>2, <3>1
  <2>3. CASE l = 2 * q + 1
    <3>1. l % 2 # 0 /\ q + 1 \in Nat \ {0} /\ q + 1 < l /\ l + 1 = 2 * (q + 1)
      BY <2>1, <2>3
    <3> QED
      BY <1>1, <3>1
  <2> QED
    BY <2>1, <2>2, <2>3
<1>3. Len(full) \div 2 = m
  BY <1>2
<1> DEFINE next == M!NextLayer(s)
<1>4. next = [i \in 1..m |-> M!HashPair(full[2*i - 1], full[2*i])]
  <2>1. next = [i \in 1..(Len(full) \div 2) |-> M!HashPair(full[2*i - 1], full[2*i])]
    BY DEF M!NextLayer
  <2> HIDE DEF full
  <2> QED
    BY <1>3, <2>1
<1>5. ASSUME NEW i \in 1..m
      PROVE  next[i] = M!HashPair(s[2*i - 1], IF 2*i <= l THEN s[2*i] ELSE s[l])
  <2>1. 2*i - 1 \in 1..l /\ (2*i <= l => 2*i \in 1..l) /\ (~(2*i <= l) => 2*i = l + 1 /\ l % 2 # 0)
    BY <1>2
  <2>2. full[2*i - 1] = s[2*i - 1]
    <3> HIDE DEF full
    <3> QED
      BY <1>1, <2>1
  <2>3. full[2*i] = IF 2*i <= l THEN s[2*i] ELSE s[l]
    <3> HIDE DEF full
    <3> QED
      BY <1>1, <2>1
  <2> HIDE DEF full, next
  <2> QED
    BY <1>4, <2>2, <2>3
<1>6. Sequence(next) /\ Len(next) = m
  <2>1. DOMAIN next = 1..m /\ next = [i \in 1..m |-> next[i]]
    <3> HIDE DEF full, next
    <3> QED
      BY <1>4
  <2> HIDE DEF next
  <2> QED
    BY <2>1, MadeSequence
<1> QED
  BY <1>2, <1>5, <1>6

(* Two layers of a length with the same layer above are the same.          *)
LEMMA AboveInjective ==
  ASSUME NEW s, NEW t, Sequence(s), Sequence(t), NEW l \in Nat, l = Len(s), l = Len(t),
         l > 1, M!NextLayer(s) = M!NextLayer(t)
  PROVE  s = t
<1>1. PICK m \in Nat \ {0} :
        /\ l = 2 * m \/ l + 1 = 2 * m
        /\ Len(M!NextLayer(s)) = m
        /\ \A i \in 1..m : M!NextLayer(s)[i]
             = M!HashPair(s[2*i - 1], IF 2*i <= l THEN s[2*i] ELSE s[l])
  BY AboveLayer
<1>2. PICK k \in Nat \ {0} :
        /\ Len(M!NextLayer(t)) = k
        /\ \A i \in 1..k : M!NextLayer(t)[i]
             = M!HashPair(t[2*i - 1], IF 2*i <= l THEN t[2*i] ELSE t[l])
  BY AboveLayer
<1>3. k = m
  BY <1>1, <1>2
<1>4. ASSUME NEW i \in 1..m
      PROVE  s[2*i - 1] = t[2*i - 1] /\ (2*i <= l => s[2*i] = t[2*i])
  <2>1. M!HashPair(s[2*i - 1], IF 2*i <= l THEN s[2*i] ELSE s[l])
          = M!HashPair(t[2*i - 1], IF 2*i <= l THEN t[2*i] ELSE t[l])
    BY <1>1, <1>2, <1>3
  <2> QED
    BY <2>1 DEF M!HashPair
<1>5. ASSUME NEW j \in 1..l PROVE s[j] = t[j]
  <2>1. PICK i \in 1..m : j = 2*i - 1 \/ j = 2*i
    <3>1. PICK q \in Nat : j = 2*q \/ j = 2*q + 1
      <4>1. j = 2 * (j \div 2) \/ j = 2 * (j \div 2) + 1
        OBVIOUS
      <4>2. j \div 2 \in Nat
        OBVIOUS
      <4> QED
        BY <4>1, <4>2
    <3>2. CASE j = 2*q
      <4>1. q \in 1..m
        BY ONLY <1>1, <3>1, <3>2, j \in 1..l, l \in Nat
      <4> QED
        BY <3>2, <4>1
    <3>3. CASE j = 2*q + 1
      <4>1. q + 1 \in 1..m /\ j = 2*(q + 1) - 1
        BY ONLY <1>1, <3>1, <3>3, j \in 1..l, l \in Nat
      <4> QED
        BY <4>1
    <3> QED
      BY <3>1, <3>2, <3>3
  <2>2. j = 2*i => 2*i <= l
    BY <2>1
  <2> QED
    BY <1>4, <2>1, <2>2
<1>6. s = [i \in 1..l |-> s[i]] /\ t = [i \in 1..l |-> t[i]]
  BY SequencePlaces
<1> QED
  BY <1>5, <1>6

\* f has the layers of hashes up to the n-th.
LayersRec(f, hashes, n) ==
  f = [i \in 0..n |-> IF i = 0 THEN hashes
                      ELSE IF Len(f[i-1]) > 1 THEN M!NextLayer(f[i-1]) ELSE f[i-1]]

(* There is one for every n.                                               *)
LEMMA LayersRecExists ==
  ASSUME NEW hashes
  PROVE  \A n \in Nat : \E f : LayersRec(f, hashes, n)
<1> DEFINE Up(layer) == IF Len(layer) > 1 THEN M!NextLayer(layer) ELSE layer
           Bad == {n \in Nat : ~ \E f : LayersRec(f, hashes, n)}
<1> SUFFICES ASSUME Bad # {} PROVE FALSE
  OBVIOUS
<1>1. PICK n \in Bad : \A m \in Bad : n <= m
  <2>1. Bad \subseteq Nat
    OBVIOUS
  <2> HIDE DEF Bad
  <2> QED
    BY <2>1, NatMin
<1>2. n # 0
  <2> DEFINE one == [i \in 0..0 |-> hashes]
  <2>1. LayersRec(one, hashes, 0)
    BY DEF LayersRec
  <2> QED
    BY <1>1, <2>1
<1>3. PICK l \in Nat : n = l + 1 /\ l \notin Bad
  <2>1. n \in Nat /\ n - 1 \in Nat /\ n = (n - 1) + 1 /\ ~(n <= n - 1)
    BY <1>1, <1>2
  <2> HIDE DEF Bad
  <2> QED
    BY <1>1, <2>1
<1>4. PICK f : LayersRec(f, hashes, l)
  BY <1>3
<1> DEFINE g == [i \in 0..l+1 |-> IF i = l + 1 THEN Up(f[l]) ELSE f[i]]
<1>5. ASSUME NEW i \in 0..l+1 PROVE g[i] = IF i = 0 THEN hashes ELSE Up(g[i-1])
  <2>1. CASE i = l + 1
    <3>1. i # 0 /\ i - 1 = l /\ l \in 0..l+1 /\ l # l + 1
      BY <2>1
    <3>2. g[i] = Up(f[l]) /\ g[i-1] = f[l]
      <4> HIDE DEF Up
      <4> QED
        BY <2>1, <3>1
    <3> HIDE DEF Up, g
    <3> QED
      BY <3>1, <3>2
  <2>2. CASE i # l + 1
    <3>1. i \in 0..l /\ (i # 0 => i - 1 \in 0..l+1 /\ i - 1 # l + 1)
      BY <2>2
    <3>2. f[i] = IF i = 0 THEN hashes ELSE Up(f[i-1])
      BY <1>4, <3>1 DEF LayersRec
    <3>3. g[i] = f[i] /\ (i # 0 => g[i-1] = f[i-1])
      <4> HIDE DEF Up
      <4> QED
        BY <2>2, <3>1
    <3> HIDE DEF Up, g
    <3> QED
      BY <3>2, <3>3
  <2> QED
    BY <2>1, <2>2
<1>6. g = [i \in 0..l+1 |-> g[i]]
  OBVIOUS
<1> HIDE DEF g
<1>7. g = [i \in 0..l+1 |-> IF i = 0 THEN hashes ELSE Up(g[i-1])]
  <2> HIDE DEF Up
  <2> QED
    BY <1>5, <1>6
<1>8. LayersRec(g, hashes, l + 1)
  BY <1>7 DEF LayersRec
<1> QED
  BY <1>1, <1>3, <1>8

(* The layers are what the loop computes, one from the other.              *)
LEMMA LayersUnfold ==
  ASSUME NEW hashes, Sequence(hashes), NEW l \in Nat, l = Len(hashes)
  PROVE  /\ M!Layers(hashes)[0] = hashes
         /\ \A n \in 1..l : M!Layers(hashes)[n] =
              IF Len(M!Layers(hashes)[n-1]) > 1 THEN M!NextLayer(M!Layers(hashes)[n-1])
              ELSE M!Layers(hashes)[n-1]
<1>1. \E f : LayersRec(f, hashes, l)
  BY LayersRecExists
<1>2. M!Layers(hashes) = CHOOSE f : LayersRec(f, hashes, l)
  BY DEF M!Layers, LayersRec
<1>3. LayersRec(M!Layers(hashes), hashes, l)
  BY <1>1, <1>2
<1> DEFINE f == M!Layers(hashes)
<1>4. f = [i \in 0..l |-> IF i = 0 THEN hashes
                          ELSE IF Len(f[i-1]) > 1 THEN M!NextLayer(f[i-1]) ELSE f[i-1]]
  BY <1>3 DEF LayersRec
<1> HIDE DEF f
<1>5. \A i \in 0..l : f[i] = IF i = 0 THEN hashes
                             ELSE IF Len(f[i-1]) > 1 THEN M!NextLayer(f[i-1]) ELSE f[i-1]
  BY <1>4
<1>6. 0 \in 0..l /\ \A n \in 1..l : n \in 0..l /\ n # 0
  OBVIOUS
<1> QED
  BY <1>5, <1>6 DEF f

(* Every layer is a sequence, as long as that of any other tree with as    *)
(* many leaves, and the last one has one hash.                             *)
LEMMA LayerLengths ==
  ASSUME NEW s, Sequence(s), NEW l \in Nat \ {0}, l = Len(s)
  PROVE  /\ \A n \in 0..l : /\ Sequence(M!Layers(s)[n])
                            /\ Len(M!Layers(s)[n]) \in Nat \ {0}
         /\ Len(M!Layers(s)[l]) = 1
<1> DEFINE f == M!Layers(s)
           Short(n) == Len(f[n]) = 1 \/ Len(f[n]) + n <= l
           Good(n) == Sequence(f[n]) /\ Len(f[n]) \in Nat \ {0} /\ Short(n)
           Bad == {n \in 0..l : ~Good(n)}
<1>1. /\ f[0] = s
      /\ \A n \in 1..l : f[n] = IF Len(f[n-1]) > 1 THEN M!NextLayer(f[n-1]) ELSE f[n-1]
  BY LayersUnfold
<1> HIDE DEF f
<1>2. Bad = {}
  <2> SUFFICES ASSUME Bad # {} PROVE FALSE
    OBVIOUS
  <2>1. PICK n \in Bad : \A m \in Bad : n <= m
    <3>1. Bad \subseteq Nat
      OBVIOUS
    <3> HIDE DEF Bad
    <3> QED
      BY <3>1, NatMin
  <2>2. n # 0
    BY <1>1, <2>1
  <2>3. PICK p \in 0..l : n = p + 1 /\ p \notin Bad /\ n \in 1..l /\ n - 1 = p
    <3>1. n \in 1..l /\ n - 1 \in 0..l /\ n = (n - 1) + 1 /\ ~(n <= n - 1)
      BY <2>1, <2>2
    <3> HIDE DEF Bad
    <3> QED
      BY <2>1, <3>1
  <2>4. Good(p)
    BY <2>3
  <2>5. PICK k \in Nat \ {0} : k = Len(f[p]) /\ (k = 1 \/ k + p <= l)
    BY <2>4
  <2>6. f[n] = IF k > 1 THEN M!NextLayer(f[p]) ELSE f[p]
    BY <1>1, <2>3, <2>5
  <2>7. CASE ~(k > 1)
    <3>1. k = 1
      BY ONLY <2>7, k \in Nat \ {0}
    <3>2. f[n] = f[p] /\ Len(f[p]) = 1
      BY <2>5, <2>6, <2>7, <3>1
    <3>3. Sequence(f[n]) /\ Len(f[n]) = k
      BY <2>4, <3>1, <3>2
    <3> QED
      BY <2>1, <3>1, <3>3
  <2>8. CASE k > 1
    <3>1. f[n] = M!NextLayer(f[p])
      BY <2>6, <2>8
    <3>2. PICK m \in Nat \ {0} : /\ m < k /\ Sequence(M!NextLayer(f[p]))
                                 /\ Len(M!NextLayer(f[p])) = m
      <4> DEFINE t == f[p]
      <4>1. Sequence(t) /\ k \in Nat /\ k = Len(t) /\ k > 1
        BY <2>4, <2>5, <2>8
      <4> HIDE DEF t
      <4>2. \E m \in Nat \ {0} :
           /\ m < k /\ (k = 2 * m \/ k + 1 = 2 * m)
           /\ Sequence(M!NextLayer(t)) /\ Len(M!NextLayer(t)) = m
        BY <4>1, AboveLayer
      <4> QED
        BY <4>2 DEF t
    <3>3. m + n <= l
      <4>1. m < k /\ (k = 1 \/ k + p <= l) /\ n = p + 1
        BY <2>3, <2>5, <3>2
      <4> QED
        BY ONLY <4>1, m \in Nat \ {0}, k \in Nat \ {0}, p \in 0..l, l \in Nat
    <3>4. Sequence(f[n]) /\ Len(f[n]) = m
      BY <3>1, <3>2
    <3> QED
      BY <2>1, <3>3, <3>4
  <2> QED
    BY <2>7, <2>8
<1>3. l \in 0..l /\ Good(l)
  BY <1>2
<1>4. Len(f[l]) = 1
  BY <1>3
<1> QED
  BY <1>2, <1>4 DEF f

(* Two trees with as many leaves and the same root have the same leaves.   *)
LEMMA RootInjective ==
  ASSUME NEW s, NEW t, Sequence(s), Sequence(t), NEW l \in Nat, l = Len(s), l = Len(t),
         M!BuildRoot(s) = M!BuildRoot(t)
  PROVE  s = t
<1>1. s = [i \in 1..l |-> s[i]] /\ t = [i \in 1..l |-> t[i]]
  BY SequencePlaces
<1>2. CASE l = 0
  <2>1. \A i \in 1..l : s[i] = t[i]
    BY <1>2
  <2> QED
    BY <1>1, <2>1
<1>3. CASE l # 0
  <2> DEFINE f == M!Layers(s)
             g == M!Layers(t)
  <2>1. l \in Nat \ {0} /\ s # <<>> /\ t # <<>>
    BY <1>3
  <2>2. /\ \A n \in 0..l : Sequence(f[n]) /\ Len(f[n]) \in Nat \ {0}
        /\ \A n \in 0..l : Sequence(g[n]) /\ Len(g[n]) \in Nat \ {0}
        /\ Len(f[l]) = 1 /\ Len(g[l]) = 1
    BY <2>1, LayerLengths
  <2>3. /\ f[0] = s
        /\ \A n \in 1..l : f[n] = IF Len(f[n-1]) > 1 THEN M!NextLayer(f[n-1]) ELSE f[n-1]
    BY LayersUnfold
  <2>4. /\ g[0] = t
        /\ \A n \in 1..l : g[n] = IF Len(g[n-1]) > 1 THEN M!NextLayer(g[n-1]) ELSE g[n-1]
    BY LayersUnfold
  <2>5. f[l][1] = g[l][1]
    BY <2>1 DEF M!BuildRoot
  <2> HIDE DEF f, g
  <2>6. \A n \in 0..l : Len(f[n]) = Len(g[n])
    <3> DEFINE Bad == {n \in 0..l : Len(f[n]) # Len(g[n])}
    <3> SUFFICES ASSUME Bad # {} PROVE FALSE
      OBVIOUS
    <3>1. PICK n \in Bad : \A m \in Bad : n <= m
      <4>1. Bad \subseteq Nat
        OBVIOUS
      <4> HIDE DEF Bad
      <4> QED
        BY <4>1, NatMin
    <3>2. n # 0
      BY <2>3, <2>4, <3>1
    <3>3. PICK p \in 0..l : n = p + 1 /\ p \notin Bad /\ n \in 1..l /\ n - 1 = p
      <4>1. n \in 1..l /\ n - 1 \in 0..l /\ n = (n - 1) + 1 /\ ~(n <= n - 1)
        BY <3>1, <3>2
      <4> HIDE DEF Bad
      <4> QED
        BY <3>1, <4>1
    <3>4. Len(f[p]) = Len(g[p])
      BY <3>3
    <3>5. CASE ~(Len(f[p]) > 1)
      BY <2>3, <2>4, <3>1, <3>3, <3>4, <3>5
    <3>6. CASE Len(f[p]) > 1
      <4>1. f[n] = M!NextLayer(f[p]) /\ g[n] = M!NextLayer(g[p])
        BY <2>3, <2>4, <3>3, <3>4, <3>6
      <4> DEFINE u == f[p]
                 v == g[p]
                 k == Len(u)
      <4>2. Sequence(u) /\ Sequence(v) /\ k \in Nat /\ k = Len(u) /\ k = Len(v) /\ k > 1
        BY <2>2, <3>4, <3>6
      <4> HIDE DEF u, v, k
      <4>3. PICK m \in Nat \ {0} : (k = 2 * m \/ k + 1 = 2 * m) /\ Len(M!NextLayer(u)) = m
        BY <4>2, AboveLayer
      <4>4. PICK q \in Nat \ {0} : (k = 2 * q \/ k + 1 = 2 * q) /\ Len(M!NextLayer(v)) = q
        BY <4>2, AboveLayer
      <4>5. m = q
        BY <4>2, <4>3, <4>4
      <4>6. Len(f[n]) = Len(g[n])
        BY <4>1, <4>3, <4>4, <4>5 DEF u, v
      <4> QED
        BY <3>1, <4>6
    <3> QED
      BY <3>5, <3>6
  <2>7. f[l] = g[l]
    <3>1. Sequence(f[l]) /\ Sequence(g[l]) /\ Len(f[l]) = 1 /\ Len(g[l]) = 1
      BY <2>2
    <3>2. f[l] = [i \in 1..1 |-> f[l][i]] /\ g[l] = [i \in 1..1 |-> g[l][i]]
      BY <3>1, SequencePlaces
    <3>3. \A i \in 1..1 : f[l][i] = g[l][i]
      BY <2>5
    <3> QED
      BY <3>2, <3>3
  <2> DEFINE Same == {n \in 0..l : f[n] = g[n]}
  <2>8. PICK n \in Same : \A m \in Same : n <= m
    <3>1. Same \subseteq Nat /\ l \in Same
      BY <2>7
    <3> HIDE DEF Same
    <3> QED
      BY <3>1, NatMin
  <2>9. n = 0
    <3> SUFFICES ASSUME n # 0 PROVE FALSE
      OBVIOUS
    <3>1. PICK p \in 0..l : n \in 1..l /\ n - 1 = p /\ p \notin Same
      <4>1. n \in 1..l /\ n - 1 \in 0..l /\ ~(n <= n - 1)
        BY <2>8
      <4> HIDE DEF Same
      <4> QED
        BY <2>8, <4>1
    <3>2. Len(f[p]) = Len(g[p]) /\ f[p] # g[p] /\ f[n] = g[n]
      BY <2>6, <2>8, <3>1
    <3>3. CASE ~(Len(f[p]) > 1)
      BY <2>3, <2>4, <3>1, <3>2, <3>3
    <3>4. CASE Len(f[p]) > 1
      <4>1. f[n] = M!NextLayer(f[p]) /\ g[n] = M!NextLayer(g[p])
        BY <2>3, <2>4, <3>1, <3>2, <3>4
      <4> DEFINE u == f[p]
                 v == g[p]
                 k == Len(u)
      <4>2. /\ Sequence(u) /\ Sequence(v) /\ k \in Nat /\ k = Len(u) /\ k = Len(v) /\ k > 1
            /\ M!NextLayer(u) = M!NextLayer(v)
        BY <2>2, <3>2, <3>4, <4>1
      <4> HIDE DEF u, v, k
      <4>3. u = v
        BY <4>2, AboveInjective
      <4> QED
        BY <3>2, <4>3 DEF u, v
    <3> QED
      BY <3>3, <3>4
  <2> QED
    BY <2>3, <2>4, <2>8, <2>9
<1> QED
  BY <1>2, <1>3

(* A Merkle root stands for one list of its length, whatever the list      *)
(* (merkle.cpp:9-26).                                                      *)
THEOREM RootsBind == MCSpec => []RootBinds
<1>1. ArgTyped => RootBinds
  <2> SUFFICES ASSUME ArgTyped, subject = "leaves", NEW other \in [1..Len(arg) -> Hash],
                      M!BuildRoot(other) = M!BuildRoot(arg)
               PROVE  other = arg
    BY DEF RootBinds
  <2>1. arg \in Seq(Hash) /\ Len(arg) \in Nat
    BY DEF ArgTyped
  <2>2. Sequence(arg)
    BY <2>1 DEF Sequence
  <2>3. DOMAIN other = 1..Len(arg) /\ other = [i \in 1..Len(arg) |-> other[i]]
    OBVIOUS
  <2>4. PICK l \in Nat : l = Len(arg)
    BY <2>1
  <2>5. Sequence(other) /\ Len(other) = l
    BY <2>3, <2>4, MadeSequence
  <2> QED
    BY <2>2, <2>4, <2>5, RootInjective
<1> QED
  BY <1>1, ArgInvariance, PTL

-----------------------------------------------------------------------------
(* Hashes of messages *)

F == INSTANCE Folding WITH Op <- LAMBDA state, block, name : H!Compress(name, state, block)

(* Two sequences put together.                                             *)
LEMMA Joined ==
  ASSUME NEW s, NEW t, Sequence(s), Sequence(t),
         NEW k \in Nat, k = Len(s), NEW l \in Nat, l = Len(t)
  PROVE  /\ Sequence(s \o t) /\ Len(s \o t) = k + l
         /\ \A i \in 1..k : (s \o t)[i] = s[i]
         /\ \A i \in 1..l : (s \o t)[k + i] = t[i]
<1>1. PICK X : s \in Seq(X)
  BY DEF Sequence
<1>2. PICK Y : t \in Seq(Y)
  BY DEF Sequence
<1> DEFINE Z == X \cup Y
<1>3. s \in Seq(Z) /\ t \in Seq(Z)
  BY <1>1, <1>2
<1> HIDE DEF Z
<1>4. s \o t \in Seq(Z) /\ Len(s \o t) = k + l
  BY <1>3
<1>5. \A i \in 1..k : (s \o t)[i] = s[i]
  BY <1>3
<1>6. \A i \in 1..l : (s \o t)[k + i] = t[i]
  BY <1>3
<1> QED
  BY <1>4, <1>5, <1>6 DEF Sequence

(* Zeros are as many as asked for.                                         *)
LEMMA ZerosMade ==
  ASSUME NEW n \in Nat
  PROVE  /\ Sequence(H!Zeros(n)) /\ Len(H!Zeros(n)) = n
         /\ \A i \in 1..n : H!Zeros(n)[i] = 0
<1>1. H!Zeros(n) = [i \in 1..n |-> 0]
  BY DEF H!Zeros
<1>2. DOMAIN H!Zeros(n) = 1..n /\ H!Zeros(n) = [i \in 1..n |-> H!Zeros(n)[i]]
  BY <1>1
<1> QED
  BY <1>1, <1>2, MadeSequence

(* Only multiples that are natural numbers have a natural factor.          *)
LEMMA NaturalFactor ==
  ASSUME NEW b \in Nat \ {0}, NEW k \in Int, b * k \in Nat
  PROVE  k \in Nat
<1> SUFFICES ASSUME k <= -1 PROVE FALSE
  OBVIOUS
<1>1. b * k <= b * (-1)
  OBVIOUS
<1>2. b * (-1) = -b
  OBVIOUS
<1> QED
  BY <1>1, <1>2

(* Filled up, a length is some blocks and the rest.                        *)
LEMMA FilledUp ==
  ASSUME NEW len \in Nat, NEW rest \in 0..BlockLen
  PROVE  /\ H!Fill(len, rest) \in Nat
         /\ \E k \in Int : len + H!Fill(len, rest) = BlockLen * k + rest
<1> DEFINE b == BlockLen
           r == len % b
           v == len \div b
           x == b + rest - r
           f == x % b
           u == x \div b
<1>1. b \in Nat \ {0} /\ rest \in Nat /\ rest <= b
  BY DigestAssumption
<1> HIDE DEF b
<1>2. r \in 0..b-1 /\ v \in Int /\ len = b * v + r
  BY <1>1, DivMod
<1> HIDE DEF r, v
<1>3. x \in Int
  BY <1>1, <1>2
<1> HIDE DEF x
<1>4. f \in 0..b-1 /\ u \in Int /\ x = b * u + f
  BY <1>1, <1>3, DivMod
<1> HIDE DEF f, u
<1>5. H!Fill(len, rest) = f
  BY DEF H!Fill, f, x, r, b
<1>6. len + f = (b * v + b - b * u) + rest
  <2>1. b * v \in Int /\ b * u \in Int
    BY <1>1, <1>2, <1>4
  <2>2. x = b + rest - r
    BY DEF x
  <2> QED
    BY <1>1, <1>2, <1>4, <2>1, <2>2
<1>7. b * v + b - b * u = b * (v + 1 - u) /\ v + 1 - u \in Int
  <2>1. b * (v + 1 - u) = b * v + b * 1 - b * u
    BY <1>1, <1>2, <1>4
  <2> QED
    BY <1>1, <1>2, <1>4, <2>1
<1>8. len + f = b * (v + 1 - u) + rest
  BY <1>6, <1>7
<1>9. f \in Nat
  BY <1>1, <1>4
<1>10. \E k \in Int : len + f = b * k + rest
  <2> DEFINE k == v + 1 - u
  <2>1. k \in Int /\ len + f = b * k + rest
    BY <1>7, <1>8
  <2> HIDE DEF k
  <2> QED
    BY <2>1
<1> QED
  BY <1>5, <1>9, <1>10 DEF b

\* A message and how it is padded: the sequence p of k blocks.
Filled(p, k) == Sequence(p) /\ Len(p) = BlockLen * k

(* A padded message is whole blocks: the message, the marker, zeros and the *)
(* length.                                                                 *)
LEMMA PaddedParts ==
  ASSUME NEW m, Sequence(m), NEW l \in Nat, l = Len(m)
  PROVE  \E n \in Nat, k \in Nat :
           /\ Filled(H!Pad(m), k) /\ Len(H!Pad(m)) = n + LengthLen
           /\ l + 1 <= n /\ H!Pad(m)[l + 1] = 128
           /\ \A i \in 1..l : H!Pad(m)[i] = m[i]
           /\ \A i \in l+2..n : H!Pad(m)[i] = 0
<1> DEFINE marked == Append(m, 128)
           fill == H!Fill(Len(marked), BlockLen - LengthLen)
           zeros == H!Zeros(fill)
           size == [i \in 1..LengthLen |-> ((8 * Len(m)) \div ByteValues^(i - 1)) % ByteValues]
           front == marked \o zeros
           p == front \o size
<1>1. /\ BlockLen \in Nat \ {0} /\ LengthLen \in Nat
      /\ BlockLen - LengthLen \in 0..BlockLen /\ BlockLen - LengthLen \in Nat
  BY DigestAssumption
<1>2. /\ Sequence(marked) /\ Len(marked) = l + 1 /\ marked[l + 1] = 128
      /\ \A i \in 1..l : marked[i] = m[i]
  <2>1. PICK T : m \in Seq(T)
    BY DEF Sequence
  <2> DEFINE U == T \cup {128}
  <2>2. m \in Seq(U) /\ 128 \in U
    BY <2>1
  <2> HIDE DEF U
  <2>3. marked \in Seq(U) /\ Len(marked) = l + 1 /\ marked[l + 1] = 128
        /\ \A i \in 1..l : marked[i] = m[i]
    BY <2>2
  <2> QED
    BY <2>3 DEF Sequence
<1> HIDE DEF marked
<1>3. fill \in Nat /\ \E k \in Int : (l + 1) + fill = BlockLen * k + (BlockLen - LengthLen)
  <2> DEFINE k == l + 1
             rest == BlockLen - LengthLen
  <2>1. k \in Nat /\ rest \in 0..BlockLen /\ fill = H!Fill(k, rest)
    BY <1>1, <1>2
  <2> HIDE DEF k, rest, fill
  <2>2. H!Fill(k, rest) \in Nat /\ \E j \in Int : k + H!Fill(k, rest) = BlockLen * j + rest
    BY <2>1, FilledUp
  <2> QED
    BY <2>1, <2>2 DEF k, rest
<1> HIDE DEF fill
<1>4. /\ Sequence(zeros) /\ Len(zeros) = fill
      /\ \A i \in 1..fill : zeros[i] = 0
  BY <1>3, ZerosMade
<1> HIDE DEF zeros
<1>5. Sequence(size) /\ Len(size) = LengthLen
  <2>1. DOMAIN size = 1..LengthLen /\ size = [i \in 1..LengthLen |-> size[i]]
    OBVIOUS
  <2> HIDE DEF size
  <2> QED
    BY <1>1, <2>1, MadeSequence
<1> HIDE DEF size
<1> DEFINE n == (l + 1) + fill
<1>6. /\ Sequence(front) /\ Len(front) = n /\ n \in Nat
      /\ \A i \in 1..l+1 : front[i] = marked[i]
      /\ \A i \in 1..fill : front[(l + 1) + i] = zeros[i]
  <2>1. l + 1 \in Nat
    OBVIOUS
  <2> QED
    BY <1>2, <1>3, <1>4, <2>1, Joined
<1> HIDE DEF front
<1>7. /\ Sequence(p) /\ Len(p) = n + LengthLen
      /\ \A i \in 1..n : p[i] = front[i]
  <2>1. /\ Sequence(front) /\ Sequence(size) /\ n \in Nat /\ n = Len(front)
        /\ LengthLen \in Nat /\ LengthLen = Len(size)
    BY <1>1, <1>5, <1>6
  <2> HIDE DEF n
  <2> QED
    BY <2>1, Joined
<1>8. H!Pad(m) = p
  BY DEF H!Pad, p, front, marked, zeros, fill, size
<1> HIDE DEF p
<1>9. p[l + 1] = 128 /\ \A i \in 1..l : p[i] = m[i]
  <2>1. l + 1 \in 1..n /\ l + 1 \in 1..l+1 /\ \A i \in 1..l : i \in 1..n /\ i \in 1..l+1
    BY <1>3
  <2> HIDE DEF n
  <2> QED
    BY <1>2, <1>6, <1>7, <2>1
<1>10. ASSUME NEW i \in l+2..n PROVE p[i] = 0
  <2>1. PICK j \in 1..fill : i = (l + 1) + j /\ i \in 1..n
    <3>1. i - (l + 1) \in 1..fill /\ i = (l + 1) + (i - (l + 1)) /\ i \in 1..n
      BY <1>3
    <3> QED
      BY <3>1
  <2> HIDE DEF n
  <2> QED
    BY <1>4, <1>6, <1>7, <2>1
<1>11. \E k \in Nat : n + LengthLen = BlockLen * k
  <2>1. PICK k \in Int : n = BlockLen * k + (BlockLen - LengthLen)
    BY <1>3
  <2>2. n + LengthLen = BlockLen * k + BlockLen
    <3>1. PICK y \in Int : y = BlockLen * k
      BY <1>1
    <3> HIDE DEF n
    <3> QED
      BY <1>1, <1>6, <2>1, <3>1
  <2>3. BlockLen * (k + 1) = BlockLen * k + BlockLen /\ k + 1 \in Int
    BY <1>1
  <2>4. n + LengthLen \in Nat
    <3> HIDE DEF n
    <3> QED
      BY <1>1, <1>6
  <2>5. BlockLen * (k + 1) = n + LengthLen
    BY <2>2, <2>3
  <2> HIDE DEF n
  <2>6. k + 1 \in Nat
    BY <1>1, <2>3, <2>4, <2>5, NaturalFactor
  <2> QED
    BY <2>5, <2>6
<1>12. l + 1 <= n
  BY <1>3
<1> HIDE DEF n
<1> QED
  BY <1>6, <1>7, <1>8, <1>9, <1>10, <1>11, <1>12 DEF Filled

(* The sponge's padding is whole blocks as well, and the marker and the bit *)
(* of the last byte may meet.                                              *)
LEMMA SpongeParts ==
  ASSUME NEW m, Sequence(m), NEW l \in Nat, l = Len(m)
  PROVE  \E n \in Nat, k \in Nat :
           /\ Filled(H!PadSponge(m), k) /\ Len(H!PadSponge(m)) = n
           /\ l + 1 <= n
           /\ \A i \in 1..l : H!PadSponge(m)[i] = m[i]
           /\ H!PadSponge(m)[l + 1] = IF l + 1 = n THEN 134 ELSE 6
           /\ \A i \in l+2..n : H!PadSponge(m)[i] = IF i = n THEN 128 ELSE 0
<1> DEFINE marked == Append(m, 6)
           fill == H!Fill(Len(marked), 0)
           zeros == H!Zeros(fill)
           front == marked \o zeros
           p == [front EXCEPT ![Len(front)] = @ + 128]
<1>1. BlockLen \in Nat \ {0} /\ 0 \in 0..BlockLen
  BY DigestAssumption
<1>2. /\ Sequence(marked) /\ Len(marked) = l + 1 /\ marked[l + 1] = 6
      /\ \A i \in 1..l : marked[i] = m[i]
  <2>1. PICK T : m \in Seq(T)
    BY DEF Sequence
  <2> DEFINE U == T \cup {6}
  <2>2. m \in Seq(U) /\ 6 \in U
    BY <2>1
  <2> HIDE DEF U
  <2>3. marked \in Seq(U) /\ Len(marked) = l + 1 /\ marked[l + 1] = 6
        /\ \A i \in 1..l : marked[i] = m[i]
    BY <2>2
  <2> QED
    BY <2>3 DEF Sequence
<1> HIDE DEF marked
<1>3. fill \in Nat /\ \E k \in Int : (l + 1) + fill = BlockLen * k + 0
  <2> DEFINE k == l + 1
  <2>1. k \in Nat /\ fill = H!Fill(k, 0)
    BY <1>2
  <2> HIDE DEF k, fill
  <2>2. H!Fill(k, 0) \in Nat /\ \E j \in Int : k + H!Fill(k, 0) = BlockLen * j + 0
    BY <1>1, <2>1, FilledUp
  <2> QED
    BY <2>1, <2>2 DEF k
<1> HIDE DEF fill
<1>4. /\ Sequence(zeros) /\ Len(zeros) = fill
      /\ \A i \in 1..fill : zeros[i] = 0
  BY <1>3, ZerosMade
<1> HIDE DEF zeros
<1> DEFINE n == (l + 1) + fill
<1>5. /\ Sequence(front) /\ Len(front) = n /\ n \in Nat
      /\ \A i \in 1..l+1 : front[i] = marked[i]
      /\ \A i \in 1..fill : front[(l + 1) + i] = zeros[i]
  <2>1. l + 1 \in Nat
    OBVIOUS
  <2> QED
    BY <1>2, <1>3, <1>4, <2>1, Joined
<1>6. l + 1 <= n
  BY <1>3
<1> HIDE DEF front
<1>7. /\ \A i \in 1..l : front[i] = m[i]
      /\ front[l + 1] = 6
      /\ \A i \in l+2..n : front[i] = 0
  <2>1. l + 1 \in 1..l+1 /\ \A i \in 1..l : i \in 1..l+1
    OBVIOUS
  <2>2. ASSUME NEW i \in l+2..n PROVE front[i] = 0
    <3>1. PICK j \in 1..fill : i = (l + 1) + j
      <4>1. i - (l + 1) \in 1..fill /\ i = (l + 1) + (i - (l + 1))
        BY <1>3
      <4> QED
        BY <4>1
    <3> HIDE DEF n
    <3> QED
      BY <1>4, <1>5, <3>1
  <2> HIDE DEF n
  <2> QED
    BY <1>2, <1>5, <2>1, <2>2
<1>8. DOMAIN front = 1..n /\ front = [i \in 1..n |-> front[i]]
  <2> HIDE DEF n
  <2> QED
    BY <1>5, SequencePlaces
<1>9. p = [i \in 1..n |-> IF i = n THEN front[i] + 128 ELSE front[i]]
  <2> HIDE DEF n
  <2> QED
    BY <1>5, <1>8
<1>10. H!PadSponge(m) = p
  BY DEF H!PadSponge, p, front, marked, zeros, fill
<1> HIDE DEF p
<1>11. Sequence(p) /\ Len(p) = n
  <2> HIDE DEF n
  <2>1. DOMAIN p = 1..n /\ p = [i \in 1..n |-> p[i]]
    BY <1>9
  <2> QED
    BY <1>5, <2>1, MadeSequence
<1>12. /\ \A i \in 1..l : p[i] = m[i]
       /\ p[l + 1] = IF l + 1 = n THEN 134 ELSE 6
       /\ \A i \in l+2..n : p[i] = IF i = n THEN 128 ELSE 0
  <2>1. l + 1 \in 1..n /\ \A i \in 1..l : i \in 1..n /\ i # n
    BY <1>5, <1>6
  <2>2. \A i \in l+2..n : i \in 1..n
    BY <1>5
  <2> HIDE DEF n
  <2>3. \A i \in 1..n : p[i] = IF i = n THEN front[i] + 128 ELSE front[i]
    BY <1>9
  <2> QED
    BY <1>7, <2>1, <2>2, <2>3
<1>13. \E k \in Nat : n = BlockLen * k
  <2>1. PICK k \in Int : n = BlockLen * k + 0
    BY <1>3
  <2> HIDE DEF n
  <2>2. BlockLen * k = n
    BY <1>1, <2>1
  <2>3. k \in Nat
    BY <1>1, <1>5, <2>2, NaturalFactor
  <2> QED
    BY <2>2, <2>3
<1> HIDE DEF n
<1> QED
  BY <1>5, <1>6, <1>10, <1>11, <1>12, <1>13 DEF Filled

(* No two messages are padded to the same bytes: the marker tells where a   *)
(* message ends.                                                           *)
LEMMA PadInjective ==
  ASSUME NEW m, NEW o, Sequence(m), Sequence(o), H!Pad(m) = H!Pad(o)
  PROVE  m = o
<1>1. PICK l \in Nat : l = Len(m)
  BY SequencePlaces
<1>2. PICK h \in Nat : h = Len(o)
  BY SequencePlaces
<1> DEFINE p == H!Pad(m)
           q == H!Pad(o)
<1>3. PICK n \in Nat : /\ Len(p) = n + LengthLen /\ l + 1 <= n /\ p[l + 1] = 128
                       /\ \A i \in 1..l : p[i] = m[i]
                       /\ \A i \in l+2..n : p[i] = 0
  BY <1>1, PaddedParts
<1>4. PICK j \in Nat : /\ Len(q) = j + LengthLen /\ h + 1 <= j /\ q[h + 1] = 128
                       /\ \A i \in 1..h : q[i] = o[i]
                       /\ \A i \in h+2..j : q[i] = 0
  BY <1>2, PaddedParts
<1>5. p = q
  OBVIOUS
<1> HIDE DEF p, q
<1>6. n = j
  <2>1. n + LengthLen = j + LengthLen /\ LengthLen \in Nat
    BY <1>3, <1>4, <1>5, DigestAssumption
  <2> QED
    BY <2>1
<1>7. ~(l < h)
  <2> SUFFICES ASSUME l < h PROVE FALSE
    OBVIOUS
  <2>1. h + 1 \in l+2..n
    BY <1>4, <1>6
  <2> QED
    BY <1>3, <1>4, <1>5, <2>1
<1>8. ~(h < l)
  <2> SUFFICES ASSUME h < l PROVE FALSE
    OBVIOUS
  <2>1. l + 1 \in h+2..j
    BY <1>3, <1>6
  <2> QED
    BY <1>3, <1>4, <1>5, <2>1
<1>9. l = h
  BY <1>7, <1>8
<1>10. m = [i \in 1..l |-> m[i]] /\ o = [i \in 1..l |-> o[i]]
  BY <1>1, <1>2, <1>9, SequencePlaces
<1>11. \A i \in 1..l : m[i] = o[i]
  BY <1>3, <1>4, <1>5, <1>9
<1> QED
  BY <1>10, <1>11

(* Nor by the sponge.                                                      *)
LEMMA SpongeInjective ==
  ASSUME NEW m, NEW o, Sequence(m), Sequence(o), H!PadSponge(m) = H!PadSponge(o)
  PROVE  m = o
<1>1. PICK l \in Nat : l = Len(m)
  BY SequencePlaces
<1>2. PICK h \in Nat : h = Len(o)
  BY SequencePlaces
<1> DEFINE p == H!PadSponge(m)
           q == H!PadSponge(o)
<1>3. PICK n \in Nat : /\ Len(p) = n /\ l + 1 <= n
                       /\ \A i \in 1..l : p[i] = m[i]
                       /\ p[l + 1] = IF l + 1 = n THEN 134 ELSE 6
                       /\ \A i \in l+2..n : p[i] = IF i = n THEN 128 ELSE 0
  BY <1>1, SpongeParts
<1>4. PICK j \in Nat : /\ Len(q) = j /\ h + 1 <= j
                       /\ \A i \in 1..h : q[i] = o[i]
                       /\ q[h + 1] = IF h + 1 = j THEN 134 ELSE 6
                       /\ \A i \in h+2..j : q[i] = IF i = j THEN 128 ELSE 0
  BY <1>2, SpongeParts
<1>5. p = q
  OBVIOUS
<1> HIDE DEF p, q
<1>6. n = j
  BY <1>3, <1>4, <1>5
<1>7. ~(l < h)
  <2> SUFFICES ASSUME l < h PROVE FALSE
    OBVIOUS
  <2>1. h + 1 \in l+2..n
    BY <1>4, <1>6
  <2>2. p[h + 1] = IF h + 1 = n THEN 128 ELSE 0
    BY <1>3, <2>1
  <2> QED
    BY <1>4, <1>5, <1>6, <2>2
<1>8. ~(h < l)
  <2> SUFFICES ASSUME h < l PROVE FALSE
    OBVIOUS
  <2>1. l + 1 \in h+2..j
    BY <1>3, <1>6
  <2>2. q[l + 1] = IF l + 1 = j THEN 128 ELSE 0
    BY <1>4, <2>1
  <2> QED
    BY <1>3, <1>5, <1>6, <2>2
<1>9. l = h
  BY <1>7, <1>8
<1>10. m = [i \in 1..l |-> m[i]] /\ o = [i \in 1..l |-> o[i]]
  BY <1>1, <1>2, <1>9, SequencePlaces
<1>11. \A i \in 1..l : m[i] = o[i]
  BY <1>3, <1>4, <1>5, <1>9
<1> QED
  BY <1>10, <1>11

(* Whole blocks are as many as they are, each a part of the sequence.      *)
LEMMA BlocksMade ==
  ASSUME NEW p, NEW k \in Nat, Filled(p, k)
  PROVE  /\ DOMAIN H!Blocks(p) = 1..k
         /\ \A i \in 1..k : H!Blocks(p)[i] = SubSeq(p, (i - 1) * BlockLen + 1, i * BlockLen)
<1>1. Len(p) \div BlockLen = k
  <2>1. BlockLen \in Nat \ {0}
    BY DigestAssumption
  <2> DEFINE x == BlockLen * k
             a == x \div BlockLen
             r == x % BlockLen
  <2>2. x \in Int
    BY <2>1
  <2>3. r \in 0..BlockLen-1 /\ a \in Int /\ x = BlockLen * a + r
    <3> HIDE DEF x
    <3> QED
      BY <2>1, <2>2, DivMod
  <2>4. 0 \in 0..BlockLen-1 /\ k \in Int /\ BlockLen * a + r = BlockLen * k + 0
    BY <2>1, <2>2, <2>3
  <2> HIDE DEF a, r
  <2>5. a = k
    BY <2>1, <2>3, <2>4, QuotientUnique
  <2> QED
    BY <2>5 DEF a, Filled
<1> QED
  BY <1>1 DEF H!Blocks

(* Blocks make up one sequence only.                                       *)
LEMMA BlocksInjective ==
  ASSUME NEW p, NEW q, NEW k \in Nat, Filled(p, k), Filled(q, k),
         \A i \in 1..k : H!Blocks(p)[i] = H!Blocks(q)[i]
  PROVE  p = q
<1> DEFINE b == BlockLen
<1>1. b \in Nat \ {0}
  BY DigestAssumption
<1>2. PICK l \in Nat : l = b * k
  BY <1>1
<1>3. /\ Sequence(p) /\ Sequence(q) /\ Len(p) = l /\ Len(q) = l
  BY <1>2 DEF Filled
<1>4. PICK X : p \in Seq(X)
  BY <1>3 DEF Sequence
<1>5. PICK Y : q \in Seq(Y)
  BY <1>3 DEF Sequence
<1>6. ASSUME NEW j \in 1..l PROVE p[j] = q[j]
  <2> DEFINE d == (j - 1) \div b
             r == (j - 1) % b
  <2>1. r \in 0..b-1 /\ d \in Int /\ j - 1 = b * d + r
    <3>1. j - 1 \in Int
      OBVIOUS
    <3> HIDE DEF b
    <3> QED
      BY <1>1, <3>1, DivMod
  <2> HIDE DEF b, d, r
  <2>2. d \in 0..k-1
    <3>1. ~(d <= -1)
      <4> SUFFICES ASSUME d <= -1 PROVE FALSE
        OBVIOUS
      <4>1. b * d <= b * (-1) /\ b * (-1) = -b /\ b * d \in Int
        BY <1>1, <2>1
      <4> QED
        BY <1>1, <2>1, <4>1
    <3>2. ~(d >= k)
      <4> SUFFICES ASSUME d >= k PROVE FALSE
        OBVIOUS
      <4>1. b * d >= b * k /\ b * d \in Int
        BY <1>1, <2>1
      <4> QED
        BY <1>1, <1>2, <2>1, <4>1
    <3> QED
      BY <2>1, <3>1, <3>2
  <2> DEFINE i == d + 1
             from == (i - 1) * b + 1
             to == i * b
  <2>3. i \in 1..k
    BY <2>2
  <2>4. from \in Int /\ to \in Int /\ from >= 1 /\ to <= l /\ to - from + 1 = b
    <3>1. from = b * d + 1 /\ to = b * d + b /\ b * d \in Int /\ b * d >= 0
      BY <1>1, <2>2
    <3>2. b * (d + 1) <= b * k /\ b * (d + 1) = b * d + b
      BY <1>1, <2>2
    <3> HIDE DEF from, to
    <3> QED
      BY <1>1, <1>2, <3>1, <3>2
  <2>5. from + (r + 1) - 1 = j
    <3>1. from = b * d + 1 /\ b * d \in Int
      BY <1>1, <2>2
    <3> HIDE DEF from
    <3> QED
      BY <1>1, <2>1, <3>1
  <2>6. r + 1 \in 1..(to-from+1)
    <3> HIDE DEF from, to
    <3> QED
      BY <1>1, <2>1, <2>4
  <2>7. SubSeq(p, from, to) = SubSeq(q, from, to)
    <3>1. H!Blocks(p)[i] = SubSeq(p, (i - 1) * BlockLen + 1, i * BlockLen)
      BY <2>3, BlocksMade
    <3>2. H!Blocks(q)[i] = SubSeq(q, (i - 1) * BlockLen + 1, i * BlockLen)
      BY <2>3, BlocksMade
    <3> QED
      BY <2>3, <3>1, <3>2 DEF b
  <2>8. /\ \A x \in from..to : p[x] \in X
        /\ \A x \in from..to : q[x] \in Y
    <3>1. \A x \in from..to : x \in 1..l
      <4> HIDE DEF from, to
      <4> QED
        BY <2>4
    <3> HIDE DEF from, to
    <3> QED
      BY <1>3, <1>4, <1>5, <3>1
  <2> HIDE DEF from, to
  <2>9. \A x \in 1..(to-from+1) : SubSeq(p, from, to)[x] = p[from+x-1]
    BY <2>4, <2>8, SubSeqProperties
  <2>10. \A x \in 1..(to-from+1) : SubSeq(q, from, to)[x] = q[from+x-1]
    BY <2>4, <2>8, SubSeqProperties
  <2>11. SubSeq(p, from, to)[r + 1] = p[j] /\ SubSeq(q, from, to)[r + 1] = q[j]
    BY <2>5, <2>6, <2>9, <2>10
  <2> QED
    BY <2>7, <2>11
<1>7. p = [i \in 1..l |-> p[i]] /\ q = [i \in 1..l |-> q[i]]
  BY <1>3, SequencePlaces
<1> QED
  BY <1>6, <1>7

(* The compressions of this model have no collisions.                      *)
LEMMA Compressed ==
  ASSUME NEW name, NEW a, NEW b
  PROVE  /\ H!Compress(name, a, b) # <<>>
         /\ \A c, d : H!Compress(name, a, b) = H!Compress(name, c, d) => a = c /\ b = d
  BY DEF H!Compress

(* The state after each block is compressed from the state before.         *)
LEMMA ChainPlaces ==
  ASSUME NEW name, NEW p, NEW n \in Nat, Filled(p, n), NEW base, base = <<>>
  PROVE  \E h : /\ h[0] = base
                /\ \A i \in 1..n : h[i] = H!Compress(name, h[i-1], H!Blocks(p)[i])
                /\ H!Chained(name, p) = h[n]
<1>1. H!Chained(name, p) = F!Fold(<<>>, H!Blocks(p), name)
  BY DEF H!Chained, H!FoldLeft, H!MapThenFoldSet, F!Fold, F!Last, H!Max
<1>2. H!Chained(name, p) = F!Fold(base, H!Blocks(p), name)
  BY <1>1, Zenon
<1>3. DOMAIN H!Blocks(p) = 1..n
  BY BlocksMade
<1>4. \A s : DOMAIN s = 1..n =>
        \E h : /\ h[0] = base
               /\ \A i \in 1..n : h[i] = H!Compress(name, h[i-1], s[i])
               /\ F!Fold(base, s, name) = h[n]
  <2> TAKE s
  <2> HAVE DOMAIN s = 1..n
  <2> QED
    BY ONLY F!FoldPlaces, n \in Nat, DOMAIN s = 1..n
<1> QED
  BY <1>2, <1>3, <1>4, Zenon

(* A chain of compressions without collisions tells every block.           *)
LEMMA ChainInjective ==
  ASSUME NEW name, NEW p, NEW q, NEW a \in Nat, NEW b \in Nat, Filled(p, a), Filled(q, b),
         H!Chained(name, p) = H!Chained(name, q)
  PROVE  p = q
<1> DEFINE s == H!Blocks(p)
           t == H!Blocks(q)
<1>1. DOMAIN s = 1..a /\ DOMAIN t = 1..b
  BY BlocksMade
<1>2. PICK base : base = <<>>
  OBVIOUS
<1>3. PICK h : /\ h[0] = base
               /\ \A i \in 1..a : h[i] = H!Compress(name, h[i-1], s[i])
               /\ H!Chained(name, p) = h[a]
  BY <1>2, ChainPlaces
<1>4. PICK g : /\ g[0] = base
               /\ \A i \in 1..b : g[i] = H!Compress(name, g[i-1], t[i])
               /\ H!Chained(name, q) = g[b]
  BY <1>2, ChainPlaces
<1> HIDE DEF s, t
<1> DEFINE Told(i) == \A j \in 0..b : h[i] = g[j] => i = j /\ \A x \in 1..i : s[x] = t[x]
           Bad == {i \in 0..a : ~Told(i)}
<1>5. Bad = {}
  <2> SUFFICES ASSUME Bad # {} PROVE FALSE
    OBVIOUS
  <2>1. PICK i \in Bad : \A j \in Bad : i <= j
    <3>1. Bad \subseteq Nat
      OBVIOUS
    <3> HIDE DEF Bad
    <3> QED
      BY <3>1, NatMin
  <2>2. PICK j \in 0..b : h[i] = g[j] /\ ~(i = j /\ \A x \in 1..i : s[x] = t[x])
    BY <2>1
  <2>3. i \in 0..a
    BY <2>1
  <2>4. CASE i = 0
    <3>1. j # 0
      BY <2>2, <2>4
    <3>2. j \in 1..b
      BY <3>1
    <3>3. g[j] = H!Compress(name, g[j-1], t[j])
      BY <1>4, <3>2
    <3>4. g[j] # base
      BY <1>2, <3>3, Compressed
    <3> QED
      BY <1>3, <2>2, <2>4, <3>4
  <2>5. CASE i # 0
    <3>1. i \in 1..a /\ i - 1 \in 0..a /\ ~(i <= i - 1)
      BY <2>3, <2>5
    <3>2. h[i] = H!Compress(name, h[i-1], s[i])
      BY <1>3, <3>1
    <3>3. h[i] # base
      BY <1>2, <3>2, Compressed
    <3>4. j # 0
      BY <1>4, <2>2, <3>3
    <3>5. j \in 1..b /\ j - 1 \in 0..b
      BY <3>4
    <3>6. g[j] = H!Compress(name, g[j-1], t[j])
      BY <1>4, <3>5
    <3>7. h[i-1] = g[j-1] /\ s[i] = t[j]
      <4>1. H!Compress(name, h[i-1], s[i]) = H!Compress(name, g[j-1], t[j])
        BY <2>2, <3>2, <3>6
      <4> QED
        BY ONLY <4>1, Compressed
    <3>8. Told(i-1)
      <4>1. i - 1 \notin Bad
        BY <2>1, <3>1
      <4> QED
        BY <3>1, <4>1
    <3>9. i - 1 = j - 1 /\ \A x \in 1..i-1 : s[x] = t[x]
      BY <3>5, <3>7, <3>8
    <3>10. i = j
      BY <2>3, <3>9
    <3>11. \A x \in 1..i : x \in 1..i-1 \/ x = i
      BY <2>3
    <3> QED
      BY <2>2, <3>7, <3>9, <3>10, <3>11
  <2> QED
    BY <2>4, <2>5
<1>6. a \in 0..a /\ b \in 0..b /\ h[a] = g[b]
  <2>1. h[a] = g[b]
    BY <1>3, <1>4, Zenon
  <2> QED
    BY <2>1
<1>7. a = b /\ \A x \in 1..a : s[x] = t[x]
  BY <1>5, <1>6
<1> QED
  BY <1>7, BlocksInjective DEF s, t

(* A hash stands for one message if the compression function does: no two   *)
(* are padded to the same blocks, whatever the lengths of blocks and of     *)
(* messages (sha256.cpp:38-72, ripemd160.cpp:63-97, sha3.cpp:67-81).        *)
THEOREM DigestsBind == MCSpec => []DigestBinds
<1>1. ArgTyped => DigestBinds
  <2> SUFFICES ASSUME ArgTyped, subject = "message",
                      NEW other \in BoundedSeq(Data, MaxLength),
                      \/ H!SHA256(other) = H!SHA256(arg)
                      \/ H!RIPEMD160(other) = H!RIPEMD160(arg)
                      \/ H!SHA3(other) = H!SHA3(arg)
               PROVE  other = arg
    BY DEF DigestBinds
  <2>1. Sequence(arg)
    BY DEF ArgTyped, Sequence
  <2>2. Sequence(other)
    <3>1. PICK n \in 0..MaxLength : other \in [1..n -> Data]
      BY DEF BoundedSeq, SeqOf
    <3>2. n \in Nat /\ DOMAIN other = 1..n /\ other = [i \in 1..n |-> other[i]]
      BY <3>1
    <3> QED
      BY <3>2, MadeSequence
  <2>3. ASSUME NEW name, H!Chained(name, H!Pad(other)) = H!Chained(name, H!Pad(arg))
        PROVE  other = arg
    <3>1. PICK a \in Nat : Filled(H!Pad(other), a)
      BY <2>2, SequencePlaces, PaddedParts
    <3>2. PICK b \in Nat : Filled(H!Pad(arg), b)
      BY <2>1, SequencePlaces, PaddedParts
    <3>3. H!Pad(other) = H!Pad(arg)
      BY <2>3, <3>1, <3>2, ChainInjective
    <3> QED
      BY <2>1, <2>2, <3>3, PadInjective
  <2>4. ASSUME H!SHA3(other) = H!SHA3(arg) PROVE other = arg
    <3>1. PICK a \in Nat : Filled(H!PadSponge(other), a)
      BY <2>2, SequencePlaces, SpongeParts
    <3>2. PICK b \in Nat : Filled(H!PadSponge(arg), b)
      BY <2>1, SequencePlaces, SpongeParts
    <3>3. H!PadSponge(other) = H!PadSponge(arg)
      BY <2>4, <3>1, <3>2, ChainInjective DEF H!SHA3
    <3> QED
      BY <2>1, <2>2, <3>3, SpongeInjective
  <2> QED
    BY <2>3, <2>4 DEF H!SHA256, H!RIPEMD160
<1> QED
  BY <1>1, ArgInvariance, PTL

-----------------------------------------------------------------------------
(* Scripts *)

(* The first place of the two places where buildP2PKH puts a word.          *)
LEMMA WordFound ==
  ASSUME NEW seq, NEW name, NEW p \in 1..4, Len(seq) = 4,
         seq[p] = S!Op(name), \A i \in 1..p-1 : seq[i] # S!Op(name)
  PROVE  LET places == {i \in 1..Len(seq) : seq[i] = S!Op(name)}
         IN  places # {} /\ S!Min(places) = p
<1> DEFINE Places == {i \in 1..Len(seq) : seq[i] = S!Op(name)}
<1>1. p \in Places /\ \A i \in Places : i \in 1..4 /\ ~(i \in 1..p-1)
  OBVIOUS
<1>2. \A i \in Places : p =< i
  BY <1>1
<1>3. S!Min(Places) = p
  <2>1. \A x \in Places : (\A y \in Places : x =< y) => x = p
    BY <1>1, <1>2
  <2> HIDE DEF Places
  <2> QED
    BY <1>1, <1>2, <2>1 DEF S!Min
<1> QED
  BY <1>1, <1>3

(* The script made of a hash, or of what stands in its place, is opened by  *)
(* the key with exactly that hash (script.cpp:5-45).                       *)
LEMMA MadeForHash ==
  ASSUME NEW hash, hash # S!Op("OP_EQUALVERIFY")
  PROVE  LET lock == S!BuildP2PKH(hash)
         IN  lock # <<>> /\ S!HashEnd(lock) # 0 /\ S!ExpectedHash(lock) = <<hash>>
<1> DEFINE lock == S!BuildP2PKH(hash)
<1>1. /\ (\E T : lock \in Seq(T)) /\ Len(lock) = 5
      /\ lock[1] = S!Op("OP_DUP") /\ lock[2] = S!Op("OP_HASH160") /\ lock[3] = hash
      /\ lock[4] = S!Op("OP_EQUALVERIFY") /\ lock[5] = S!Op("OP_CHECKSIG")
  <2>1. lock = <<S!Op("OP_DUP"), S!Op("OP_HASH160"), hash, S!Op("OP_EQUALVERIFY"),
                 S!Op("OP_CHECKSIG")>>
    BY DEF S!BuildP2PKH
  <2> HIDE DEF lock
  <2>2. /\ Len(lock) = 5
        /\ lock[1] = S!Op("OP_DUP") /\ lock[2] = S!Op("OP_HASH160") /\ lock[3] = hash
        /\ lock[4] = S!Op("OP_EQUALVERIFY") /\ lock[5] = S!Op("OP_CHECKSIG")
    BY <2>1
  <2>3. lock \in Seq({S!Op("OP_DUP"), S!Op("OP_HASH160"), hash, S!Op("OP_EQUALVERIFY"),
                      S!Op("OP_CHECKSIG")})
    BY <2>1
  <2> QED
    BY <2>2, <2>3
<1> HIDE DEF lock
<1>2. \A c, d : S!Op(c) = S!Op(d) => c = d
  BY DEF S!Op
<1> DEFINE front == S!Front(lock)
           tail == Tail(lock)
<1>3. Len(front) = 4 /\ \A i \in 1..4 : front[i] = lock[i]
  <2>1. front = SubSeq(lock, 1, 4)
    BY <1>1 DEF S!Front
  <2> HIDE DEF front
  <2> QED
    BY <1>1, <2>1, SubSeqProperties
<1>4. Len(tail) = 4 /\ \A i \in 1..4 : tail[i] = lock[i+1]
  <2>1. PICK T : lock \in Seq(T)
    BY <1>1
  <2>2. lock # <<>>
    BY <1>1
  <2> HIDE DEF lock
  <2>3. Len(tail) = Len(lock) - 1 /\ \A i \in 1..Len(tail) : tail[i] = lock[i+1]
    BY <2>1, <2>2, HeadTailProperties
  <2> HIDE DEF tail
  <2> QED
    BY <1>1, <2>3
<1> HIDE DEF front, tail
<1>5. S!HashStart(lock) = 3
  <2>1. /\ front[2] = S!Op("OP_HASH160")
        /\ \A i \in 1..2-1 : front[i] # S!Op("OP_HASH160")
    <3>1. front[2] = S!Op("OP_HASH160") /\ front[1] = S!Op("OP_DUP")
      BY <1>1, <1>3
    <3>2. front[1] # S!Op("OP_HASH160")
      BY <1>2, <3>1
    <3> QED
      BY <3>1, <3>2
  <2> DEFINE places == {i \in 1..Len(front) : front[i] = S!Op("OP_HASH160")}
  <2>2. places # {} /\ S!Min(places) = 2
    BY <1>3, <2>1, WordFound
  <2>3. S!HashStart(lock) = (IF places # {} THEN S!Min(places) ELSE 0) + 1
    BY DEF S!HashStart, S!SelectInSeq, front
  <2> HIDE DEF places
  <2> QED
    BY <2>2, <2>3
<1>6. S!HashEnd(lock) = 3
  <2>1. /\ tail[3] = S!Op("OP_EQUALVERIFY")
        /\ \A i \in 1..3-1 : tail[i] # S!Op("OP_EQUALVERIFY")
    <3>1. /\ tail[3] = S!Op("OP_EQUALVERIFY")
          /\ tail[2] = hash /\ tail[1] = S!Op("OP_HASH160")
      BY <1>1, <1>4
    <3>2. tail[1] # S!Op("OP_EQUALVERIFY") /\ tail[2] # S!Op("OP_EQUALVERIFY")
      BY <1>2, <3>1
    <3> QED
      BY <3>1, <3>2
  <2> DEFINE places == {i \in 1..Len(tail) : tail[i] = S!Op("OP_EQUALVERIFY")}
  <2>2. places # {} /\ S!Min(places) = 3
    BY <1>4, <2>1, WordFound
  <2>3. S!HashEnd(lock) = IF places # {} THEN S!Min(places) ELSE 0
    BY DEF S!HashEnd, S!SelectInSeq, tail
  <2> HIDE DEF places
  <2> QED
    BY <2>2, <2>3
<1>7. S!ExpectedHash(lock) = SubSeq(lock, 3, 3)
  BY <1>5, <1>6 DEF S!ExpectedHash
<1>8. SubSeq(lock, 3, 3) = <<hash>>
  <2> DEFINE one == SubSeq(lock, 3, 3)
  <2>1. PICK T : lock \in Seq(T)
    BY <1>1
  <2>2. one \in Seq(T) /\ Len(one) = 1 /\ one[1] = hash
    BY <1>1, <2>1, SubSeqProperties, SMTT(30)
  <2> HIDE DEF one
  <2>3. one = <<one[1]>>
    BY <2>2
  <2>4. one = <<hash>>
    BY <2>2, <2>3
  <2> QED
    BY <2>4, Zenon DEF one
<1>9. lock # <<>>
  BY <1>1
<1> QED
  BY <1>6, <1>7, <1>8, <1>9 DEF lock

(* A script that accepts does so for the key whose hash it expects and for  *)
(* the transaction that this key signed.                                   *)
LEMMA OpensOnce ==
  ASSUME NEW signer, NEW holder, NEW signed, NEW spent, Opens(signer, holder, signed, spent)
  PROVE  /\ signer = holder /\ signed = spent
         /\ S!ExpectedHash(arg) = <<S!Hash160(S!DerivePublicKey(holder))>>
<1>1. /\ S!ExpectedHash(arg) = <<S!Hash160(S!DerivePublicKey(holder))>>
      /\ S!Sign(signer, signed) = [by |-> S!DerivePublicKey(holder), of |-> spent]
  BY DEF Opens, S!VerifyP2PKH, S!BuildUnlockP2PKH, S!Verify
<1>2. S!DerivePublicKey(signer) = S!DerivePublicKey(holder) /\ signed = spent
  BY <1>1 DEF S!Sign
<1>3. signer = holder
  BY <1>2 DEF S!DerivePublicKey
<1> QED
  BY <1>1, <1>2, <1>3

(* No script accepts the signatures of two keys, or one of another          *)
(* transaction; one made of a key's hash opens for that key, one made of    *)
(* its address for none (script.cpp:5-45, transaction.cpp:29).             *)
THEOREM OneKey == MCSpec => []OneKeyOpens
<1>1. OneKeyOpens
  <2> DEFINE pub(k) == S!DerivePublicKey(k)
             hash(k) == S!Hash160(pub(k))
             openers == {k \in PrivateKeys : Opens(k, k, "tx", "tx")}
  <2>1. \A k, j : <<hash(k)>> = <<hash(j)>> => k = j
    BY DEF S!Hash160, S!DerivePublicKey
  <2>2. \A k, j \in openers : k = j
    <3> TAKE k, j \in openers
    <3>1. S!ExpectedHash(arg) = <<hash(k)>> /\ S!ExpectedHash(arg) = <<hash(j)>>
      BY OpensOnce
    <3> HIDE DEF hash
    <3> QED
      BY <2>1, <3>1
  <2>3. \A k, j \in PrivateKeys, t, u \in {"tx", "other"} : Opens(k, j, t, u) => k = j /\ t = u
    BY OpensOnce
  <2>4. ASSUME NEW k \in PrivateKeys, arg = S!BuildP2PKH(S!Hash160(pub(k)))
        PROVE  openers = {k}
    <3>1. S!Hash160(pub(k)) # S!Op("OP_EQUALVERIFY")
      BY DEF S!Hash160, S!Op
    <3>2. arg # <<>> /\ S!HashEnd(arg) # 0 /\ S!ExpectedHash(arg) = <<hash(k)>>
      BY <2>4, <3>1, MadeForHash
    <3>3. Opens(k, k, "tx", "tx")
      BY <3>2 DEF Opens, S!VerifyP2PKH, S!BuildUnlockP2PKH, S!Verify, S!Sign
    <3>4. k \in openers
      BY <2>4, <3>3
    <3> HIDE DEF openers
    <3> QED
      BY <2>2, <3>4
  <2>5. ASSUME NEW k \in PrivateKeys, arg = S!BuildP2PKH(S!PublicKeyToAddress(pub(k)))
        PROVE  openers = {}
    <3>1. S!PublicKeyToAddress(pub(k)) # S!Op("OP_EQUALVERIFY")
      BY DEF S!PublicKeyToAddress, S!Op
    <3>2. S!ExpectedHash(arg) = <<S!PublicKeyToAddress(pub(k))>>
      BY <2>5, <3>1, MadeForHash
    <3>3. \A j : <<S!PublicKeyToAddress(pub(k))>> # <<hash(j)>>
      BY DEF S!PublicKeyToAddress, S!Hash160
    <3>4. \A j \in openers : S!ExpectedHash(arg) = <<hash(j)>>
      BY OpensOnce
    <3> HIDE DEF openers, hash
    <3> QED
      BY <3>2, <3>3, <3>4
  <2> QED
    BY <2>2, <2>3, <2>4, <2>5 DEF OneKeyOpens
<1> QED
  BY <1>1, PTL

-----------------------------------------------------------------------------
(* Gas *)

\* Running a program, and writing one.
R == INSTANCE Folding WITH Op <- LAMBDA s, op, gasLimit : V!Step(s, op, gasLimit)
Emitted(bytecode, token, any) == bytecode \o V!Emit(token)
B == INSTANCE Folding WITH Op <- Emitted

\* What has been used of the gas.
IsRun(s) ==
  /\ DOMAIN s = {"stack", "storage", "gasUsed", "halted", "reverted"}
  /\ s.gasUsed \in Nat

\* A run under limit and one under a higher limit: they are the same, or one
\* has stopped for lack of gas, which the other has used more of.
Alike(s, t, limit) ==
  /\ IsRun(s) /\ IsRun(t) /\ s.gasUsed <= limit
  /\ s = t \/ (s.reverted = TRUE /\ t.gasUsed > limit)

(* An opcode uses no gas but for its cost, which is not negative            *)
(* (opcode.cpp:22-34, vm.cpp:43-88).                                       *)
LEMMA Performed ==
  ASSUME NEW s, IsRun(s), NEW op
  PROVE  IsRun(V!Perform(s, op)) /\ V!Perform(s, op).gasUsed = s.gasUsed
<1>1. ASSUME NEW v PROVE /\ IsRun([s EXCEPT !.halted = v]) /\ IsRun([s EXCEPT !.reverted = v])
                         /\ IsRun([s EXCEPT !.stack = v])
                         /\ [s EXCEPT !.halted = v].gasUsed = s.gasUsed
                         /\ [s EXCEPT !.reverted = v].gasUsed = s.gasUsed
                         /\ [s EXCEPT !.stack = v].gasUsed = s.gasUsed
  BY DEF IsRun
<1>2. ASSUME NEW v, NEW w
      PROVE  /\ IsRun([s EXCEPT !.stack = v, !.storage = w])
             /\ [s EXCEPT !.stack = v, !.storage = w].gasUsed = s.gasUsed
  BY DEF IsRun
<1>3. \/ \E v : \/ V!Perform(s, op) = [s EXCEPT !.halted = v]
                \/ V!Perform(s, op) = [s EXCEPT !.reverted = v]
                \/ V!Perform(s, op) = [s EXCEPT !.stack = v]
      \/ \E v, w : V!Perform(s, op) = [s EXCEPT !.stack = v, !.storage = w]
      \/ V!Perform(s, op) = s
  <2>1. CASE op = "HALT"
    BY <2>1 DEF V!Perform
  <2>2. CASE op = "REVERT"
    BY <2>2 DEF V!Perform
  <2>3. CASE op = "SHA256"
    <3>1. \/ V!Perform(s, op) = s
          \/ V!Perform(s, op)
               = [s EXCEPT !.stack = V!Cons("sha256:" \o Head(@), Tail(@))]
      BY <2>3 DEF V!Perform
    <3> QED
      BY <3>1
  <2>4. CASE op = "SSTORE"
    <3>1. \/ V!Perform(s, op) = s
          \/ V!Perform(s, op)
               = [s EXCEPT !.stack = Tail(Tail(@)),
                           !.storage = [k \in DOMAIN @ \cup {s.stack[2]} |->
                                          IF k = s.stack[2] THEN s.stack[1] ELSE @[k]]]
      BY <2>4 DEF V!Perform
    <3> QED
      BY <3>1
  <2>5. CASE op = "SLOAD"
    <3>1. \/ V!Perform(s, op) = s
          \/ V!Perform(s, op)
               = [s EXCEPT !.stack = V!Cons(V!Load(s.storage, Head(@)), Tail(@))]
      BY <2>5 DEF V!Perform
    <3> QED
      BY <3>1
  <2>6. CASE op \notin {"HALT", "REVERT", "SHA256", "SSTORE", "SLOAD"}
    BY <2>6 DEF V!Perform
  <2> QED
    BY <2>1, <2>2, <2>3, <2>4, <2>5, <2>6
<1>4. ASSUME NEW v, \/ V!Perform(s, op) = [s EXCEPT !.halted = v]
                    \/ V!Perform(s, op) = [s EXCEPT !.reverted = v]
                    \/ V!Perform(s, op) = [s EXCEPT !.stack = v]
      PROVE  IsRun(V!Perform(s, op)) /\ V!Perform(s, op).gasUsed = s.gasUsed
  BY <1>1, <1>4
<1>5. ASSUME NEW v, NEW w, V!Perform(s, op) = [s EXCEPT !.stack = v, !.storage = w]
      PROVE  IsRun(V!Perform(s, op)) /\ V!Perform(s, op).gasUsed = s.gasUsed
  <2>1. /\ IsRun([s EXCEPT !.stack = v, !.storage = w])
        /\ [s EXCEPT !.stack = v, !.storage = w].gasUsed = s.gasUsed
    BY <1>2
  <2> QED
    BY ONLY <1>5, <2>1, Zenon
<1> QED
  BY <1>3, <1>4, <1>5

(* Two runs that are alike stay so (vm.cpp:40-90, gas.h:7-11).             *)
LEMMA StepsAlike ==
  ASSUME NEW l \in Nat, NEW m \in Nat, l <= m, NEW s, NEW t, Alike(s, t, l), NEW op
  PROVE  Alike(V!Step(s, op, l), V!Step(t, op, m), l)
<1> DEFINE cost == V!OpcodeGasCost(op)
           paid(r) == [r EXCEPT !.gasUsed = @ + V!OpcodeGasCost(op)]
           stopped(r) == [r EXCEPT !.reverted = TRUE]
<1>1. cost \in Nat
  BY DEF V!OpcodeGasCost
<1>2. ASSUME NEW r, IsRun(r)
      PROVE  /\ IsRun(paid(r)) /\ paid(r).gasUsed = r.gasUsed + cost
             /\ IsRun(stopped(r)) /\ stopped(r).gasUsed = r.gasUsed
             /\ stopped(r).reverted = TRUE
  BY <1>1, <1>2 DEF IsRun
<1>3. ASSUME NEW r, NEW limit
      PROVE  V!Step(r, op, limit)
               = IF r.halted \/ r.reverted THEN r
                 ELSE IF ~(r.gasUsed + cost <= limit) THEN stopped(r)
                 ELSE V!Perform(paid(r), op)
  BY DEF V!Step, V!Consumes
<1> HIDE DEF cost, paid, stopped
<1>4. IsRun(s) /\ IsRun(t) /\ s.gasUsed \in Nat /\ t.gasUsed \in Nat /\ s.gasUsed <= l
  BY DEF Alike, IsRun
<1>5. ASSUME NEW r, IsRun(r)
      PROVE  /\ IsRun(V!Perform(paid(r), op))
             /\ V!Perform(paid(r), op).gasUsed = r.gasUsed + cost
  BY <1>2, <1>5, Performed
<1>6. CASE s = t
  <2>1. CASE s.halted \/ s.reverted
    BY <1>3, <1>4, <1>6, <2>1 DEF Alike
  <2>2. CASE ~(s.halted \/ s.reverted) /\ s.gasUsed + cost <= l
    <3>1. s.gasUsed + cost <= m
      BY <1>1, <1>4, <2>2
    <3>2. /\ V!Step(s, op, l) = V!Perform(paid(s), op)
          /\ V!Step(t, op, m) = V!Perform(paid(s), op)
      BY <1>3, <1>6, <2>2, <3>1
    <3> QED
      BY <1>4, <1>5, <2>2, <3>2 DEF Alike
  <2>3. CASE ~(s.halted \/ s.reverted) /\ ~(s.gasUsed + cost <= l)
    <3>1. V!Step(s, op, l) = stopped(s)
      BY <1>3, <2>3
    <3>2. CASE s.gasUsed + cost <= m
      <4>1. V!Step(t, op, m) = V!Perform(paid(t), op)
        BY <1>3, <1>6, <2>3, <3>2
      <4>2. V!Perform(paid(t), op).gasUsed > l
        BY <1>1, <1>4, <1>5, <1>6, <2>3
      <4> QED
        BY <1>2, <1>4, <1>5, <3>1, <4>1, <4>2 DEF Alike
    <3>3. CASE ~(s.gasUsed + cost <= m)
      <4>1. V!Step(t, op, m) = stopped(s)
        BY <1>3, <1>6, <2>3, <3>3
      <4> QED
        BY <1>2, <1>4, <3>1, <4>1 DEF Alike
    <3> QED
      BY <3>2, <3>3
  <2> QED
    BY <2>1, <2>2, <2>3
<1>7. CASE s # t
  <2>1. s.reverted = TRUE /\ t.gasUsed > l
    BY <1>7 DEF Alike
  <2>2. V!Step(s, op, l) = s
    BY <1>3, <2>1
  <2>3. IsRun(V!Step(t, op, m)) /\ V!Step(t, op, m).gasUsed >= t.gasUsed
    <3>1. V!Step(t, op, m) \in {t, stopped(t), V!Perform(paid(t), op)}
      BY <1>3
    <3>2. IsRun(t) /\ t.gasUsed >= t.gasUsed
      BY <1>4
    <3>3. IsRun(stopped(t)) /\ stopped(t).gasUsed >= t.gasUsed
      <4>1. IsRun(stopped(t)) /\ stopped(t).gasUsed = t.gasUsed
        BY <1>2, <1>4
      <4> QED
        BY <1>4, <4>1
    <3>4. IsRun(V!Perform(paid(t), op)) /\ V!Perform(paid(t), op).gasUsed >= t.gasUsed
      BY <1>1, <1>4, <1>5
    <3> QED
      BY <3>1, <3>2, <3>3, <3>4
  <2>4. V!Step(t, op, m).gasUsed > l
    BY <1>4, <2>1, <2>3 DEF IsRun
  <2> QED
    BY <1>4, <2>1, <2>2, <2>3, <2>4 DEF Alike
<1> QED
  BY <1>6, <1>7

(* Two runs of a program are alike when they have ended.                   *)
LEMMA RunsAlike ==
  ASSUME NEW l \in Nat, NEW m \in Nat, l <= m, NEW program, Sequence(program), NEW input
  PROVE  Alike(V!Execute(program, input, l), V!Execute(program, input, m), l)
<1>1. PICK n \in Nat : DOMAIN program = 1..n
  BY SequencePlaces
<1> DEFINE start == V!Start(input)
<1>2. /\ V!Execute(program, input, l) = R!Fold(start, program, l)
      /\ V!Execute(program, input, m) = R!Fold(start, program, m)
  BY DEF V!Execute, V!FoldLeft, V!MapThenFoldSet, R!Fold, R!Last, V!Max
<1>3. Alike(start, start, l)
  BY DEF V!Start, Alike, IsRun
<1> HIDE DEF start
<1>4. PICK h : /\ h[0] = start
               /\ \A i \in 1..n : h[i] = V!Step(h[i-1], program[i], l)
               /\ R!Fold(start, program, l) = h[n]
  BY ONLY <1>1, R!FoldPlaces
<1>5. PICK g : /\ g[0] = start
               /\ \A i \in 1..n : g[i] = V!Step(g[i-1], program[i], m)
               /\ R!Fold(start, program, m) = g[n]
  BY ONLY <1>1, R!FoldPlaces
<1> DEFINE Bad == {i \in 0..n : ~Alike(h[i], g[i], l)}
<1>6. Bad = {}
  <2> SUFFICES ASSUME Bad # {} PROVE FALSE
    OBVIOUS
  <2>1. PICK i \in Bad : \A j \in Bad : i <= j
    <3>1. Bad \subseteq Nat
      OBVIOUS
    <3> HIDE DEF Bad
    <3> QED
      BY <3>1, NatMin
  <2>2. i \in 0..n /\ ~Alike(h[i], g[i], l)
    BY <2>1
  <2>3. i # 0
    BY <1>3, <1>4, <1>5, <2>2
  <2>4. i \in 1..n /\ i - 1 \in 0..n /\ ~(i <= i - 1)
    BY <2>2, <2>3
  <2>5. Alike(h[i-1], g[i-1], l)
    <3>1. i - 1 \notin Bad
      BY <2>1, <2>4
    <3> QED
      BY <2>4, <3>1
  <2>6. Alike(V!Step(h[i-1], program[i], l), V!Step(g[i-1], program[i], m), l)
    BY <2>5, StepsAlike
  <2>7. /\ h[i] = V!Step(h[i-1], program[i], l)
        /\ g[i] = V!Step(g[i-1], program[i], m)
    BY <1>4, <1>5, <2>4
  <2> QED
    BY <2>2, <2>6, <2>7
<1>7. Alike(h[n], g[n], l)
  BY <1>6
<1> QED
  BY <1>2, <1>4, <1>5, <1>7

(* The compiler appends what each token stands for (compiler.cpp:20-40).    *)
LEMMA EmittedPlaces ==
  ASSUME NEW base, NEW s, NEW n \in Nat, DOMAIN s = 1..n
  PROVE  \E h : /\ h[0] = base
                /\ \A i \in 1..n : h[i] = Emitted(h[i-1], s[i], s)
                /\ B!Fold(base, s, s) = h[n]
  BY ONLY B!FoldPlaces, n \in Nat, DOMAIN s = 1..n

(* The compiler makes a sequence of bytes of every source                  *)
(* (compiler.cpp:14-42).                                                   *)
LEMMA Compiled ==
  ASSUME NEW s \in Seq(Tokens)
  PROVE  Sequence(V!Compile(s))
<1>1. PICK n \in Nat : DOMAIN s = 1..n /\ \A i \in 1..n : s[i] \in Tokens
  OBVIOUS
<1>2. V!Compile(s) = B!Fold(<<>>, s, s)
  BY DEF V!Compile, V!FoldLeft, V!MapThenFoldSet, B!Fold, B!Last, V!Max, Emitted
<1>3. PICK base : base = <<>>
  OBVIOUS
<1>4. PICK h : /\ h[0] = base
               /\ \A i \in 1..n : h[i] = Emitted(h[i-1], s[i], s)
               /\ B!Fold(base, s, s) = h[n]
  BY <1>1, EmittedPlaces
<1>5. ASSUME NEW token \in Tokens PROVE Sequence(V!Emit(token))
  <2>1. CASE "keyword" \in DOMAIN token
    <3>1. V!Emit(token) = <<token.keyword>>
      BY <2>1 DEF V!Emit
    <3>2. PICK op : op = token.keyword
      OBVIOUS
    <3>3. <<op>> \in Seq({op})
      OBVIOUS
    <3> QED
      BY <3>1, <3>2, <3>3 DEF Sequence
  <2>2. CASE "keyword" \notin DOMAIN token
    <3>1. PICK T, l : l = token.literal /\ l \in Seq(T)
      BY <2>2, TokenAssumption
    <3>2. V!Emit(token) = <<"PUSH">> \o l
      BY <2>2, <3>1 DEF V!Emit, V!Cons
    <3>3. PICK U : U = T \cup {"PUSH"}
      OBVIOUS
    <3>4. <<"PUSH">> \in Seq(U) /\ l \in Seq(U)
      BY <3>1, <3>3, SeqMonotonic
    <3>5. V!Emit(token) \in Seq(U)
      BY ONLY <3>2, <3>4, ConcatProperties
    <3> QED
      BY <3>5 DEF Sequence
  <2> QED
    BY <2>1, <2>2
<1> DEFINE Bad == {i \in 0..n : ~Sequence(h[i])}
<1>6. Bad = {}
  <2> SUFFICES ASSUME Bad # {} PROVE FALSE
    OBVIOUS
  <2>1. PICK i \in Bad : \A j \in Bad : i <= j
    <3>1. Bad \subseteq Nat
      OBVIOUS
    <3> HIDE DEF Bad
    <3> QED
      BY <3>1, NatMin
  <2>2. i \in 0..n /\ ~Sequence(h[i])
    BY <2>1
  <2>3. Sequence(base)
    <3>1. base \in Seq({0})
      BY <1>3
    <3> QED
      BY <3>1 DEF Sequence
  <2>4. i # 0
    BY <1>4, <2>2, <2>3
  <2>5. i \in 1..n /\ i - 1 \in 0..n /\ ~(i <= i - 1)
    BY <2>2, <2>4
  <2>6. Sequence(h[i-1])
    <3>1. i - 1 \notin Bad
      BY <2>1, <2>5
    <3> QED
      BY <2>5, <3>1
  <2>7. Sequence(V!Emit(s[i]))
    BY <1>1, <1>5, <2>5
  <2>8. Sequence(h[i-1] \o V!Emit(s[i]))
    BY <2>6, <2>7, Joined, SequencePlaces
  <2>9. h[i] = h[i-1] \o V!Emit(s[i])
    BY <1>4, <2>5 DEF Emitted
  <2> QED
    BY <2>2, <2>8, <2>9
<1>7. Sequence(h[n])
  BY <1>6
<1>8. B!Fold(<<>>, s, s) = h[n]
  BY <1>3, <1>4, Zenon
<1> QED
  BY <1>2, <1>7, <1>8, Zenon

(* Under a higher limit a run costs and does the same, or more after it was *)
(* out of gas, for every program (vm.cpp:32-91, gas.h:7-11).               *)
THEOREM GasLimits == MCSpec => []GasMonotone
<1>1. ASSUME NEW program, Sequence(program), NEW limit \in Nat, NEW higher \in Nat,
             limit <= higher, NEW input
      PROVE  LET run  == V!Execute(program, input, limit)
                 more == V!Execute(program, input, higher)
             IN  /\ run.gasUsed <= limit
                 /\ ~run.reverted => run = more
                 /\ more.gasUsed <= limit => run = more
                 /\ more.gasUsed > limit => run.reverted
  <2>1. ASSUME NEW r, NEW s, Alike(r, s, limit)
        PROVE  /\ r.gasUsed <= limit
               /\ ~r.reverted => r = s
               /\ s.gasUsed <= limit => r = s
               /\ s.gasUsed > limit => r.reverted
    <3>1. r.gasUsed \in Nat /\ s.gasUsed \in Nat /\ r.gasUsed <= limit
      BY <2>1 DEF Alike, IsRun
    <3>2. CASE r = s
      BY <3>1, <3>2
    <3>3. CASE r.reverted = TRUE /\ s.gasUsed > limit
      BY <3>1, <3>3
    <3> QED
      BY <2>1, <3>2, <3>3 DEF Alike
  <2>2. Alike(V!Execute(program, input, limit), V!Execute(program, input, higher), limit)
    BY <1>1, RunsAlike
  <2> QED
    BY <2>1, <2>2, Zenon
<1>2. Limits \subseteq Nat
  BY TokenAssumption
<1>3. ArgTyped => GasMonotone
  <2> SUFFICES ASSUME ArgTyped, subject = "tokens" PROVE GasMonotone
    BY DEF GasMonotone
  <2>1. Sequence(V!Compile(arg))
    BY Compiled DEF ArgTyped
  <2> QED
    BY <1>1, <1>2, <2>1, Zenon DEF GasMonotone
<1> QED
  BY <1>3, ArgInvariance, PTL

-----------------------------------------------------------------------------
(* Merkle proofs *)

Climbed(current, sibling, any) == M!HashPair(current, sibling)
P == INSTANCE Folding WITH Op <- Climbed

\* Every ancestor of the first place of h is a left child or the copy of one.
OnTheLeft(h) ==
  LET layers == M!Layers(arg)
      place  == SelectInSeq(arg, LAMBDA g : g = h) - 1
  IN  \A n \in 0..Len(arg) - 1 :
        LET at == place \div M!Power[n]
        IN  Len(layers[n]) > 1 /\ at % 2 = 1 =>
              layers[n][at] = layers[n][at + 1]

(* The proof generated for a leaf is accepted exactly when the path from it *)
(* is on the left all the way: verifyProof hashes every sibling on the      *)
(* right (merkle.cpp:28-66).                                                *)
LeftProofsVerify ==
  \A h \in ToSet(arg) :
    M!VerifyProof(M!BuildRoot(arg), h, M!GenerateProof(arg, h)) <=> OnTheLeft(h)

(* A number is made up of its quotient and its remainder.                   *)
LEMMA Divided ==
  ASSUME NEW p \in Nat, NEW w \in Nat \ {0}
  PROVE  \E q \in Nat, r \in 0..w-1 : q = p \div w /\ p = w * q + r
<1>1. p \div w \in Nat
  BY DivWord
<1>2. p % w \in 0..w-1
  BY ModWord
<1>3. p = w * (p \div w) + (p % w)
  BY DivMod
<1> QED
  BY <1>1, <1>2, <1>3

(* Half of an index is the index divided by the next power of two.          *)
LEMMA Halved ==
  ASSUME NEW p \in Nat, NEW n \in Nat
  PROVE  /\ M!Power[n] \in Nat \ {0} /\ p \div M!Power[n] \in Nat
         /\ p \div M!Power[0] = p
         /\ p \div M!Power[n+1] = (p \div M!Power[n]) \div 2
<1>1. /\ M!Power[0] = 1 /\ M!Power[n+1] = 2 * M!Power[n] /\ M!Power[n] \in Nat \ {0}
  <2>1. IsPower(M!Power, 2)
    BY PowerDefined DEF M!Power
  <2>2. \A i \in Nat : M!Power[i] \in Nat \ {0}
    BY <2>1, PowerPositive
  <2> QED
    BY <2>1, <2>2 DEF IsPower
<1>2. PICK w \in Nat \ {0} : w = M!Power[n]
  BY <1>1
<1>3. PICK q \in Nat, r \in 0..w-1 : q = p \div w /\ p = w * q + r
  BY Divided
<1>4. PICK a \in Nat, b \in 0..1 : a = q \div 2 /\ q = 2 * a + b
  OBVIOUS
<1>5. PICK v \in Nat \ {0} : v = 2 * w
  OBVIOUS
<1>6. PICK c \in Nat, s \in 0..v-1 : c = p \div v /\ p = v * c + s
  BY Divided
<1>7. PICK u \in 0..v-1 : p = v * a + u
  <2>1. w * q = v * a + w * b
    BY <1>4, <1>5
  <2>2. CASE b = 0
    <3>1. p = v * a + r /\ r \in 0..v-1
      BY <1>3, <1>5, <2>1, <2>2
    <3> QED
      BY <3>1
  <2>3. CASE b = 1
    <3>1. p = v * a + (w + r) /\ w + r \in 0..v-1
      BY <1>3, <1>5, <2>1, <2>3
    <3> QED
      BY <3>1
  <2> QED
    BY <2>2, <2>3
<1>8. a = c
  BY <1>6, <1>7, QuotientUnique
<1> QED
  BY <1>1, <1>2, <1>3, <1>4, <1>5, <1>6, <1>8

\* The sibling of the hash at index a of layer t (merkle.cpp:44-46).
Sibling(t, a) == M!Even(t)[(IF a % 2 = 0 THEN a + 1 ELSE a - 1) + 1]

(* Hashed with its sibling on the right, a hash of a layer gives the one    *)
(* above it just if it is a left child or equal to its sibling; what is not *)
(* the hash of the layer gives another (merkle.cpp:41-56, 61-66).          *)
LEMMA PathStep ==
  ASSUME NEW t, Sequence(t), NEW k \in Nat, k = Len(t), k > 1, NEW a \in 0..k-1,
         NEW c \in Nat, c = a \div 2, NEW x
  PROVE  /\ c \in 0..Len(M!NextLayer(t)) - 1
         /\ M!HashPair(x, Sibling(t, a)) = M!NextLayer(t)[c+1]
              <=> x = t[a+1] /\ (a % 2 = 1 => t[a] = t[a+1])
<1>1. PICK m \in Nat \ {0} :
        /\ k = 2 * m \/ k + 1 = 2 * m
        /\ Len(M!NextLayer(t)) = m
        /\ \A i \in 1..m : M!NextLayer(t)[i]
             = M!HashPair(t[2*i - 1], IF 2*i <= k THEN t[2*i] ELSE t[k])
  BY AboveLayer
<1>2. /\ \A i \in 1..k : M!Even(t)[i] = t[i]
      /\ k % 2 # 0 => M!Even(t)[k + 1] = t[k]
  BY EvenLayer
<1>3. (a = 2 * c /\ a % 2 = 0) \/ (a = 2 * c + 1 /\ a % 2 = 1)
  OBVIOUS
<1>4. c \in 0..m-1 /\ c + 1 \in 1..m
  BY <1>1, <1>3
<1>5. M!NextLayer(t)[c+1]
        = M!HashPair(t[2*(c+1) - 1], IF 2*(c+1) <= k THEN t[2*(c+1)] ELSE t[k])
  BY <1>1, <1>4
<1>6. \A y, z, v, w : M!HashPair(y, z) = M!HashPair(v, w) <=> y = v /\ z = w
  BY DEF M!HashPair
<1> DEFINE sib == Sibling(t, a)
<1>7. CASE a = 2 * c /\ a % 2 = 0
  <2>1. 2*(c+1) - 1 = a + 1 /\ 2*(c+1) = a + 2
    BY <1>7
  <2>2. sib = IF a + 2 <= k THEN t[a+2] ELSE t[k]
    <3>1. (a + 1) + 1 = a + 2
      OBVIOUS
    <3>2. sib = M!Even(t)[a+2]
      BY <1>7, <3>1 DEF Sibling
    <3>3. CASE a + 2 <= k
      BY <1>2, <3>2, <3>3
    <3>4. CASE ~(a + 2 <= k)
      <4>1. a + 2 = k + 1 /\ k % 2 # 0
        BY <1>7, <3>4
      <4> QED
        BY <1>2, <3>2, <3>4, <4>1
    <3> QED
      BY <3>3, <3>4
  <2>3. M!NextLayer(t)[c+1] = M!HashPair(t[a+1], sib)
    BY <1>5, <2>1, <2>2
  <2>4. a % 2 # 1
    BY <1>7
  <2> QED
    BY <1>1, <1>3, <1>4, <1>6, <2>3, <2>4
<1>8. CASE a = 2 * c + 1 /\ a % 2 = 1
  <2>1. 2*(c+1) - 1 = a /\ 2*(c+1) = a + 1 /\ a + 1 <= k /\ a \in 1..k
    BY <1>8
  <2>2. sib = t[a]
    <3>1. (a - 1) + 1 = a /\ a % 2 # 0
      BY <1>8
    <3>2. sib = M!Even(t)[a]
      BY <3>1 DEF Sibling
    <3> QED
      BY <1>2, <2>1, <3>2
  <2>3. M!NextLayer(t)[c+1] = M!HashPair(t[a], t[a+1])
    BY <1>5, <2>1
  <2>4. M!HashPair(x, sib) = M!NextLayer(t)[c+1] <=> x = t[a] /\ t[a] = t[a+1]
    BY <1>6, <2>2, <2>3
  <2> QED
    BY <1>1, <1>3, <1>4, <1>8, <2>4
<1> QED
  BY <1>3, <1>7, <1>8

(* The rounds of the loop are those until a layer has one hash.             *)
LEMMA Rounds ==
  ASSUME NEW s, Sequence(s), NEW l \in Nat \ {0}, l = Len(s)
  PROVE  \E m \in 0..l : /\ {n \in 0..l : Len(M!Layers(s)[n]) > 1} = 0..m-1
                         /\ M!Layers(s)[l] = M!Layers(s)[m] /\ Len(M!Layers(s)[m]) = 1
<1> DEFINE f == M!Layers(s)
           One == {n \in 0..l : Len(f[n]) = 1}
<1>1. /\ \A n \in 0..l : Sequence(f[n]) /\ Len(f[n]) \in Nat \ {0}
      /\ Len(f[l]) = 1
  BY LayerLengths
<1>2. \A n \in 1..l : f[n] = IF Len(f[n-1]) > 1 THEN M!NextLayer(f[n-1]) ELSE f[n-1]
  BY LayersUnfold
<1> HIDE DEF f
<1>3. PICK m \in One : \A n \in One : m <= n
  <2>1. One \subseteq Nat /\ l \in One
    BY <1>1
  <2> HIDE DEF One
  <2> QED
    BY <2>1, NatMin
<1>4. m \in 0..l /\ Len(f[m]) = 1
  BY <1>3
<1> DEFINE Bad == {n \in m..l : f[n] # f[m]}
<1>5. Bad = {}
  <2> SUFFICES ASSUME Bad # {} PROVE FALSE
    OBVIOUS
  <2>1. PICK n \in Bad : \A i \in Bad : n <= i
    <3>1. Bad \subseteq Nat
      BY <1>4
    <3> HIDE DEF Bad
    <3> QED
      BY <3>1, NatMin
  <2>2. n \in m..l /\ f[n] # f[m]
    BY <2>1
  <2>3. n - 1 \in m..l /\ n \in 1..l /\ ~(n <= n - 1)
    BY <1>4, <2>2
  <2>4. f[n-1] = f[m]
    <3>1. n - 1 \notin Bad
      BY <2>1, <2>3
    <3> QED
      BY <2>3, <3>1
  <2>5. ~(Len(f[n-1]) > 1)
    <3>1. Len(f[n-1]) = 1
      BY <1>4, <2>4, Zenon
    <3> QED
      BY <3>1
  <2>6. f[n] = f[n-1]
    BY <1>2, <2>3, <2>5
  <2> QED
    BY <2>2, <2>4, <2>6
<1>6. \A n : n \in 0..l /\ Len(f[n]) > 1 <=> n \in 0..m-1
  <2> TAKE n
  <2>1. ASSUME n \in 0..l, Len(f[n]) > 1 PROVE n \in 0..m-1
    <3>1. n \notin m..l
      <4>1. f[n] = f[m] => Len(f[n]) = 1
        BY <1>4, Zenon
      <4>2. ~(1 > 1)
        OBVIOUS
      <4>3. f[n] # f[m]
        BY <2>1, <4>1, <4>2, Zenon
      <4> QED
        BY <1>5, <4>3
    <3> QED
      BY <1>4, <2>1, <3>1
  <2>2. ASSUME n \in 0..m-1 PROVE n \in 0..l /\ Len(f[n]) > 1
    <3>1. n \in 0..l /\ ~(m <= n)
      BY <1>4, <2>2
    <3>2. n \notin One
      BY <1>3, <3>1
    <3>3. PICK k \in Nat \ {0} : k = Len(f[n])
      BY <1>1, <3>1
    <3>4. k # 1
      BY <3>1, <3>2, <3>3
    <3>5. k > 1
      BY ONLY <3>4, k \in Nat \ {0}
    <3>6. Len(f[n]) > 1
      BY <3>3, <3>5, Zenon
    <3> QED
      BY <3>1, <3>6, Zenon
  <2> QED
    BY <2>1, <2>2
<1>7. f[l] = f[m]
  <2>1. l \in m..l
    BY <1>4
  <2> QED
    BY <1>5, <2>1
<1>8. {n \in 0..l : Len(f[n]) > 1} = 0..m-1
  BY <1>6, Zenon
<1> QED
  BY <1>4, <1>7, <1>8 DEF f

\* The path from index p is on the left in layer n, or its sibling is equal.
Left(s, p, n) ==
  (p \div M!Power[n]) % 2 = 1 =>
    M!Layers(s)[n][p \div M!Power[n]] = M!Layers(s)[n][p \div M!Power[n] + 1]

\* h are the hashes that the verifier reaches from index p in m rounds.
Climb(s, p, m, proof, h) ==
  /\ p \in 0..Len(s) - 1 /\ m \in 0..Len(s)
  /\ \A n \in 0..Len(s) : Len(M!Layers(s)[n]) > 1 <=> n \in 0..m-1
  /\ Len(M!Layers(s)[m]) = 1
  /\ \A n \in 1..m : proof[n] = Sibling(M!Layers(s)[n-1], p \div M!Power[n-1])
  /\ h[0] = s[p+1] /\ \A n \in 1..m : h[n] = M!HashPair(h[n-1], proof[n])

(* On every layer the hash that the verifier has reached is the one on the  *)
(* path just if the path was on the left so far, and at the end it is the  *)
(* root (merkle.cpp:28-66).                                                *)
LEMMA PathClimbed ==
  ASSUME NEW s, Sequence(s), NEW p, NEW m, NEW proof, NEW h, Climb(s, p, m, proof, h)
  PROVE  h[m] = M!Layers(s)[m][1] <=> \A n \in 0..m-1 : Left(s, p, n)
<1>0. PICK l \in Nat \ {0} : /\ l = Len(s) /\ p \in 0..l-1 /\ p \in Nat /\ m \in 0..l
  <2>1. Len(s) \in Nat /\ p \in 0..Len(s) - 1 /\ m \in 0..Len(s)
    BY SequencePlaces DEF Climb
  <2> QED
    BY <2>1
<1> DEFINE f == M!Layers(s)
           at(n) == p \div M!Power[n]
           Good(n) == /\ at(n) \in 0..Len(f[n]) - 1
                      /\ h[n] = f[n][at(n) + 1] <=> \A i \in 0..n-1 : Left(s, p, i)
           Bad == {n \in 0..m : ~Good(n)}
<1>1. f[0] = s /\ \A n \in 1..l : Len(f[n-1]) > 1 => f[n] = M!NextLayer(f[n-1])
  BY <1>0, LayersUnfold
<1>2. \A n \in 0..l : Sequence(f[n]) /\ Len(f[n]) \in Nat \ {0}
  BY <1>0, LayerLengths
<1>3. at(0) = p /\ \A n \in Nat : at(n) \in Nat /\ at(n+1) = at(n) \div 2
  <2>1. p \in Nat /\ 0 \in Nat
    BY <1>0
  <2>2. p \div M!Power[0] = p
    BY ONLY <2>1, Halved
  <2>3. \A n \in Nat : /\ p \div M!Power[n] \in Nat
                        /\ p \div M!Power[n+1] = (p \div M!Power[n]) \div 2
    BY ONLY <2>1, Halved
  <2> QED
    BY <2>2, <2>3
<1>4. ASSUME NEW n \in 1..m
      PROVE  h[n] = M!HashPair(h[n-1], Sibling(f[n-1], at(n-1)))
  BY DEF Climb
<1>5. \A n \in 0..m-1 : Len(f[n]) > 1
  <2>1. \A n \in 0..m-1 : n \in 0..l
    BY <1>0
  <2> QED
    BY <1>0, <2>1 DEF Climb
<1>6. Len(f[m]) = 1
  BY DEF Climb
<1>7. h[0] = s[p+1]
  BY DEF Climb
<1>8. \A n : Left(s, p, n) <=> (at(n) % 2 = 1 => f[n][at(n)] = f[n][at(n) + 1])
  BY DEF Left
<1> HIDE DEF f, at
<1>9. Bad = {}
  <2> SUFFICES ASSUME Bad # {} PROVE FALSE
    OBVIOUS
  <2>1. PICK n \in Bad : \A i \in Bad : n <= i
    <3>1. Bad \subseteq Nat
      OBVIOUS
    <3> HIDE DEF Bad
    <3> QED
      BY <3>1, NatMin
  <2>2. n \in 0..m /\ ~Good(n)
    BY <2>1
  <2>3. n # 0
    <3>1. Good(0)
      <4>1. 0..0-1 = {}
        OBVIOUS
      <4>2. at(0) \in 0..Len(f[0]) - 1 /\ h[0] = f[0][at(0) + 1]
        BY <1>0, <1>1, <1>3, <1>7
      <4> QED
        BY <4>1, <4>2
    <3> QED
      BY <2>2, <3>1
  <2>4. PICK j \in 0..m-1 : n = j + 1 /\ j = n - 1 /\ j \in 0..l /\ n \in 1..m /\ n \in 1..l
    <3>1. n - 1 \in 0..m-1 /\ n = (n - 1) + 1 /\ n - 1 \in 0..l /\ n \in 1..m /\ n \in 1..l
      BY <1>0, <2>2, <2>3
    <3> QED
      BY <3>1
  <2>5. Good(j)
    <3>1. j \in 0..m /\ ~(n <= j)
      BY <1>0, <2>4
    <3>2. j \notin Bad
      BY <2>1, <3>1
    <3> QED
      BY <3>1, <3>2
  <2>6. PICK k \in Nat \ {0} : k = Len(f[j])
    BY <1>2, <2>4
  <2>7. PICK a \in 0..k-1 : a = at(j)
    BY <2>5, <2>6
  <2>8. PICK t : t = f[j]
    OBVIOUS
  <2>9. PICK c \in Nat : c = a \div 2 /\ c = at(n)
    <3>1. j \in Nat /\ n = j + 1 /\ n \in Nat
      BY <2>4
    <3>2. at(n) \in Nat /\ at(n) = at(j) \div 2
      BY <1>3, <3>1
    <3> QED
      BY <2>7, <3>2
  <2>10. Sequence(t) /\ k \in Nat /\ k = Len(t) /\ k > 1 /\ f[n] = M!NextLayer(t)
    BY <1>1, <1>2, <1>5, <2>4, <2>6, <2>8
  <2>11. h[n] = M!HashPair(h[j], Sibling(t, a))
    BY <1>4, <2>4, <2>7, <2>8
  <2> HIDE DEF Bad, Good
  <2>12. /\ c \in 0..Len(M!NextLayer(t)) - 1
        /\ \A x : M!HashPair(x, Sibling(t, a)) = M!NextLayer(t)[c+1]
             <=> x = t[a+1] /\ (a % 2 = 1 => t[a] = t[a+1])
    <3>1. /\ Sequence(t) /\ k \in Nat /\ k = Len(t) /\ k > 1 /\ a \in 0..k-1
          /\ c \in Nat /\ c = a \div 2
      BY <2>7, <2>8, <2>9, <2>10
    <3>2. c \in 0..Len(M!NextLayer(t)) - 1
      BY ONLY <3>1, PathStep
    <3>3. ASSUME NEW x
          PROVE  M!HashPair(x, Sibling(t, a)) = M!NextLayer(t)[c+1]
                   <=> x = t[a+1] /\ (a % 2 = 1 => t[a] = t[a+1])
      BY ONLY <3>1, PathStep
    <3> QED
      BY <3>2, <3>3
  <2>13. h[n] = f[n][at(n) + 1] <=> h[j] = f[j][at(j) + 1] /\ Left(s, p, j)
    <3>1. h[n] = f[n][c+1] <=> h[j] = t[a+1] /\ (a % 2 = 1 => t[a] = t[a+1])
      BY <2>10, <2>11, <2>12, Zenon
    <3> QED
      BY <1>8, <2>7, <2>8, <2>9, <3>1
  <2>14. (\A i \in 0..n-1 : Left(s, p, i)) <=> (\A i \in 0..j-1 : Left(s, p, i)) /\ Left(s, p, j)
    <3>1. \A i : i \in 0..n-1 <=> i \in 0..j-1 \/ i = j
      BY <2>4
    <3> QED
      BY <3>1
  <2>15. Good(n)
    <3>1. at(n) \in 0..Len(f[n]) - 1
      BY <2>9, <2>10, <2>12
    <3>2. h[j] = f[j][at(j) + 1] <=> \A i \in 0..j-1 : Left(s, p, i)
      BY <2>5 DEF Good
    <3> QED
      BY <2>13, <2>14, <3>1, <3>2 DEF Good
  <2> QED
    BY <2>2, <2>15
<1>10. Good(m)
  <2>1. m \in 0..m
    BY <1>0
  <2> QED
    BY <1>9, <2>1
<1>11. at(m) = 0
  BY <1>6, <1>10
<1>12. h[m] = f[m][1] <=> \A i \in 0..m-1 : Left(s, p, i)
  <2>1. at(m) + 1 = 1
    BY <1>11
  <2> QED
    BY <1>10, <2>1
<1> QED
  BY <1>12 DEF f, at

\* The place where find stops (merkle.cpp:36-38).
FirstPlace(s, hash) ==
  LET same == {i \in 1..Len(s) : s[i] = hash}
  IN  IF same # {} THEN Min(same) ELSE 0

(* It is one of a leaf, if there is one.                                   *)
LEMMA LeafFound ==
  ASSUME NEW s, Sequence(s), NEW hash \in ToSet(s)
  PROVE  FirstPlace(s, hash) \in 1..Len(s) /\ s[FirstPlace(s, hash)] = hash
<1> DEFINE Same == {i \in 1..Len(s) : s[i] = hash}
<1>1. Same # {} /\ Same \subseteq Nat
  <2>1. \E i \in DOMAIN s : s[i] = hash
    BY DEF ToSet
  <2>2. DOMAIN s = 1..Len(s)
    BY SequencePlaces
  <2> QED
    BY <2>1, <2>2
<1>2. Min(Same) \in Same
  <2>1. \E i \in Same : \A j \in Same : i <= j
    <3> HIDE DEF Same
    <3> QED
      BY <1>1, NatMin
  <2> HIDE DEF Same
  <2> QED
    BY <2>1 DEF Min
<1>3. Min(Same) \in 1..Len(s) /\ s[Min(Same)] = hash
  BY <1>2
<1>4. FirstPlace(s, hash) = IF Same # {} THEN Min(Same) ELSE 0
  BY DEF FirstPlace
<1> HIDE DEF Same
<1> QED
  BY <1>1, <1>3, <1>4

(* The proof has a sibling for each round (merkle.cpp:40-56).              *)
LEMMA ProofMade ==
  ASSUME NEW s, Sequence(s), NEW l \in Nat \ {0}, l = Len(s), NEW hash \in ToSet(s),
         NEW p \in Nat, p = FirstPlace(s, hash) - 1,
         NEW m \in 0..l, {n \in 0..l : Len(M!Layers(s)[n]) > 1} = 0..m-1
  PROVE  /\ DOMAIN M!GenerateProof(s, hash) = 1..m
         /\ \A n \in 1..m : M!GenerateProof(s, hash)[n]
              = Sibling(M!Layers(s)[n-1], p \div M!Power[n-1])
<1> DEFINE Long == {n \in 0..Len(s) : Len(M!Layers(s)[n]) > 1}
           rounds == M!Cardinality(Long)
           same == {i \in 1..Len(s) : s[i] = hash}
           leaf == (IF same # {} THEN M!Min(same) ELSE 0) - 1
           at(n) == leaf \div M!Power[n]
           made == [n \in 1..rounds |-> Sibling(M!Layers(s)[n-1], at(n-1))]
<1>1. rounds = m
  <2>1. PICK w \in Int : w = m - 1
    OBVIOUS
  <2>2. Cardinality(0..w) = m
    <3>1. Cardinality(0..w) = IF 0 > w THEN 0 ELSE w - 0 + 1
      BY ONLY FS_Interval, w \in Int, 0 \in Int
    <3>2. m \in Nat
      OBVIOUS
    <3> QED
      BY <2>1, <3>1, <3>2
  <2>3. Long = 0..w
    BY <2>1
  <2>4. M!Cardinality(Long) = Cardinality(Long)
    BY DEF M!Cardinality, Cardinality
  <2> HIDE DEF Long
  <2> QED
    BY <2>2, <2>3, <2>4
<1>2. leaf = p
  <2>1. M!Min(same) = Min(same)
    BY DEF M!Min, Min
  <2>2. FirstPlace(s, hash) = IF same # {} THEN Min(same) ELSE 0
    BY DEF FirstPlace
  <2> HIDE DEF same
  <2> QED
    BY <2>1, <2>2
<1>3. M!GenerateProof(s, hash) = IF leaf < 0 THEN <<>> ELSE made
  BY DEF M!GenerateProof, M!SelectInSeq, Sibling
<1>4. ~(leaf < 0)
  <2> HIDE DEF leaf
  <2> QED
    BY <1>2
<1>5. M!GenerateProof(s, hash) = made
  <2> HIDE DEF leaf, made
  <2> QED
    BY <1>3, <1>4
<1>6. made = [n \in 1..m |-> Sibling(M!Layers(s)[n-1], p \div M!Power[n-1])]
  <2> HIDE DEF leaf, rounds
  <2> QED
    BY <1>1, <1>2
<1> HIDE DEF made
<1> QED
  BY <1>5, <1>6

\* The hashes on the way up from a hash, each with the next sibling.
Climbs(h, hash, proof, n) ==
  /\ h[0] = hash
  /\ \A i \in 1..n : h[i] = M!HashPair(h[i-1], proof[i])

(* The verifier takes one sibling after the other, and compares where it    *)
(* arrives with the root (merkle.cpp:61-66).                                *)
LEMMA VerifierClimbs ==
  ASSUME NEW base, NEW s, NEW n \in Nat, DOMAIN s = 1..n
  PROVE  \E h : /\ Climbs(h, base, s, n)
                /\ \A root : M!VerifyProof(root, base, s) <=> h[n] = root
<1>1. PICK h : /\ h[0] = base
               /\ \A i \in 1..n : h[i] = Climbed(h[i-1], s[i], s)
               /\ P!Fold(base, s, s) = h[n]
  BY ONLY P!FoldPlaces, n \in Nat, DOMAIN s = 1..n
<1>2. M!FoldLeft(M!HashPair, base, s) = P!Fold(base, s, s)
  BY DEF M!FoldLeft, M!MapThenFoldSet, P!Fold, P!Last, M!Max, Climbed
<1>3. Climbs(h, base, s, n)
  BY <1>1 DEF Climbs, Climbed
<1>4. ASSUME NEW root PROVE M!VerifyProof(root, base, s) <=> h[n] = root
  BY <1>1, <1>2 DEF M!VerifyProof
<1> QED
  BY <1>3, <1>4

(* Of every tree, with leaves that occur more than once too, the proof of a *)
(* leaf is accepted just if its path is on the left, but for siblings that *)
(* are equal (merkle.cpp:28-66).                                           *)
LEMMA ProofVerifies ==
  ASSUME NEW s, Sequence(s), NEW l \in Nat \ {0}, l = Len(s), NEW hash \in ToSet(s),
         NEW p \in Nat, p = FirstPlace(s, hash) - 1
  PROVE  M!VerifyProof(M!BuildRoot(s), hash, M!GenerateProof(s, hash)) <=>
           \A n \in 0..l-1 : Len(M!Layers(s)[n]) > 1 => Left(s, p, n)
<1> DEFINE f == M!Layers(s)
<1>1. p \in 0..l-1 /\ s[p+1] = hash
  <2>1. PICK i \in 1..l : i = FirstPlace(s, hash) /\ s[i] = hash
    BY LeafFound
  <2>2. p = i - 1 /\ p + 1 = i
    BY <2>1
  <2> QED
    BY <2>1, <2>2
<1>2. PICK m \in 0..l : /\ {n \in 0..l : Len(f[n]) > 1} = 0..m-1
                        /\ f[l] = f[m] /\ Len(f[m]) = 1
  BY Rounds
<1>3. PICK proof : proof = M!GenerateProof(s, hash)
  OBVIOUS
<1>4. /\ m \in Nat /\ DOMAIN proof = 1..m
      /\ \A n \in 1..m : proof[n] = Sibling(f[n-1], p \div M!Power[n-1])
  BY <1>2, <1>3, ProofMade
<1>5. PICK h : /\ Climbs(h, hash, proof, m)
               /\ \A root : M!VerifyProof(root, hash, proof) <=> h[m] = root
  BY <1>4, VerifierClimbs
<1>6. M!VerifyProof(M!BuildRoot(s), hash, proof) <=> h[m] = f[m][1]
  <2>1. M!BuildRoot(s) = f[l][1]
    <3>1. s # <<>>
      <4>1. Len(s) # 0
        OBVIOUS
      <4> QED
        BY <4>1
    <3> QED
      BY <3>1 DEF M!BuildRoot
  <2> HIDE DEF f
  <2> QED
    BY <1>2, <1>5, <2>1
<1>7. \A n \in 0..l : Len(f[n]) > 1 <=> n \in 0..m-1
  <2>1. \A n \in 0..m-1 : n \in 0..l
    OBVIOUS
  <2> HIDE DEF f
  <2> QED
    BY <1>2, <2>1
<1>8. Climb(s, p, m, proof, h)
  <2>1. \A n \in 1..m : h[n] = M!HashPair(h[n-1], proof[n])
    BY <1>5 DEF Climbs
  <2>2. h[0] = s[p+1]
    BY <1>1, <1>5 DEF Climbs
  <2>3. p \in 0..Len(s) - 1 /\ m \in 0..Len(s) /\ Len(f[m]) = 1
    BY <1>1, <1>2
  <2>4. \A n \in 1..m : proof[n] = Sibling(f[n-1], p \div M!Power[n-1])
    BY <1>4
  <2>5. \A n \in 0..Len(s) : Len(f[n]) > 1 <=> n \in 0..m-1
    BY <1>7
  <2> QED
    BY <2>1, <2>2, <2>3, <2>4, <2>5 DEF Climb
<1>9. h[m] = f[m][1] <=> \A n \in 0..m-1 : Left(s, p, n)
  BY <1>8, PathClimbed
<1>10. (\A n \in 0..m-1 : Left(s, p, n)) <=> \A n \in 0..l-1 : Len(f[n]) > 1 => Left(s, p, n)
  <2>1. \A n \in 0..m-1 : n \in 0..l-1 /\ n \in 0..l
    OBVIOUS
  <2>2. \A n \in 0..l-1 : n \in 0..l
    OBVIOUS
  <2> HIDE DEF f
  <2> QED
    BY <1>7, <2>1, <2>2
<1> QED
  BY <1>3, <1>6, <1>9, <1>10, Zenon

(* For every number of leaves, the code refuses the proofs that it generates *)
(* for the leaves whose path to the root leaves the left side, and no others *)
(* (merkle.cpp:28-66).                                                      *)
THEOREM ProofsOnTheLeft == MCSpec => [](subject = "leaves" => LeftProofsVerify)
<1>1. ArgTyped => (subject = "leaves" => LeftProofsVerify)
  <2> SUFFICES ASSUME ArgTyped, subject = "leaves", NEW hash \in ToSet(arg)
               PROVE  M!VerifyProof(M!BuildRoot(arg), hash, M!GenerateProof(arg, hash))
                        <=> OnTheLeft(hash)
    BY DEF LeftProofsVerify
  <2>1. Sequence(arg)
    BY DEF ArgTyped, Sequence
  <2>2. PICK l \in Nat \ {0}, p \in Nat : l = Len(arg) /\ p = FirstPlace(arg, hash) - 1
    <3>1. Len(arg) \in Nat /\ FirstPlace(arg, hash) \in 1..Len(arg)
      BY <2>1, LeafFound, SequencePlaces
    <3> QED
      BY <3>1
  <2>3. FirstPlace(arg, hash) = SelectInSeq(arg, LAMBDA g : g = hash)
    BY DEF FirstPlace, SelectInSeq
  <2>4. OnTheLeft(hash) <=>
          \A n \in 0..l-1 : Len(M!Layers(arg)[n]) > 1 => Left(arg, p, n)
    BY <2>2, <2>3 DEF OnTheLeft, Left
  <2> QED
    BY <2>1, <2>2, <2>4, ProofVerifies
<1> QED
  BY <1>1, ArgInvariance, PTL

\* What is no hash of a pair, nor the root of an empty tree.
Leaf(x) == x # M!NullHash /\ \A a, b : x # M!HashPair(a, b)

(* The first hash of a layer goes into the first one of the next            *)
(* (merkle.cpp:13-23).                                                      *)
LEMMA FirstAbove ==
  ASSUME NEW t, Sequence(t), NEW k \in Nat, k = Len(t), k > 1
  PROVE  \E b : M!NextLayer(t)[1] = M!HashPair(t[1], b)
<1>1. PICK m \in Nat \ {0} :
        \A i \in 1..m : M!NextLayer(t)[i]
          = M!HashPair(t[2*i - 1], IF 2*i <= k THEN t[2*i] ELSE t[k])
  BY AboveLayer
<1>2. 1 \in 1..m /\ 2*1 - 1 = 1
  OBVIOUS
<1> QED
  BY <1>1, <1>2

(* What verifies is the first leaf: as every sibling is hashed on the right, *)
(* the way down from the root always turns left, and it can neither end    *)
(* above a leaf nor go on below one (merkle.cpp:61-66).                     *)
LEMMA VerifiedLeaf ==
  ASSUME NEW s, Sequence(s), NEW l \in Nat \ {0}, l = Len(s), Leaf(s[1]),
         NEW hash, Leaf(hash), NEW proof, NEW n \in Nat, DOMAIN proof = 1..n,
         M!VerifyProof(M!BuildRoot(s), hash, proof)
  PROVE  hash = s[1]
<1> DEFINE f == M!Layers(s)
<1>1. PICK m \in 0..l : /\ {j \in 0..l : Len(f[j]) > 1} = 0..m-1
                        /\ f[l] = f[m] /\ Len(f[m]) = 1
  BY Rounds
<1>2. PICK h : /\ Climbs(h, hash, proof, n)
               /\ \A root : M!VerifyProof(root, hash, proof) <=> h[n] = root
  BY VerifierClimbs
<1>3. h[n] = f[m][1]
  <2>1. M!BuildRoot(s) = f[l][1]
    <3>1. s # <<>>
      <4>1. Len(s) # 0
        OBVIOUS
      <4> QED
        BY <4>1
    <3> QED
      BY <3>1 DEF M!BuildRoot
  <2> HIDE DEF f
  <2> QED
    BY <1>1, <1>2, <2>1
<1>4. h[0] = hash /\ \A i \in 1..n : h[i] = M!HashPair(h[i-1], proof[i])
  BY <1>2 DEF Climbs
<1>5. f[0] = s
  BY LayersUnfold
<1>6. ASSUME NEW j \in 0..m-1 PROVE \E b : f[j+1][1] = M!HashPair(f[j][1], b)
  <2>1. j \in 0..l /\ j + 1 \in 1..l /\ (j + 1) - 1 = j
    OBVIOUS
  <2>2. Len(f[j]) > 1
    BY <1>1
  <2>3. f[j+1] = M!NextLayer(f[j])
    BY <2>1, <2>2, LayersUnfold
  <2>4. Sequence(f[j]) /\ Len(f[j]) \in Nat
    BY <2>1, LayerLengths
  <2> HIDE DEF f
  <2> QED
    BY <2>2, <2>3, <2>4, FirstAbove
<1>7. \A a, b, c, d : M!HashPair(a, b) = M!HashPair(c, d) => a = c
  BY DEF M!HashPair
<1> HIDE DEF f
<1> DEFINE Bad == {i \in Nat : i <= n /\ i <= m /\ h[n-i] # f[m-i][1]}
<1>8. Bad = {}
  <2> SUFFICES ASSUME Bad # {} PROVE FALSE
    OBVIOUS
  <2>1. PICK i \in Bad : \A j \in Bad : i <= j
    <3>1. Bad \subseteq Nat
      OBVIOUS
    <3> HIDE DEF Bad
    <3> QED
      BY <3>1, NatMin
  <2>2. i \in Nat /\ i <= n /\ i <= m /\ h[n-i] # f[m-i][1]
    BY <2>1
  <2>3. i # 0
    BY <1>3, <2>2
  <2>4. i - 1 \in Nat /\ i - 1 <= n /\ i - 1 <= m /\ ~(i <= i - 1)
    BY <2>2, <2>3
  <2>5. i - 1 \notin Bad
    BY <2>1, <2>4
  <2>6. h[n-(i-1)] = f[m-(i-1)][1]
    BY <2>4, <2>5
  <2> HIDE DEF Bad
  <2>7. n-(i-1) \in 1..n /\ (n-(i-1)) - 1 = n-i /\ m-i \in 0..m-1 /\ (m-i) + 1 = m-(i-1)
    BY <2>2, <2>3
  <2>8. h[n-(i-1)] = M!HashPair(h[n-i], proof[n-(i-1)])
    BY <1>4, <2>7
  <2>9. PICK b : f[m-(i-1)][1] = M!HashPair(f[m-i][1], b)
    BY <1>6, <2>7
  <2> QED
    BY <1>7, <2>2, <2>6, <2>8, <2>9
<1>9. CASE n < m
  <2>1. n \notin Bad
    BY <1>8
  <2>2. n \in Nat /\ n <= n /\ n <= m /\ n - n = 0
    BY <1>9
  <2>3. h[0] = f[m-n][1]
    BY <2>1, <2>2
  <2>4. m-n-1 \in 0..m-1 /\ (m-n-1) + 1 = m-n
    BY <1>9
  <2>5. \E b : f[m-n][1] = M!HashPair(f[m-n-1][1], b)
    BY <1>6, <2>4
  <2> QED
    BY <1>4, <2>3, <2>5 DEF Leaf
<1>10. CASE ~(n < m)
  <2>1. m \in Nat /\ m <= n /\ m <= m /\ m - m = 0
    BY <1>10
  <2>2. h[n-m] = s[1]
    BY <1>5, <1>8, <2>1
  <2>3. CASE n = m
    <3>1. n - m = 0
      BY <2>3
    <3> QED
      BY <1>4, <2>2, <3>1
  <2>4. CASE n # m
    <3>1. n - m \in 1..n
      BY <1>10, <2>4
    <3>2. s[1] = M!HashPair(h[n-m-1], proof[n-m])
      BY <1>4, <2>2, <3>1
    <3> QED
      BY <3>2 DEF Leaf
  <2> QED
    BY <2>3, <2>4
<1> QED
  BY <1>9, <1>10

(* A generated proof is a sequence (merkle.cpp:40-56).                      *)
LEMMA ProofPlaces ==
  ASSUME NEW s, Sequence(s), NEW hash
  PROVE  \E n \in Nat : DOMAIN M!GenerateProof(s, hash) = 1..n
<1> DEFINE Long == {j \in 0..Len(s) : Len(M!Layers(s)[j]) > 1}
<1>1. M!Cardinality(Long) \in Nat
  <2>1. M!Cardinality(Long) = Cardinality(Long)
    BY DEF M!Cardinality, Cardinality
  <2>2. Len(s) \in Nat
    BY SequencePlaces
  <2>3. IsFiniteSet(0..Len(s)) /\ Long \subseteq 0..Len(s)
    BY <2>2, FS_Interval
  <2> HIDE DEF Long
  <2>4. IsFiniteSet(Long)
    BY <2>3, FS_Subset
  <2> QED
    BY <2>1, <2>4, FS_CardinalityType
<1>2. CASE DOMAIN M!GenerateProof(s, hash) = 1..M!Cardinality(Long)
  BY <1>1, <1>2
<1>3. CASE M!GenerateProof(s, hash) = <<>>
  <2>1. DOMAIN M!GenerateProof(s, hash) = 1..0
    BY <1>3
  <2> QED
    BY <2>1
<1> QED
  BY <1>2, <1>3 DEF M!GenerateProof

(* For every number of leaves and any proof that generateProof makes, only  *)
(* a hash of the tree verifies, if hashes of transactions are not those of  *)
(* pairs of hashes (merkle.cpp:28-66).                                      *)
THEOREM ProofsBelong ==
  ASSUME \A x \in Hash : Leaf(x)
  PROVE  MCSpec => []ProofsSound
<1>1. ArgTyped => ProofsSound
  <2> SUFFICES ASSUME ArgTyped, subject = "leaves", NEW other \in BoundedSeq(Hash, MaxLength),
                      NEW g \in Hash, NEW h \in Hash,
                      M!VerifyProof(M!BuildRoot(arg), h, M!GenerateProof(other, g))
               PROVE  h \in ToSet(arg)
    BY DEF ProofsSound
  <2>1. arg \in Seq(Hash) /\ Sequence(arg)
    BY DEF ArgTyped, Sequence
  <2>2. Sequence(other)
    BY DEF Sequence, BoundedSeq, SeqOf
  <2>3. PICK n \in Nat : DOMAIN M!GenerateProof(other, g) = 1..n
    BY <2>2, ProofPlaces
  <2>4. CASE arg # <<>>
    <3>1. PICK l \in Nat \ {0} : l = Len(arg)
      BY <2>1, <2>4
    <3>2. arg[1] \in Hash /\ 1 \in DOMAIN arg
      BY <2>1, <3>1
    <3>3. h = arg[1]
      BY <2>1, <2>3, <3>1, <3>2, VerifiedLeaf
    <3> QED
      BY <3>2, <3>3 DEF ToSet
  <2>5. CASE arg = <<>>
    <3>1. PICK proof : proof = M!GenerateProof(other, g)
      OBVIOUS
    <3>2. DOMAIN proof = 1..n
      BY <2>3, <3>1
    <3>3. PICK k : /\ Climbs(k, h, proof, n)
                   /\ \A root : M!VerifyProof(root, h, proof) <=> k[n] = root
      BY <3>2, VerifierClimbs
    <3>4. k[0] = h /\ \A i \in 1..n : k[i] = M!HashPair(k[i-1], proof[i])
      BY <3>3 DEF Climbs
    <3>5. k[n] = M!NullHash
      BY <2>5, <3>1, <3>3 DEF M!BuildRoot
    <3>6. CASE n = 0
      BY <3>4, <3>5, <3>6 DEF Leaf
    <3>7. CASE n # 0
      <4>1. n \in 1..n
        BY <3>7
      <4>2. k[n] = M!HashPair(k[n-1], proof[n])
        BY <3>4, <4>1
      <4>3. Len(M!HashPair(k[n-1], proof[n])) = 3 /\ Len(M!NullHash) = 1
        BY DEF M!HashPair, M!NullHash
      <4> QED
        BY <3>5, <4>2, <4>3
    <3> QED
      BY <3>6, <3>7
  <2> QED
    BY <2>4, <2>5
<1> QED
  BY <1>1, ArgInvariance, PTL
=============================================================================
