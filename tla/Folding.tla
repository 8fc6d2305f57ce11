------------------------------ MODULE Folding ------------------------------
(***************************************************************************)
(* What FoldLeft of the community modules computes, place after place, for *)
(* any operator: their definition recurs over sets of places.  A module    *)
(* whose model folds with an operator of its own takes this with INSTANCE; *)
(* the third argument of Op stands for what else that operator depends on. *)
(* The same for a function that recurs over the naturals, round by round.  *)
(***************************************************************************)
EXTENDS Sums

CONSTANT Op(_, _, _)

Last(s) == CHOOSE x \in s : \A y \in s : x >= y

\* h folds seq over every set of places in S.
FoldRec(h, base, seq, q, S) ==
  h = [s \in SUBSET S |-> IF s = {} THEN base ELSE Op(h[s \ {Last(s)}], seq[Last(s)], q)]

\* FoldLeft(LAMBDA a, x : Op(a, x, q), base, seq), with its definition expanded.
Fold(base, seq, q) ==
  LET iter[s \in SUBSET DOMAIN seq] ==
        IF s = {} THEN base ELSE Op(iter[s \ {Last(s)}], seq[Last(s)], q)
  IN  iter[DOMAIN seq]

(* A set of places has a last one.                                         *)
LEMMA LastIn ==
  ASSUME NEW n \in Nat, NEW s \in SUBSET (1..n), s # {}
  PROVE  Last(s) \in s /\ \A y \in s : y <= Last(s)
<1> DEFINE Far == {n - x : x \in s}
<1>1. PICK d \in Far : \A e \in Far : d <= e
  <2>1. Far \subseteq Nat /\ Far # {}
    OBVIOUS
  <2> HIDE DEF Far
  <2> QED
    BY <2>1, NatMin
<1>2. PICK x \in s : d = n - x
  BY <1>1
<1>3. \A y \in s : x >= y
  <2> TAKE y \in s
  <2>1. n - y \in Far
    OBVIOUS
  <2>2. n - x <= n - y
    BY <1>1, <1>2, <2>1
  <2>3. x \in 1..n /\ y \in 1..n
    OBVIOUS
  <2> QED
    BY <2>2, <2>3
<1>4. Last(s) \in s /\ \A y \in s : Last(s) >= y
  BY <1>2, <1>3 DEF Last
<1>5. \A y \in s : y \in 1..n
  OBVIOUS
<1> QED
  BY <1>4, <1>5

\* A finite set of places whose last one can be told, and those of its subsets.
Places(D) == IsFiniteSet(D) /\ \A s \in SUBSET D : s # {} => Last(s) \in s

(* What a fold says of one set of places.                                  *)
LEMMA FoldAt ==
  ASSUME NEW S, NEW base, NEW seq, NEW q, NEW h, FoldRec(h, base, seq, q, S),
         NEW s \in SUBSET S
  PROVE  /\ s = {} => h[s] = base
         /\ s # {} => h[s] = Op(h[s \ {Last(s)}], seq[Last(s)], q)
  BY DEF FoldRec

(* Two folds agree where both are defined.                                 *)
LEMMA FoldAgree ==
  ASSUME NEW D, Places(D), NEW U \in SUBSET D, NEW V \in SUBSET D,
         NEW base, NEW seq, NEW q, NEW h, NEW k,
         FoldRec(h, base, seq, q, U), FoldRec(k, base, seq, q, V),
         NEW s, s \subseteq U, s \subseteq V
  PROVE  h[s] = k[s]
<1> DEFINE Bad == {t \in SUBSET s : h[t] # k[t]}
<1>1. SUFFICES ASSUME Bad # {} PROVE FALSE
  OBVIOUS
<1>2. PICK t \in Bad : \A u \in Bad : u \subseteq t => u = t
  <2>1. Bad \subseteq SUBSET s
    OBVIOUS
  <2>2. IsFiniteSet(s)
    BY FS_Subset DEF Places
  <2> HIDE DEF Bad
  <2> QED
    BY <1>1, <2>1, <2>2, FiniteMin
<1>3. t \in SUBSET U /\ t \in SUBSET V /\ h[t] # k[t]
  BY <1>2
<1>4. /\ t = {} => h[t] = base
      /\ t # {} => h[t] = Op(h[t \ {Last(t)}], seq[Last(t)], q)
  BY <1>3, FoldAt
<1>5. /\ t = {} => k[t] = base
      /\ t # {} => k[t] = Op(k[t \ {Last(t)}], seq[Last(t)], q)
  BY <1>3, FoldAt
<1>6. t # {} /\ Last(t) \in t
  <2>1. t \in SUBSET D
    BY <1>3
  <2> QED
    BY <1>3, <1>4, <1>5, <2>1 DEF Places
<1>7. t \ {Last(t)} \notin Bad
  BY <1>2, <1>6
<1>8. h[t \ {Last(t)}] = k[t \ {Last(t)}]
  BY <1>2, <1>7
<1> QED
  BY <1>3, <1>4, <1>5, <1>6, <1>8

(* There is one for every set of places.                                   *)
LEMMA FoldExists ==
  ASSUME NEW D, Places(D), NEW base, NEW seq, NEW q
  PROVE  \A S \in SUBSET D : \E h : FoldRec(h, base, seq, q, S)
<1> DEFINE Bad == {V \in SUBSET D : ~ \E h : FoldRec(h, base, seq, q, V)}
<1>1. SUFFICES ASSUME Bad # {} PROVE FALSE
  OBVIOUS
<1>2. PICK V \in Bad : \A U \in Bad : U \subseteq V => U = V
  <2>1. Bad \subseteq SUBSET D
    OBVIOUS
  <2>2. IsFiniteSet(D)
    BY DEF Places
  <2> HIDE DEF Bad
  <2> QED
    BY <1>1, <2>1, <2>2, FiniteMin
<1> DEFINE H(U) == CHOOSE h : FoldRec(h, base, seq, q, U)
<1>3. ASSUME NEW U \in SUBSET V, U # V
      PROVE  FoldRec(H(U), base, seq, q, U) /\ U \in SUBSET D
  <2>1. U \notin Bad /\ U \in SUBSET D
    BY <1>2, <1>3
  <2>2. \E h : FoldRec(h, base, seq, q, U)
    BY <2>1
  <2> QED
    BY <2>1, <2>2
<1> DEFINE Rest(s) == s \ {Last(s)}
           val == [s \in SUBSET V |-> IF s = {} THEN base
                     ELSE Op(H(Rest(s))[Rest(s)], seq[Last(s)], q)]
<1>4. ASSUME NEW s \in SUBSET V, s # {}
      PROVE  val[s] = Op(val[Rest(s)], seq[Last(s)], q)
  <2> DEFINE u == Rest(s)
  <2>1. Last(s) \in s
    <3>1. s \in SUBSET D
      BY <1>2
    <3> QED
      BY <1>4, <3>1 DEF Places
  <2>2. u \in SUBSET V /\ u # V
    BY <2>1
  <2>3. FoldRec(H(u), base, seq, q, u) /\ u \in SUBSET D /\ u \in SUBSET u
    <3> HIDE DEF H, u
    <3> QED
      BY <2>2, <1>3
  <2> SUFFICES val[u] = H(u)[u]
    <3>1. val[s] = Op(H(u)[u], seq[Last(s)], q)
      <4> HIDE DEF H
      <4> QED
        BY <1>4
    <3> HIDE DEF val, H, u
    <3> QED
      BY <3>1 DEF u
  <2>4. CASE u = {}
    <3>1. H(u)[u] = base
      <4> HIDE DEF H, u
      <4> QED
        BY <2>3, <2>4, FoldAt
    <3>2. val[u] = base
      <4> HIDE DEF H, u
      <4> QED
        BY <2>2, <2>4
    <3> QED
      BY <3>1, <3>2
  <2>5. CASE u # {}
    <3> DEFINE w == Rest(u)
    <3>1. Last(u) \in u
      BY <2>3, <2>5 DEF Places
    <3>2. w \in SUBSET V /\ w # V /\ w \in SUBSET u /\ w \subseteq w
      BY <2>2, <3>1
    <3>3. FoldRec(H(w), base, seq, q, w) /\ w \in SUBSET D
      <4> HIDE DEF H, w
      <4> QED
        BY <3>2, <1>3
    <3>4. H(u)[w] = H(w)[w]
      <4> HIDE DEF H, u, w
      <4> QED
        BY <2>3, <3>2, <3>3, FoldAgree
    <3>5. H(u)[u] = Op(H(u)[w], seq[Last(u)], q)
      <4>1. H(u)[u] = Op(H(u)[u \ {Last(u)}], seq[Last(u)], q)
        <5> HIDE DEF H, u
        <5> QED
          BY <2>3, <2>5, FoldAt
      <4> QED
        BY <4>1
    <3>6. val[u] = Op(H(w)[w], seq[Last(u)], q)
      <4> HIDE DEF H, u
      <4> QED
        BY <2>2, <2>5 DEF w
    <3> HIDE DEF H, u, w, val
    <3> QED
      BY <3>4, <3>5, <3>6
  <2> QED
    BY <2>4, <2>5
<1>5. val[{}] = base
  <2> HIDE DEF H
  <2> QED
    OBVIOUS
<1>6. FoldRec(val, base, seq, q, V)
  <2>1. val = [s \in SUBSET V |-> val[s]]
    OBVIOUS
  <2>2. \A s \in SUBSET V :
          val[s] = IF s = {} THEN base ELSE Op(val[s \ {Last(s)}], seq[Last(s)], q)
    <3> HIDE DEF val, H
    <3> QED
      BY <1>4, <1>5
  <2> HIDE DEF val
  <2> QED
    BY <2>1, <2>2 DEF FoldRec
<1> HIDE DEF val
<1> QED
  BY <1>2, <1>6

(* A fold takes one place after the other.                                 *)
LEMMA FoldPlaces ==
  ASSUME NEW base, NEW q, NEW n \in Nat, NEW seq, DOMAIN seq = 1..n
  PROVE  \E h : /\ h[0] = base
                /\ \A i \in 1..n : h[i] = Op(h[i-1], seq[i], q)
                /\ Fold(base, seq, q) = h[n]
<1> DEFINE it == CHOOSE k : k = [s \in SUBSET DOMAIN seq |->
                   IF s = {} THEN base ELSE Op(k[s \ {Last(s)}], seq[Last(s)], q)]
           h == [i \in 0..n |-> it[1..i]]
           D == 1..n
<1>1. Places(D) /\ D \in SUBSET D
  <2>1. IsFiniteSet(1..n)
    BY FS_Interval
  <2>2. ASSUME NEW s \in SUBSET (1..n), s # {} PROVE Last(s) \in s
    BY <2>2, LastIn
  <2> QED
    BY <2>1, <2>2 DEF Places
<1>2. FoldRec(it, base, seq, q, D)
  <2>1. \E k : FoldRec(k, base, seq, q, D)
    <3> HIDE DEF D, it
    <3> QED
      BY <1>1, FoldExists
  <2>2. it = CHOOSE k : FoldRec(k, base, seq, q, D)
    BY DEF FoldRec
  <2> HIDE DEF it
  <2> QED
    BY <2>1, <2>2
<1>3. Fold(base, seq, q) = it[D]
  BY DEF Fold
<1> HIDE DEF it
<1>4. \A s \in SUBSET D :
        it[s] = IF s = {} THEN base ELSE Op(it[s \ {Last(s)}], seq[Last(s)], q)
  <2> HIDE DEF D
  <2> QED
    BY <1>2 DEF FoldRec
<1>5. h[0] = base
  <2>1. {} \in SUBSET D
    OBVIOUS
  <2>2. it[{}] = base
    <3> HIDE DEF D
    <3> QED
      BY <1>4, <2>1
  <2>3. 1..0 = {} /\ 0 \in 0..n
    OBVIOUS
  <2> QED
    BY <2>2, <2>3
<1>6. ASSUME NEW i \in 1..n PROVE h[i] = Op(h[i-1], seq[i], q)
  <2> DEFINE s == 1..i
             t == 1..i-1
  <2>1. s \in SUBSET D /\ i \in s /\ s \ {i} = t
    <3>1. i \in Nat /\ i <= n /\ i >= 1
      OBVIOUS
    <3> QED
      BY <3>1
  <2>2. Last(s) = i
    <3>1. s # {} /\ s \in SUBSET (1..n)
      BY <2>1
    <3>2. Last(s) \in s /\ \A y \in s : y <= Last(s)
      <4> HIDE DEF s
      <4> QED
        BY <3>1, LastIn
    <3>3. Last(s) \in 1..i /\ i <= Last(s)
      BY <2>1, <3>2
    <3> HIDE DEF s
    <3> QED
      BY <3>3
  <2>3. it[s] = Op(it[s \ {Last(s)}], seq[Last(s)], q)
    <3>1. s \in SUBSET D /\ s # {}
      BY <2>1
    <3> HIDE DEF s, D
    <3> QED
      BY <1>4, <3>1
  <2>4. h[i] = it[s] /\ h[i-1] = it[t]
    <3>1. i \in 0..n /\ i - 1 \in 0..n
      OBVIOUS
    <3> QED
      BY <3>1
  <2> HIDE DEF s, t, h
  <2> QED
    BY <2>1, <2>2, <2>3, <2>4
<1>7. Fold(base, seq, q) = h[n]
  BY <1>3
<1> HIDE DEF h
<1> QED
  BY <1>5, <1>6, <1>7
-----------------------------------------------------------------------------
(* Rounds *)

\* f has what n rounds make of base, and what each of them starts from.
RoundsRec(f, base, q, n) ==
  f = [i \in 0..n |-> IF i = 0 THEN base ELSE Op(f[i-1], i, q)]

(* There is one for every n.                                               *)
LEMMA RoundsExist ==
  ASSUME NEW base, NEW q
  PROVE  \A n \in Nat : \E f : RoundsRec(f, base, q, n)
<1> DEFINE Bad == {n \in Nat : ~ \E f : RoundsRec(f, base, q, n)}
<1> SUFFICES ASSUME Bad # {} PROVE FALSE
  OBVIOUS
<1>1. PICK n \in Bad : \A m \in Bad : n <= m
  <2>1. Bad \subseteq Nat
    OBVIOUS
  <2> HIDE DEF Bad
  <2> QED
    BY <2>1, NatMin
<1>2. n # 0
  <2> DEFINE one == [i \in 0..0 |-> base]
  <2>1. RoundsRec(one, base, q, 0)
    BY DEF RoundsRec
  <2> QED
    BY <1>1, <2>1
<1>3. PICK l \in Nat : n = l + 1 /\ l \notin Bad
  <2>1. n \in Nat /\ n - 1 \in Nat /\ n = (n - 1) + 1 /\ ~(n <= n - 1)
    BY <1>1, <1>2
  <2> HIDE DEF Bad
  <2> QED
    BY <1>1, <2>1
<1>4. PICK f : RoundsRec(f, base, q, l)
  BY <1>3
<1> DEFINE g == [i \in 0..l+1 |-> IF i = l + 1 THEN Op(f[l], l + 1, q) ELSE f[i]]
<1>5. ASSUME NEW i \in 0..l+1 PROVE g[i] = IF i = 0 THEN base ELSE Op(g[i-1], i, q)
  <2>1. CASE i = l + 1
    <3>1. i # 0 /\ i - 1 = l /\ l \in 0..l+1 /\ l # l + 1
      BY <2>1
    <3> QED
      BY <2>1, <3>1
  <2>2. CASE i # l + 1
    <3>1. i \in 0..l /\ (i # 0 => i - 1 \in 0..l+1 /\ i - 1 # l + 1)
      BY <2>2
    <3>2. f[i] = IF i = 0 THEN base ELSE Op(f[i-1], i, q)
      BY <1>4, <3>1 DEF RoundsRec
    <3> QED
      BY <2>2, <3>1, <3>2
  <2> QED
    BY <2>1, <2>2
<1>6. g = [i \in 0..l+1 |-> g[i]]
  OBVIOUS
<1> HIDE DEF g
<1>7. RoundsRec(g, base, q, l + 1)
  BY <1>5, <1>6 DEF RoundsRec
<1> QED
  BY <1>1, <1>3, <1>7

(* Two of them agree where both are defined.                               *)
LEMMA RoundsAgree ==
  ASSUME NEW base, NEW q, NEW n \in Nat, NEW m \in Nat, NEW f, NEW g,
         RoundsRec(f, base, q, n), RoundsRec(g, base, q, m), NEW i \in Nat, i <= n, i <= m
  PROVE  f[i] = g[i]
<1> DEFINE Bad == {j \in 0..i : f[j] # g[j]}
<1> SUFFICES ASSUME Bad # {} PROVE FALSE
  OBVIOUS
<1>1. PICK j \in Bad : \A k \in Bad : j <= k
  <2>1. Bad \subseteq Nat
    OBVIOUS
  <2> HIDE DEF Bad
  <2> QED
    BY <2>1, NatMin
<1>2. j \in 0..n /\ j \in 0..m /\ f[j] # g[j]
  BY <1>1
<1>3. /\ f[j] = IF j = 0 THEN base ELSE Op(f[j-1], j, q)
      /\ g[j] = IF j = 0 THEN base ELSE Op(g[j-1], j, q)
  BY <1>2 DEF RoundsRec
<1>4. j # 0 => j - 1 \in 0..i /\ ~(j <= j - 1)
  BY <1>1
<1>5. j # 0 => f[j-1] = g[j-1]
  BY <1>1, <1>4
<1> QED
  BY <1>2, <1>3, <1>5

\* The recursive function of the numbers of rounds.
Rounds(base, q) ==
  LET round[n \in Nat] == IF n = 0 THEN base ELSE Op(round[n-1], n, q)
  IN  round

(* It says what it should: one round after the other.                      *)
LEMMA RoundsDefined ==
  ASSUME NEW base, NEW q, NEW r, r = Rounds(base, q)
  PROVE  r[0] = base /\ \A n \in Nat : r[n+1] = Op(r[n], n + 1, q)
<1> DEFINE At(n) == CHOOSE g : RoundsRec(g, base, q, n)
           h == [n \in Nat |-> At(n)[n]]
<1>1. \A n \in Nat : RoundsRec(At(n), base, q, n)
  BY RoundsExist
<1> HIDE DEF At
<1>2. ASSUME NEW n \in Nat PROVE h[n] = IF n = 0 THEN base ELSE Op(h[n-1], n, q)
  <2>1. n \in 0..n /\ RoundsRec(At(n), base, q, n)
    BY <1>1
  <2>2. At(n)[n] = IF n = 0 THEN base ELSE Op(At(n)[n-1], n, q)
    BY <2>1 DEF RoundsRec
  <2>3. n # 0 => At(n)[n-1] = At(n-1)[n-1]
    <3> SUFFICES ASSUME n # 0 PROVE At(n)[n-1] = At(n-1)[n-1]
      OBVIOUS
    <3>1. PICK m \in Nat : m = n - 1
      OBVIOUS
    <3>2. RoundsRec(At(m), base, q, m) /\ m <= n /\ m <= m
      BY <1>1, <3>1
    <3>3. At(n)[m] = At(m)[m]
      BY <2>1, <3>2, RoundsAgree
    <3> QED
      BY <3>1, <3>3
  <2>4. n # 0 => n - 1 \in Nat
    OBVIOUS
  <2> QED
    BY <2>2, <2>3, <2>4
<1>3. h = [n \in Nat |-> h[n]]
  OBVIOUS
<1> HIDE DEF h
<1>4. h = [n \in Nat |-> IF n = 0 THEN base ELSE Op(h[n-1], n, q)]
  BY <1>2, <1>3
<1>5. r = [n \in Nat |-> IF n = 0 THEN base ELSE Op(r[n-1], n, q)]
  <2>1. r = CHOOSE g : g = [n \in Nat |-> IF n = 0 THEN base ELSE Op(g[n-1], n, q)]
    BY DEF Rounds
  <2> QED
    BY <1>4, <2>1
<1>6. \A n \in Nat : r[n] = IF n = 0 THEN base ELSE Op(r[n-1], n, q)
  BY <1>5
<1>7. \A n \in Nat : n + 1 \in Nat /\ n + 1 # 0 /\ (n + 1) - 1 = n
  OBVIOUS
<1> QED
  BY <1>6, <1>7
=============================================================================
