-------------------------------- MODULE Sums --------------------------------
(***************************************************************************)
(* Lemmas about SumFunctionOnSet of the community modules, on which the    *)
(* stakes, the rewards and the weights of votes are summed.  Its recursive *)
(* definition is unfolded here once; what is proved about sums elsewhere   *)
(* goes by induction over a finite set, as a least counterexample.  The    *)
(* numbers of the code are words and digits: the later lemmas are about    *)
(* remainders, powers, the digits of a number, and sums over the places of *)
(* a sequence.                                                             *)
(***************************************************************************)
EXTENDS Integers, FiniteSets, Functions, FiniteSetTheorems, WellFoundedInduction, TLAPS

Pick(s) == CHOOSE x \in s : TRUE

\* h sums f over every subset of S.
SumRec(h, f, S) ==
  h = [s \in SUBSET S |-> IF s = {} THEN 0 ELSE f[Pick(s)] + h[s \ {Pick(s)}]]

(* Among sets of subsets of a finite set there is a smallest one: no other *)
(* one of them is inside it.                                               *)
LEMMA FiniteMin ==
  ASSUME NEW S, IsFiniteSet(S), NEW T, T \subseteq SUBSET S, T # {}
  PROVE  \E x \in T : \A y \in T : y \subseteq x => y = x
<1>1. IsWellFoundedOn(StrictSubsetOrdering(S), FiniteSubsetsOf(S))
  BY FS_StrictSubsetOrderingWellFounded
<1>2. FiniteSubsetsOf(S) = SUBSET S
  BY FS_FiniteSubsetsOfFinite
<1>3. IsWellFoundedOn(StrictSubsetOrdering(S), SUBSET S)
  BY <1>1, <1>2
<1>4. PICK x \in T : \A y \in T : ~ (<<y, x>> \in StrictSubsetOrdering(S))
  BY <1>3, WFMin
<1>5. ASSUME NEW y \in T, y \subseteq x PROVE y = x
  BY <1>4, <1>5 DEF StrictSubsetOrdering
<1> QED
  BY <1>4, <1>5

(* What such a function says of one subset.                                *)
LEMMA RecAt ==
  ASSUME NEW S, NEW f, NEW h, SumRec(h, f, S), NEW s \in SUBSET S
  PROVE  /\ s = {} => h[s] = 0
         /\ s # {} => /\ Pick(s) \in s
                      /\ h[s] = f[Pick(s)] + h[s \ {Pick(s)}]
  BY DEF SumRec, Pick

(* Two of them agree where both are defined.                               *)
LEMMA RecAgree ==
  ASSUME NEW U, NEW V, NEW f, NEW g, NEW h, NEW k, SumRec(h, f, U), SumRec(k, g, V),
         NEW s, IsFiniteSet(s), s \subseteq U, s \subseteq V,
         \A x \in s : f[x] = g[x]
  PROVE  h[s] = k[s]
<1> DEFINE Bad == {t \in SUBSET s : h[t] # k[t]}
<1>1. SUFFICES ASSUME Bad # {} PROVE FALSE
  OBVIOUS
<1>2. PICK t \in Bad : \A u \in Bad : u \subseteq t => u = t
  <2>1. Bad \subseteq SUBSET s
    OBVIOUS
  <2> HIDE DEF Bad
  <2> QED
    BY <1>1, <2>1, FiniteMin
<1>3. t \in SUBSET U /\ t \in SUBSET V /\ h[t] # k[t]
  BY <1>2
<1>4. t # {} /\ Pick(t) \in t
  BY <1>3, RecAt
<1>5. t \ {Pick(t)} \notin Bad
  BY <1>2, <1>4
<1>6. h[t \ {Pick(t)}] = k[t \ {Pick(t)}]
  BY <1>5, <1>2
<1>7. h[t] = f[Pick(t)] + h[t \ {Pick(t)}] /\ k[t] = g[Pick(t)] + k[t \ {Pick(t)}]
  BY <1>3, <1>4, RecAt
<1>8. f[Pick(t)] = g[Pick(t)]
  BY <1>4, <1>2
<1> QED
  BY <1>3, <1>6, <1>7, <1>8

(* There is one for every finite set.                                      *)
LEMMA RecExists ==
  ASSUME NEW S, IsFiniteSet(S), NEW f
  PROVE  \E h : SumRec(h, f, S)
<1> DEFINE Bad == {V \in SUBSET S : ~ \E h : SumRec(h, f, V)}
<1>1. SUFFICES ASSUME Bad # {} PROVE FALSE
  OBVIOUS
<1>2. PICK V \in Bad : \A U \in Bad : U \subseteq V => U = V
  <2>1. Bad \subseteq SUBSET S
    OBVIOUS
  <2> HIDE DEF Bad
  <2> QED
    BY <1>1, <2>1, FiniteMin
<1> DEFINE H(U) == CHOOSE h : SumRec(h, f, U)
<1>3. ASSUME NEW U \in SUBSET V, U # V PROVE SumRec(H(U), f, U)
  <2>1. U \notin Bad /\ U \in SUBSET S
    BY <1>2, <1>3
  <2>2. \E h : SumRec(h, f, U)
    BY <2>1
  <2> QED
    BY <2>2
<1> DEFINE val == [s \in SUBSET V |-> IF s = {} THEN 0
                     ELSE f[Pick(s)] + H(s \ {Pick(s)})[s \ {Pick(s)}]]
<1>4. ASSUME NEW s \in SUBSET V, s # {}
      PROVE  val[s] = f[Pick(s)] + val[s \ {Pick(s)}]
  <2> DEFINE u == s \ {Pick(s)}
  <2>1. Pick(s) \in s
    BY <1>4 DEF Pick
  <2>2. u \in SUBSET V /\ u # V
    BY <2>1
  <2>3. SumRec(H(u), f, u)
    BY <2>2, <1>3
  <2> SUFFICES val[u] = H(u)[u]
    BY <1>4
  <2>4. CASE u = {}
    <3>1. H(u)[u] = 0
      <4> HIDE DEF H, u
      <4> QED
        BY <2>3, <2>4, RecAt
    <3> QED
      BY <2>2, <2>4, <3>1
  <2>5. CASE u # {}
    <3> DEFINE w == u \ {Pick(u)}
    <3>1. Pick(u) \in u
      BY <2>5 DEF Pick
    <3>2. w \in SUBSET V /\ w # V /\ w \in SUBSET u
      BY <2>2, <3>1
    <3>3. SumRec(H(w), f, w)
      BY <3>2, <1>3
    <3>4. IsFiniteSet(w)
      BY <3>2, FS_Subset, <1>2
    <3>5. H(u)[w] = H(w)[w]
      <4> HIDE DEF H, u, w
      <4> QED
        BY <2>3, <3>2, <3>3, <3>4, RecAgree
    <3>6. H(u)[u] = f[Pick(u)] + H(u)[w]
      <4>1. u \in SUBSET u
        OBVIOUS
      <4> HIDE DEF H, u
      <4> QED
        BY <2>3, <2>5, <4>1, RecAt
    <3>7. val[u] = f[Pick(u)] + H(w)[w]
      <4> HIDE DEF H
      <4> QED
        BY <2>2, <2>5
    <3> QED
      BY <3>5, <3>6, <3>7
  <2> QED
    BY <2>4, <2>5
<1>5. val[{}] = 0
  <2> HIDE DEF H
  <2> QED
    OBVIOUS
<1>6. SumRec(val, f, V)
  <2>1. val = [s \in SUBSET V |-> val[s]]
    OBVIOUS
  <2> HIDE DEF val
  <2>2. \A s \in SUBSET V : val[s] = IF s = {} THEN 0 ELSE f[Pick(s)] + val[s \ {Pick(s)}]
    BY <1>4, <1>5
  <2> QED
    BY <2>1, <2>2 DEF SumRec
<1> HIDE DEF val
<1> QED
  BY <1>2, <1>6

(* It is what SumFunctionOnSet evaluates.                                  *)
LEMMA SumIsRec ==
  ASSUME NEW S, IsFiniteSet(S), NEW f, NEW h, SumRec(h, f, S)
  PROVE  SumFunctionOnSet(f, S) = h[S]
<1> DEFINE it == CHOOSE k : k = [s \in SUBSET S |->
                   IF s = {} THEN 0 ELSE f[Pick(s)] + k[s \ {Pick(s)}]]
<1>1. SumRec(it, f, S)
  BY DEF SumRec
<1>2. SumFunctionOnSet(f, S) = it[S]
  BY DEF SumFunctionOnSet, FoldFunctionOnSet, MapThenFoldSet, Pick
<1>3. it[S] = h[S]
  <2> HIDE DEF it
  <2> QED
    BY <1>1, RecAgree
<1> QED
  BY <1>2, <1>3
(* A sum without terms is 0.                                               *)
LEMMA SumEmpty ==
  ASSUME NEW f
  PROVE  SumFunctionOnSet(f, {}) = 0
<1>1. IsFiniteSet({})
  BY FS_EmptySet
<1>2. PICK h : SumRec(h, f, {})
  BY <1>1, RecExists
<1>3. h[{}] = 0
  BY <1>2, RecAt
<1> QED
  BY <1>1, <1>2, <1>3, SumIsRec

(* A sum is any one of its terms and the rest.                             *)
LEMMA SumStep ==
  ASSUME NEW S, IsFiniteSet(S), NEW f, \A x \in S : f[x] \in Nat
  PROVE  /\ SumFunctionOnSet(f, S) \in Nat
         /\ \A x \in S : SumFunctionOnSet(f, S) = f[x] + SumFunctionOnSet(f, S \ {x})
<1>1. PICK h : SumRec(h, f, S)
  BY RecExists
<1>2. ASSUME NEW s \in SUBSET S PROVE SumFunctionOnSet(f, s) = h[s]
  <2>1. IsFiniteSet(s)
    BY FS_Subset
  <2>2. PICK k : SumRec(k, f, s)
    BY <2>1, RecExists
  <2>3. SumFunctionOnSet(f, s) = k[s]
    BY <2>1, <2>2, SumIsRec
  <2>4. k[s] = h[s]
    BY <1>1, <2>1, <2>2, RecAgree
  <2> QED
    BY <2>3, <2>4
<1>3. \A s \in SUBSET S : h[s] \in Nat
  <2> DEFINE Bad == {s \in SUBSET S : h[s] \notin Nat}
  <2>1. SUFFICES ASSUME Bad # {} PROVE FALSE
    OBVIOUS
  <2>2. PICK s \in Bad : \A u \in Bad : u \subseteq s => u = s
    <3>1. Bad \subseteq SUBSET S
      OBVIOUS
    <3> HIDE DEF Bad
    <3> QED
      BY <2>1, <3>1, FiniteMin
  <2>3. s # {} /\ Pick(s) \in s /\ h[s] = f[Pick(s)] + h[s \ {Pick(s)}]
    <3>1. s \in SUBSET S /\ h[s] # 0
      BY <2>2
    <3>2. /\ s = {} => h[s] = 0
          /\ s # {} => /\ Pick(s) \in s
                       /\ h[s] = f[Pick(s)] + h[s \ {Pick(s)}]
      <4> HIDE DEF Bad
      <4> QED
        BY <1>1, <3>1, RecAt
    <3> QED
      BY <3>1, <3>2
  <2>4. h[s \ {Pick(s)}] \in Nat
    BY <2>2, <2>3
  <2> QED
    BY <2>2, <2>3, <2>4
<1>4. \A s \in SUBSET S : \A x \in s : h[s] = f[x] + h[s \ {x}]
  <2> DEFINE Bad == {s \in SUBSET S : \E x \in s : h[s] # f[x] + h[s \ {x}]}
  <2>1. SUFFICES ASSUME Bad # {} PROVE FALSE
    OBVIOUS
  <2>2. PICK s \in Bad : \A u \in Bad : u \subseteq s => u = s
    <3>1. Bad \subseteq SUBSET S
      OBVIOUS
    <3> HIDE DEF Bad
    <3> QED
      BY <2>1, <3>1, FiniteMin
  <2>3. PICK x \in s : h[s] # f[x] + h[s \ {x}]
    BY <2>2
  <2> DEFINE p == Pick(s)
  <2>4. p \in s /\ h[s] = f[p] + h[s \ {p}]
    BY <1>1, <2>2, <2>3, RecAt
  <2>5. p # x
    BY <2>3, <2>4
  <2>6. s \ {p} \notin Bad /\ s \ {x} \notin Bad
    BY <2>2, <2>3, <2>4
  <2>7. h[s \ {p}] = f[x] + h[(s \ {p}) \ {x}]
    BY <2>2, <2>3, <2>5, <2>6
  <2>8. h[s \ {x}] = f[p] + h[(s \ {x}) \ {p}]
    BY <2>2, <2>4, <2>5, <2>6
  <2>9. (s \ {p}) \ {x} = (s \ {x}) \ {p} /\ (s \ {x}) \ {p} \in SUBSET S
    BY <2>2
  <2>10. f[p] \in Nat /\ f[x] \in Nat /\ h[(s \ {x}) \ {p}] \in Nat
    BY <1>3, <2>2, <2>3, <2>4, <2>9
  <2>11. h[(s \ {p}) \ {x}] = h[(s \ {x}) \ {p}]
    BY <2>9
  <2>12. f[p] + (f[x] + h[(s \ {x}) \ {p}]) = f[x] + (f[p] + h[(s \ {x}) \ {p}])
    BY <2>10
  <2> QED
    BY <2>3, <2>4, <2>7, <2>8, <2>11, <2>12
<1> QED
  BY <1>2, <1>3, <1>4

(* A sum of integers, of which some may be negative, is one.               *)
LEMMA SumInteger ==
  ASSUME NEW S, IsFiniteSet(S), NEW f, \A x \in S : f[x] \in Int
  PROVE  SumFunctionOnSet(f, S) \in Int
<1>1. PICK h : SumRec(h, f, S)
  BY RecExists
<1> DEFINE Bad == {s \in SUBSET S : h[s] \notin Int}
<1>2. Bad = {}
  <2> SUFFICES ASSUME Bad # {} PROVE FALSE
    OBVIOUS
  <2>1. PICK s \in Bad : \A t \in Bad : t \subseteq s => t = s
    <3>1. Bad \subseteq SUBSET S
      OBVIOUS
    <3> HIDE DEF Bad
    <3> QED
      BY <3>1, FiniteMin
  <2>2. s \in SUBSET S /\ h[s] \notin Int
    BY <2>1
  <2>3. s # {} /\ Pick(s) \in s /\ h[s] = f[Pick(s)] + h[s \ {Pick(s)}]
    BY <1>1, <2>2, RecAt
  <2>4. s \ {Pick(s)} \notin Bad
    BY <2>1, <2>3
  <2>5. h[s \ {Pick(s)}] \in Int /\ f[Pick(s)] \in Int
    BY <2>2, <2>3, <2>4
  <2> QED
    BY <2>2, <2>3, <2>5
<1> QED
  BY <1>1, <1>2, SumIsRec

(* Sums of equal terms are equal.                                          *)
LEMMA SumSame ==
  ASSUME NEW S, IsFiniteSet(S), NEW f, NEW g, \A x \in S : f[x] = g[x]
  PROVE  SumFunctionOnSet(f, S) = SumFunctionOnSet(g, S)
<1>1. PICK h : SumRec(h, f, S)
  BY RecExists
<1>2. PICK k : SumRec(k, g, S)
  BY RecExists
<1>3. h[S] = k[S]
  BY <1>1, <1>2, RecAgree
<1> QED
  BY <1>1, <1>2, <1>3, SumIsRec

(* A sum of smaller terms, over some of the set only, is no greater.       *)
LEMMA SumMonotone ==
  ASSUME NEW S, IsFiniteSet(S), NEW f, NEW g, NEW R, R \subseteq S,
         \A x \in S : g[x] \in Nat,
         \A x \in R : f[x] \in Nat /\ f[x] <= g[x]
  PROVE  SumFunctionOnSet(f, R) <= SumFunctionOnSet(g, S)
<1> DEFINE Bad == {s \in SUBSET S :
                     ~ SumFunctionOnSet(f, s \cap R) <= SumFunctionOnSet(g, s)}
<1>1. SUFFICES ASSUME Bad # {} PROVE FALSE
  <2>1. S \cap R = R /\ S \in SUBSET S
    OBVIOUS
  <2> QED
    BY <2>1
<1>2. PICK s \in Bad : \A u \in Bad : u \subseteq s => u = s
  <2>1. Bad \subseteq SUBSET S
    OBVIOUS
  <2> HIDE DEF Bad
  <2> QED
    BY <1>1, <2>1, FiniteMin
<1>3. IsFiniteSet(s) /\ IsFiniteSet(s \cap R)
  BY <1>2, FS_Subset
<1>4. SumFunctionOnSet(f, {}) = 0 /\ SumFunctionOnSet(g, {}) = 0
  BY SumEmpty
<1>5. SumFunctionOnSet(g, s) \in Nat /\ SumFunctionOnSet(f, s \cap R) \in Nat
  BY <1>2, <1>3, SumStep
<1>6. PICK x \in s : TRUE
  <2>1. CASE s = {}
    <3>1. s \cap R = {}
      BY <2>1
    <3> QED
      BY <1>2, <1>4, <2>1, <3>1
  <2> QED
    BY <2>1
<1>7. SumFunctionOnSet(f, (s \ {x}) \cap R) <= SumFunctionOnSet(g, s \ {x})
  BY <1>2, <1>6
<1>8. /\ SumFunctionOnSet(g, s) = g[x] + SumFunctionOnSet(g, s \ {x})
      /\ SumFunctionOnSet(g, s \ {x}) \in Nat /\ g[x] \in Nat
  <2>1. IsFiniteSet(s \ {x})
    BY <1>3, FS_Subset
  <2>2. SumFunctionOnSet(g, s) = g[x] + SumFunctionOnSet(g, s \ {x})
    BY <1>2, <1>3, <1>6, SumStep
  <2>3. SumFunctionOnSet(g, s \ {x}) \in Nat
    BY <1>2, <2>1, SumStep
  <2> QED
    BY <1>2, <1>6, <2>2, <2>3
<1>9. CASE x \in R
  <2>1. (s \ {x}) \cap R = (s \cap R) \ {x}
    OBVIOUS
  <2>2. SumFunctionOnSet(f, s \cap R) = f[x] + SumFunctionOnSet(f, (s \cap R) \ {x})
    BY <1>2, <1>3, <1>6, <1>9, SumStep
  <2>3. IsFiniteSet((s \cap R) \ {x})
    BY <1>3, FS_Subset
  <2>4. SumFunctionOnSet(f, (s \cap R) \ {x}) \in Nat
    BY <2>3, SumStep
  <2>5. f[x] \in Nat /\ f[x] <= g[x]
    BY <1>9
  <2>6. SumFunctionOnSet(f, s \cap R) <= SumFunctionOnSet(g, s)
    BY <1>7, <1>8, <2>1, <2>2, <2>4, <2>5
  <2> QED
    BY <1>2, <2>6
<1>10. CASE x \notin R
  <2>1. (s \ {x}) \cap R = s \cap R
    BY <1>10
  <2>2. SumFunctionOnSet(f, s \cap R) <= SumFunctionOnSet(g, s \ {x})
    BY <1>7, <2>1
  <2>3. SumFunctionOnSet(f, s \cap R) <= SumFunctionOnSet(g, s)
    BY <1>5, <1>8, <2>2
  <2> QED
    BY <1>2, <2>3
<1> QED
  BY <1>9, <1>10

(* Terms that are 0 do not count.                                          *)
LEMMA SumSupport ==
  ASSUME NEW S, IsFiniteSet(S), NEW f, \A x \in S : f[x] \in Nat,
         NEW R, R \subseteq S, \A x \in S \ R : f[x] = 0
  PROVE  SumFunctionOnSet(f, S) = SumFunctionOnSet(f, R)
<1> DEFINE Bad == {s \in SUBSET S :
                     SumFunctionOnSet(f, s) # SumFunctionOnSet(f, s \cap R)}
<1>1. SUFFICES ASSUME Bad # {} PROVE FALSE
  <2>1. S \cap R = R /\ S \in SUBSET S
    OBVIOUS
  <2> QED
    BY <2>1
<1>2. PICK s \in Bad : \A u \in Bad : u \subseteq s => u = s
  <2>1. Bad \subseteq SUBSET S
    OBVIOUS
  <2> HIDE DEF Bad
  <2> QED
    BY <1>1, <2>1, FiniteMin
<1>3. /\ s \in SUBSET S /\ SumFunctionOnSet(f, s) # SumFunctionOnSet(f, s \cap R)
      /\ IsFiniteSet(s) /\ IsFiniteSet(s \cap R)
  BY <1>2, FS_Subset
<1>4. PICK x \in s : TRUE
  <2>1. ASSUME s = {} PROVE FALSE
    <3>1. s \cap R = s
      BY <2>1
    <3> QED
      BY <1>3, <3>1
  <2> QED
    BY <2>1
<1>5. SumFunctionOnSet(f, s \ {x}) = SumFunctionOnSet(f, (s \ {x}) \cap R)
  BY <1>2, <1>4
<1>6. SumFunctionOnSet(f, s) = f[x] + SumFunctionOnSet(f, s \ {x})
  BY <1>3, <1>4, SumStep
<1>7. CASE x \in R
  <2>1. (s \ {x}) \cap R = (s \cap R) \ {x}
    OBVIOUS
  <2>2. SumFunctionOnSet(f, s \cap R) = f[x] + SumFunctionOnSet(f, (s \cap R) \ {x})
    BY <1>3, <1>4, <1>7, SumStep
  <2> QED
    BY <1>3, <1>5, <1>6, <2>1, <2>2
<1>8. CASE x \notin R
  <2>1. (s \ {x}) \cap R = s \cap R
    BY <1>8
  <2>2. f[x] = 0
    BY <1>3, <1>4, <1>8
  <2>3. SumFunctionOnSet(f, s \ {x}) \in Nat
    <3>1. IsFiniteSet(s \ {x}) /\ \A y \in s \ {x} : f[y] \in Nat
      BY <1>3, FS_Subset
    <3> QED
      BY <3>1, SumStep
  <2>4. SumFunctionOnSet(f, s) = SumFunctionOnSet(f, s \ {x})
    BY <1>6, <2>2, <2>3
  <2>5. SumFunctionOnSet(f, (s \ {x}) \cap R) = SumFunctionOnSet(f, s \cap R)
    BY <2>1
  <2> QED
    BY <1>3, <1>5, <2>4, <2>5
<1> QED
  BY <1>7, <1>8

(* Multiples of terms that are each bounded are bounded in sum.            *)
LEMMA SumScaled ==
  ASSUME NEW S, IsFiniteSet(S), NEW f, NEW g, NEW t \in Nat, NEW c \in Nat,
         \A x \in S : f[x] \in Nat /\ g[x] \in Nat /\ t * f[x] <= c * g[x]
  PROVE  t * SumFunctionOnSet(f, S) <= c * SumFunctionOnSet(g, S)
<1> DEFINE Bad == {s \in SUBSET S :
                     ~ t * SumFunctionOnSet(f, s) <= c * SumFunctionOnSet(g, s)}
<1>1. SUFFICES ASSUME Bad # {} PROVE FALSE
  <2>1. S \in SUBSET S
    OBVIOUS
  <2> QED
    BY <2>1
<1>2. PICK s \in Bad : \A u \in Bad : u \subseteq s => u = s
  <2>1. Bad \subseteq SUBSET S
    OBVIOUS
  <2> HIDE DEF Bad
  <2> QED
    BY <1>1, <2>1, FiniteMin
<1>3. IsFiniteSet(s) /\ s \in SUBSET S
  BY <1>2, FS_Subset
<1>4. s # {}
  <2>1. SUFFICES ASSUME s = {} PROVE FALSE
    OBVIOUS
  <2>2. SumFunctionOnSet(f, s) = 0 /\ SumFunctionOnSet(g, s) = 0
    BY <2>1, SumEmpty
  <2>3. t * 0 <= c * 0
    OBVIOUS
  <2> QED
    BY <1>2, <2>2, <2>3
<1>5. PICK x \in s : TRUE
  BY <1>4
<1> DEFINE a == f[x]
           b == g[x]
           p == SumFunctionOnSet(f, s \ {x})
           q == SumFunctionOnSet(g, s \ {x})
<1>6. SumFunctionOnSet(f, s) = a + p /\ SumFunctionOnSet(g, s) = b + q
  BY <1>3, SumStep
<1>7. a \in Nat /\ b \in Nat /\ p \in Nat /\ q \in Nat
  <2>1. IsFiniteSet(s \ {x})
    BY <1>3, FS_Subset
  <2> QED
    BY <1>3, <2>1, SumStep
<1>8. t * a <= c * b
  BY <1>3
<1>9. t * p <= c * q
  BY <1>2, <1>3
<1>10. t * (a + p) <= c * (b + q)
  <2> HIDE DEF a, b, p, q
  <2>1. t * (a + p) = t * a + t * p /\ c * (b + q) = c * b + c * q
    BY <1>7
  <2>2. t * a \in Nat /\ t * p \in Nat /\ c * b \in Nat /\ c * q \in Nat
    BY <1>7
  <2> QED
    BY <1>8, <1>9, <2>1, <2>2
<1> QED
  BY <1>2, <1>6, <1>10

(* A sum of terms each no greater than two others is no greater than their *)
(* sums.                                                                   *)
LEMMA SumAdded ==
  ASSUME NEW S, IsFiniteSet(S), NEW f, NEW g, NEW h,
         \A x \in S : /\ f[x] \in Nat /\ g[x] \in Nat /\ h[x] \in Nat
                      /\ h[x] <= f[x] + g[x]
  PROVE  SumFunctionOnSet(h, S) <= SumFunctionOnSet(f, S) + SumFunctionOnSet(g, S)
<1> DEFINE Bad == {s \in SUBSET S : ~ SumFunctionOnSet(h, s) <=
                     SumFunctionOnSet(f, s) + SumFunctionOnSet(g, s)}
<1>1. SUFFICES ASSUME Bad # {} PROVE FALSE
  <2>1. S \in SUBSET S
    OBVIOUS
  <2> QED
    BY <2>1
<1>2. PICK s \in Bad : \A u \in Bad : u \subseteq s => u = s
  <2>1. Bad \subseteq SUBSET S
    OBVIOUS
  <2> HIDE DEF Bad
  <2> QED
    BY <1>1, <2>1, FiniteMin
<1>3. IsFiniteSet(s) /\ s \in SUBSET S
  BY <1>2, FS_Subset
<1>4. s # {}
  <2>1. SUFFICES ASSUME s = {} PROVE FALSE
    OBVIOUS
  <2>2. /\ SumFunctionOnSet(f, s) = 0 /\ SumFunctionOnSet(g, s) = 0
        /\ SumFunctionOnSet(h, s) = 0
    BY <2>1, SumEmpty
  <2>3. 0 <= 0 + 0
    OBVIOUS
  <2> QED
    BY <1>2, <2>2, <2>3
<1>5. PICK x \in s : TRUE
  BY <1>4
<1> DEFINE p == SumFunctionOnSet(f, s \ {x})
           q == SumFunctionOnSet(g, s \ {x})
           r == SumFunctionOnSet(h, s \ {x})
<1>6. /\ SumFunctionOnSet(f, s) = f[x] + p /\ SumFunctionOnSet(g, s) = g[x] + q
      /\ SumFunctionOnSet(h, s) = h[x] + r
  BY <1>3, SumStep
<1>7. p \in Nat /\ q \in Nat /\ r \in Nat
  <2>1. IsFiniteSet(s \ {x})
    BY <1>3, FS_Subset
  <2> QED
    BY <1>3, <2>1, SumStep
<1>8. /\ f[x] \in Nat /\ g[x] \in Nat /\ h[x] \in Nat
      /\ h[x] <= f[x] + g[x]
  BY <1>3
<1>9. r <= p + q
  BY <1>2, <1>3
<1>10. h[x] + r <= (f[x] + p) + (g[x] + q)
  <2> HIDE DEF p, q, r
  <2> QED
    BY <1>7, <1>8, <1>9
<1> QED
  BY <1>2, <1>6, <1>10

-----------------------------------------------------------------------------
(* Words                                                                   *)

(* A remainder is a word, and no greater than the number.                  *)
LEMMA ModWord ==
  ASSUME NEW x \in Nat, NEW w \in Nat \ {0}
  PROVE  x % w \in 0..w-1 /\ x % w <= x
OBVIOUS

(* What is below a word is its own remainder.                              *)
LEMMA ModSmall ==
  ASSUME NEW x \in Nat, NEW w \in Nat \ {0}, x < w
  PROVE  x % w = x
OBVIOUS

(* A quotient times its divisor is no greater than the number.             *)
LEMMA DivWord ==
  ASSUME NEW x \in Nat, NEW w \in Nat \ {0}
  PROVE  x \div w \in Nat /\ w * (x \div w) <= x
OBVIOUS

(* Division with remainder.                                                *)
LEMMA DivMod ==
  ASSUME NEW x \in Int, NEW w \in Nat \ {0}
  PROVE  x % w \in 0..w-1 /\ x \div w \in Int /\ x = w * (x \div w) + (x % w)
OBVIOUS

(* Quotient and remainder are unique.                                      *)
LEMMA QuotientUnique ==
  ASSUME NEW w \in Nat \ {0}, NEW a \in Int, NEW b \in Int,
         NEW r \in 0..w-1, NEW s \in 0..w-1, w * a + r = w * b + s
  PROVE  a = b /\ r = s
<1>1. ASSUME NEW k \in Int, NEW m \in Int, NEW u \in 0..w-1, NEW v \in 0..w-1,
             w * k + u = w * m + v, k < m
      PROVE  FALSE
  <2>1. w * m >= w * (k + 1) /\ w * (k + 1) = w * k + w
    BY <1>1
  <2>2. w * k \in Int /\ w * m \in Int
    BY <1>1
  <2> QED
    BY <1>1, <2>1, <2>2
<1>2. ~ (a < b)
  BY <1>1
<1>3. ~ (b < a)
  <2>1. w * b + s = w * a + r
    OBVIOUS
  <2> QED
    BY <2>1, <1>1
<1>4. a = b
  BY <1>2, <1>3
<1>5. w * a = w * b /\ w * a \in Int
  BY <1>4
<1> QED
  BY <1>4, <1>5

(* Whole words do not change a remainder.                                  *)
LEMMA ModShift ==
  ASSUME NEW w \in Nat \ {0}, NEW z \in Int, NEW q \in Int, NEW y, y = w * q + z
  PROVE  y % w = z % w
<1>1. y \in Int /\ w * q \in Int
  OBVIOUS
<1>2. y = w * (y \div w) + (y % w) /\ z = w * (z \div w) + (z % w)
  BY <1>1, DivMod
<1>3. w * (q + (z \div w)) = w * q + w * (z \div w) /\ w * (z \div w) \in Int
  BY DivMod
<1>4. /\ y % w \in 0..w-1 /\ z % w \in 0..w-1
      /\ y \div w \in Int /\ z \div w \in Int /\ q + (z \div w) \in Int
  BY <1>1, DivMod
<1>5. w * (q + (z \div w)) + (z % w) = w * (y \div w) + (y % w)
  BY <1>1, <1>2, <1>3, <1>4
<1> DEFINE a == q + (z \div w)
           b == y \div w
           r == z % w
           s == y % w
<1>6. a \in Int /\ b \in Int /\ r \in 0..w-1 /\ s \in 0..w-1 /\ w * a + r = w * b + s
  BY <1>4, <1>5
<1>7. r = s
  <2> HIDE DEF a, b, r, s
  <2> QED
    BY <1>6, QuotientUnique
<1> QED
  BY <1>7

(* A sum that wrapped wraps as the whole sum does.                         *)
LEMMA ModAdd ==
  ASSUME NEW x \in Int, NEW y \in Int, NEW w \in Nat \ {0}
  PROVE  ((x % w) + y) % w = (x + y) % w
<1>1. /\ x % w \in Int /\ x \div w \in Int /\ w * (x \div w) \in Int
      /\ x = w * (x \div w) + (x % w)
  BY DivMod
<1>2. x + y = w * (x \div w) + ((x % w) + y) /\ (x % w) + y \in Int
  BY <1>1
<1> DEFINE q == x \div w
           z == (x % w) + y
           v == x + y
<1>3. q \in Int /\ z \in Int /\ v = w * q + z
  BY <1>1, <1>2
<1>4. v % w = z % w
  <2> HIDE DEF q, z, v
  <2> QED
    BY <1>3, ModShift
<1> QED
  BY <1>4

-----------------------------------------------------------------------------
(* Powers and digits *)

(* A set of numbers has a least one.                                       *)
LEMMA NatMin ==
  ASSUME NEW N, N \subseteq Nat, N # {}
  PROVE  \E n \in N : \A m \in N : n <= m
<1>1. PICK n \in N : \A m \in N : ~ (<<m, n>> \in OpToRel(<, Nat))
  BY NatLessThanWellFounded, WFMin
<1>2. ASSUME NEW m \in N PROVE n <= m
  <2>1. ~ (m < n)
    BY <1>1, <1>2, Zenon DEF OpToRel
  <2>2. m \in Nat /\ n \in Nat
    BY <1>2
  <2> QED
    BY <2>1, <2>2
<1> QED
  BY <1>2

\* f has the powers of b up to the n-th.
PowerRec(f, b, n) == f = [i \in 0..n |-> IF i = 0 THEN 1 ELSE b * f[i-1]]

(* There is one for every n.                                               *)
LEMMA PowerRecExists ==
  ASSUME NEW b
  PROVE  \A n \in Nat : \E f : PowerRec(f, b, n)
<1> DEFINE Bad == {n \in Nat : ~ \E f : PowerRec(f, b, n)}
<1> SUFFICES ASSUME Bad # {} PROVE FALSE
  OBVIOUS
<1>1. PICK n \in Bad : \A m \in Bad : n <= m
  <2>1. Bad \subseteq Nat
    OBVIOUS
  <2> HIDE DEF Bad
  <2> QED
    BY <2>1, NatMin
<1>2. n # 0
  <2> DEFINE one == [i \in 0..0 |-> 1]
  <2>1. PowerRec(one, b, 0)
    BY DEF PowerRec
  <2> QED
    BY <1>1, <2>1
<1>3. PICK l \in Nat : n = l + 1 /\ l \notin Bad
  <2>1. n \in Nat /\ n - 1 \in Nat /\ n = (n - 1) + 1 /\ ~(n <= n - 1)
    BY <1>1, <1>2
  <2> HIDE DEF Bad
  <2> QED
    BY <1>1, <2>1
<1>4. PICK f : PowerRec(f, b, l)
  BY <1>3
<1> DEFINE g == [i \in 0..l+1 |-> IF i = l + 1 THEN b * f[l] ELSE f[i]]
<1>5. ASSUME NEW i \in 0..l+1 PROVE g[i] = IF i = 0 THEN 1 ELSE b * g[i-1]
  <2>1. CASE i = l + 1
    <3>1. i # 0 /\ i - 1 = l /\ l \in 0..l+1 /\ l # l + 1
      BY <2>1
    <3> QED
      BY <2>1, <3>1
  <2>2. CASE i # l + 1
    <3>1. i \in 0..l /\ (i # 0 => i - 1 \in 0..l+1 /\ i - 1 # l + 1)
      BY <2>2
    <3>2. f[i] = IF i = 0 THEN 1 ELSE b * f[i-1]
      BY <1>4, <3>1 DEF PowerRec
    <3> QED
      BY <2>2, <3>1, <3>2
  <2> QED
    BY <2>1, <2>2
<1>6. g = [i \in 0..l+1 |-> g[i]]
  OBVIOUS
<1> HIDE DEF g
<1>7. PowerRec(g, b, l + 1)
  BY <1>5, <1>6 DEF PowerRec
<1> QED
  BY <1>1, <1>3, <1>7

(* Two of them agree where both are defined.                               *)
LEMMA PowerRecAgree ==
  ASSUME NEW b, NEW n \in Nat, NEW m \in Nat, NEW f, NEW g,
         PowerRec(f, b, n), PowerRec(g, b, m), NEW i \in Nat, i <= n, i <= m
  PROVE  f[i] = g[i]
<1> DEFINE Bad == {j \in 0..i : f[j] # g[j]}
<1> SUFFICES ASSUME Bad # {} PROVE FALSE
  OBVIOUS
<1>1. PICK j \in Bad : \A k \in Bad : j <= k
  <2>1. Bad \subseteq Nat
    OBVIOUS
  <2> HIDE DEF Bad
  <2> QED
    BY <2>1, NatMin
<1>2. j \in 0..n /\ j \in 0..m /\ f[j] # g[j]
  BY <1>1
<1>3. /\ f[j] = IF j = 0 THEN 1 ELSE b * f[j-1]
      /\ g[j] = IF j = 0 THEN 1 ELSE b * g[j-1]
  BY <1>2 DEF PowerRec
<1>4. j # 0 => j - 1 \in 0..i /\ ~(j <= j - 1)
  BY <1>1
<1>5. j # 0 => f[j-1] = g[j-1]
  BY <1>1, <1>4
<1> QED
  BY <1>2, <1>3, <1>5

\* f is the function of the powers of b.
IsPower(f, b) == f[0] = 1 /\ \A n \in Nat : f[n+1] = b * f[n]

(* The recursive definition of the powers of a base says what it should.    *)
LEMMA PowerDefined ==
  ASSUME NEW b,
         NEW f, f = CHOOSE g : g = [n \in Nat |-> IF n = 0 THEN 1 ELSE b * g[n-1]]
  PROVE  IsPower(f, b)
<1> DEFINE At(n) == CHOOSE g : PowerRec(g, b, n)
           h == [n \in Nat |-> At(n)[n]]
<1>1. \A n \in Nat : PowerRec(At(n), b, n)
  BY PowerRecExists
<1> HIDE DEF At
<1>2. ASSUME NEW n \in Nat PROVE h[n] = IF n = 0 THEN 1 ELSE b * h[n-1]
  <2>1. n \in 0..n /\ PowerRec(At(n), b, n)
    BY <1>1
  <2>2. At(n)[n] = IF n = 0 THEN 1 ELSE b * At(n)[n-1]
    BY <2>1 DEF PowerRec
  <2>3. n # 0 => At(n)[n-1] = At(n-1)[n-1]
    <3> SUFFICES ASSUME n # 0 PROVE At(n)[n-1] = At(n-1)[n-1]
      OBVIOUS
    <3>1. PICK m \in Nat : m = n - 1
      OBVIOUS
    <3>2. PowerRec(At(m), b, m) /\ m <= n /\ m <= m
      BY <1>1, <3>1
    <3>3. At(n)[m] = At(m)[m]
      BY <2>1, <3>2, PowerRecAgree
    <3> QED
      BY <3>1, <3>3
  <2>4. n # 0 => n - 1 \in Nat
    OBVIOUS
  <2> QED
    BY <2>2, <2>3, <2>4
<1>3. h = [n \in Nat |-> h[n]]
  OBVIOUS
<1> HIDE DEF h
<1>4. h = [n \in Nat |-> IF n = 0 THEN 1 ELSE b * h[n-1]]
  BY <1>2, <1>3
<1>5. f = [n \in Nat |-> IF n = 0 THEN 1 ELSE b * f[n-1]]
  BY <1>4
<1>6. \A n \in Nat : f[n] = IF n = 0 THEN 1 ELSE b * f[n-1]
  BY <1>5
<1>7. \A n \in Nat : n + 1 \in Nat /\ n + 1 # 0 /\ (n + 1) - 1 = n
  OBVIOUS
<1> QED
  BY <1>6, <1>7 DEF IsPower

(* Powers are positive.                                                    *)
LEMMA PowerPositive ==
  ASSUME NEW b \in Nat \ {0}, NEW f, IsPower(f, b)
  PROVE  \A n \in Nat : f[n] \in Nat \ {0}
<1> DEFINE Bad == {n \in Nat : f[n] \notin Nat \ {0}}
<1> SUFFICES ASSUME Bad # {} PROVE FALSE
  OBVIOUS
<1>1. PICK n \in Bad : \A m \in Bad : n <= m
  <2>1. Bad \subseteq Nat
    OBVIOUS
  <2> HIDE DEF Bad
  <2> QED
    BY <2>1, NatMin
<1>2. n # 0
  BY <1>1 DEF IsPower
<1>3. PICK m \in Nat : n = m + 1
  <2>1. n - 1 \in Nat /\ n = (n - 1) + 1
    BY <1>1, <1>2
  <2> QED
    BY <2>1
<1>4. f[m] \in Nat \ {0}
  <2>1. ~(n <= m)
    BY <1>3
  <2> QED
    BY <1>1, <2>1
<1>5. f[n] = b * f[m]
  BY <1>3 DEF IsPower
<1> QED
  BY <1>1, <1>4, <1>5

(* They do not shrink, and with a base above one they leave every number    *)
(* behind.                                                                 *)
LEMMA PowerGrows ==
  ASSUME NEW b \in Nat \ {0}, NEW f, IsPower(f, b)
  PROVE  /\ \A n, m \in Nat : n <= m => f[n] <= f[m]
         /\ b > 1 => \A n \in Nat : n < f[n]
<1>1. \A n \in Nat : f[n] \in Nat \ {0} /\ f[n+1] = b * f[n]
  BY PowerPositive DEF IsPower
<1>2. ASSUME NEW n \in Nat PROVE \A m \in Nat : n <= m => f[n] <= f[m]
  <2> DEFINE Bad == {m \in Nat : n <= m /\ ~(f[n] <= f[m])}
  <2> SUFFICES ASSUME Bad # {} PROVE FALSE
    OBVIOUS
  <2>1. PICK m \in Bad : \A k \in Bad : m <= k
    <3>1. Bad \subseteq Nat
      OBVIOUS
    <3> HIDE DEF Bad
    <3> QED
      BY <3>1, NatMin
  <2>2. m # n
    <3>1. f[n] <= f[n]
      BY <1>1
    <3> QED
      BY <2>1, <3>1
  <2>3. PICK k \in Nat : m = k + 1 /\ n <= k
    <3>1. m - 1 \in Nat /\ m = (m - 1) + 1 /\ n <= m - 1
      BY <2>1, <2>2
    <3> QED
      BY <3>1
  <2>4. f[n] <= f[k]
    <3>1. ~(m <= k)
      BY <2>3
    <3>2. k \notin Bad
      BY <2>1, <3>1
    <3> QED
      BY <2>3, <3>2
  <2>5. f[k] <= b * f[k]
    <3>1. PICK z \in Nat \ {0} : z = f[k]
      BY <1>1
    <3>2. z <= b * z
      BY <3>1
    <3> QED
      BY <3>1, <3>2
  <2>6. f[m] = b * f[k] /\ f[m] \in Nat /\ f[n] \in Nat /\ f[k] \in Nat
    BY <1>1, <2>1, <2>3
  <2>7. ~(f[n] <= f[m])
    BY <2>1
  <2> QED
    BY <2>4, <2>5, <2>6, <2>7
<1>3. ASSUME b > 1 PROVE \A n \in Nat : n < f[n]
  <2> DEFINE Bad == {m \in Nat : ~(m < f[m])}
  <2> SUFFICES ASSUME Bad # {} PROVE FALSE
    OBVIOUS
  <2>1. PICK m \in Bad : \A k \in Bad : m <= k
    <3>1. Bad \subseteq Nat
      OBVIOUS
    <3> HIDE DEF Bad
    <3> QED
      BY <3>1, NatMin
  <2>2. m # 0
    BY <1>1, <2>1
  <2>3. PICK k \in Nat : m = k + 1
    <3>1. m - 1 \in Nat /\ m = (m - 1) + 1
      BY <2>1, <2>2
    <3> QED
      BY <3>1
  <2>4. k < f[k]
    <3>1. ~(m <= k)
      BY <2>3
    <3> QED
      BY <2>1, <3>1
  <2>5. f[m] = b * f[k] /\ f[k] \in Nat \ {0}
    BY <1>1, <2>3
  <2>6. f[k] + f[k] <= b * f[k]
    BY <1>3, <2>5
  <2>7. k + 1 < f[k] + f[k] \/ (k = 0 /\ k + 1 < b * f[k])
    BY <1>3, <2>4, <2>5, <2>6
  <2> QED
    BY <2>1, <2>3, <2>5, <2>6, <2>7
<1> QED
  BY <1>2, <1>3

(* One digit more of a remainder.                                          *)
LEMMA ModPower ==
  ASSUME NEW b \in Nat \ {0}, NEW p \in Nat \ {0}, NEW x \in Nat
  PROVE  x % (b * p) = (x % p) + p * ((x \div p) % b)
<1>1. PICK q \in Nat : q = x \div p
  BY DivWord
<1>2. PICK r \in 0..p-1 : r = x % p
  BY DivMod
<1>3. PICK d \in 0..b-1 : d = q % b
  BY DivMod
<1>4. PICK e \in Nat : e = q \div b
  BY DivWord
<1>5. x = p * q + r /\ q = b * e + d
  <2>1. x = p * (x \div p) + (x % p)
    BY DivMod
  <2>2. q = b * (q \div b) + (q % b)
    BY DivMod
  <2> QED
    BY <1>1, <1>2, <1>3, <1>4, <2>1, <2>2
<1>6. PICK w \in Nat \ {0} : w = b * p
  OBVIOUS
<1>7. p * q = p * (b * e) + p * d
  BY <1>5
<1>8. p * (b * e) = w * e
  BY <1>6
<1>9. p * d <= p * (b - 1) /\ p * d \in Nat
  BY <1>3
<1>10. p * (b - 1) = w - p
  BY <1>6
<1>11. r + p * d \in 0..w-1
  BY <1>2, <1>6, <1>9, <1>10
<1>12. x = w * e + (r + p * d)
  BY <1>5, <1>7, <1>8, <1>9
<1>13. x % w = (r + p * d) % w
  <2>1. PICK z \in Int : z = r + p * d
    BY <1>11
  <2>2. x = w * e + z /\ w \in Nat \ {0} /\ e \in Int
    BY <1>12, <2>1
  <2>3. x % w = z % w
    BY ONLY <2>1, <2>2, ModShift
  <2> QED
    BY <2>1, <2>3
<1>14. (r + p * d) % w = r + p * d
  BY <1>6, <1>11, ModSmall
<1> QED
  BY <1>1, <1>2, <1>3, <1>6, <1>13, <1>14

(* A number below the n-th power is known from n digits.                   *)
LEMMA DigitsUnique ==
  ASSUME NEW b \in Nat \ {0}, NEW f, IsPower(f, b), NEW n \in Nat,
         NEW x \in Nat, NEW y \in Nat, x < f[n], y < f[n],
         \A i \in Nat : i < n => (x \div f[i]) % b = (y \div f[i]) % b
  PROVE  x = y
<1>1. \A i \in Nat : f[i] \in Nat \ {0} /\ f[i+1] = b * f[i]
  BY PowerPositive DEF IsPower
<1> DEFINE Bad == {i \in 0..n : x % f[i] # y % f[i]}
<1>2. ASSUME Bad # {} PROVE FALSE
  <2>1. PICK i \in Bad : \A j \in Bad : i <= j
    <3>1. Bad \subseteq Nat
      OBVIOUS
    <3> HIDE DEF Bad
    <3> QED
      BY <1>2, <3>1, NatMin
  <2>2. i # 0
    <3>1. f[0] = 1
      BY DEF IsPower
    <3>2. x % 1 = 0 /\ y % 1 = 0
      OBVIOUS
    <3> QED
      BY <2>1, <3>1, <3>2
  <2>3. PICK k \in Nat : i = k + 1 /\ k < n /\ k \in 0..n
    <3>1. i - 1 \in Nat /\ i = (i - 1) + 1 /\ i - 1 < n /\ i - 1 \in 0..n
      BY <2>1, <2>2
    <3> QED
      BY <3>1
  <2>4. x % f[k] = y % f[k]
    <3>1. ~(i <= k)
      BY <2>3
    <3> QED
      BY <2>1, <2>3, <3>1
  <2>5. PICK p \in Nat \ {0} : p = f[k]
    BY <1>1
  <2>6. f[i] = b * p
    BY <1>1, <2>3, <2>5
  <2>7. x % (b * p) = (x % p) + p * ((x \div p) % b)
    BY ModPower
  <2>8. y % (b * p) = (y % p) + p * ((y \div p) % b)
    BY ModPower
  <2>9. (x \div p) % b = (y \div p) % b
    BY <2>3, <2>5
  <2> QED
    BY <2>1, <2>4, <2>5, <2>6, <2>7, <2>8, <2>9
<1>3. x % f[n] = y % f[n]
  BY <1>2
<1>4. PICK w \in Nat \ {0} : w = f[n]
  BY <1>1
<1>5. x % w = x /\ y % w = y
  BY <1>4, ModSmall
<1> QED
  BY <1>3, <1>4, <1>5
(* A number is the sum of its digits, each times its power.                *)
LEMMA DigitsSum ==
  ASSUME NEW b \in Nat \ {0}, NEW f, IsPower(f, b), NEW x \in Nat, NEW l \in Nat,
         NEW g, \A i \in 1..l : g[i] = ((x \div f[i-1]) % b) * f[i-1]
  PROVE  SumFunctionOnSet(g, 1..l) = x % f[l]
<1>0. \A n \in Nat : f[n] \in Nat \ {0}
  BY PowerPositive
<1> DEFINE Bad == {n \in 0..l : SumFunctionOnSet(g, 1..n) # x % f[n]}
<1> SUFFICES ASSUME Bad # {} PROVE FALSE
  OBVIOUS
<1>1. PICK n \in Bad : \A m \in Bad : n <= m
  <2>1. Bad \subseteq Nat
    OBVIOUS
  <2> HIDE DEF Bad
  <2> QED
    BY <2>1, NatMin
<1>2. n # 0
  <2>1. f[0] = 1 /\ x % 1 = 0 /\ 1..0 = {}
    BY DEF IsPower
  <2> QED
    BY <1>1, <2>1, SumEmpty
<1>3. PICK m \in 0..l : n = m + 1 /\ SumFunctionOnSet(g, 1..m) = x % f[m]
  <2>1. n - 1 \in 0..l /\ n = (n - 1) + 1 /\ ~(n <= n - 1)
    BY <1>1, <1>2
  <2> QED
    BY <1>1, <2>1
<1>4. \A i \in 1..n : g[i] \in Nat
  <2> SUFFICES ASSUME NEW i \in 1..n PROVE g[i] \in Nat
    OBVIOUS
  <2>1. PICK p \in Nat \ {0} : p = f[i-1]
    BY <1>0, <1>1
  <2>2. x \div p \in Nat
    BY <2>1, DivWord
  <2>3. (x \div p) % b \in 0..b-1
    <3>1. PICK q \in Nat : q = x \div p
      BY <2>2
    <3>2. q % b \in 0..b-1
      BY <3>1, ModWord
    <3> QED
      BY <3>1, <3>2
  <2>4. ((x \div p) % b) * p \in Nat
    BY <2>3
  <2>5. i \in 1..l
    BY <1>1
  <2> QED
    BY <2>1, <2>4, <2>5
<1>5. IsFiniteSet(1..n) /\ (1..n) \ {n} = 1..m /\ n \in 1..n
  <2>1. n \in Nat /\ 1 \in Int
    BY <1>1
  <2>2. IsFiniteSet(1..n)
    BY <2>1, FS_Interval
  <2> QED
    BY <1>1, <1>3, <2>2
<1>6. SumFunctionOnSet(g, 1..n) = g[n] + SumFunctionOnSet(g, 1..m)
  <2> DEFINE N == 1..n
  <2>1. IsFiniteSet(N) /\ \A i \in N : g[i] \in Nat
    BY <1>4, <1>5
  <2>2. n \in N /\ N \ {n} = 1..m
    BY <1>5
  <2> HIDE DEF N
  <2>3. SumFunctionOnSet(g, N) = g[n] + SumFunctionOnSet(g, N \ {n})
    BY <2>1, <2>2, SumStep
  <2> QED
    BY <2>2, <2>3 DEF N
<1>7. PICK p \in Nat \ {0} : p = f[m]
  BY <1>0, <1>3
<1>8. f[n] = b * p
  BY <1>3, <1>7 DEF IsPower
<1>9. x % (b * p) = (x % p) + p * ((x \div p) % b)
  BY <1>7, ModPower
<1>10. g[n] = ((x \div p) % b) * p
  <2>1. n \in 1..l /\ n - 1 = m
    BY <1>1, <1>3
  <2> QED
    BY <1>7, <2>1
<1>11. PICK d \in Nat : d = (x \div p) % b
  <2>1. PICK q \in Nat : q = x \div p
    BY <1>7, DivWord
  <2>2. q % b \in 0..b-1
    BY <2>1, ModWord
  <2> QED
    BY <2>1, <2>2
<1>12. PICK r \in Nat : r = x % p
  <2>1. x % p \in 0..p-1
    BY <1>7, ModWord
  <2> QED
    BY <2>1
<1>13. d * p + r = r + p * d
  OBVIOUS
<1> QED
  BY <1>1, <1>3, <1>6, <1>7, <1>8, <1>9, <1>10, <1>11, <1>12, <1>13

-----------------------------------------------------------------------------
(* Sums of sequences of numbers *)

(* The sum of the first terms grows by one term at a time.                 *)
LEMMA SumPrefix ==
  ASSUME NEW n \in Nat, NEW w, \A i \in 1..n : w[i] \in Nat
  PROVE  /\ SumFunctionOnSet(w, 1..0) = 0
         /\ \A i \in 0..n : SumFunctionOnSet(w, 1..i) \in Nat
         /\ \A i \in 1..n : SumFunctionOnSet(w, 1..i) = w[i] + SumFunctionOnSet(w, 1..i-1)
         /\ \A i, j \in 0..n :
              i <= j => SumFunctionOnSet(w, 1..i) <= SumFunctionOnSet(w, 1..j)
<1>1. \A i \in 0..n : IsFiniteSet(1..i) /\ \A j \in 1..i : w[j] \in Nat
  <2> SUFFICES ASSUME NEW i \in 0..n PROVE IsFiniteSet(1..i) /\ \A j \in 1..i : w[j] \in Nat
    OBVIOUS
  <2>1. IsFiniteSet(1..i)
    BY FS_Interval
  <2> QED
    BY <2>1
<1>2. SumFunctionOnSet(w, 1..0) = 0
  <2>1. 1..0 = {}
    OBVIOUS
  <2> QED
    BY <2>1, SumEmpty
<1>3. ASSUME NEW i \in 0..n PROVE SumFunctionOnSet(w, 1..i) \in Nat
  <2> DEFINE I == 1..i
  <2>1. IsFiniteSet(I) /\ \A j \in I : w[j] \in Nat
    BY <1>1
  <2> HIDE DEF I
  <2>2. SumFunctionOnSet(w, I) \in Nat
    BY <2>1, SumStep
  <2> QED
    BY <2>2 DEF I
<1>4. ASSUME NEW i \in 1..n
      PROVE  SumFunctionOnSet(w, 1..i) = w[i] + SumFunctionOnSet(w, 1..i-1)
  <2> DEFINE I == 1..i
             H == 1..i-1
  <2>1. IsFiniteSet(I) /\ (\A j \in I : w[j] \in Nat) /\ i \in I /\ I \ {i} = H
    BY <1>1
  <2> HIDE DEF I, H
  <2>2. SumFunctionOnSet(w, I) = w[i] + SumFunctionOnSet(w, I \ {i})
    BY <2>1, SumStep
  <2> QED
    BY <2>1, <2>2 DEF I, H
<1>5. ASSUME NEW i \in 0..n, NEW j \in 0..n, i <= j
      PROVE  SumFunctionOnSet(w, 1..i) <= SumFunctionOnSet(w, 1..j)
  <2> DEFINE I == 1..i
             J == 1..j
  <2>1. /\ IsFiniteSet(J) /\ I \subseteq J /\ \A k \in J : w[k] \in Nat
        /\ \A k \in I : w[k] \in Nat /\ w[k] <= w[k]
    BY <1>1, <1>5
  <2> HIDE DEF I, J
  <2>2. SumFunctionOnSet(w, I) <= SumFunctionOnSet(w, J)
    BY <2>1, SumMonotone
  <2> QED
    BY <2>2 DEF I, J
<1> QED
  BY <1>2, <1>3, <1>4, <1>5

(* A sum over a set is one over any order of it.                           *)
LEMMA SumReindex ==
  ASSUME NEW n \in Nat, NEW S, IsFiniteSet(S), NEW order \in [1..n -> S],
         \A i, j \in 1..n : i # j => order[i] # order[j],
         \A x \in S : \E i \in 1..n : x = order[i],
         NEW f, \A x \in S : f[x] \in Nat,
         NEW w, \A i \in 1..n : w[i] = f[order[i]]
  PROVE  SumFunctionOnSet(w, 1..n) = SumFunctionOnSet(f, S)
<1> DEFINE To(i) == {x \in S : \E j \in 1..i : x = order[j]}
           Bad == {i \in 0..n : SumFunctionOnSet(w, 1..i) # SumFunctionOnSet(f, To(i))}
<1>1. \A i \in 1..n : w[i] \in Nat
  OBVIOUS
<1>2. Bad = {}
  <2> SUFFICES ASSUME Bad # {} PROVE FALSE
    OBVIOUS
  <2>1. PICK i \in Bad : \A j \in Bad : i <= j
    <3>1. Bad \subseteq Nat
      OBVIOUS
    <3> HIDE DEF Bad
    <3> QED
      BY <3>1, NatMin
  <2>2. i # 0
    <3>1. SumFunctionOnSet(w, 1..0) = 0
      BY <1>1, SumPrefix
    <3>2. To(0) = {}
      OBVIOUS
    <3>3. SumFunctionOnSet(f, To(0)) = 0
      BY <3>2, SumEmpty
    <3> HIDE DEF To
    <3> QED
      BY <2>1, <3>1, <3>3
  <2>3. i \in 1..n /\ i - 1 \in 0..n /\ ~(i <= i - 1)
    BY <2>1, <2>2
  <2>4. SumFunctionOnSet(w, 1..i-1) = SumFunctionOnSet(f, To(i-1))
    <3> HIDE DEF To
    <3> QED
      BY <2>1, <2>3
  <2> DEFINE T == To(i)
             x == order[i]
  <2>5. x \in T /\ T \subseteq S /\ T \ {x} = To(i-1)
    <3>1. order[i] \in S /\ i \in 1..i
      BY <2>3
    <3>2. \A j \in 1..i : (order[j] # order[i] => j \in 1..i-1) /\ j \in 1..n
      BY <2>3
    <3>3. \A j \in 1..i-1 : j \in 1..i /\ j # i /\ j \in 1..n
      BY <2>3
    <3> QED
      BY <2>3, <3>1, <3>2, <3>3
  <2>6. IsFiniteSet(T) /\ \A y \in T : f[y] \in Nat
    BY FS_Subset
  <2>7. SumFunctionOnSet(f, T) = f[x] + SumFunctionOnSet(f, T \ {x})
    <3>1. \A y \in T : SumFunctionOnSet(f, T) = f[y] + SumFunctionOnSet(f, T \ {y})
      <4> HIDE DEF T
      <4> QED
        BY <2>6, SumStep
    <3>2. x \in T
      BY <2>5
    <3> HIDE DEF T, x
    <3> QED
      BY <3>1, <3>2
  <2>8. SumFunctionOnSet(w, 1..i) = w[i] + SumFunctionOnSet(w, 1..i-1)
    BY <1>1, <2>3, SumPrefix
  <2>9. SumFunctionOnSet(f, T \ {x}) = SumFunctionOnSet(f, To(i-1))
    <3> HIDE DEF T, x, To
    <3> QED
      BY <2>5
  <2>10. w[i] = f[x]
    BY <2>3
  <2>11. SumFunctionOnSet(w, 1..i) = SumFunctionOnSet(f, T)
    <3> HIDE DEF T, x, To
    <3> QED
      BY <2>4, <2>7, <2>8, <2>9, <2>10
  <2> QED
    BY <2>1, <2>11
<1>3. To(n) = S
  OBVIOUS
<1>4. SumFunctionOnSet(w, 1..n) = SumFunctionOnSet(f, To(n))
  BY <1>2
<1> HIDE DEF To
<1> QED
  BY <1>3, <1>4
=============================================================================
