------------------------------ MODULE LRUCache ------------------------------
(***************************************************************************)
(* The block cache of the node (src/src/storage/cache.cpp): a map from     *)
(* keys to values and a list of its keys, most recently used first.  The   *)
(* list iterator the C++ map keeps beside each value is the position of    *)
(* the key in the list.                                                    *)
(***************************************************************************)
EXTENDS Naturals, Sequences, SequencesExt, FiniteSets

CONSTANTS Key,    \* keys callers use ("blk:" + block hash)
          Value,  \* values callers store
          Cap     \* capacity given to the constructor

ASSUME CacheAssumption == Cap \in Nat

VARIABLES order,  \* keys, most recently used first
          cache   \* partial function from Key to Value

vars == <<order, cache>>

-----------------------------------------------------------------------------
Init == order = <<>> /\ cache = [k \in {} |-> k]

Position(k) == CHOOSE i \in 1..Len(order) : order[i] = k

\* Mutant: a key that is there keeps its place.
KeptInPlace(k) == IF k \in DOMAIN cache THEN order ELSE Cons(k, order)

\* The list after its iterator of k, if it has one, is erased and k pushed
\* to the front.
MovedToFront(k) ==
  Cons(k, IF k \in DOMAIN cache THEN RemoveAt(order, Position(k)) ELSE order)

\* Mutant: the evicted key stays in the list.
PutKeepingOrder(k, v) ==
  LET moved  == MovedToFront(k)
      stored == [x \in DOMAIN cache \cup {k} |-> IF x = k THEN v ELSE cache[x]]
      full   == Cardinality(DOMAIN stored) > Cap
  IN  /\ order' = moved
      /\ cache' = IF full THEN [x \in DOMAIN stored \ {Last(moved)} |-> stored[x]]
                          ELSE stored

\* put: when the map outgrows the capacity the last key of the list goes.
Put(k, v) ==
  LET moved  == MovedToFront(k)
      stored == [x \in DOMAIN cache \cup {k} |-> IF x = k THEN v ELSE cache[x]]
      full   == Cardinality(DOMAIN stored) > Cap
  IN  /\ order' = IF full THEN Front(moved) ELSE moved
      /\ cache' = IF full THEN [x \in DOMAIN stored \ {Last(moved)} |-> stored[x]]
                          ELSE stored

\* get: a hit moves the key to the front, a miss changes nothing.
Get(k) == /\ order' = IF k \in DOMAIN cache THEN MovedToFront(k) ELSE order
          /\ UNCHANGED cache

Cached(k) == k \in DOMAIN cache

Next == \E k \in Key : Get(k) \/ \E v \in Value : Put(k, v)

Spec == Init /\ [][Next]_vars

-----------------------------------------------------------------------------
(* The list and the map describe the same keys, each listed once, and there *)
(* are never more of them than the capacity: the eviction of cache.cpp:5    *)
(* removes the same key from both.                                          *)
Agreement == /\ \A i, j \in 1..Len(order) : order[i] = order[j] => i = j
             /\ DOMAIN cache = {order[i] : i \in 1..Len(order)}
             /\ Len(order) <= Cap
=============================================================================
