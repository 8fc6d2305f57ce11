----------------------------- MODULE Lightning -----------------------------
(***************************************************************************)
(* Routes over channels, src/src/layer2/lightning.cpp.  A payment follows  *)
(* a shortest route; balances are not looked at and nothing is moved.      *)
(***************************************************************************)
EXTENDS Naturals, Sequences, SequencesExt, FiniteSets

CONSTANTS Party,    \* addresses of nodes
          MaxEdges  \* bound: channels added

VARIABLE graph  \* address -> its neighbours, in the order they were added

Init == graph = [a \in {} |-> a]

Neighbours(a) == IF a \in DOMAIN graph THEN graph[a] ELSE <<>>

RegisterNode(a) ==
  graph' = [x \in DOMAIN graph \cup {a} |-> Neighbours(x)]

\* A channel with oneself enters its address twice.
AddChannel(a, b) ==
  /\ \A x \in DOMAIN graph : Len(graph[x]) < MaxEdges
  /\ graph' = [x \in DOMAIN graph \cup {a, b} |->
       LET one == IF x = a THEN Append(Neighbours(x), b) ELSE Neighbours(x)
       IN  IF x = b THEN Append(one, a) ELSE one]

Pushed(s, nb, cur) ==
  [queue  |-> Append(s.queue, nb),
   parent |-> [a \in DOMAIN s.parent \cup {nb} |-> IF a = nb THEN cur ELSE s.parent[a]]]

\* Mutant: an address that was met before is pushed again.
NoteAgain(s, nb, cur) == Pushed(s, nb, cur)

\* A neighbour of the current address that has no parent yet gets it as parent.
Note(s, nb, cur) == IF nb \in DOMAIN s.parent THEN s ELSE Pushed(s, nb, cur)

\* One round of the loop, which ends at the goal: the head of the queue is taken.
Expand(s, to) ==
  IF s.queue = <<>> \/ Head(s.queue) = to THEN s
  ELSE FoldLeft(LAMBDA t, nb : Note(t, nb, Head(s.queue)),
                [s EXCEPT !.queue = Tail(@)], Neighbours(Head(s.queue)))

\* Every address is expanded at most once.  The payer is its own parent, where
\* the code has the empty string.
Search(from, to) ==
  LET round[n \in Nat] ==
        IF n = 0 THEN [queue |-> <<from>>, parent |-> [a \in {from} |-> a]]
        ELSE Expand(round[n-1], to)
  IN  round[Cardinality(Party)].parent

\* From the payee to its parent, and on to the payer.
Back(hops, from, parent) ==
  IF Head(hops) = from THEN hops ELSE Cons(parent[Head(hops)], hops)

FindRoute(from, to) ==
  LET parent == Search(from, to)
      back[n \in Nat] == IF n = 0 THEN <<to>> ELSE Back(back[n-1], from, parent)
  IN  IF to \in DOMAIN parent THEN back[Cardinality(Party)] ELSE <<>>

Next == \/ \E a \in Party : RegisterNode(a)
        \/ \E a, b \in Party : AddChannel(a, b)

Spec == Init /\ [][Next]_graph

-----------------------------------------------------------------------------
Linked(a, b) == b \in ToSet(Neighbours(a))

\* The addresses in near, and those with a channel to one of them.
Around(near) == near \cup UNION {ToSet(Neighbours(x)) : x \in near}

\* The addresses within n channels of a.
Within(a, n) ==
  LET reach[k \in Nat] == IF k = 0 THEN {a} ELSE Around(reach[k-1])
  IN  reach[n]

(* A route is found exactly when there is one; it leads from the payer to   *)
(* the payee over channels, and none is shorter (lightning.cpp:18-44).      *)
RouteShortest ==
  \A from, to \in Party :
    LET route == FindRoute(from, to)
    IN  IF to \notin Within(from, Cardinality(Party)) THEN route = <<>>
        ELSE /\ route # <<>> /\ Head(route) = from /\ Last(route) = to
             /\ \A i \in 1..Len(route)-1 : Linked(route[i], route[i+1])
             /\ \A n \in 0..Len(route)-2 : to \notin Within(from, n)
=============================================================================
