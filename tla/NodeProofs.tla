----------------------------- MODULE NodeProofs -----------------------------
(***************************************************************************)
(* Proofs about the P2P node: for any addresses and any number of          *)
(* connections its threads keep the lock discipline, no reader's entry     *)
(* goes away under it, no socket is lost unless addPeer overwrites its     *)
(* entry, every peer a running node connected is read, and stop() leaves   *)
(* no thread that adds one.  The invariant adds to these what each thread  *)
(* knows between two critical sections.                                    *)
(***************************************************************************)
EXTENDS Node, FiniteSetTheorems, TLAPS

Setting == {"add", "greet", "spawn"}

MainLabels == {"idle", "count", "check", "dial", "closing", "joining", "clear"}
                \cup Setting

AccepterLabels == {"none", "loop", "call", "accept", "done"} \cup Setting

ReaderLabels == {"none", "begin", "done"} \cup Handling

Labels == MainLabels \cup AccepterLabels \cup ReaderLabels

StopLabels == {"closing", "joining", "clear"}

-----------------------------------------------------------------------------
(* The invariant *)

(* The values of the variables.                                            *)
Typed ==
  /\ running \in BOOLEAN /\ listening \in BOOLEAN
  /\ listenFd \in -1..MaxSockets + 1
  /\ owner \in Readers \cup {Nobody} /\ target \in Outbound \cup {Nobody}
  /\ sockets \in Seq(Socket) /\ Len(sockets) <= MaxSockets
  /\ peers \in [DOMAIN peers -> [fd : DOMAIN sockets, active : BOOLEAN]]
  /\ conn \in [Starters -> Nat]
  /\ pc \in [Threads -> Labels]
  /\ pc[Main] \in MainLabels /\ pc[Accepter] \in AccepterLabels
  /\ \A h \in Readers : pc[h] \in ReaderLabels

(* A reader holds the mutex exactly while it is in handlePeer, and its peer *)
(* is then in the map.                                                      *)
Locked == \A h \in Readers :
  /\ owner = h <=> pc[h] \in Handling
  /\ pc[h] \in Handling => sockets[h].peer \in DOMAIN peers
  /\ pc[h] # "none" => h \in DOMAIN sockets

(* A thread that sets up a connection has a socket of its own, which no     *)
(* reader has been started for.                                             *)
Conns ==
  /\ \A t \in Starters : pc[t] \in Setting =>
       conn[t] \in DOMAIN sockets /\ pc[conn[t]] = "none"
  /\ \A t \in Starters : pc[t] \notin Setting => conn[t] = 0
  /\ pc[Main] \in Setting =>
       sockets[conn[Main]].outbound /\ sockets[conn[Main]].ran = running
  /\ pc[Main] \in {"check", "dial"} => target \in Outbound
  /\ conn[Main] # conn[Accepter] \/ conn[Main] = 0

(* An entry's socket is of the entry's peer, and only stop() closed it.     *)
Entries == \A i \in DOMAIN peers :
  /\ sockets[peers[i].fd].peer = i
  /\ sockets[peers[i].fd].fd \in {"open", "struck"}

(* A socket about to be entered is in no entry yet.                         *)
Adding == \A t \in Starters : pc[t] = "add" =>
  /\ sockets[conn[t]].fd \in {"open", "struck"}
  /\ \A i \in DOMAIN peers : peers[i].fd # conn[t]

(* Where the sockets are that are open, or that stop() closed in place of   *)
(* the listener; those it erases before it returns.                         *)
Tracked == \A f \in DOMAIN sockets : sockets[f].fd \in {"open", "struck"} =>
  /\ \/ \E i \in DOMAIN peers : peers[i].fd = f
     \/ \E t \in Starters : pc[t] = "add" /\ conn[t] = f
  /\ sockets[f].fd = "struck" => pc[Main] \in {"joining", "clear"}

(* Only a reader that is about to remove a peer has made it inactive.       *)
Activity == \A i \in DOMAIN peers : ~peers[i].active =>
  \E h \in Readers : pc[h] = "remove" /\ sockets[h].peer = i

(* The flag, the accept thread and the map along stop().                    *)
Stopping ==
  /\ running => listening
  /\ pc[Main] \in StopLabels => ~running
  /\ pc[Main] = "clear" => pc[Accepter] = "done"
  /\ ~running /\ pc[Main] \notin StopLabels =>
       /\ pc[Accepter] \in {"none", "done"}
       /\ \A h \in Readers : pc[h] \in Handling => pc[h] = "loop"
       /\ \A i \in DOMAIN peers :
            sockets[peers[i].fd].outbound /\ ~sockets[peers[i].fd].ran

(* PeersServed, by the sockets.                                             *)
Serving == running => \A i \in DOMAIN peers : sockets[peers[i].fd].ran =>
  \/ \E t \in Starters : pc[t] \in {"greet", "spawn"} /\ sockets[conn[t]].peer = i
  \/ \E h \in Readers : sockets[h].peer = i /\ pc[h] \in {"begin"} \cup Handling

NInv == /\ Typed /\ Locked /\ Conns /\ Entries /\ Adding /\ Tracked /\ Activity
        /\ Stopping /\ Serving

-----------------------------------------------------------------------------
(* The threads *)

(* Main, Accepter and Nobody are three, and none of them names a socket.    *)
LEMMA Names == /\ Main # Accepter /\ Main # Nobody /\ Accepter # Nobody
               /\ Main \notin Readers /\ Accepter \notin Readers
               /\ Nobody \notin Readers
<1>1. ASSUME NEW a, NEW b PROVE Cardinality({a, b}) # 3
  <2>1. Cardinality({a}) = 1 /\ IsFiniteSet({a})
    BY FS_Singleton
  <2>2. Cardinality({a} \cup {b}) = IF b \in {a} THEN 1 ELSE 2
    BY <2>1, FS_AddElement
  <2>3. {a, b} = {a} \cup {b}
    OBVIOUS
  <2> QED
    BY <2>2, <2>3
<1>2. ASSUME Main = Accepter PROVE FALSE
  <2>1. {Main, Accepter, Nobody} = {Accepter, Nobody}
    BY <1>2
  <2> QED
    BY <2>1, <1>1, NodeAssumption
<1>3. ASSUME Main = Nobody PROVE FALSE
  <2>1. {Main, Accepter, Nobody} = {Accepter, Nobody}
    BY <1>3
  <2> QED
    BY <2>1, <1>1, NodeAssumption
<1>4. ASSUME Accepter = Nobody PROVE FALSE
  <2>1. {Main, Accepter, Nobody} = {Main, Nobody}
    BY <1>4
  <2> QED
    BY <2>1, <1>1, NodeAssumption
<1>5. Main \notin Readers /\ Accepter \notin Readers /\ Nobody \notin Readers
  BY NodeAssumption DEF Readers
<1> QED
  BY <1>2, <1>3, <1>4, <1>5

(* Every socket of a behaviour may name a reader.                           *)
LEMMA SocketsNamed ==
  ASSUME Typed
  PROVE  /\ DOMAIN sockets = 1..Len(sockets) /\ Len(sockets) \in Nat
         /\ DOMAIN sockets \subseteq Readers
BY NodeAssumption DEF Typed, Readers

(* A sequence of connections that differ in what became of them.            *)
LEMMA SocketsReplaced ==
  ASSUME NEW s \in Seq(Socket), NEW t, t = [f \in DOMAIN s |-> t[f]],
         \A f \in DOMAIN s : t[f] \in Socket
  PROVE  t \in Seq(Socket) /\ Len(t) = Len(s) /\ DOMAIN t = DOMAIN s
<1>1. DOMAIN s = 1..Len(s) /\ Len(s) \in Nat
  OBVIOUS
<1>2. t \in [1..Len(s) -> Socket]
  BY <1>1
<1> QED
  BY <1>1, <1>2

(* A reader waits for the mutex for ever once it would lock it again.       *)
LEMMA ReadersHold ==
  ASSUME Typed, Locked, NEW h \in Readers
  PROVE  ~Locks(h)
BY Names DEF Typed, Locked, Locks, AddPeer, SendToPeer, ReadPeers, ErasePeers, Free,
             Handling, ReaderLabels

-----------------------------------------------------------------------------
(* Steps that only move one thread *)

(* A main thread that goes on to where it needs nothing it does not have.   *)
LEMMA MainMoves ==
  ASSUME NInv, NEW l, Goto(Main, l), target' \in Outbound \cup {Nobody},
         UNCHANGED <<running, listening, listenFd, owner, peers, sockets, conn>>,
         \/ pc[Main] = "greet" /\ l = "spawn"
         \/ pc[Main] \in {"count", "check", "dial"} /\ l = "idle"
         \/ pc[Main] = "idle" /\ l = "count"
         \/ pc[Main] \in {"idle", "check"} /\ l \in {"check", "dial"}
              /\ target' \in Outbound
         \/ pc[Main] = "joining" /\ l = "clear" /\ pc[Accepter] = "done"
  PROVE  NInv'
<1> USE Names
<1>1. /\ pc'[Main] = l /\ pc' \in [Threads -> Labels]
      /\ \A t \in Threads : t # Main => pc'[t] = pc[t]
  BY DEF NInv, Typed, Goto, Labels, MainLabels, Setting, Threads, Starters
<1>2. Typed'
  BY <1>1 DEF NInv, Typed, MainLabels, Setting, Threads, Starters
<1>3. Locked'
  BY <1>1 DEF NInv, Locked, Threads
<1>4. Conns'
  BY <1>1, SocketsNamed DEF NInv, Conns, Threads, Starters, Setting
<1>5. Entries' /\ Adding' /\ Activity'
  BY <1>1 DEF NInv, Entries, Adding, Activity, Threads, Starters
<1>6. Stopping'
  BY <1>1 DEF NInv, Stopping, StopLabels, Threads, Starters, Setting
<1>7. Serving'
  BY <1>1 DEF NInv, Serving, Threads, Starters
<1>8. Tracked'
  BY <1>1 DEF NInv, Tracked, Threads, Starters
<1> QED
  BY <1>2, <1>3, <1>4, <1>5, <1>6, <1>7, <1>8 DEF NInv

(* The accept thread between two connections.                              *)
LEMMA AccepterMoves ==
  ASSUME NInv, NEW l, Goto(Accepter, l),
         UNCHANGED <<running, listening, listenFd, owner, peers, sockets, conn, target>>,
         \/ pc[Accepter] = "greet" /\ l = "spawn"
         \/ pc[Accepter] = "loop" /\ l \in {"call", "done"}
         \/ pc[Accepter] = "call" /\ l \in {"accept", "loop"}
         \/ pc[Accepter] = "accept" /\ l = "loop"
  PROVE  NInv'
<1> USE Names
<1>1. /\ pc'[Accepter] = l /\ pc' \in [Threads -> Labels]
      /\ \A t \in Threads : t # Accepter => pc'[t] = pc[t]
  BY DEF NInv, Typed, Goto, Labels, AccepterLabels, Setting, Threads, Starters
<1>2. Typed'
  BY <1>1 DEF NInv, Typed, AccepterLabels, Setting, Threads, Starters
<1>3. Locked'
  BY <1>1 DEF NInv, Locked, Threads
<1>4. Conns'
  BY <1>1, SocketsNamed DEF NInv, Conns, Threads, Starters, Setting
<1>5. Entries' /\ Adding' /\ Activity'
  BY <1>1 DEF NInv, Entries, Adding, Activity, Threads, Starters
<1>6. Stopping'
  BY <1>1 DEF NInv, Stopping, StopLabels, Threads, Starters, Setting
<1>7. Serving'
  BY <1>1 DEF NInv, Serving, Threads, Starters
<1>8. Tracked'
  BY <1>1 DEF NInv, Tracked, Threads, Starters
<1> QED
  BY <1>2, <1>3, <1>4, <1>5, <1>6, <1>7, <1>8 DEF NInv

(* A reader that stays in handlePeer.                                      *)
LEMMA ReaderMoves ==
  ASSUME NInv, NEW h \in Readers, NEW l \in Handling \ {"remove"}, Goto(h, l),
         UNCHANGED <<running, listening, listenFd, owner, peers, sockets, conn, target>>,
         pc[h] \in Handling, pc[h] # "remove", pc[h] = "loop" => running
  PROVE  NInv'
<1> USE Names
<1>1. /\ pc'[h] = l /\ pc' \in [Threads -> Labels]
      /\ \A t \in Threads : t # h => pc'[t] = pc[t]
      /\ pc'[Main] = pc[Main] /\ pc'[Accepter] = pc[Accepter]
  BY DEF NInv, Typed, Goto, Labels, ReaderLabels, Handling, Threads, Starters
<1>2. Typed'
  BY <1>1 DEF NInv, Typed, ReaderLabels, Threads, Starters
<1>3. Locked'
  BY <1>1 DEF NInv, Locked, Threads, Handling
<1>4. Conns'
  BY <1>1, SocketsNamed DEF NInv, Conns, Threads, Starters, Handling
<1>5. Entries' /\ Adding' /\ Activity'
  BY <1>1 DEF NInv, Entries, Adding, Activity, Threads, Starters
<1>6. Stopping'
  BY <1>1 DEF NInv, Stopping, StopLabels, Threads
<1>7. Serving'
  BY <1>1 DEF NInv, Serving, Threads, Starters
<1>8. Tracked'
  BY <1>1 DEF NInv, Tracked, Threads, Starters
<1> QED
  BY <1>2, <1>3, <1>4, <1>5, <1>6, <1>7, <1>8 DEF NInv

-----------------------------------------------------------------------------
(* The readers *)

(* A reader that has not found its peer yet makes nothing inactive.         *)
LEMMA BeginKeeps ==
  ASSUME NInv, NEW h \in Readers, Begin(h)
  PROVE  NInv'
<1> USE Names
<1>0. PeerOf(h) = sockets[h].peer
  BY DEF PeerOf, Starters
<1> DEFINE l == IF sockets[h].peer \in DOMAIN peers THEN "loop" ELSE "done"
<1>1. /\ pc[h] = "begin" /\ pc'[h] = l /\ pc' \in [Threads -> Labels]
      /\ \A t \in Threads : t # h => pc'[t] = pc[t]
      /\ pc'[Main] = pc[Main] /\ pc'[Accepter] = pc[Accepter]
  BY <1>0 DEF NInv, Typed, Begin, Goto, Labels, ReaderLabels, Handling, Threads, Starters
<1>2. /\ owner = Nobody /\ UNCHANGED <<running, listening, listenFd, peers, sockets, conn, target>>
      /\ owner' = IF sockets[h].peer \in DOMAIN peers THEN h ELSE Nobody
  BY <1>0 DEF Begin, Free
<1>3. Typed'
  BY <1>1, <1>2 DEF NInv, Typed, ReaderLabels, Handling, Threads, Starters
<1>4. Locked'
  BY <1>1, <1>2 DEF NInv, Locked, Threads, Handling
<1>5. Conns'
  BY <1>1, <1>2, SocketsNamed DEF NInv, Conns, Threads, Starters
<1>6. Entries' /\ Adding' /\ Activity'
  BY <1>1, <1>2 DEF NInv, Entries, Adding, Activity, Threads, Starters
<1>7. Stopping'
  BY <1>1, <1>2 DEF NInv, Stopping, StopLabels, Threads, Handling
<1>8. Serving'
  BY <1>1, <1>2 DEF NInv, Serving, Threads, Starters, Handling
<1>9. Tracked'
  BY <1>1, <1>2 DEF NInv, Tracked, Threads, Starters
<1> QED
  BY <1>3, <1>4, <1>5, <1>6, <1>7, <1>8, <1>9 DEF NInv

(* Only the holder of the mutex makes a peer inactive, and it is past the   *)
(* loop then: a reader only leaves the loop of a node that stops.           *)
LEMMA HandlerLoopKeeps ==
  ASSUME NInv, NEW h \in Readers, HandlerLoop(h)
  PROVE  NInv'
<1> USE Names
<1>1. PeerOf(h) = sockets[h].peer /\ pc[h] = "loop"
  BY DEF PeerOf, Starters, HandlerLoop
<1>2. sockets[h].peer \in DOMAIN peers /\ owner = h
  BY <1>1 DEF NInv, Locked, Handling
<1>3. peers[sockets[h].peer].active
  BY <1>1, <1>2 DEF NInv, Activity, Locked, Handling, Typed
<1>4. CASE running
  <2>1. /\ Goto(h, "recv")
        /\ UNCHANGED <<running, listening, listenFd, owner, peers, sockets, conn, target>>
    BY <1>1, <1>3, <1>4 DEF HandlerLoop
  <2> QED
    BY <1>1, <1>4, <2>1, ReaderMoves DEF Handling
<1>5. CASE ~running
  <2>1. /\ pc'[h] = "done" /\ pc' \in [Threads -> Labels]
        /\ \A t \in Threads : t # h => pc'[t] = pc[t]
        /\ pc'[Main] = pc[Main] /\ pc'[Accepter] = pc[Accepter]
    BY <1>5 DEF NInv, Typed, HandlerLoop, Goto, Labels, ReaderLabels, Handling, Threads,
                Starters
  <2>2. owner' = Nobody /\ UNCHANGED <<running, listening, listenFd, peers, sockets, conn, target>>
    BY <1>5 DEF HandlerLoop
  <2>3. Typed'
    BY <2>1, <2>2 DEF NInv, Typed, ReaderLabels, Threads, Starters
  <2>4. Locked'
    BY <1>1, <1>2, <2>1, <2>2 DEF NInv, Locked, Threads, Handling
  <2>5. Conns'
    BY <1>1, <2>1, <2>2, SocketsNamed DEF NInv, Conns, Threads, Starters
  <2>6. Entries' /\ Adding' /\ Activity'
    BY <1>1, <2>1, <2>2 DEF NInv, Entries, Adding, Activity, Threads, Starters
  <2>7. Stopping' /\ Serving'
    BY <1>5, <2>1, <2>2 DEF NInv, Stopping, StopLabels, Serving, Threads, Handling
  <2>8. Tracked'
    BY <2>1, <2>2 DEF NInv, Tracked, Threads, Starters
  <2> QED
    BY <2>3, <2>4, <2>5, <2>6, <2>7, <2>8 DEF NInv
<1> QED
  BY <1>4, <1>5 DEF NInv, Typed

(* The entry a reader makes inactive is the one it goes on to remove.       *)
LEMMA DisconnectKeeps ==
  ASSUME NInv, NEW h \in Readers, Disconnect(h)
  PROVE  NInv'
<1> USE Names
<1>0. PeerOf(h) = sockets[h].peer /\ pc[h] = "recv"
  BY DEF PeerOf, Starters, Disconnect
<1>1. /\ pc'[h] = "remove" /\ pc' \in [Threads -> Labels]
      /\ \A t \in Threads : t # h => pc'[t] = pc[t]
      /\ pc'[Main] = pc[Main] /\ pc'[Accepter] = pc[Accepter]
  BY DEF NInv, Typed, Disconnect, Goto, Labels, ReaderLabels, Handling, Threads, Starters
<1>2. UNCHANGED <<running, listening, listenFd, owner, sockets, conn, target>>
  BY DEF Disconnect
<1>3. /\ DOMAIN peers' = DOMAIN peers
      /\ peers' \in [DOMAIN peers' -> [fd : DOMAIN sockets, active : BOOLEAN]]
      /\ \A i \in DOMAIN peers : /\ peers'[i].fd = peers[i].fd
                                 /\ i # sockets[h].peer => peers'[i] = peers[i]
  BY <1>0 DEF Disconnect, NInv, Typed
<1>4. Typed'
  BY <1>1, <1>2, <1>3 DEF NInv, Typed, ReaderLabels, Handling, Threads, Starters
<1>5. Locked'
  BY <1>0, <1>1, <1>2, <1>3 DEF NInv, Locked, Threads, Handling
<1>6. Conns'
  BY <1>0, <1>1, <1>2, SocketsNamed DEF NInv, Conns, Threads, Starters
<1>7. Entries' /\ Adding'
  BY <1>1, <1>2, <1>3 DEF NInv, Entries, Adding, Threads, Starters
<1>8. Activity'
  BY <1>0, <1>1, <1>2, <1>3 DEF NInv, Activity, Threads
<1>9. Stopping'
  BY <1>0, <1>1, <1>2, <1>3 DEF NInv, Stopping, StopLabels, Threads, Handling
<1>10. Serving'
  BY <1>0, <1>1, <1>2, <1>3 DEF NInv, Serving, Threads, Starters, Handling
<1>11. Tracked'
  BY <1>1, <1>2, <1>3 DEF NInv, Tracked, Threads, Starters
<1> QED
  BY <1>4, <1>5, <1>6, <1>7, <1>8, <1>9, <1>10, <1>11 DEF NInv

-----------------------------------------------------------------------------
(* The threads that set up connections *)

(* A new socket is younger than every other, and nobody's yet.              *)
LEMMA NewSocketKeeps ==
  ASSUME NInv, NEW t \in Starters, NEW r \in Inbound \cup Outbound, NewSocket(t, r),
         UNCHANGED <<running, listening, listenFd, owner, peers>>,
         target' \in Outbound \cup {Nobody}, t = Accepter => target' = target,
         IF t = Main THEN pc[t] = "dial" ELSE pc[t] = "accept"
  PROVE  NInv'
<1> USE Names
<1> DEFINE n == Len(sockets) + 1
<1>1. /\ DOMAIN sockets = 1..Len(sockets) /\ Len(sockets) \in Nat
      /\ n \in Readers /\ n \notin DOMAIN sockets
  BY NodeAssumption DEF NewSocket, NInv, Typed, Readers
<1>2. pc[n] = "none"
  BY <1>1 DEF NInv, Locked
<1>3. /\ sockets' \in Seq(Socket) /\ Len(sockets') = n /\ DOMAIN sockets' = 1..n
      /\ \A f \in DOMAIN sockets : sockets'[f] = sockets[f]
      /\ sockets'[n].peer = r /\ sockets'[n].outbound = (t = Main)
      /\ sockets'[n].ran = running /\ sockets'[n].fd = "open"
  BY <1>1 DEF NewSocket, NInv, Typed, Socket
<1>4. /\ pc'[t] = "add" /\ pc' \in [Threads -> Labels]
      /\ \A u \in Threads : u # t => pc'[u] = pc[u]
  BY DEF NInv, Typed, NewSocket, Goto, Labels, MainLabels, Setting, Threads, Starters
<1>5. /\ conn' \in [Starters -> Nat] /\ conn'[t] = n
      /\ \A u \in Starters : u # t => conn'[u] = conn[u]
  BY <1>1 DEF NInv, Typed, NewSocket
<1>6. DOMAIN sockets \subseteq DOMAIN sockets' /\ n \in DOMAIN sockets'
  BY <1>1, <1>3
<1> HIDE DEF n
<1>7. Typed'
  <2>1. peers' \in [DOMAIN peers' -> [fd : DOMAIN sockets', active : BOOLEAN]]
    BY <1>6 DEF NInv, Typed
  <2>2. pc'[Main] \in MainLabels /\ pc'[Accepter] \in AccepterLabels
    BY <1>4 DEF NInv, Typed, MainLabels, AccepterLabels, Setting, Threads, Starters
  <2>3. \A h \in Readers : pc'[h] \in ReaderLabels
    BY <1>4 DEF NInv, Typed, Threads, Starters
  <2>4. Len(sockets') <= MaxSockets
    BY <1>1, <1>3, NodeAssumption DEF Readers
  <2> QED
    BY <1>3, <1>4, <1>5, <2>1, <2>2, <2>3, <2>4 DEF NInv, Typed
<1>8. Locked'
  BY <1>3, <1>4, <1>6 DEF NInv, Locked, Threads, Starters, Handling
<1>9. Conns'
  <2>1. \A u \in Starters : u # t /\ pc[u] \in Setting =>
          conn[u] \in DOMAIN sockets /\ conn[u] # n /\ conn[u] \in Readers
    BY <1>1, SocketsNamed DEF NInv, Conns
  <2>2. n \in Threads /\ n # t /\ n # 0 /\ n \notin Starters
    BY <1>1 DEF Threads, Starters, n
  <2>3. \A u \in Starters : pc'[u] \in Setting =>
          conn'[u] \in DOMAIN sockets' /\ pc'[conn'[u]] = "none"
    BY <1>2, <1>3, <1>4, <1>5, <1>6, <2>1, <2>2 DEF NInv, Conns, Threads, Starters
  <2>4. \A u \in Starters : pc'[u] \notin Setting => conn'[u] = 0
    BY <1>4, <1>5 DEF NInv, Conns, Threads, Setting
  <2>5. pc'[Main] \in {"check", "dial"} => target' \in Outbound
    BY <1>4 DEF NInv, Conns, Threads, Starters
  <2>7. pc'[Main] \in Setting =>
          sockets'[conn'[Main]].outbound /\ sockets'[conn'[Main]].ran = running'
    BY <1>3, <1>4, <1>5, <2>1 DEF NInv, Conns, Threads, Starters
  <2>6. \A u \in Starters : u # t => conn'[u] # n
    <3> TAKE u \in Starters
    <3>1. CASE pc[u] \in Setting
      BY <3>1, <1>5, <2>1
    <3>2. CASE pc[u] \notin Setting
      BY <3>2, <1>5, <2>2 DEF NInv, Conns
    <3> QED
      BY <3>1, <3>2
  <2> QED
    BY <1>5, <2>3, <2>4, <2>5, <2>6, <2>7 DEF Conns, Starters
<1>10. Entries'
  BY <1>3 DEF NInv, Entries, Typed
<1>11. Adding'
  <2>1. \A i \in DOMAIN peers : peers[i].fd \in DOMAIN sockets /\ peers[i].fd < n
    BY <1>1 DEF NInv, Typed, n
  <2>2. \A u \in Starters : u # t /\ pc[u] = "add" =>
          conn[u] \in DOMAIN sockets /\ sockets'[conn[u]] = sockets[conn[u]]
    BY <1>3 DEF NInv, Conns, Setting
  <2>3. \A i \in DOMAIN peers : peers[i].fd # n
    BY <1>1, <2>1
  <2> QED
    BY <1>3, <1>4, <1>5, <2>1, <2>2, <2>3 DEF NInv, Adding, Threads, Starters
<1>12. Activity'
  BY <1>3, <1>4 DEF NInv, Activity, Locked, Threads, Starters
<1>13. Stopping'
  BY <1>3, <1>4 DEF NInv, Typed, Stopping, StopLabels, Threads, Starters, Setting
<1>14. Serving'
  <2>1. \A u \in Starters : pc[u] \in {"greet", "spawn"} =>
          /\ pc'[u] = pc[u] /\ conn'[u] = conn[u]
          /\ sockets'[conn[u]] = sockets[conn[u]]
    BY <1>3, <1>4, <1>5 DEF NInv, Conns, Setting, Threads, Starters
  <2>2. \A h \in Readers : pc[h] # "none" =>
          pc'[h] = pc[h] /\ sockets'[h] = sockets[h]
    BY <1>3, <1>4 DEF NInv, Locked, Threads, Starters
  <2>3. \A i \in DOMAIN peers : sockets'[peers[i].fd] = sockets[peers[i].fd]
    BY <1>3 DEF NInv, Typed
  <2> QED
    BY <2>1, <2>2, <2>3 DEF NInv, Serving, Handling
<1>15. Tracked'
  <2>1. \A u \in Starters : pc[u] = "add" => u # t
    BY DEF Starters
  <2>2. \A f \in DOMAIN sockets' : f = n \/ f \in DOMAIN sockets
    BY <1>1, <1>3 DEF n
  <2>3. \A u \in Starters : pc[u] = "add" => pc'[u] = "add" /\ conn'[u] = conn[u]
    BY <1>4, <1>5, <2>1 DEF Threads
  <2>4. pc[Main] \in {"joining", "clear"} => pc'[Main] = pc[Main]
    BY <1>4 DEF Threads, Starters
  <2>5. \E u \in Starters : pc'[u] = "add" /\ conn'[u] = n
    BY <1>4, <1>5
  <2> QED
    BY <1>3, <2>2, <2>3, <2>4, <2>5 DEF NInv, Tracked
<1> QED
  BY <1>7, <1>8, <1>9, <1>10, <1>11, <1>12, <1>13, <1>14, <1>15 DEF NInv

(* The new entry may take the place of another socket of the same peer.     *)
LEMMA AddPeerKeeps ==
  ASSUME NInv, NEW t \in Starters, AddPeer(t)
  PROVE  NInv'
<1> USE Names
<1> DEFINE c == conn[t]
           p == sockets[c].peer
           Old(f) == p \in DOMAIN peers /\ peers[p].fd = f
<1>1. pc[t] = "add" /\ PeerOf(t) = p /\ owner = Nobody
  BY DEF AddPeer, PeerOf, Free
<1>2. /\ c \in DOMAIN sockets /\ pc[c] = "none" /\ sockets[c].fd \in {"open", "struck"}
      /\ \A i \in DOMAIN peers : peers[i].fd # c
  BY <1>1 DEF NInv, Conns, Adding, Setting
<1>3. /\ pc'[t] = "greet" /\ pc' \in [Threads -> Labels]
      /\ \A u \in Threads : u # t => pc'[u] = pc[u]
  BY DEF NInv, Typed, AddPeer, Goto, Labels, MainLabels, Setting, Threads, Starters
<1>4. UNCHANGED <<running, listening, listenFd, owner, conn, target>>
  BY DEF AddPeer
<1>5. /\ DOMAIN peers' = DOMAIN peers \cup {p}
      /\ peers'[p] = [fd |-> c, active |-> TRUE]
      /\ \A i \in DOMAIN peers : i # p => peers'[i] = peers[i]
      /\ peers' = [i \in DOMAIN peers \cup {p} |-> peers'[i]]
  BY <1>1 DEF AddPeer
<1>6. \A u \in Starters : u # t /\ pc[u] \in Setting => conn[u] # c
  BY <1>1, <1>2, SocketsNamed DEF NInv, Conns, Starters, Setting
<1>7. /\ sockets' \in Seq(Socket) /\ Len(sockets') = Len(sockets)
      /\ DOMAIN sockets' = DOMAIN sockets
      /\ \A f \in DOMAIN sockets :
           /\ sockets'[f].peer = sockets[f].peer
           /\ sockets'[f].outbound = sockets[f].outbound
           /\ sockets'[f].ran = sockets[f].ran
           /\ sockets'[f].fd = IF Old(f) THEN "replaced" ELSE sockets[f].fd
  <2>1. sockets' = [f \in DOMAIN sockets |->
                      IF Old(f) THEN [sockets[f] EXCEPT !.fd = "replaced"] ELSE sockets[f]]
    BY <1>1 DEF AddPeer
  <2>2. \A f \in DOMAIN sockets :
          /\ sockets'[f] \in Socket
          /\ sockets'[f].peer = sockets[f].peer
          /\ sockets'[f].outbound = sockets[f].outbound
          /\ sockets'[f].ran = sockets[f].ran
          /\ sockets'[f].fd = IF Old(f) THEN "replaced" ELSE sockets[f].fd
    <3> TAKE f \in DOMAIN sockets
    <3>1. sockets[f] \in Socket
      BY DEF NInv, Typed
    <3> HIDE DEF Old
    <3>2. CASE Old(f)
      BY <2>1, <3>1, <3>2 DEF Socket
    <3>3. CASE ~Old(f)
      BY <2>1, <3>1, <3>3
    <3> QED
      BY <3>2, <3>3
  <2> HIDE DEF Old
  <2> QED
    BY <2>1, <2>2, SocketsReplaced DEF NInv, Typed
<1>8. ~Old(c) /\ \A i \in DOMAIN peers : i # p => ~Old(peers[i].fd)
  BY <1>2 DEF NInv, Entries
<1>9. \A u \in Starters : u # t /\ pc[u] = "add" => ~Old(conn[u])
  BY DEF NInv, Adding
<1> HIDE DEF c, p, Old
<1>10. Typed'
  <2>1. peers' \in [DOMAIN peers' -> [fd : DOMAIN sockets', active : BOOLEAN]]
    <3>1. \A i \in DOMAIN peers' : peers'[i] \in [fd : DOMAIN sockets', active : BOOLEAN]
      <4> TAKE i \in DOMAIN peers'
      <4>1. CASE i = p
        BY <4>1, <1>2, <1>5, <1>7
      <4>2. CASE i # p
        BY <4>2, <1>5, <1>7 DEF NInv, Typed
      <4> QED
        BY <4>1, <4>2
    <3>2. peers' = [i \in DOMAIN peers' |-> peers'[i]]
      BY <1>5
    <3> QED
      BY <3>1, <3>2
  <2>2. pc'[Main] \in MainLabels /\ pc'[Accepter] \in AccepterLabels
    BY <1>3 DEF NInv, Typed, MainLabels, AccepterLabels, Setting, Threads, Starters
  <2>3. \A h \in Readers : pc'[h] \in ReaderLabels
    BY <1>3 DEF NInv, Typed, Threads, Starters
  <2> QED
    BY <1>3, <1>4, <1>7, <2>1, <2>2, <2>3 DEF NInv, Typed
<1>11. Locked'
  BY <1>3, <1>4, <1>5, <1>7 DEF NInv, Locked, Threads, Starters, Handling
<1>12. Conns'
  BY <1>1, <1>3, <1>4, <1>7, SocketsNamed DEF NInv, Conns, Threads, Starters, Setting
<1>13. Entries'
  <2> SUFFICES ASSUME NEW i \in DOMAIN peers'
               PROVE  /\ sockets'[peers'[i].fd].peer = i
                      /\ sockets'[peers'[i].fd].fd \in {"open", "struck"}
    BY DEF Entries
  <2>1. CASE i = p
    BY <2>1, <1>2, <1>5, <1>7, <1>8 DEF p
  <2>2. CASE i # p
    <3>1. i \in DOMAIN peers /\ peers'[i] = peers[i] /\ peers[i].fd \in DOMAIN sockets
      BY <2>2, <1>5 DEF NInv, Typed
    <3> QED
      BY <2>2, <3>1, <1>7, <1>8 DEF NInv, Entries
  <2> QED
    BY <2>1, <2>2
<1>14. Adding'
  <2> SUFFICES ASSUME NEW u \in Starters, pc'[u] = "add"
               PROVE  /\ sockets'[conn[u]].fd \in {"open", "struck"}
                      /\ \A i \in DOMAIN peers' : peers'[i].fd # conn[u]
    BY <1>4 DEF Adding
  <2>1. u # t /\ pc[u] = "add"
    BY <1>3 DEF Threads
  <2>2. conn[u] # c /\ conn[u] \in DOMAIN sockets
    BY <1>6, <2>1 DEF NInv, Conns, Setting
  <2> QED
    BY <1>5, <1>7, <1>9, <2>1, <2>2 DEF NInv, Adding
<1>15. Tracked'
  <2> SUFFICES ASSUME NEW f \in DOMAIN sockets, sockets'[f].fd \in {"open", "struck"}
               PROVE  /\ \/ \E i \in DOMAIN peers' : peers'[i].fd = f
                         \/ \E u \in Starters : pc'[u] = "add" /\ conn[u] = f
                      /\ sockets'[f].fd = "struck" => pc'[Main] \in {"joining", "clear"}
    BY <1>4, <1>7 DEF Tracked
  <2>1. ~Old(f) /\ sockets'[f].fd = sockets[f].fd
    BY <1>7
  <2>2. sockets[f].fd = "struck" => pc'[Main] \in {"joining", "clear"}
    <3>1. sockets[f].fd = "struck" => pc[Main] \in {"joining", "clear"}
      BY DEF NInv, Tracked
    <3> QED
      BY <1>1, <1>3, <3>1 DEF Threads, Starters
  <2>3. CASE f = c
    BY <1>5, <2>1, <2>2, <2>3
  <2>4. CASE f # c /\ \E i \in DOMAIN peers : peers[i].fd = f
    <3>1. PICK i \in DOMAIN peers : peers[i].fd = f
      BY <2>4
    <3>2. i # p
      BY <2>1, <3>1 DEF Old
    <3> QED
      BY <1>5, <2>1, <2>2, <3>1, <3>2
  <2>5. CASE f # c /\ \E u \in Starters : pc[u] = "add" /\ conn[u] = f
    BY <1>3, <2>1, <2>2, <2>5 DEF c, Threads
  <2> QED
    BY <2>1, <2>3, <2>4, <2>5 DEF NInv, Tracked
<1>16. Activity'
  BY <1>3, <1>4, <1>5, <1>7, SocketsNamed DEF NInv, Activity, Locked, Threads, Starters
<1>17. Stopping'
  <2>1. ASSUME ~running, pc'[Main] \notin StopLabels
        PROVE  t = Main /\ pc[Main] \notin StopLabels
    <3>1. pc[Main] \notin StopLabels
      BY <1>1, <1>3, <2>1 DEF Threads, Starters, StopLabels
    <3> QED
      BY <1>1, <2>1, <3>1 DEF NInv, Stopping, Starters
  <2>2. ASSUME ~running, pc'[Main] \notin StopLabels, NEW i \in DOMAIN peers'
        PROVE  sockets'[peers'[i].fd].outbound /\ ~sockets'[peers'[i].fd].ran
    <3>1. CASE i = p
      BY <1>1, <1>2, <1>5, <1>7, <2>1, <2>2, <3>1 DEF NInv, Conns, Setting, c
    <3>2. CASE i # p
      <4>1. i \in DOMAIN peers /\ peers'[i] = peers[i] /\ peers[i].fd \in DOMAIN sockets
        BY <3>2, <1>5 DEF NInv, Typed
      <4> QED
        BY <1>7, <2>1, <2>2, <4>1 DEF NInv, Stopping
    <3> QED
      BY <3>1, <3>2
  <2>3. ASSUME ~running, pc'[Main] \notin StopLabels
        PROVE  /\ pc'[Accepter] \in {"none", "done"}
               /\ \A h \in Readers : pc'[h] \in Handling => pc'[h] = "loop"
    BY <1>3, <2>1, <2>3 DEF NInv, Stopping, Threads, Starters
  <2> QED
    BY <1>1, <1>3, <1>4, <2>2, <2>3 DEF NInv, Stopping, StopLabels, Threads, Starters
<1>18. Serving'
  <2> SUFFICES ASSUME running, NEW i \in DOMAIN peers', sockets'[peers'[i].fd].ran
               PROVE  \/ \E u \in Starters :
                           pc'[u] \in {"greet", "spawn"} /\ sockets'[conn[u]].peer = i
                      \/ \E h \in Readers : /\ sockets'[h].peer = i
                                            /\ pc'[h] \in {"begin"} \cup Handling
    BY <1>4 DEF Serving
  <2>1. CASE i = p
    BY <1>2, <1>3, <1>7, <2>1 DEF p, c
  <2>2. CASE i # p
    <3>1. i \in DOMAIN peers /\ sockets[peers[i].fd].ran
      BY <1>5, <1>7, <2>2 DEF NInv, Typed
    <3>2. CASE \E u \in Starters : pc[u] \in {"greet", "spawn"} /\ sockets[conn[u]].peer = i
      BY <1>1, <1>3, <1>7, <3>2 DEF NInv, Conns, Setting, Threads
    <3>3. CASE \E h \in Readers : sockets[h].peer = i /\ pc[h] \in {"begin"} \cup Handling
      BY <1>3, <1>7, <3>3 DEF NInv, Locked, Handling, Threads, Starters
    <3> QED
      BY <3>1, <3>2, <3>3 DEF NInv, Serving
  <2> QED
    BY <2>1, <2>2
<1> QED
  BY <1>10, <1>11, <1>12, <1>13, <1>14, <1>15, <1>16, <1>17, <1>18 DEF NInv

(* From here on the reader serves the peer.                                 *)
LEMMA SpawnKeeps ==
  ASSUME NInv, NEW t \in Starters, Spawn(t)
  PROVE  NInv'
<1> USE Names
<1> DEFINE c == conn[t]
<1>1. /\ c \in DOMAIN sockets /\ c \in Readers /\ pc[c] = "none" /\ pc[t] = "spawn"
      /\ c # t
  BY SocketsNamed DEF Spawn, NInv, Conns, Setting, Starters
<1>2. /\ pc'[t] = IF t = Main THEN "idle" ELSE "loop"
      /\ pc'[c] = "begin" /\ pc' \in [Threads -> Labels]
      /\ \A u \in Threads : u # t /\ u # c => pc'[u] = pc[u]
  BY <1>1 DEF NInv, Typed, Spawn, Labels, MainLabels, AccepterLabels, ReaderLabels,
              Threads, Starters
<1>3. /\ conn' \in [Starters -> Nat] /\ conn'[t] = 0
      /\ \A u \in Starters : u # t => conn'[u] = conn[u]
      /\ UNCHANGED <<running, listening, listenFd, owner, peers, sockets, target>>
  BY DEF NInv, Typed, Spawn
<1>4. \A u \in Starters : u # t /\ pc[u] \in Setting =>
        conn[u] # c /\ conn[u] \in Readers
  BY <1>1, SocketsNamed DEF NInv, Conns, Starters, Setting
<1>5. 0 \notin Readers
  BY DEF Readers
<1> HIDE DEF c
<1>6. Typed'
  <2>1. pc'[Main] \in MainLabels /\ pc'[Accepter] \in AccepterLabels
    BY <1>1, <1>2 DEF NInv, Typed, MainLabels, AccepterLabels, Threads, Starters
  <2>2. \A h \in Readers : pc'[h] \in ReaderLabels
    BY <1>1, <1>2 DEF NInv, Typed, Threads, Starters, ReaderLabels
  <2> QED
    BY <1>2, <1>3, <2>1, <2>2 DEF NInv, Typed
<1>7. Locked'
  BY <1>1, <1>2, <1>3 DEF NInv, Locked, Threads, Starters, Handling
<1>8. Conns'
  <2>1. \A u \in Starters : pc'[u] \in Setting =>
          u # t /\ pc'[u] = pc[u] /\ conn'[u] = conn[u] /\ pc'[conn[u]] = pc[conn[u]]
    BY <1>1, <1>2, <1>3, <1>4 DEF Threads, Starters, Setting
  <2>2. \A u \in Starters : pc'[u] \notin Setting => conn'[u] = 0
    BY <1>1, <1>2, <1>3 DEF NInv, Conns, Threads, Starters
  <2>3. conn'[Main] # conn'[Accepter] \/ conn'[Main] = 0
    <3>1. CASE t = Main
      BY <3>1, <1>3
    <3>2. CASE t = Accepter
      BY <3>2, <1>3 DEF Starters
    <3> QED
      BY <3>1, <3>2 DEF Starters
  <2>4. pc'[Main] \in {"check", "dial"} => target' \in Outbound
    BY <1>1, <1>2, <1>3 DEF NInv, Conns, Threads, Starters
  <2>5. pc'[Main] \in Setting =>
          sockets'[conn'[Main]].outbound /\ sockets'[conn'[Main]].ran = running'
    BY <1>3, <2>1 DEF NInv, Conns, Starters, Setting
  <2> QED
    BY <1>3, <2>1, <2>2, <2>3, <2>4, <2>5 DEF NInv, Conns
<1>9. Entries'
  BY <1>3 DEF NInv, Entries
<1>10. Adding'
  BY <1>1, <1>2, <1>3 DEF NInv, Adding, Threads, Starters
<1>11. Activity'
  BY <1>1, <1>2, <1>3 DEF NInv, Activity, Threads, Starters
<1>12. Stopping'
  <2>1. ~running /\ pc'[Main] \notin StopLabels => t = Main /\ pc[Main] \notin StopLabels
    BY <1>1, <1>2 DEF NInv, Stopping, StopLabels, Threads, Starters
  <2> QED
    BY <1>1, <1>2, <1>3, <2>1 DEF NInv, Stopping, StopLabels, Threads, Starters, Handling
<1>13. Serving'
  BY <1>1, <1>2, <1>3 DEF NInv, Serving, Threads, Starters, Handling, c
<1>14. Tracked'
  BY <1>1, <1>2, <1>3 DEF NInv, Tracked, Threads, Starters
<1> QED
  BY <1>6, <1>7, <1>8, <1>9, <1>10, <1>11, <1>12, <1>13, <1>14 DEF NInv

-----------------------------------------------------------------------------
(* The end of stop, and what the remote nodes do *)

(* The mutex being free, no reader is in handlePeer when all is erased.     *)
LEMMA EraseKeeps ==
  ASSUME NInv, ErasePeers(Main)
  PROVE  NInv'
<1> USE Names
<1>1. pc[Main] = "clear" /\ owner = Nobody /\ pc[Accepter] = "done" /\ ~running
  BY DEF ErasePeers, Free, NInv, Typed, MainLabels, Setting, Stopping, StopLabels
<1>2. /\ DOMAIN peers' = {} /\ peers' = [i \in {} |-> peers'[i]]
      /\ UNCHANGED <<running, listening, listenFd, owner, conn, target>>
  BY <1>1 DEF ErasePeers
<1>3. /\ pc'[Main] = "idle" /\ pc' \in [Threads -> Labels]
      /\ \A u \in Threads : u # Main => pc'[u] = pc[u]
  BY <1>1 DEF NInv, Typed, ErasePeers, Goto, Labels, MainLabels, Threads, Starters
<1>4. /\ DOMAIN sockets' = DOMAIN sockets /\ Len(sockets') = Len(sockets)
      /\ sockets' \in Seq(Socket)
      /\ \A f \in DOMAIN sockets :
           /\ sockets'[f].peer = sockets[f].peer
           /\ sockets'[f].fd \in {"open", "struck"} =>
                /\ sockets[f].fd = sockets'[f].fd
                /\ \A i \in DOMAIN peers : peers[i].fd # f
  <2> DEFINE Erased(f) == IF \E i \in DOMAIN peers : peers[i].fd = f
                          THEN [sockets[f] EXCEPT !.fd = "closed", !.up = FALSE]
                          ELSE sockets[f]
  <2>1. sockets' = [f \in DOMAIN sockets |-> Erased(f)]
    BY <1>1 DEF ErasePeers
  <2>2. \A f \in DOMAIN sockets :
          /\ Erased(f) \in Socket
          /\ Erased(f).peer = sockets[f].peer
          /\ Erased(f).fd \in {"open", "struck"} =>
               /\ sockets[f].fd = Erased(f).fd
               /\ \A i \in DOMAIN peers : peers[i].fd # f
    <3> TAKE f \in DOMAIN sockets
    <3>1. sockets[f] \in Socket
      BY DEF NInv, Typed
    <3>2. CASE \E i \in DOMAIN peers : peers[i].fd = f
      BY <3>1, <3>2 DEF Socket
    <3>3. CASE ~ \E i \in DOMAIN peers : peers[i].fd = f
      BY <3>1, <3>3
    <3> QED
      BY <3>2, <3>3
  <2> HIDE DEF Erased
  <2> QED
    BY <2>1, <2>2, SocketsReplaced DEF NInv, Typed
<1>5. \A h \in Readers : pc[h] \notin Handling
  BY <1>1 DEF NInv, Locked
<1>6. Typed'
  BY <1>1, <1>2, <1>3, <1>4 DEF NInv, Typed, MainLabels, Threads, Starters
<1>7. Locked'
  BY <1>2, <1>3, <1>4, <1>5 DEF NInv, Locked, Threads
<1>8. Conns'
  BY <1>1, <1>2, <1>3, <1>4 DEF NInv, Conns, Threads, Starters, Setting
<1>9. Entries' /\ Adding' /\ Activity' /\ Serving'
  BY <1>1, <1>2, <1>3 DEF NInv, Entries, Adding, Activity, Serving, Threads, Starters
<1>10. Stopping'
  BY <1>1, <1>2, <1>3, <1>5 DEF NInv, Stopping, StopLabels, Threads, Starters
<1>11. Tracked'
  <2> SUFFICES ASSUME NEW f \in DOMAIN sockets, sockets'[f].fd \in {"open", "struck"}
               PROVE  FALSE
    BY <1>4 DEF Tracked
  <2>1. /\ sockets[f].fd \in {"open", "struck"}
        /\ ~ \E i \in DOMAIN peers : peers[i].fd = f
    BY <1>4
  <2> QED
    BY <1>1, <2>1 DEF NInv, Tracked, Starters
<1> QED
  BY <1>6, <1>7, <1>8, <1>9, <1>10, <1>11 DEF NInv

(* The flag is set while no accept thread runs; the entries of the map were  *)
(* made before.                                                              *)
LEMMA StartKeeps ==
  ASSUME NInv, Start
  PROVE  NInv'
<1> USE Names
<1>1. /\ pc[Main] = "idle" /\ pc'[Accepter] = "loop" /\ pc' \in [Threads -> Labels]
      /\ \A u \in Threads : u # Accepter => pc'[u] = pc[u]
  BY DEF NInv, Typed, Start, Goto, Labels, AccepterLabels, Threads, Starters
<1>2. /\ running' /\ running' \in BOOLEAN /\ listening' /\ listening' \in BOOLEAN
      /\ listenFd' \in -1..MaxSockets + 1
      /\ UNCHANGED <<owner, peers, sockets, conn, target>>
  BY NodeAssumption DEF Start
<1>3. /\ ~running /\ pc[Accepter] \in {"none", "done"}
      /\ \A i \in DOMAIN peers : ~sockets[peers[i].fd].ran
  BY <1>1 DEF Start, NInv, Stopping, StopLabels
<1>4. Typed'
  BY <1>1, <1>2 DEF NInv, Typed, AccepterLabels, Threads, Starters
<1>5. Locked'
  BY <1>1, <1>2 DEF NInv, Locked, Threads
<1>6. Conns'
  BY <1>1, <1>2, <1>3, SocketsNamed DEF NInv, Conns, Threads, Starters, Setting
<1>7. Entries' /\ Adding' /\ Activity' /\ Serving'
  BY <1>1, <1>2, <1>3 DEF NInv, Entries, Adding, Activity, Serving, Threads, Starters
<1>8. Stopping'
  BY <1>1, <1>2 DEF NInv, Stopping, StopLabels, Threads, Starters
<1>9. Tracked'
  BY <1>1, <1>2, <1>3 DEF NInv, Tracked, Threads, Starters
<1> QED
  BY <1>4, <1>5, <1>6, <1>7, <1>8, <1>9 DEF NInv

(* Nothing but listenFd remembers a start() that failed.                     *)
LEMMA StartFailsKeeps ==
  ASSUME NInv, StartFails
  PROVE  NInv'
<1>1. listenFd' \in -1..MaxSockets + 1
  BY NodeAssumption, SocketsNamed DEF StartFails, NInv, Typed
<1>2. UNCHANGED <<running, listening, owner, peers, sockets, pc, conn, target>>
  BY DEF StartFails
<1>3. Typed'
  BY <1>1, <1>2 DEF NInv, Typed
<1> QED
  BY <1>2, <1>3 DEF NInv, Locked, Conns, Entries, Adding, Tracked, Activity, Stopping,
                    Serving

(* stop() clears the flag when nothing is being set up by main.             *)
LEMMA StopKeeps ==
  ASSUME NInv, Stop
  PROVE  NInv'
<1> USE Names
<1>1. /\ pc[Main] = "idle" /\ pc'[Main] = "closing" /\ pc' \in [Threads -> Labels]
      /\ \A u \in Threads : u # Main => pc'[u] = pc[u]
  BY DEF NInv, Typed, Stop, Goto, Labels, MainLabels, Threads, Starters
<1>2. /\ ~running' /\ running' \in BOOLEAN
      /\ UNCHANGED <<listening, listenFd, owner, peers, sockets, conn, target>>
  BY DEF Stop
<1>3. Typed'
  BY <1>1, <1>2 DEF NInv, Typed, MainLabels, Threads, Starters
<1>4. Locked'
  BY <1>1, <1>2 DEF NInv, Locked, Threads
<1>5. Conns'
  BY <1>1, <1>2, SocketsNamed DEF NInv, Conns, Threads, Starters, Setting
<1>6. Entries' /\ Adding' /\ Activity' /\ Serving'
  BY <1>1, <1>2 DEF NInv, Entries, Adding, Activity, Serving, Threads, Starters
<1>7. Stopping'
  BY <1>1, <1>2 DEF NInv, Stopping, StopLabels, Threads, Starters
<1>8. Tracked'
  BY <1>1, <1>2 DEF NInv, Tracked, Threads, Starters
<1> QED
  BY <1>3, <1>4, <1>5, <1>6, <1>7, <1>8 DEF NInv

\* Of a connection nothing changes but what became of it; "struck" it is only
\* while main, at m, is in stop().
Kept(f, m) ==
  /\ sockets'[f] \in Socket
  /\ sockets'[f].peer = sockets[f].peer
  /\ sockets'[f].outbound = sockets[f].outbound
  /\ sockets'[f].ran = sockets[f].ran
  /\ sockets[f].fd \in {"open", "struck"} <=> sockets'[f].fd \in {"open", "struck"}
  /\ sockets'[f].fd = "struck" => m \in {"joining", "clear"}

(* When stop() closes the number in listenFd, or the remote end goes away.   *)
LEMMA SocketsKept ==
  ASSUME NInv, NEW m, sockets' = [f \in DOMAIN sockets |-> sockets'[f]],
         \A f \in DOMAIN sockets : Kept(f, m),
         m = pc[Main] \/ (pc[Main] = "closing" /\ m = "joining"),
         pc' = [pc EXCEPT ![Main] = m], listening' \in BOOLEAN, running => listening',
         listenFd' \in -1..MaxSockets + 1,
         UNCHANGED <<running, owner, peers, conn, target>>
  PROVE  NInv'
<1> USE Names
<1>1. /\ sockets' \in Seq(Socket) /\ Len(sockets') = Len(sockets)
      /\ DOMAIN sockets' = DOMAIN sockets
  BY SocketsReplaced DEF NInv, Typed, Kept
<1>2. \A f \in DOMAIN sockets :
        /\ sockets'[f].peer = sockets[f].peer
        /\ sockets'[f].outbound = sockets[f].outbound
        /\ sockets'[f].ran = sockets[f].ran
        /\ sockets[f].fd \in {"open", "struck"} <=> sockets'[f].fd \in {"open", "struck"}
        /\ sockets'[f].fd = "struck" => m \in {"joining", "clear"}
  BY DEF Kept
<1>3. /\ pc'[Main] = m /\ pc' \in [Threads -> Labels]
      /\ \A u \in Threads : u # Main => pc'[u] = pc[u]
      /\ pc'[Accepter] = pc[Accepter] /\ \A h \in Readers : pc'[h] = pc[h]
      /\ m \in MainLabels
  BY DEF NInv, Typed, Labels, MainLabels, Threads, Starters
<1>4. \A t \in Starters : (pc'[t] \in Setting <=> pc[t] \in Setting)
                           /\ (pc[t] \in Setting => pc'[t] = pc[t])
  BY <1>3 DEF Setting, Starters
<1>5. \A t \in Starters : pc[t] \in Setting =>
        conn[t] \in DOMAIN sockets /\ pc'[conn[t]] = "none"
  BY <1>3, SocketsNamed DEF NInv, Conns
<1>6. \A i \in DOMAIN peers : peers[i].fd \in DOMAIN sockets
  BY DEF NInv, Typed
<1>7. Typed'
  <2>1. peers' \in [DOMAIN peers' -> [fd : DOMAIN sockets', active : BOOLEAN]]
    BY <1>1 DEF NInv, Typed
  <2>2. \A h \in Readers : pc'[h] \in ReaderLabels
    BY <1>3 DEF NInv, Typed
  <2> QED
    BY <1>1, <1>3, <2>1, <2>2 DEF NInv, Typed
<1>8. Locked'
  BY <1>1, <1>2, <1>3 DEF NInv, Locked, Handling
<1>9. Conns'
  <2>1. pc'[Main] \in {"check", "dial"} => target' \in Outbound
    BY <1>3 DEF NInv, Conns
  <2>2. pc'[Main] \in Setting =>
          sockets'[conn'[Main]].outbound /\ sockets'[conn'[Main]].ran = running'
    BY <1>2, <1>4, <1>5 DEF NInv, Conns, Starters
  <2> QED
    BY <1>1, <1>4, <1>5, <2>1, <2>2 DEF NInv, Conns
<1>10. Entries'
  BY <1>2, <1>6 DEF NInv, Entries
<1>11. Adding'
  BY <1>2, <1>4, <1>5 DEF NInv, Adding, Setting
<1>12. Tracked'
  <2> SUFFICES ASSUME NEW f \in DOMAIN sockets, sockets'[f].fd \in {"open", "struck"}
               PROVE  /\ \/ \E i \in DOMAIN peers : peers[i].fd = f
                         \/ \E t \in Starters : pc'[t] = "add" /\ conn[t] = f
                      /\ sockets'[f].fd = "struck" => pc'[Main] \in {"joining", "clear"}
    BY <1>1 DEF Tracked
  <2>1. \A t \in Starters : pc[t] = "add" => pc'[t] = "add"
    BY <1>4 DEF Setting
  <2> QED
    BY <1>2, <1>3, <2>1 DEF NInv, Tracked
<1>13. Activity'
  BY <1>1, <1>2, <1>3 DEF NInv, Activity, Locked
<1>14. Stopping'
  BY <1>2, <1>3, <1>6 DEF NInv, Stopping, StopLabels, Handling
<1>15. Serving'
  <2> SUFFICES ASSUME running, NEW i \in DOMAIN peers, sockets[peers[i].fd].ran
               PROVE  \/ \E t \in Starters :
                           pc'[t] \in {"greet", "spawn"} /\ sockets'[conn[t]].peer = i
                      \/ \E h \in Readers : /\ sockets'[h].peer = i
                                            /\ pc'[h] \in {"begin"} \cup Handling
    BY <1>2, <1>6 DEF Serving
  <2>1. CASE \E t \in Starters : pc[t] \in {"greet", "spawn"} /\ sockets[conn[t]].peer = i
    BY <1>2, <1>4, <1>5, <2>1 DEF Setting
  <2>2. CASE \E h \in Readers : sockets[h].peer = i /\ pc[h] \in {"begin"} \cup Handling
    BY <1>2, <1>3, <2>2 DEF NInv, Locked, Handling
  <2> QED
    BY <2>1, <2>2 DEF NInv, Serving
<1> QED
  BY <1>7, <1>8, <1>9, <1>10, <1>11, <1>12, <1>13, <1>14, <1>15 DEF NInv

(* The listener, or what has its number, is closed by a thread that has not *)
(* the mutex.                                                               *)
LEMMA CloseListenerKeeps ==
  ASSUME NInv, CloseListener
  PROVE  NInv'
<1>1. pc[Main] = "closing" /\ ~running
  BY DEF CloseListener, NInv, Stopping, StopLabels
<1>2. ASSUME NEW f \in DOMAIN sockets PROVE Kept(f, "joining")
  <2>1. sockets[f] \in Socket /\ sockets[f].fd # "struck"
    BY <1>1 DEF NInv, Typed, Tracked
  <2>2. CASE f # listenFd
    BY <2>1, <2>2 DEF CloseListener, Kept
  <2>3. CASE f = listenFd
    BY <2>1, <2>3 DEF CloseListener, Kept, Socket
  <2> QED
    BY <2>2, <2>3
<1>3. sockets' = [f \in DOMAIN sockets |-> sockets'[f]]
  BY DEF CloseListener
<1>4. pc' = [pc EXCEPT ![Main] = "joining"] /\ UNCHANGED <<running, owner, peers, conn, target>>
  BY DEF CloseListener, Goto
<1>5. listening' \in BOOLEAN
  BY DEF CloseListener
<1>6. listenFd' \in -1..MaxSockets + 1
  <2>1. listenFd' = -1
    BY DEF CloseListener
  <2> QED
    BY <2>1, NodeAssumption
<1> QED
  BY <1>1, <1>2, <1>3, <1>4, <1>5, <1>6, SocketsKept

(* A remote end that goes away changes nothing here but what recv returns.  *)
LEMMA HangUpKeeps ==
  ASSUME NInv, NEW g \in DOMAIN sockets, HangUp(g)
  PROVE  NInv'
<1>1. ASSUME NEW f \in DOMAIN sockets PROVE Kept(f, pc[Main])
  <2>1. sockets[f] \in Socket
    BY DEF NInv, Typed
  <2>2. sockets[f].fd = "struck" => pc[Main] \in {"joining", "clear"}
    BY DEF NInv, Tracked
  <2>3. CASE f # g
    BY <2>1, <2>2, <2>3 DEF HangUp, Kept
  <2>4. CASE f = g
    BY <2>1, <2>2, <2>4 DEF HangUp, Kept, Socket
  <2> QED
    BY <2>3, <2>4
<1>2. sockets' = [f \in DOMAIN sockets |-> sockets'[f]]
  BY DEF HangUp
<1>3. /\ pc' = [pc EXCEPT ![Main] = pc[Main]] /\ listening' \in BOOLEAN
      /\ (running => listening') /\ listenFd' \in -1..MaxSockets + 1
      /\ UNCHANGED <<running, owner, peers, conn, target>>
  BY DEF HangUp, NInv, Typed, Stopping, Threads, Starters
<1> QED
  BY <1>1, <1>2, <1>3, SocketsKept

-----------------------------------------------------------------------------
(* The theorems *)

(* The functions that lock the mutex, called by main or the accept thread.  *)
LEMMA StartersLock ==
  ASSUME NInv, NEW t \in Starters, Locks(t)
  PROVE  NInv'
<1> USE Names
<1>1. CASE AddPeer(t)
  BY <1>1, AddPeerKeeps
<1>2. CASE SendToPeer(t)
  <2>1. pc[t] = "greet"
    BY <1>2 DEF SendToPeer, NInv, Typed, MainLabels, AccepterLabels, Setting, Starters
  <2>2. /\ Goto(t, "spawn") /\ target' \in Outbound \cup {Nobody}
        /\ UNCHANGED <<running, listening, listenFd, owner, peers, sockets, conn, target>>
    BY <1>2, <2>1 DEF SendToPeer, NInv, Typed
  <2>3. CASE t = Main
    BY <2>1, <2>2, <2>3, MainMoves
  <2>4. CASE t = Accepter
    BY <2>1, <2>2, <2>4, AccepterMoves
  <2> QED
    BY <2>3, <2>4 DEF Starters
<1>3. CASE ReadPeers(t)
  <2>1. t = Main /\ pc[t] = "count"
    BY <1>3 DEF ReadPeers, NInv, Typed, MainLabels, AccepterLabels, Setting, Starters
  <2>2. /\ Goto(Main, "idle") /\ target' \in Outbound \cup {Nobody}
        /\ UNCHANGED <<running, listening, listenFd, owner, peers, sockets, conn, target>>
    BY <1>3, <2>1 DEF ReadPeers, NInv, Typed
  <2> QED
    BY <2>1, <2>2, MainMoves
<1>4. CASE ErasePeers(t)
  <2>1. t = Main
    BY <1>4 DEF ErasePeers, NInv, Typed, AccepterLabels, Setting, Starters
  <2> QED
    BY <1>4, <2>1, EraseKeeps
<1> QED
  BY <1>1, <1>2, <1>3, <1>4 DEF Locks

(* The public functions.                                                    *)
LEMMA MainKeeps ==
  ASSUME NInv, MainCalls \/ MainRuns
  PROVE  NInv'
<1> USE Names
<1>0. target \in Outbound \cup {Nobody} /\ Main \in Starters
  BY DEF NInv, Typed, Starters
<1>1. CASE Call("count")
  BY <1>0, <1>1, MainMoves DEF Call
<1>2. CASE \E r \in Outbound : ConnectToPeer(r)
  BY <1>0, <1>2, MainMoves DEF ConnectToPeer
<1>3. CASE CheckPeer
  <2>1. target \in Outbound
    BY <1>3 DEF CheckPeer, NInv, Conns
  <2> QED
    BY <1>0, <1>3, <2>1, MainMoves DEF CheckPeer
<1>4. CASE Dial
  <2>1. target \in Outbound /\ target' \in Outbound \cup {Nobody}
    BY <1>4 DEF Dial, NInv, Conns
  <2>2. CASE NewSocket(Main, target)
    BY <1>0, <1>4, <2>1, <2>2, NewSocketKeeps DEF Dial
  <2>3. CASE Goto(Main, "idle") /\ UNCHANGED <<sockets, conn>>
    BY <1>4, <2>1, <2>3, MainMoves DEF Dial
  <2> QED
    BY <1>4, <2>2, <2>3 DEF Dial
<1>5. CASE Join
  BY <1>0, <1>5, MainMoves DEF Join
<1> QED
  BY <1>0, <1>1, <1>2, <1>3, <1>4, <1>5, StartKeeps, StartFailsKeeps, StopKeeps,
     CloseListenerKeeps, StartersLock, SpawnKeeps DEF MainCalls, MainRuns

(* The accept thread, the readers and the remote nodes.                     *)
LEMMA OthersKeep ==
  ASSUME NInv, AccepterRuns \/ Remote \/ \E h \in Readers : ReaderRuns(h)
  PROVE  NInv'
<1> USE Names
<1>0. Accepter \in Starters
  BY DEF Starters
<1>1. CASE AcceptLoop \/ CallAccept \/ AcceptFails
  <2>1. CASE AcceptLoop
    <3>1. \E l \in {"call", "done"} : Goto(Accepter, l)
      BY <2>1 DEF AcceptLoop
    <3> QED
      BY <2>1, <3>1, AccepterMoves DEF AcceptLoop
  <2>2. CASE CallAccept
    <3>1. CASE listenFd = 0
      BY <2>2, <3>1, AccepterMoves DEF CallAccept
    <3>2. CASE listenFd # 0
      BY <2>2, <3>2, AccepterMoves DEF CallAccept
    <3> QED
      BY <3>1, <3>2
  <2>3. CASE AcceptFails
    BY <2>3, AccepterMoves DEF AcceptFails
  <2> QED
    BY <1>1, <2>1, <2>2, <2>3
<1>2. ASSUME NEW r \in Inbound, Accept(r) PROVE NInv'
  <2>1. target' \in Outbound \cup {Nobody}
    BY <1>2 DEF Accept, NInv, Typed
  <2> QED
    BY <1>0, <1>2, <2>1, NewSocketKeeps DEF Accept
<1>3. ASSUME NEW h \in Readers, NEW type, Receive(h, type) PROVE NInv'
  <2>1. NextStep(type) \in Handling \ {"remove"}
    BY DEF NextStep, Handling
  <2>2. pc[h] = "recv" /\ pc[h] \in Handling
    BY <1>3 DEF Receive, Handling
  <2> QED
    BY <1>3, <2>1, <2>2, ReaderMoves DEF Receive
<1>4. ASSUME NEW h \in Readers, ReaderRuns(h) PROVE NInv'
  <2>1. ~Locks(h)
    BY ReadersHold DEF NInv
  <2> QED
    BY <1>4, <2>1, BeginKeeps, HandlerLoopKeeps, DisconnectKeeps DEF ReaderRuns
<1>5. CASE Remote
  BY <1>2, <1>3, <1>5, DisconnectKeeps, HangUpKeeps DEF Remote
<1>6. CASE AccepterRuns
  BY <1>0, <1>1, <1>6, StartersLock, SpawnKeeps DEF AccepterRuns
<1> QED
  BY <1>4, <1>5, <1>6

(* A node that was never started.                                           *)
LEMMA InitNInv == Init => NInv
<1> SUFFICES ASSUME Init PROVE NInv
  OBVIOUS
<1> USE Names DEF Init
<1>1. /\ DOMAIN peers = {} /\ DOMAIN sockets = {} /\ sockets \in Seq(Socket)
      /\ Len(sockets) = 0
  OBVIOUS
<1>2. /\ pc[Main] = "idle" /\ pc[Accepter] = "none"
      /\ \A h \in Readers : pc[h] = "none"
  BY DEF Threads, Starters
<1>3. Typed
  <2>1. pc \in [Threads -> Labels]
    BY DEF Labels, MainLabels, AccepterLabels
  <2>2. peers \in [DOMAIN peers -> [fd : DOMAIN sockets, active : BOOLEAN]]
    BY <1>1
  <2>3. 0 <= MaxSockets /\ listenFd \in -1..MaxSockets + 1
    BY NodeAssumption
  <2> QED
    BY <1>1, <1>2, <2>1, <2>2, <2>3 DEF Typed, MainLabels, AccepterLabels, ReaderLabels
<1>4. Locked
  BY <1>2 DEF Locked, Handling
<1>5. Conns
  BY <1>2 DEF Conns, Starters, Setting
<1>6. Entries /\ Activity /\ Serving /\ Tracked
  BY <1>1 DEF Entries, Activity, Serving, Tracked
<1>7. Adding
  BY <1>2 DEF Adding, Starters
<1>8. Stopping
  BY <1>1, <1>2 DEF Stopping, StopLabels, Handling
<1> QED
  BY <1>3, <1>4, <1>5, <1>6, <1>7, <1>8 DEF NInv

(* The invariant holds in every behaviour.                                  *)
LEMMA Invariance == Spec => []NInv
<1>1. NInv /\ [Next]_vars => NInv'
  <2> SUFFICES ASSUME NInv, [Next]_vars PROVE NInv'
    OBVIOUS
  <2>1. CASE Next
    BY <2>1, MainKeeps, OthersKeep DEF Next
  <2>2. CASE UNCHANGED vars
    BY <2>2 DEF vars, NInv, Typed, Locked, Conns, Entries, Adding, Activity, Stopping,
                Serving, Tracked
  <2> QED
    BY <2>1, <2>2
<1> QED
  BY <1>1, InitNInv, PTL DEF Spec

(* For any addresses and number of connections: the threads keep to their   *)
(* places, and a reader holds peersMutex exactly while it is in handlePeer  *)
(* (node.cpp:174-178, 271-275).                                             *)
THEOREM NodeTypes == Spec => []TypeOK
<1>1. NInv => TypeOK
  <2> SUFFICES ASSUME NInv PROVE TypeOK
    OBVIOUS
  <2>1. 0 \notin DOMAIN sockets
    BY SocketsNamed DEF NInv
  <2>2. \A t \in Starters : conn[t] \in DOMAIN sockets <=> pc[t] \in Setting
    BY <2>1 DEF NInv, Conns
  <2> QED
    BY <2>2 DEF NInv, Typed, Locked, TypeOK, Socket, MainLabels, AccepterLabels,
                ReaderLabels, Setting, Handling
<1> QED
  BY <1>1, Invariance, PTL

(* The entry a reader uses across its blocking recv stays in the map and    *)
(* its socket open, whatever the other threads do, unless stop() takes it   *)
(* for the listener (node.cpp:128, 174-178, 183-219).                       *)
THEOREM ReferencesStayValid == Spec => []ReferenceValid
<1>1. NInv => ReferenceValid
  <2> SUFFICES ASSUME NInv, NEW h \in Readers, pc[h] \in Handling
               PROVE  /\ PeerOf(h) \in DOMAIN peers
                      /\ LET s == sockets[peers[PeerOf(h)].fd]
                         IN  s.fd = "open" \/ (s.fd = "struck" /\ ~running)
    BY DEF ReferenceValid
  <2>1. PeerOf(h) \in DOMAIN peers
    BY Names DEF NInv, Locked, PeerOf, Starters
  <2>2. peers[PeerOf(h)].fd \in DOMAIN sockets
    BY <2>1 DEF NInv, Typed
  <2> QED
    BY <2>1, <2>2 DEF NInv, Entries, Tracked, Stopping, StopLabels
<1> QED
  BY <1>1, Invariance, PTL

(* No socket the node opened is lost track of but one whose entry addPeer    *)
(* overwrites (node.cpp:300-318).                                            *)
THEOREM NoSocketLost == Spec => []SocketsAccounted
<1>1. NInv => SocketsAccounted
  BY DEF NInv, Tracked, SocketsAccounted
<1> QED
  BY <1>1, Invariance, PTL

(* After stop() has returned no thread is left that adds a peer or waits for *)
(* one with the mutex, and the map holds only what connectToPeer() entered   *)
(* since (node.cpp:125-136, 222-264).                                        *)
THEOREM StopLeavesNothing == Spec => []StopFinal
<1>1. NInv => StopFinal
  BY DEF NInv, Stopping, StopFinal, Stopped, StopLabels
<1> QED
  BY <1>1, Invariance, PTL

(* A running node reads every peer it connected since start(), also when     *)
(* another connection took the peer's entry (node.cpp:167-178, 264-275).     *)
THEOREM PeersAreServed == Spec => []PeersServed
<1>1. NInv => PeersServed
  <2> SUFFICES ASSUME NInv, running, NEW i \in DOMAIN peers, sockets[peers[i].fd].ran
               PROVE  Served(i)
    BY DEF PeersServed
  <2>1. CASE \E t \in Starters : pc[t] \in {"greet", "spawn"} /\ sockets[conn[t]].peer = i
    BY <2>1 DEF PeerOf, Served
  <2>2. CASE \E h \in Readers : sockets[h].peer = i /\ pc[h] \in {"begin"} \cup Handling
    <3>1. PICK h \in Readers : sockets[h].peer = i /\ pc[h] \in {"begin"} \cup Handling
      BY <2>2
    <3>2. h \in DOMAIN sockets /\ PeerOf(h) = i
      BY <3>1, Names DEF NInv, Locked, Handling, PeerOf, Starters
    <3> QED
      BY <3>1, <3>2 DEF Served
  <2> QED
    BY <2>1, <2>2 DEF NInv, Serving
<1> QED
  BY <1>1, Invariance, PTL
=============================================================================
