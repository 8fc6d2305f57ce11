-------------------------------- MODULE Node --------------------------------
(***************************************************************************)
(* The P2P node (src/src/network/node.cpp): a main thread that calls the   *)
(* public functions, in any order, the accept thread that start() creates, *)
(* and for each connection a detached thread that reads it.  They share    *)
(* the map peers under peersMutex.  A reader takes the mutex before it     *)
(* looks its peer up and keeps it while it is in handlePeer, also while it *)
(* waits in recv.                                                          *)
(*                                                                         *)
(* A critical section that neither blocks nor nests is one step, enabled   *)
(* when the mutex is free.  std::mutex is not recursive: a thread that     *)
(* locks it again waits for itself.  Sends do not block and their bytes    *)
(* are not modelled.  The kernel gives out the lowest free descriptor, so  *)
(* a number that start() closed again is the next connection's.            *)
(***************************************************************************)
EXTENDS Integers, Sequences, FiniteSets

CONSTANTS Inbound,    \* addresses remote nodes connect from
          Outbound,   \* addresses the main thread connects to
          Main, Accepter, Nobody,
          MaxSockets  \* bound: connections in a behaviour

ASSUME NodeAssumption == /\ MaxSockets \in Nat
                         /\ Cardinality({Main, Accepter, Nobody}) = 3
                         /\ {Main, Accepter, Nobody} \cap 1..MaxSockets = {}

VARIABLES running,    \* the atomic flag
          listening,  \* a socket of the node listens on its port
          listenFd,   \* -1, the listener's descriptor 0, or that of connection n
          owner,      \* the thread that holds peersMutex
          peers,      \* peer id -> its socket and active flag
          sockets,    \* the connections so far, see Socket
          pc,         \* where each thread is; a reader is named by its socket
          conn,       \* the socket main and accept threads are setting up, or 0
          target      \* the address connectToPeer checks and dials

vars == <<running, listening, listenFd, owner, peers, sockets, pc, conn, target>>

Readers == 1..MaxSockets
Starters == {Main, Accepter}
Threads == Starters \cup Readers

\* A connection: its peer, who connected, whether the node ran then, what
\* became of its descriptor and whether no end has closed it.  The
\* descriptor is "replaced", and still open, when addPeer overwrote its entry,
\* "struck" when stop() closed it in place of the listener.
Socket == [peer : Inbound \cup Outbound, outbound : BOOLEAN, ran : BOOLEAN,
           fd : {"open", "replaced", "closed", "struck"}, up : BOOLEAN]

Goto(t, l) == pc' = [pc EXCEPT ![t] = l]

Free == owner = Nobody

\* A peer id is the hash of the address.
PeerOf(t) == sockets[IF t \in Starters THEN conn[t] ELSE t].peer

-----------------------------------------------------------------------------
Init == /\ running = FALSE /\ listening = FALSE /\ listenFd = -1 /\ owner = Nobody
        /\ peers = [i \in {} |-> i] /\ sockets = <<>>
        /\ pc = [t \in Threads |-> IF t = Main THEN "idle" ELSE "none"]
        /\ conn = [t \in Starters |-> 0] /\ target = Nobody

\* A new connection of thread t.
NewSocket(t, r) ==
  /\ Len(sockets) < MaxSockets
  /\ sockets' = Append(sockets, [peer |-> r, outbound |-> t = Main, ran |-> running,
                                 fd |-> "open", up |-> TRUE])
  /\ conn' = [conn EXCEPT ![t] = Len(sockets) + 1]
  /\ Goto(t, "add")

-----------------------------------------------------------------------------
(* The functions that lock the mutex, whoever calls them *)

\* addPeer replaces an entry of the same id.
AddPeer(t) ==
  /\ pc[t] = "add" /\ Free
  /\ peers' = [i \in DOMAIN peers \cup {PeerOf(t)} |->
                 IF i = PeerOf(t) THEN [fd |-> conn[t], active |-> TRUE] ELSE peers[i]]
  /\ sockets' = [f \in DOMAIN sockets |->
                   IF PeerOf(t) \in DOMAIN peers /\ peers[PeerOf(t)].fd = f
                   THEN [sockets[f] EXCEPT !.fd = "replaced"] ELSE sockets[f]]
  /\ Goto(t, "greet")
  /\ UNCHANGED <<running, listening, listenFd, owner, conn, target>>

\* sendToPeer: VERSION to a new peer, or a reader's answer to its own.
SendToPeer(t) ==
  /\ pc[t] \in {"greet", "reply"} /\ Free
  /\ Goto(t, IF pc[t] = "greet" THEN "spawn" ELSE "loop")
  /\ UNCHANGED <<running, listening, listenFd, owner, peers, sockets, conn, target>>

\* peerCount, getPeers and broadcast of the main thread; the address list a
\* reader answers GETADDR with.
ReadPeers(t) ==
  /\ pc[t] \in {"count", "addr"} /\ Free
  /\ Goto(t, IF pc[t] = "count" THEN "idle" ELSE "reply")
  /\ UNCHANGED <<running, listening, listenFd, owner, peers, sockets, conn, target>>

\* Mutant: an erased entry's socket is left open.
EraseUnclosed(t) ==
  LET gone == IF pc[t] = "clear" THEN DOMAIN peers ELSE DOMAIN peers \cap {PeerOf(t)}
  IN  /\ pc[t] \in {"clear", "remove"} /\ Free
      /\ peers' = [i \in DOMAIN peers \ gone |-> peers[i]]
      /\ Goto(t, IF pc[t] = "clear" THEN "idle" ELSE "done")
      /\ UNCHANGED <<running, listening, listenFd, owner, sockets, conn, target>>

\* removePeer, and the end of stop: entries are erased, their sockets closed.
ErasePeers(t) ==
  LET gone == IF pc[t] = "clear" THEN DOMAIN peers ELSE DOMAIN peers \cap {PeerOf(t)}
  IN  /\ pc[t] \in {"clear", "remove"} /\ Free
      /\ sockets' = [f \in DOMAIN sockets |->
                       IF \E i \in gone : peers[i].fd = f
                       THEN [sockets[f] EXCEPT !.fd = "closed", !.up = FALSE]
                       ELSE sockets[f]]
      /\ peers' = [i \in DOMAIN peers \ gone |-> peers[i]]
      /\ Goto(t, IF pc[t] = "clear" THEN "idle" ELSE "done")
      /\ UNCHANGED <<running, listening, listenFd, owner, conn, target>>

\* The detached thread of the new connection starts.
Spawn(t) ==
  /\ pc[t] = "spawn"
  /\ pc' = [pc EXCEPT ![t] = IF t = Main THEN "idle" ELSE "loop", ![conn[t]] = "begin"]
  /\ conn' = [conn EXCEPT ![t] = 0]
  /\ UNCHANGED <<running, listening, listenFd, owner, peers, sockets, target>>

Locks(t) == AddPeer(t) \/ SendToPeer(t) \/ ReadPeers(t) \/ ErasePeers(t)

-----------------------------------------------------------------------------
(* The main thread *)

\* The port is bound: no socket of the node listens on it yet.
Start == /\ pc[Main] = "idle" /\ ~listening
         /\ running' = TRUE /\ listening' = TRUE /\ listenFd' = 0
         /\ Goto(Accepter, "loop")
         /\ UNCHANGED <<owner, peers, sockets, conn, target>>

\* socket() fails, or bind() or listen(), because of this node's own listener or
\* of another program's: the descriptor of the new socket, closed again, stays
\* in listenFd, and a node that runs goes on running.
StartFails == /\ pc[Main] = "idle"
              /\ listenFd' \in {-1, Len(sockets) + 1}
              /\ UNCHANGED <<running, listening, owner, peers, sockets, pc, conn, target>>

Call(l) == /\ pc[Main] = "idle"
           /\ Goto(Main, l)
           /\ UNCHANGED <<running, listening, listenFd, owner, peers, sockets, conn, target>>

ConnectToPeer(r) ==
  /\ pc[Main] = "idle"
  /\ target' = r /\ Goto(Main, "check")
  /\ UNCHANGED <<running, listening, listenFd, owner, peers, sockets, conn>>

CheckPeer ==
  /\ pc[Main] = "check" /\ Free
  /\ IF target \in DOMAIN peers THEN Goto(Main, "idle") /\ target' = Nobody
                               ELSE Goto(Main, "dial") /\ UNCHANGED target
  /\ UNCHANGED <<running, listening, listenFd, owner, peers, sockets, conn>>

\* The mutex is not held while the name is resolved and the remote connects.
Dial == /\ pc[Main] = "dial"
        /\ \/ NewSocket(Main, target)
           \/ Goto(Main, "idle") /\ UNCHANGED <<sockets, conn>>
        /\ target' = Nobody
        /\ UNCHANGED <<running, listening, listenFd, owner, peers>>

\* Of a node that does not run, stop() returns at once.
Stop == /\ pc[Main] = "idle" /\ running
        /\ running' = FALSE /\ Goto(Main, "closing")
        /\ UNCHANGED <<listening, listenFd, owner, peers, sockets, conn, target>>

\* Mutant: the listener is not closed.
KeepListener ==
  /\ pc[Main] = "closing" /\ Goto(Main, "joining")
  /\ UNCHANGED <<running, listening, listenFd, owner, peers, sockets, conn, target>>

\* What listenFd denotes is shut down and closed: the listener, or a connection
\* that has its number since a start() failed.
CloseListener ==
  /\ pc[Main] = "closing" /\ Goto(Main, "joining")
  /\ listening' = (listening /\ listenFd # 0)
  /\ sockets' = [f \in DOMAIN sockets |->
       IF f # listenFd THEN sockets[f]
       ELSE [sockets[f] EXCEPT !.fd = IF @ = "open" THEN "struck" ELSE "closed",
                               !.up = FALSE]]
  /\ listenFd' = -1
  /\ UNCHANGED <<running, owner, peers, conn, target>>

\* Mutant: stop() does not wait for the accept thread.
NoJoin == /\ pc[Main] = "joining" /\ Goto(Main, "clear")
          /\ UNCHANGED <<running, listening, listenFd, owner, peers, sockets, conn, target>>

Join == /\ pc[Main] = "joining" /\ pc[Accepter] = "done"
        /\ Goto(Main, "clear")
        /\ UNCHANGED <<running, listening, listenFd, owner, peers, sockets, conn, target>>

MainCalls == \/ Start \/ StartFails \/ Stop \/ Call("count")
             \/ \E r \in Outbound : ConnectToPeer(r)

MainRuns == \/ CheckPeer \/ Dial \/ CloseListener \/ Join
            \/ Locks(Main) \/ Spawn(Main)

-----------------------------------------------------------------------------
(* The accept thread *)

AcceptLoop ==
  /\ pc[Accepter] = "loop"
  /\ Goto(Accepter, IF running THEN "call" ELSE "done")
  /\ UNCHANGED <<running, listening, listenFd, owner, peers, sockets, conn, target>>

\* accept() blocks on the listener; with any other descriptor it fails at once.
CallAccept ==
  /\ pc[Accepter] = "call"
  /\ Goto(Accepter, IF listenFd = 0 THEN "accept" ELSE "loop")
  /\ UNCHANGED <<running, listening, listenFd, owner, peers, sockets, conn, target>>

\* An address connects again only after its last connection ended.
Accept(r) == /\ pc[Accepter] = "accept" /\ listening
             /\ \A f \in DOMAIN sockets :
                  sockets[f].peer = r /\ ~sockets[f].outbound => ~sockets[f].up
             /\ NewSocket(Accepter, r)
             /\ UNCHANGED <<running, listening, listenFd, owner, peers, target>>

AcceptFails ==
  /\ pc[Accepter] = "accept" /\ ~listening
  /\ Goto(Accepter, "loop")
  /\ UNCHANGED <<running, listening, listenFd, owner, peers, sockets, conn, target>>

AccepterRuns == AcceptLoop \/ CallAccept \/ AcceptFails \/ Locks(Accepter) \/ Spawn(Accepter)

-----------------------------------------------------------------------------
(* The readers *)

\* Mutant: the mutex is unlocked once the peer is found.
BeginUnlocked(h) ==
  /\ pc[h] = "begin" /\ Free
  /\ Goto(h, IF PeerOf(h) \in DOMAIN peers THEN "loop" ELSE "done")
  /\ UNCHANGED <<running, listening, listenFd, owner, peers, sockets, conn, target>>

\* The thread's lock_guard outlives the look-up when the peer is found.
Begin(h) ==
  /\ pc[h] = "begin" /\ Free
  /\ IF PeerOf(h) \in DOMAIN peers THEN owner' = h /\ Goto(h, "loop")
                                   ELSE Goto(h, "done") /\ UNCHANGED owner
  /\ UNCHANGED <<running, listening, listenFd, peers, sockets, conn, target>>

\* Mutant: the mutex stays locked when the loop ends.
LoopKeepsLock(h) ==
  /\ pc[h] = "loop"
  /\ Goto(h, IF running /\ peers[PeerOf(h)].active THEN "recv" ELSE "done")
  /\ UNCHANGED <<running, listening, listenFd, owner, peers, sockets, conn, target>>

\* The condition of handlePeer's loop; when it fails the mutex is unlocked.
HandlerLoop(h) ==
  /\ pc[h] = "loop"
  /\ IF running /\ peers[PeerOf(h)].active THEN Goto(h, "recv") /\ UNCHANGED owner
                                           ELSE Goto(h, "done") /\ owner' = Nobody
  /\ UNCHANGED <<running, listening, listenFd, peers, sockets, conn, target>>

\* A message: the node answers some types itself; what is not a frame is
\* skipped, and everything else only goes to the user's handler.
NextStep(type) == CASE type = "PING"    -> "reply"
                    [] type = "VERSION" -> "reply"
                    [] type = "GETADDR" -> "addr"
                    [] OTHER            -> "loop"

\* Mutant: the reader ends at the first message that is not a frame.
ReceiveFrames(h, type) ==
  /\ pc[h] = "recv"
  /\ IF type = "unframed" THEN Goto(h, "done") /\ owner' = Nobody
                          ELSE Goto(h, NextStep(type)) /\ UNCHANGED owner
  /\ UNCHANGED <<running, listening, listenFd, peers, sockets, conn, target>>

Receive(h, type) ==
  /\ pc[h] = "recv" /\ Goto(h, NextStep(type))
  /\ UNCHANGED <<running, listening, listenFd, owner, peers, sockets, conn, target>>

\* recvRaw returns nothing: the end of the connection, a message longer than
\* 4 MB or, for a peer the node connected to, silence for five seconds.
Disconnect(h) ==
  /\ pc[h] = "recv" /\ Goto(h, "remove")
  /\ peers' = [peers EXCEPT ![PeerOf(h)].active = FALSE]
  /\ UNCHANGED <<running, listening, listenFd, owner, sockets, conn, target>>

MustReturn(h) == \/ ~sockets[peers[PeerOf(h)].fd].up
                 \/ sockets[peers[PeerOf(h)].fd].outbound

ReaderRuns(h) == \/ Begin(h) \/ HandlerLoop(h) \/ Locks(h)
                 \/ pc[h] = "recv" /\ MustReturn(h) /\ Disconnect(h)

Types == {"PING", "VERSION", "GETADDR", "INV", "unframed"}

\* A remote node closes or resets its end.  On a connection this node made that
\* is the same to the reader as silence, see Disconnect.
HangUp(f) == /\ sockets[f].up /\ ~sockets[f].outbound
             /\ sockets' = [sockets EXCEPT ![f].up = FALSE]
             /\ UNCHANGED <<running, listening, listenFd, owner, peers, pc, conn, target>>

Remote == \/ \E r \in Inbound : Accept(r)
          \/ \E h \in Readers : Disconnect(h) \/ \E type \in Types : Receive(h, type)
          \/ \E f \in DOMAIN sockets : HangUp(f)

-----------------------------------------------------------------------------
Next == \/ MainCalls \/ MainRuns \/ AccepterRuns \/ Remote
        \/ \E h \in Readers : ReaderRuns(h)

\* A thread that can run does; nobody has to call, connect, send or hang up.
Fairness == /\ WF_vars(MainRuns) /\ WF_vars(AccepterRuns)
            /\ \A h \in Readers : WF_vars(ReaderRuns(h))

Spec == Init /\ [][Next]_vars /\ Fairness

-----------------------------------------------------------------------------
(* Properties *)

Handling == {"loop", "recv", "reply", "addr", "remove"}

(* Types, and the lock discipline: a reader holds peersMutex exactly while *)
(* it is in handlePeer (node.cpp:174-178, 271-275), and a thread that sets *)
(* up a connection has its socket.                                         *)
TypeOK ==
  /\ running \in BOOLEAN /\ listening \in BOOLEAN
  /\ listenFd \in -1..MaxSockets + 1
  /\ owner \in Readers \cup {Nobody}
  /\ \A h \in Readers : owner = h <=> pc[h] \in Handling
  /\ sockets \in Seq(Socket)
  /\ peers \in [DOMAIN peers -> [fd : DOMAIN sockets, active : BOOLEAN]]
  /\ pc[Main] \in {"idle", "count", "check", "dial", "add", "greet", "spawn",
                   "closing", "joining", "clear"}
  /\ pc[Accepter] \in {"none", "loop", "call", "accept", "add", "greet", "spawn", "done"}
  /\ \A h \in Readers : pc[h] \in {"none", "begin", "done"} \cup Handling
  /\ \A t \in Starters : conn[t] \in DOMAIN sockets
                           <=> pc[t] \in {"add", "greet", "spawn"}
  /\ target \in Outbound \cup {Nobody}

(* The reference to a map entry that a reader keeps across its blocking     *)
(* recv stays valid: the entry is not erased or replaced and its socket not *)
(* closed under it (node.cpp:174-178, 183-219).  Only stop() closes it, in  *)
(* the listener's place, when a start() failed before it (89, 105, 128).    *)
ReferenceValid ==
  \A h \in Readers : pc[h] \in Handling =>
    /\ PeerOf(h) \in DOMAIN peers
    /\ LET s == sockets[peers[PeerOf(h)].fd]
       IN  s.fd = "open" \/ (s.fd = "struck" /\ ~running)

(* No socket is lost but the one whose entry addPeer overwrites: an open    *)
(* one is in the map, or about to be entered by the thread that opened it   *)
(* (node.cpp:131-134, 305-318).                                             *)
SocketsAccounted ==
  \A f \in DOMAIN sockets : sockets[f].fd = "open" =>
    \/ \E i \in DOMAIN peers : peers[i].fd = f
    \/ \E t \in Starters : pc[t] = "add" /\ conn[t] = f

Stopped == ~running /\ pc[Main] \notin {"closing", "joining", "clear"}

(* After stop() there is no accept thread that could still add a peer, no   *)
(* reader waits in recv with the mutex, and of the peers made before it     *)
(* none is left: what the map holds, connectToPeer entered since            *)
(* (node.cpp:125-136, 222-264).                                             *)
StopFinal == Stopped =>
  /\ pc[Accepter] \in {"none", "done"}
  /\ \A h \in Readers : pc[h] \in Handling => pc[h] = "loop"
  /\ \A i \in DOMAIN peers : LET s == sockets[peers[i].fd] IN s.outbound /\ ~s.ran

Served(i) ==
  \/ \E t \in Starters : pc[t] \in {"greet", "spawn"} /\ PeerOf(t) = i
  \/ \E h \in DOMAIN sockets : PeerOf(h) = i /\ pc[h] \in {"begin"} \cup Handling

(* While the node runs, every peer it connected since start() has a thread  *)
(* that reads it or is about to, whatever it sends and whichever of two     *)
(* connections of one id is in the map (node.cpp:167-178, 264-275).         *)
PeersServed == running => \A i \in DOMAIN peers : sockets[peers[i].fd].ran => Served(i)

(* stop() returns unless a reader keeps the mutex for ever, in recv or       *)
(* waiting for itself, or the accept thread stays in accept() on a listener  *)
(* whose descriptor a failed start() has overwritten (node.cpp:125-136).     *)
StopReturns ==
  \/ []<>(pc[Main] \notin {"closing", "joining", "clear"})
  \/ <>[](\E h \in Readers : pc[h] \in Handling \ {"loop"})
  \/ <>[](pc[Accepter] = "accept" /\ listening /\ listenFd = -1)

-----------------------------------------------------------------------------
(* What a test says, and the code does not keep *)

(* peerCount() returns after connectToPeer() (tests/network_test.cpp:13-14). *)
CountReturns == (pc[Main] = "count") ~> (pc[Main] = "idle")
=============================================================================
