-------------------------------- MODULE Wire --------------------------------
(***************************************************************************)
(* One connection of the P2P node (src/src/network/node.cpp) from the      *)
(* threads that send on it to the remote reader's handler: frames on a     *)
(* stream of bytes.  The main thread's broadcast and the accept thread's   *)
(* greeting send on the same socket under peersMutex; a send takes as much *)
(* as the kernel has room for, and fails when the remote end is gone or    *)
(* when SO_SNDTIMEO passes, wherever in the frame that is.  The receiver   *)
(* asks for a header and then for as much as the header says, and answers  *)
(* some types itself before it calls the handler: there it waits for the   *)
(* mutex that it holds.  A RexCoin node sends such a frame first of all;   *)
(* what a handler gets comes from remote ends that do not.  Node models    *)
(* the threads of one process and leaves out the bytes.                    *)
(***************************************************************************)
EXTENDS Naturals, FiniteSets, Sequences, SequencesExt

CONSTANTS Message,    \* [type, payload], sequences of bytes that are not Pad
          Answered,   \* types the reader answers (VERSION, PING, GETADDR)
          Sender,     \* threads that send
          Base,       \* values of a byte (256)
          HeaderLen,  \* bytes of the length (4)
          TypeLen,    \* bytes of the type (16)
          MaxBody,    \* the longest body a reader takes (4 MB)
          Room,       \* what the kernel takes in one call at most
          MaxSent     \* bound: messages in a behaviour

VARIABLES out,        \* what is left of the frame each thread is sending
          owner,      \* the thread that holds peersMutex, a sequence of one at most
          stream,     \* bytes on their way
          reading,    \* what the reader waits for: a header, a body, its own mutex, or nothing
          sent,       \* history: messages sent whole before a frame was torn
          torn,       \* history: a frame was given up half-way
          delivered,  \* history: what the handler was called with
          calls       \* history: calls so far

wireVars == <<out, owner, stream, reading, sent, torn, delivered, calls>>

Pad == 0  \* ' '

Power[n \in Nat] == IF n = 0 THEN 1 ELSE Base * Power[n - 1]

Fit(type) == [i \in 1..TypeLen |-> IF i <= Len(type) THEN type[i] ELSE Pad]

\* Mutant: the length counts the payload alone.
FramePayload(m) ==
  [i \in 1..HeaderLen |-> (Len(m.payload) \div Power[i - 1]) % Base]
    \o Fit(m.type) \o m.payload

Frame(m) ==
  LET body == Fit(m.type) \o m.payload
  IN  [i \in 1..HeaderLen |-> (Len(body) \div Power[i - 1]) % Base] \o body

BodyLen(header) ==
  SumFunction([i \in 1..HeaderLen |-> header[i] * Power[i - 1]])

Trim(type) ==
  SubSeq(type, 1, SelectLastInSeq(type, LAMBDA b : b # Pad))

Unframe(body) == [type    |-> Trim(SubSeq(body, 1, TypeLen)),
                  payload |-> SubSeq(body, TypeLen + 1, Len(body))]

First(n) == SubSeq(stream, 1, n)
Rest(n)  == SubSeq(stream, n + 1, Len(stream))

AwaitHeader == [step |-> "header", length |-> HeaderLen]
Answering   == [step |-> "answering", length |-> 0]

-----------------------------------------------------------------------------
WireInit == /\ out = [s \in Sender |-> <<>>] /\ owner = <<>>
            /\ stream = <<>> /\ reading = AwaitHeader
            /\ sent = <<>> /\ torn = FALSE /\ delivered = <<>> /\ calls = 0

\* Mutant: the peer's socket is used without the mutex.
CallUnlocked(s, m) ==
  /\ calls < MaxSent /\ calls' = calls + 1
  /\ out[s] = <<>>
  /\ out' = [out EXCEPT ![s] = Frame(m)]
  /\ sent' = IF torn THEN sent ELSE Append(sent, m)
  /\ UNCHANGED <<owner, stream, reading, torn, delivered>>

\* broadcast and sendToPeer up to sendRaw.  A message counts as sent from here
\* on; it is taken back when its frame is not sent whole.
Call(s, m) ==
  /\ calls < MaxSent /\ calls' = calls + 1
  /\ owner = <<>> /\ owner' = <<s>>
  /\ out' = [out EXCEPT ![s] = Frame(m)]
  /\ sent' = IF torn THEN sent ELSE Append(sent, m)
  /\ UNCHANGED <<stream, reading, torn, delivered>>

\* One call of send in the loop of sendRaw.
Send(s) ==
  /\ out[s] # <<>>
  /\ \E n \in 1..Room :
       /\ n <= Len(out[s])
       /\ stream' = stream \o SubSeq(out[s], 1, n)
       /\ out' = [out EXCEPT ![s] = SubSeq(@, n + 1, Len(@))]
  /\ owner' = IF out'[s] = <<>> THEN <<>> ELSE owner
  /\ UNCHANGED <<reading, sent, torn, delivered, calls>>

\* send returns nothing or an error.  The peer stays active: what the frame has
\* put on the stream stays there, and the next frame comes after it.
SendFails(s) ==
  /\ out[s] # <<>> /\ out' = [out EXCEPT ![s] = <<>>] /\ owner' = <<>>
  /\ sent' = IF torn THEN sent ELSE Front(sent)
  /\ torn' = (torn \/ Len(out[s]) < Len(Frame(Last(sent))))
  /\ UNCHANGED <<stream, reading, delivered, calls>>

\* recv with MSG_WAITALL: the length of the body, 4 MB at most.
RecvHeader ==
  /\ reading.step = "header" /\ Len(stream) >= HeaderLen
  /\ LET len == BodyLen(First(HeaderLen))
     IN  reading' = IF len > MaxBody THEN [step |-> "closed", length |-> 0]
                                     ELSE [step |-> "body", length |-> len]
  /\ stream' = Rest(HeaderLen)
  /\ UNCHANGED <<out, owner, sent, torn, delivered, calls>>

\* A body that is too short for a type is skipped, a message that the reader
\* answers itself is its last one, and any other one is delivered.
RecvBody ==
  /\ reading.step = "body" /\ Len(stream) >= reading.length
  /\ stream' = Rest(reading.length)
  /\ LET m == Unframe(First(reading.length))
     IN  IF reading.length < TypeLen
         THEN reading' = AwaitHeader /\ UNCHANGED delivered
         ELSE IF m.type \in Answered
         THEN reading' = Answering /\ UNCHANGED delivered
         ELSE reading' = AwaitHeader /\ delivered' = Append(delivered, m)
  /\ UNCHANGED <<out, owner, sent, torn, calls>>

\* recv returns less than it was asked for: the connection ended, or
\* SO_RCVTIMEO passed in the middle of a frame or between two.
RecvShort ==
  /\ reading.step \in {"header", "body"} /\ Len(stream) < reading.length
  /\ reading' = [step |-> "closed", length |-> 0] /\ stream' = <<>>
  /\ UNCHANGED <<out, owner, sent, torn, delivered, calls>>

WireRuns == RecvHeader \/ RecvBody \/ \E s \in Sender : Send(s)

WireNext == \/ \E s \in Sender, m \in Message : Call(s, m)
            \/ \E s \in Sender : SendFails(s)
            \/ WireRuns \/ RecvShort

-----------------------------------------------------------------------------
\* What a handler is given of a message: its type cut to length.
Received(m) == [type |-> Trim(Fit(m.type)), payload |-> m.payload]

(* The handler sees the messages in the order in which their senders got    *)
(* the mutex, each one whole and once, however the bytes are cut and        *)
(* whoever sends meanwhile, up to the first frame that was given up half-way *)
(* (node.cpp:52-76, 283-302); what comes after that one may be anything.    *)
DeliveredInOrder ==
  LET expected == [i \in DOMAIN sent |-> Received(sent[i])]
  IN  IsPrefix(delivered, expected) \/ (torn /\ IsPrefix(expected, delivered))

\* The messages before the first one that the reader answers itself.
Handed == {i \in DOMAIN sent : \A j \in 1..i : Received(sent[j]).type \notin Answered}

(* If no send fails and no receiver gives up, every message is delivered    *)
(* until the reader answers one, and the reader does come to answer it, from *)
(* where it never returns (node.cpp:52-60, 183-217, 290): the kernel goes   *)
(* on taking and handing over bytes, and a sender that waits for the mutex  *)
(* does not hold any up.                                                    *)
DeliveredUntilAnswered ==
  \A n \in 1..MaxSent :
    (calls = n) ~> \/ /\ Len(delivered) = Cardinality(Handed)
                      /\ Handed = DOMAIN sent \/ reading.step = "answering"
                   \/ Len(sent) < calls \/ reading.step = "closed"
=============================================================================
