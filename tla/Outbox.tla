------------------------------- MODULE Outbox -------------------------------
(***************************************************************************)
(* The sending half of one connected MqttClient: sendPacketByTcpConnection *)
(* and _drainOutbox, called by two tasks.  The network task sends CONNACK  *)
(* and PINGRESP and drains on onAck / onPoll; the worker sends PUBLISH and *)
(* SUBACK and drains from processKeepAlives.  Only the outbox itself is    *)
(* protected by _outboxMutex: the transport is asked for its space and     *)
(* written to by either task at any time.                                  *)
(*                                                                         *)
(* A packet is its number; what TCP acknowledges, or the WebSocket queue   *)
(* hands on, gives room back to the transport.                             *)
(***************************************************************************)
EXTENDS Naturals, Sequences

CONSTANTS
    Tasks,          \* the tasks that call into the client
    Senders,        \* those of them that send packets of their own
    Framed,         \* WebSocket: whole messages; TCP: bytes
    Window,         \* bytes (TCP) or messages (WebSocket) the transport takes
    FrameSpace,     \* what WsTransport::space() claims, 1024 in the code
    Lengths,        \* packet lengths
    Limits,         \* values of outboxMaxSize, 100 in the code
    MaxPackets      \* bound: packets sent in a behaviour

NoPacket == 0
Packets  == 1..MaxPackets

ASSUME OutboxAssumption ==
    /\ Senders \subseteq Tasks /\ "free" \notin Tasks
    /\ Framed \in BOOLEAN
    /\ Window \in Nat \ {0} /\ FrameSpace \in Nat
    /\ Lengths \subseteq Nat \ {0}
    /\ Limits \subseteq Nat
    /\ MaxPackets \in Nat

VARIABLES
    connected, room,            \* the transport
    wire,                       \* what it was given: packet and bytes taken
    outbox, outboxMaxSize, outboxMutex,
    pc, packet,                 \* each task: where it is, what it is sending
    submitted, sender, length,  \* how many were sent so far; who sends each, how long
    dropped,                    \* history: packets that met a full outbox
    raced                       \* history: a write between another's test and write

transportVars == <<connected, room, wire, raced>>
queueVars     == <<outbox, outboxMutex>>
packetVars    == <<submitted, sender, length>>
vars == <<transportVars, queueVars, outboxMaxSize, pc, packet, packetVars, dropped>>

Init ==
    /\ connected = TRUE /\ room = Window /\ wire = <<>>
    /\ outbox = <<>> /\ outboxMaxSize \in Limits /\ outboxMutex = "free"
    /\ pc = [t \in Tasks |-> "idle"] /\ packet = [t \in Tasks |-> NoPacket]
    /\ submitted = 0
    /\ sender \in [Packets -> Senders] /\ length \in [Packets -> Lengths]
    /\ dropped = {} /\ raced = FALSE

-----------------------------------------------------------------------------
(* The transport.                                                          *)

CanSend == connected /\ room > 0

Space == IF ~CanSend THEN 0 ELSE IF Framed THEN FrameSpace ELSE room

Fits(p) == CanSend /\ Space >= length[p]

\* Mutant: write() is believed to take everything.
WrittenAll(p) == IF ~connected THEN 0 ELSE length[p]

\* What send() returns: TCP takes what there is room for, and a WebSocket says
\* that it took the whole message even when its queue is full.
Written(p) ==
    IF ~connected THEN 0
    ELSE IF Framed \/ length[p] <= room THEN length[p] ELSE room

\* The effect of send(): a WebSocket with a full queue discards the message.
Transmit(t, p) ==
    /\ IF Written(p) = 0 \/ room = 0
       THEN UNCHANGED <<room, wire>>
       ELSE /\ room' = room - (IF Framed THEN 1 ELSE Written(p))
            /\ wire' = Append(wire, [id |-> p, bytes |-> Written(p)])
    /\ raced' = IF \E u \in Tasks \ {t} : pc[u] \in {"fastSend", "drainSend"}
                THEN TRUE ELSE raced
    /\ UNCHANGED connected

\* An acknowledgement arrives.
Acknowledge(r) ==
    /\ connected /\ r > room
    /\ room' = r
    /\ UNCHANGED <<connected, wire, raced, queueVars, outboxMaxSize, pc, packet,
                   packetVars, dropped>>

Disconnect ==
    /\ connected
    /\ connected' = FALSE
    /\ UNCHANGED <<room, wire, raced, queueVars, outboxMaxSize, pc, packet, packetVars,
                   dropped>>

-----------------------------------------------------------------------------
(* sendPacketByTcpConnection.                                              *)

Goto(t, label) == pc' = [pc EXCEPT ![t] = label]

\* The next packet is its sender's; the call begins with the connection test.
Send(t) ==
    /\ pc[t] = "idle" /\ submitted < MaxPackets /\ sender[submitted + 1] = t
    /\ submitted' = submitted + 1
    /\ packet' = [packet EXCEPT ![t] = submitted + 1]
    /\ Goto(t, IF connected THEN "lockSend" ELSE "lockClear")
    /\ UNCHANGED <<transportVars, queueVars, outboxMaxSize, sender, length, dropped>>

\* Not connected: the outbox is emptied under the mutex, and the packet is lost.
ClearOutbox(t) ==
    /\ pc[t] = "lockClear" /\ outboxMutex = "free"
    /\ outbox' = <<>>
    /\ Goto(t, "idle") /\ packet' = [packet EXCEPT ![t] = NoPacket]
    /\ UNCHANGED <<transportVars, outboxMutex, outboxMaxSize, packetVars, dropped>>

LockSend(t) ==
    /\ pc[t] = "lockSend" /\ outboxMutex = "free"
    /\ outboxMutex' = t
    /\ Goto(t, "enqueue")
    /\ UNCHANGED <<transportVars, outbox, outboxMaxSize, packet, packetVars, dropped>>

\* The critical section: FIFO logic and queue protection, with what the test of
\* the transport said (ready) and of the queue (waiting).
Decide(t, ready, waiting) ==
    LET p == packet[t] IN
    /\ pc[t] = "enqueue"
    /\ outboxMutex' = "free"
    /\ IF waiting \/ ~ready
       THEN /\ IF Len(outbox) < outboxMaxSize
               THEN outbox' = Append(outbox, p) /\ UNCHANGED dropped
               ELSE dropped' = dropped \cup {p} /\ UNCHANGED outbox
            /\ Goto(t, IF ready THEN "drain" ELSE "idle")
            /\ packet' = [packet EXCEPT ![t] = NoPacket]
       ELSE Goto(t, "fastSend") /\ UNCHANGED <<outbox, dropped, packet>>
    /\ UNCHANGED <<transportVars, outboxMaxSize, packetVars>>

\* Mutant: the fast path is taken although packets are waiting.
EnqueueBypassing(t) == Decide(t, Fits(packet[t]), FALSE)

\* Mutant: the transport is not asked whether it is ready.
EnqueueUntested(t) == Decide(t, TRUE, outbox # <<>>)

Enqueue(t) == Decide(t, Fits(packet[t]), outbox # <<>>)

\* The fast path: the mutex has been released, the result of send() is ignored.
FastSend(t) ==
    /\ pc[t] = "fastSend"
    /\ Transmit(t, packet[t])
    /\ Goto(t, "idle") /\ packet' = [packet EXCEPT ![t] = NoPacket]
    /\ UNCHANGED <<queueVars, outboxMaxSize, packetVars, dropped>>

-----------------------------------------------------------------------------
(* _drainOutbox.                                                           *)

\* onAck and onPoll call it in the network task, processOutbox in the worker.
StartDrain(t) ==
    /\ pc[t] = "idle"
    /\ Goto(t, "drain")
    /\ UNCHANGED <<transportVars, queueVars, outboxMaxSize, packet, packetVars, dropped>>

\* Not connected, or the mutex did not come within 10 ms.
SkipDrain(t) ==
    /\ pc[t] = "drain" /\ (connected => outboxMutex # "free")
    /\ Goto(t, "idle")
    /\ UNCHANGED <<transportVars, queueVars, outboxMaxSize, packet, packetVars, dropped>>

LockDrain(t) ==
    /\ pc[t] = "drain" /\ connected /\ outboxMutex = "free"
    /\ outboxMutex' = t
    /\ Goto(t, "drainCheck")
    /\ UNCHANGED <<transportVars, outbox, outboxMaxSize, packet, packetVars, dropped>>

\* Mutant: the space left is not compared with the length of the head.
DrainCheckUnmeasured(t) ==
    /\ pc[t] = "drainCheck"
    /\ IF outbox # <<>> /\ CanSend
       THEN Goto(t, "drainSend") /\ UNCHANGED outboxMutex
       ELSE Goto(t, "idle") /\ outboxMutex' = "free"
    /\ UNCHANGED <<transportVars, outbox, outboxMaxSize, packet, packetVars, dropped>>

\* Mutant: the mutex is not given back when there is nothing to send.
DrainCheckKeepingMutex(t) ==
    /\ pc[t] = "drainCheck"
    /\ Goto(t, IF outbox # <<>> /\ Fits(Head(outbox)) THEN "drainSend" ELSE "idle")
    /\ UNCHANGED <<transportVars, queueVars, outboxMaxSize, packet, packetVars, dropped>>

\* The head of the loop: is there a packet, and does the transport have space?
DrainCheck(t) ==
    /\ pc[t] = "drainCheck"
    /\ IF outbox # <<>> /\ Fits(Head(outbox))
       THEN Goto(t, "drainSend") /\ UNCHANGED outboxMutex
       ELSE Goto(t, "idle") /\ outboxMutex' = "free"
    /\ UNCHANGED <<transportVars, outbox, outboxMaxSize, packet, packetVars, dropped>>

\* A packet that was not written whole stays at the head, to be sent again.
DrainSend(t) ==
    LET p == Head(outbox) IN
    /\ pc[t] = "drainSend"
    /\ Transmit(t, p)
    /\ IF Written(p) = length[p]
       THEN outbox' = Tail(outbox) /\ Goto(t, "drainCheck") /\ UNCHANGED outboxMutex
       ELSE outboxMutex' = "free" /\ Goto(t, "idle") /\ UNCHANGED outbox
    /\ UNCHANGED <<outboxMaxSize, packet, packetVars, dropped>>

-----------------------------------------------------------------------------

\* MqttClient::setOutboxMaxSize: _outboxMutex is not taken.
SetOutboxMaxSize(n) ==
    /\ outboxMaxSize' = n
    /\ UNCHANGED <<transportVars, queueVars, pc, packet, packetVars, dropped>>

\* The steps a task takes by itself once it is inside a call.
Continue(t) ==
    \/ Enqueue(t) \/ FastSend(t) \/ SkipDrain(t) \/ DrainCheck(t) \/ DrainSend(t)

Lock(t) == LockSend(t) \/ LockDrain(t) \/ ClearOutbox(t)

Next ==
    \/ \E t \in Tasks : Send(t) \/ StartDrain(t) \/ Lock(t) \/ Continue(t)
    \/ \E r \in 1..Window : Acknowledge(r)
    \/ Disconnect
    \/ \E n \in Limits : SetOutboxMaxSize(n)

Spec == Init /\ [][Next]_vars

\* Fairness.  A task inside a call goes on, and gets a mutex that is free again and
\* again; acknowledgements arrive while the connection lasts; onPoll and the
\* keep-alive walk come periodically.
FairSpec ==
    /\ Spec
    /\ \A t \in Tasks : WF_vars(Continue(t)) /\ SF_vars(Lock(t)) /\ WF_vars(StartDrain(t))
    /\ WF_vars(Acknowledge(Window))

-----------------------------------------------------------------------------
(* Properties.                                                             *)

Chunks == [id : Packets, bytes : Nat]

\* Every variable keeps its type, and the transport never takes more than it has
\* room for.
TypeOK ==
    /\ connected \in BOOLEAN /\ room \in 0..Window /\ wire \in Seq(Chunks)
    /\ outbox \in Seq(Packets) /\ outboxMaxSize \in Limits
    /\ outboxMutex \in Tasks \cup {"free"}
    /\ pc \in [Tasks -> {"idle", "lockSend", "lockClear", "enqueue", "fastSend", "drain",
                         "drainCheck", "drainSend"}]
    /\ packet \in [Tasks -> Packets \cup {NoPacket}]
    /\ submitted \in 0..MaxPackets
    /\ sender \in [Packets -> Senders] /\ length \in [Packets -> Lengths]
    /\ dropped \subseteq Packets /\ raced \in BOOLEAN

\* The packets the peer has got and will get, in order.
Line(i) == IF i <= Len(wire) THEN wire[i].id ELSE outbox[i - Len(wire)]
Places  == 1..(Len(wire) + Len(outbox))

\* Packets of one sender never overtake each other, neither on the fast path, nor
\* in the outbox, nor by a repeated write, whoever drains.
OrderKept ==
    \A i, j \in Places : i < j /\ sender[Line(i)] = sender[Line(j)] => Line(i) <= Line(j)

\* The peer gets every packet whole and once.
Intact ==
    /\ \A i \in DOMAIN wire : wire[i].bytes = length[wire[i].id]
    /\ \A i, j \in Places : Line(i) = Line(j) => i = j

\* The stream is torn, or a packet repeated, only after one task has written between
\* the other's test of the space and its write.
IntactUnlessRaced == ~raced => Intact

\* While the connection lasts and no such race has happened, a packet handed to
\* sendPacketByTcpConnection is on the wire, in the outbox or in its sender's
\* hands, unless it met a full outbox.
NothingLost ==
    connected /\ ~raced =>
        \A p \in 1..submitted :
            \/ p \in dropped
            \/ \E t \in Tasks : packet[t] = p
            \/ \E i \in Places : Line(i) = p

Waiting(p) == \E i \in DOMAIN outbox : outbox[i] = p

\* A packet in the outbox is sent in the end, unless the connection is lost.
EventuallySent == \A p \in Packets : Waiting(p) ~> ~Waiting(p) \/ ~connected
=============================================================================
