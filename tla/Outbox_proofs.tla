--------------------------- MODULE Outbox_proofs ---------------------------
(***************************************************************************)
(* Proofs about Outbox, for any set of tasks, transport, packet lengths    *)
(* and limits.                                                             *)
(***************************************************************************)
EXTENDS Outbox, TLAPS

USE OutboxAssumption DEF Packets, NoPacket

-----------------------------------------------------------------------------
(* Types.                                                                  *)

\* send() takes no more than there is room for, and writing keeps the types of the
\* transport (Transmit, the only operation that touches room and wire).
LEMMA TransmitType ==
    ASSUME TypeOK, NEW t \in Tasks, NEW p \in Packets, Transmit(t, p)
    PROVE  room' \in 0..Window /\ wire' \in Seq(Chunks) /\ raced' \in BOOLEAN
<1>1. length[p] \in Nat \ {0} /\ room \in 0..Window
  BY DEF TypeOK
<1>2. Written(p) \in Nat /\ (~Framed => Written(p) <= room)
  BY <1>1 DEF Written
<1>3. [id |-> p, bytes |-> Written(p)] \in Chunks
  BY <1>2 DEF Chunks
<1>4. raced' \in BOOLEAN
  BY DEF Transmit, TypeOK
<1> DEFINE c == [id |-> p, bytes |-> Written(p)]
<1>5. wire' \in Seq(Chunks)
  <2>1. wire \in Seq(Chunks)
    BY DEF TypeOK
  <2>2. wire' = wire \/ wire' = Append(wire, c)
    BY DEF Transmit
  <2>3. c \in Chunks
    BY <1>3
  <2> HIDE DEF c
  <2> QED
    BY <2>1, <2>2, <2>3
<1>6. room' \in 0..Window
  BY <1>1, <1>2 DEF Transmit
<1> QED
  BY <1>4, <1>5, <1>6

\* The three ways out of the critical section of sendPacketByTcpConnection: the packet
\* is to be written at once, it is queued, or the outbox is full.
LEMMA EnqueueCases ==
    ASSUME NEW t \in Tasks, Enqueue(t)
    PROVE  \/ /\ outbox = <<>> /\ Fits(packet[t])
              /\ pc' = [pc EXCEPT ![t] = "fastSend"]
              /\ outbox' = outbox /\ dropped' = dropped /\ packet' = packet
           \/ /\ \/ /\ Len(outbox) < outboxMaxSize
                    /\ outbox' = Append(outbox, packet[t]) /\ dropped' = dropped
                 \/ /\ outbox' = outbox /\ dropped' = dropped \cup {packet[t]}
              /\ \/ pc' = [pc EXCEPT ![t] = "drain"]
                 \/ pc' = [pc EXCEPT ![t] = "idle"]
              /\ packet' = [packet EXCEPT ![t] = NoPacket]
<1> DEFINE ready == Fits(packet[t])
           p == packet[t]
<1> HIDE DEF NoPacket
<1>1. IF outbox # <<>> \/ ~ready
      THEN /\ IF Len(outbox) < outboxMaxSize
              THEN outbox' = Append(outbox, p) /\ UNCHANGED dropped
              ELSE dropped' = dropped \cup {p} /\ UNCHANGED outbox
           /\ Goto(t, IF ready THEN "drain" ELSE "idle")
           /\ packet' = [packet EXCEPT ![t] = NoPacket]
      ELSE Goto(t, "fastSend") /\ UNCHANGED <<outbox, dropped, packet>>
  BY DEF Enqueue, Decide
<1>2. CASE outbox # <<>> \/ ~ready
  <2>1. /\ IF Len(outbox) < outboxMaxSize
           THEN outbox' = Append(outbox, p) /\ UNCHANGED dropped
           ELSE dropped' = dropped \cup {p} /\ UNCHANGED outbox
        /\ Goto(t, IF ready THEN "drain" ELSE "idle")
        /\ packet' = [packet EXCEPT ![t] = NoPacket]
    BY <1>1, <1>2, Zenon
  <2>2. Goto(t, "drain") \/ Goto(t, "idle")
    BY <2>1, Zenon
  <2> QED
    BY <2>1, <2>2 DEF Goto
<1>3. CASE ~(outbox # <<>> \/ ~ready)
  BY <1>1, <1>3, Zenon DEF Goto
<1> QED
  BY <1>2, <1>3

\* Every step keeps every variable's type; a writing task has something to write.
TypeInv ==
    /\ TypeOK
    /\ \A t \in Tasks : pc[t] \in {"lockSend", "lockClear", "enqueue", "fastSend"} <=>
                        packet[t] # NoPacket
    /\ \A t \in Tasks : pc[t] \in {"enqueue", "drainCheck", "drainSend"} <=> outboxMutex = t
    /\ \A t \in Tasks : pc[t] = "drainSend" => outbox # <<>>

\* The type invariant, with what relates the program counters to the mutex and to
\* the packets in hand, is kept by every step.
LEMMA TypeInductive == TypeInv /\ [Next]_vars => TypeInv'
<1> SUFFICES ASSUME TypeInv, [Next]_vars PROVE TypeInv'
  OBVIOUS
<1> USE DEF TypeInv, TypeOK, Goto
<1>1. ASSUME NEW t \in Tasks, Send(t) PROVE TypeInv'
  BY <1>1 DEF Send, transportVars, queueVars
<1>2. ASSUME NEW t \in Tasks, StartDrain(t) PROVE TypeInv'
  BY <1>2 DEF StartDrain, transportVars, queueVars, packetVars
<1>3. ASSUME NEW t \in Tasks, LockSend(t) PROVE TypeInv'
  BY <1>3 DEF LockSend, transportVars, packetVars
<1>4. ASSUME NEW t \in Tasks, LockDrain(t) PROVE TypeInv'
  BY <1>4 DEF LockDrain, transportVars, packetVars
<1>5. ASSUME NEW t \in Tasks, ClearOutbox(t) PROVE TypeInv'
  BY <1>5 DEF ClearOutbox, transportVars, packetVars
<1>6. ASSUME NEW t \in Tasks, Enqueue(t) PROVE TypeInv'
  <2>1. packet[t] \in Packets /\ pc[t] = "enqueue" /\ outboxMutex = t
    BY <1>6 DEF Enqueue, Decide
  <2>2. /\ outbox' \in Seq(Packets) /\ dropped' \subseteq Packets
        /\ outboxMutex' = "free"
        /\ \/ pc' = [pc EXCEPT ![t] = "fastSend"] /\ packet' = packet
           \/ /\ pc' = [pc EXCEPT ![t] = "drain"] \/ pc' = [pc EXCEPT ![t] = "idle"]
              /\ packet' = [packet EXCEPT ![t] = NoPacket]
    <3>1. outboxMutex' = "free"
      BY <1>6 DEF Enqueue, Decide
    <3>2. outbox' = outbox \/ outbox' = Append(outbox, packet[t])
      BY <1>6, EnqueueCases
    <3>3. dropped' = dropped \/ dropped' = dropped \cup {packet[t]}
      BY <1>6, EnqueueCases
    <3>4. \/ pc' = [pc EXCEPT ![t] = "fastSend"] /\ packet' = packet
          \/ /\ pc' = [pc EXCEPT ![t] = "drain"] \/ pc' = [pc EXCEPT ![t] = "idle"]
             /\ packet' = [packet EXCEPT ![t] = NoPacket]
      BY <1>6, EnqueueCases, Zenon
    <3>5. outbox' \in Seq(Packets) /\ dropped' \subseteq Packets
      <4>1. outbox \in Seq(Packets) /\ dropped \subseteq Packets /\ packet[t] \in Packets
        BY <2>1
      <4> HIDE DEF TypeOK, TypeInv, Packets
      <4>2. outbox' \in Seq(Packets)
        BY <4>1, <3>2
      <4>3. dropped' \subseteq Packets
        BY <4>1, <3>3
      <4> QED
        BY <4>2, <4>3
    <3> QED
      BY <3>1, <3>4, <3>5, Zenon
  <2>3. TypeOK'
    BY <1>6, <2>2 DEF Enqueue, Decide, transportVars, packetVars
  <2>4. \A u \in Tasks : /\ pc'[u] \notin {"enqueue", "drainCheck", "drainSend"}
                         /\ pc'[u] \in {"lockSend", "lockClear", "enqueue", "fastSend"} <=>
                            packet'[u] # NoPacket
    BY <2>1, <2>2
  <2> QED
    BY <2>2, <2>3, <2>4
<1>7. ASSUME NEW t \in Tasks, FastSend(t) PROVE TypeInv'
  <2>1. packet[t] \in Packets
    BY <1>7 DEF FastSend
  <2>2. room' \in 0..Window /\ wire' \in Seq(Chunks) /\ raced' \in BOOLEAN
    BY <1>7, <2>1, TransmitType DEF FastSend
  <2>3. TypeOK'
    BY <1>7, <2>2 DEF FastSend, Transmit, queueVars, packetVars
  <2>4. pc' = [pc EXCEPT ![t] = "idle"] /\ packet' = [packet EXCEPT ![t] = NoPacket]
        /\ outbox' = outbox /\ outboxMutex' = outboxMutex /\ pc[t] = "fastSend"
    BY <1>7 DEF FastSend, queueVars
  <2>5. \A u \in Tasks : pc'[u] \in {"lockSend", "lockClear", "enqueue", "fastSend"} <=>
                         packet'[u] # NoPacket
    BY <2>4
  <2>6. \A u \in Tasks : pc'[u] \in {"enqueue", "drainCheck", "drainSend"} <=> outboxMutex' = u
    BY <2>4
  <2>7. \A u \in Tasks : pc'[u] = "drainSend" => outbox' # <<>>
    BY <2>4
  <2> HIDE DEF TypeOK
  <2> QED
    BY <2>3, <2>5, <2>6, <2>7
<1>8. ASSUME NEW t \in Tasks, SkipDrain(t) PROVE TypeInv'
  BY <1>8 DEF SkipDrain, transportVars, queueVars, packetVars
<1>9. ASSUME NEW t \in Tasks, DrainCheck(t) PROVE TypeInv'
  BY <1>9 DEF DrainCheck, transportVars, packetVars
<1>10. ASSUME NEW t \in Tasks, DrainSend(t) PROVE TypeInv'
  <2>1. Head(outbox) \in Packets /\ Tail(outbox) \in Seq(Packets)
    BY <1>10 DEF DrainSend
  <2>2. room' \in 0..Window /\ wire' \in Seq(Chunks) /\ raced' \in BOOLEAN
    BY <1>10, <2>1, TransmitType DEF DrainSend
  <2>3. TypeOK'
    BY <1>10, <2>1, <2>2 DEF DrainSend, Transmit, packetVars
  <2>4. /\ pc[t] = "drainSend" /\ packet' = packet
        /\ \/ pc' = [pc EXCEPT ![t] = "drainCheck"] /\ outboxMutex' = outboxMutex
           \/ pc' = [pc EXCEPT ![t] = "idle"] /\ outboxMutex' = "free"
    BY <1>10 DEF DrainSend
  <2>5. \A u \in Tasks : pc'[u] # "drainSend"
    BY <2>4
  <2>6. \A u \in Tasks : pc'[u] \in {"enqueue", "drainCheck", "drainSend"} <=> outboxMutex' = u
    BY <2>4
  <2>7. \A u \in Tasks : pc'[u] \in {"lockSend", "lockClear", "enqueue", "fastSend"} <=>
                         packet'[u] # NoPacket
    BY <2>4
  <2> HIDE DEF TypeOK
  <2> QED
    BY <2>3, <2>5, <2>6, <2>7
<1>11. ASSUME NEW r \in 1..Window, Acknowledge(r) PROVE TypeInv'
  BY <1>11 DEF Acknowledge, queueVars, packetVars
<1>12. CASE Disconnect
  BY <1>12 DEF Disconnect, queueVars, packetVars
<1>13. ASSUME NEW n \in Limits, SetOutboxMaxSize(n) PROVE TypeInv'
  BY <1>13 DEF SetOutboxMaxSize, transportVars, queueVars, packetVars
<1>14. CASE UNCHANGED vars
  BY <1>14 DEF vars, transportVars, queueVars, packetVars
<1> HIDE DEF TypeInv
<1> QED
  BY <1>1, <1>2, <1>3, <1>4, <1>5, <1>6, <1>7, <1>8, <1>9, <1>10, <1>11, <1>12, <1>13,
     <1>14 DEF Next, Lock, Continue

\* Initially every variable has its type.
LEMMA TypeInit == Init => TypeInv
<1> SUFFICES ASSUME Init PROVE TypeInv
  OBVIOUS
<1>1. TypeOK
  <2>1. wire \in Seq(Chunks) /\ outbox \in Seq(Packets)
    BY DEF Init
  <2>2. pc \in [Tasks -> {"idle"}] /\ packet \in [Tasks -> {NoPacket}]
    BY DEF Init
  <2>3. room \in 0..Window /\ submitted \in 0..MaxPackets
    BY DEF Init
  <2>4. /\ pc \in [Tasks -> {"idle", "lockSend", "lockClear", "enqueue", "fastSend", "drain",
                             "drainCheck", "drainSend"}]
        /\ packet \in [Tasks -> Packets \cup {NoPacket}]
    BY <2>2
  <2> QED
    BY <2>1, <2>3, <2>4 DEF Init, TypeOK
<1>2. \A t \in Tasks : pc[t] = "idle" /\ packet[t] = NoPacket /\ outboxMutex # t
  BY DEF Init
<1> QED
  BY <1>1, <1>2 DEF TypeInv

\* The outbox, the transport and the tasks keep their types.
THEOREM TypeCorrect == Spec => []TypeOK
<1>1. TypeInv => TypeOK
  BY DEF TypeInv
<1> QED
  BY <1>1, TypeInit, TypeInductive, PTL DEF Spec

-----------------------------------------------------------------------------
(* Sequences.                                                              *)

\* Where the elements of a sequence are once one is appended to it.
LEMMA AppendPlaces ==
    ASSUME NEW S, NEW s \in Seq(S), NEW x \in S
    PROVE  /\ Len(s) \in Nat /\ DOMAIN s = 1..Len(s)
           /\ DOMAIN Append(s, x) = 1..(Len(s) + 1)
           /\ \A i \in 1..(Len(s) + 1) :
                 \/ i \in DOMAIN s /\ Append(s, x)[i] = s[i]
                 \/ i = Len(s) + 1 /\ Append(s, x)[i] = x
  OBVIOUS

\* Where they are once the first one is removed.
LEMMA TailPlaces ==
    ASSUME NEW S, NEW s \in Seq(S), s # <<>>
    PROVE  /\ Len(s) \in Nat \ {0} /\ DOMAIN s = 1..Len(s)
           /\ 1 \in DOMAIN s /\ Head(s) = s[1]
           /\ DOMAIN Tail(s) = 1..(Len(s) - 1)
           /\ \A i \in DOMAIN Tail(s) :
                 i \in Nat /\ i >= 1 /\ i + 1 \in DOMAIN s /\ Tail(s)[i] = s[i + 1]
  OBVIOUS

-----------------------------------------------------------------------------
(* Order.                                                                  *)

\* What a task holds is its own, was submitted, and is being cleared away only
\* after the connection is lost.
HandInv ==
    \A t \in Tasks : /\ packet[t] <= submitted
                     /\ packet[t] # NoPacket => sender[packet[t]] = t
                     /\ pc[t] = "lockClear" => ~connected

Sent(i) == wire[i].id

\* One sender's packets: what was sent comes before what waits, and both come before
\* what the sender holds; a sender on the fast path has nothing waiting.
OrderInv ==
    /\ \A i \in DOMAIN outbox : outbox[i] <= submitted
    /\ \A i \in DOMAIN wire : Sent(i) <= submitted
    /\ \A i, j \in DOMAIN outbox :
          i < j /\ sender[outbox[i]] = sender[outbox[j]] => outbox[i] < outbox[j]
    /\ \A i, j \in DOMAIN wire :
          i < j /\ sender[Sent(i)] = sender[Sent(j)] => Sent(i) <= Sent(j)
    /\ \A i \in DOMAIN wire, j \in DOMAIN outbox :
          sender[Sent(i)] = sender[outbox[j]] => Sent(i) <= outbox[j]
    /\ \A t \in Tasks : packet[t] # NoPacket =>
          /\ \A i \in DOMAIN outbox : sender[outbox[i]] = t => outbox[i] < packet[t]
          /\ \A i \in DOMAIN wire : sender[Sent(i)] = t => Sent(i) < packet[t]
    /\ \A t \in Tasks : pc[t] = "fastSend" => \A i \in DOMAIN outbox : sender[outbox[i]] # t

\* send() gives the wire the packet it was called with, or nothing.
LEMMA TransmitWire ==
    ASSUME TypeOK, NEW t \in Tasks, NEW p \in Packets, Transmit(t, p)
    PROVE  \/ wire' = wire
           \/ \E c \in Chunks : /\ c.id = p /\ c.bytes = Written(p)
                                /\ wire' = Append(wire, c)
<1>1. length[p] \in Nat \ {0} /\ room \in 0..Window
  BY DEF TypeOK
<1>2. Written(p) \in Nat
  BY <1>1 DEF Written
<1> DEFINE c == [id |-> p, bytes |-> Written(p)]
<1>3. c \in Chunks /\ c.id = p /\ c.bytes = Written(p)
  BY <1>2 DEF Chunks
<1>4. wire' = wire \/ wire' = Append(wire, c)
  BY DEF Transmit
<1> HIDE DEF c
<1> QED
  BY <1>3, <1>4

\* A step that leaves the queue, the wire and the hands alone keeps the order.
LEMMA OrderQuiet ==
    ASSUME HandInv, OrderInv, UNCHANGED <<wire, outbox, packet, submitted, sender>>,
           \A t \in Tasks : pc'[t] = "fastSend" => pc[t] = "fastSend"
    PROVE  OrderInv'
  BY DEF OrderInv, Sent

\* Every step keeps what the tasks hold their own.
LEMMA HandInductive == TypeInv /\ HandInv /\ [Next]_vars => HandInv'
<1> SUFFICES ASSUME TypeInv, HandInv, [Next]_vars PROVE HandInv'
  OBVIOUS
<1> USE DEF TypeInv, TypeOK, HandInv, Goto
<1>1. ASSUME NEW t \in Tasks, Send(t) PROVE HandInv'
  <2>1. submitted' = submitted + 1 /\ sender[submitted + 1] = t
        /\ packet' = [packet EXCEPT ![t] = submitted + 1]
        /\ sender' = sender /\ connected' = connected
    BY <1>1 DEF Send, transportVars
  <2>2. \A u \in Tasks : pc'[u] = "lockClear" => ~connected'
    BY <1>1, <2>1 DEF Send
  <2>3. \A u \in Tasks : /\ packet'[u] <= submitted'
                         /\ packet'[u] # NoPacket => sender'[packet'[u]] = u
    BY <2>1
  <2> QED
    BY <2>2, <2>3, Zenon
<1>2. ASSUME UNCHANGED <<packet, submitted, sender>>, connected' => connected,
             \A u \in Tasks : pc'[u] = "lockClear" => pc[u] = "lockClear"
      PROVE  HandInv'
  BY <1>2
<1>3. ASSUME NEW t \in Tasks, UNCHANGED <<submitted, sender, connected>>,
             packet' = [packet EXCEPT ![t] = NoPacket],
             \A u \in Tasks : pc'[u] = "lockClear" => pc[u] = "lockClear"
      PROVE  HandInv'
  BY <1>3
<1>4. ASSUME NEW t \in Tasks, StartDrain(t) \/ LockSend(t) \/ LockDrain(t) \/ SkipDrain(t)
      PROVE HandInv'
  BY <1>2, <1>4 DEF StartDrain, LockSend, LockDrain, SkipDrain, transportVars, packetVars
<1>5. ASSUME NEW t \in Tasks, DrainCheck(t) PROVE HandInv'
  BY <1>2, <1>5 DEF DrainCheck, transportVars, packetVars
<1>6. ASSUME NEW t \in Tasks, DrainSend(t) PROVE HandInv'
  BY <1>2, <1>6 DEF DrainSend, Transmit, packetVars
<1>7. ASSUME NEW t \in Tasks, ClearOutbox(t) PROVE HandInv'
  BY <1>3, <1>7 DEF ClearOutbox, transportVars, packetVars
<1>8. ASSUME NEW t \in Tasks, FastSend(t) PROVE HandInv'
  BY <1>3, <1>8 DEF FastSend, Transmit, packetVars
<1>9. ASSUME NEW t \in Tasks, Enqueue(t) PROVE HandInv'
  <2>1. UNCHANGED <<submitted, sender, connected>>
    BY <1>9 DEF Enqueue, Decide, transportVars, packetVars
  <2>2. \/ packet' = packet /\ pc' = [pc EXCEPT ![t] = "fastSend"]
        \/ packet' = [packet EXCEPT ![t] = NoPacket] /\ pc' = [pc EXCEPT ![t] = "drain"]
        \/ packet' = [packet EXCEPT ![t] = NoPacket] /\ pc' = [pc EXCEPT ![t] = "idle"]
    BY <1>9, EnqueueCases, Zenon
  <2> QED
    BY <1>2, <1>3, <2>1, <2>2
<1>10. ASSUME NEW r \in 1..Window, Acknowledge(r) PROVE HandInv'
  BY <1>2, <1>10 DEF Acknowledge, packetVars
<1>11. CASE Disconnect
  BY <1>2, <1>11 DEF Disconnect, packetVars
<1>12. ASSUME NEW n \in Limits, SetOutboxMaxSize(n) PROVE HandInv'
  BY <1>2, <1>12 DEF SetOutboxMaxSize, transportVars, packetVars
<1>13. CASE UNCHANGED vars
  BY <1>2, <1>13 DEF vars, transportVars, packetVars
<1> HIDE DEF TypeInv, TypeOK, HandInv, Goto
<1> QED
  BY <1>1, <1>4, <1>5, <1>6, <1>7, <1>8, <1>9, <1>10, <1>11, <1>12, <1>13
  DEF Next, Lock, Continue

\* Every step keeps one sender's packets in order.
LEMMA OrderInductive == TypeInv /\ HandInv /\ OrderInv /\ [Next]_vars => OrderInv'
<1> SUFFICES ASSUME TypeInv, HandInv, OrderInv, [Next]_vars PROVE OrderInv'
  OBVIOUS
<1>a. TypeOK
  BY DEF TypeInv
<1>b. /\ wire \in Seq(Chunks) /\ outbox \in Seq(Packets) /\ submitted \in Nat
      /\ pc \in [Tasks -> {"idle", "lockSend", "lockClear", "enqueue", "fastSend", "drain",
                           "drainCheck", "drainSend"}]
      /\ packet \in [Tasks -> Packets \cup {NoPacket}]
  BY <1>a DEF TypeOK
<1>c. /\ Len(wire) \in Nat /\ DOMAIN wire = 1..Len(wire)
      /\ \A i \in DOMAIN wire : wire[i] \in Chunks /\ Sent(i) \in Nat
      /\ Len(outbox) \in Nat /\ DOMAIN outbox = 1..Len(outbox)
      /\ \A i \in DOMAIN outbox : outbox[i] \in Packets /\ outbox[i] \in Nat
  <2>1. \A i \in DOMAIN outbox : outbox[i] \in Packets /\ outbox[i] \in Nat
    BY <1>b
  <2>2. /\ Len(wire) \in Nat /\ DOMAIN wire = 1..Len(wire)
        /\ \A i \in DOMAIN wire : wire[i] \in Chunks
        /\ Len(outbox) \in Nat /\ DOMAIN outbox = 1..Len(outbox)
    BY <1>b
  <2>3. \A c \in Chunks : c.id \in Nat
    BY DEF Chunks
  <2> QED
    BY <2>1, <2>2, <2>3 DEF Sent
<1>1. ASSUME NEW t \in Tasks, Send(t) PROVE OrderInv'
  <2>1. /\ UNCHANGED <<wire, outbox, sender>> /\ submitted' = submitted + 1
        /\ packet' = [packet EXCEPT ![t] = submitted + 1]
        /\ \A u \in Tasks : pc'[u] = "fastSend" => pc[u] = "fastSend"
    BY <1>1, <1>b DEF Send, Goto, transportVars, queueVars
  <2> QED
    BY <2>1, <1>b, <1>c DEF OrderInv, Sent
<1>2. ASSUME NEW t \in Tasks, ClearOutbox(t) PROVE OrderInv'
  <2>1. /\ UNCHANGED <<wire, submitted, sender>> /\ outbox' = <<>>
        /\ packet' = [packet EXCEPT ![t] = NoPacket]
        /\ DOMAIN outbox' = {}
    BY <1>2 DEF ClearOutbox, transportVars, packetVars
  <2> QED
    BY <2>1, <1>b, <1>c DEF OrderInv, Sent
<1>3. ASSUME NEW t \in Tasks, Enqueue(t) PROVE OrderInv'
  <2>1. UNCHANGED <<wire, submitted, sender>> /\ pc[t] = "enqueue"
    BY <1>3 DEF Enqueue, Decide, transportVars, packetVars
  <2>2. packet[t] \in Packets /\ packet[t] # NoPacket
    BY <2>1, <1>b DEF TypeInv
  <2>3. CASE outbox = <<>> /\ pc' = [pc EXCEPT ![t] = "fastSend"] /\ outbox' = outbox
             /\ packet' = packet
    <3>1. DOMAIN outbox = {} /\ DOMAIN outbox' = {}
      BY <2>3
    <3> QED
      BY <2>1, <2>3, <3>1 DEF OrderInv, Sent
  <2>4. ASSUME packet' = [packet EXCEPT ![t] = NoPacket], outbox' = outbox,
               \A u \in Tasks : pc'[u] = "fastSend" => pc[u] = "fastSend"
        PROVE OrderInv'
    BY <2>1, <2>4, <1>b DEF OrderInv, Sent
  <2>5. ASSUME packet' = [packet EXCEPT ![t] = NoPacket],
               outbox' = Append(outbox, packet[t]),
               \A u \in Tasks : pc'[u] = "fastSend" => pc[u] = "fastSend" /\ u # t
        PROVE OrderInv'
    <3>1. /\ DOMAIN outbox' = 1..(Len(outbox) + 1)
          /\ \A i \in DOMAIN outbox' :
                \/ i \in DOMAIN outbox /\ outbox'[i] = outbox[i]
                \/ i = Len(outbox) + 1 /\ outbox'[i] = packet[t]
      <4> HIDE DEF Packets
      <4> QED
        BY <2>2, <2>5, <1>b, AppendPlaces
    <3>2. sender[packet[t]] = t /\ packet[t] <= submitted /\ packet[t] \in Nat
      BY <2>2 DEF HandInv
    <3>3. \A i \in DOMAIN outbox' : outbox'[i] <= submitted'
      BY <2>1, <3>1, <3>2 DEF OrderInv
    <3>4. \A i, j \in DOMAIN outbox' :
             i < j /\ sender'[outbox'[i]] = sender'[outbox'[j]] => outbox'[i] < outbox'[j]
      BY <2>1, <2>2, <3>1, <3>2, <1>c DEF OrderInv
    <3>5. \A i \in DOMAIN wire, j \in DOMAIN outbox' :
             sender[Sent(i)] = sender[outbox'[j]] => Sent(i) <= outbox'[j]
      BY <2>2, <3>1, <3>2, <1>c DEF OrderInv
    <3>6. \A u \in Tasks : packet'[u] # NoPacket =>
             \A i \in DOMAIN outbox' : sender[outbox'[i]] = u => outbox'[i] < packet'[u]
      BY <2>2, <2>5, <3>1, <3>2, <1>b DEF OrderInv
    <3>7. \A u \in Tasks : pc'[u] = "fastSend" =>
             \A i \in DOMAIN outbox' : sender[outbox'[i]] # u
      BY <2>5, <3>1, <3>2 DEF OrderInv
    <3>8. \A u \in Tasks : packet'[u] # NoPacket =>
             \A i \in DOMAIN wire : sender[Sent(i)] = u => Sent(i) < packet'[u]
      BY <2>5, <1>b DEF OrderInv
    <3> QED
      BY <2>1, <3>3, <3>4, <3>5, <3>6, <3>7, <3>8 DEF OrderInv, Sent
  <2>6. /\ pc' = [pc EXCEPT ![t] = "drain"] => \A u \in Tasks :
              pc'[u] = "fastSend" => pc[u] = "fastSend" /\ u # t
        /\ pc' = [pc EXCEPT ![t] = "idle"] => \A u \in Tasks :
              pc'[u] = "fastSend" => pc[u] = "fastSend" /\ u # t
    BY <1>b
  <2>7. \/ outbox = <<>> /\ pc' = [pc EXCEPT ![t] = "fastSend"] /\ outbox' = outbox
           /\ packet' = packet
        \/ /\ outbox' = outbox \/ outbox' = Append(outbox, packet[t])
           /\ pc' = [pc EXCEPT ![t] = "drain"] \/ pc' = [pc EXCEPT ![t] = "idle"]
           /\ packet' = [packet EXCEPT ![t] = NoPacket]
    BY <1>3, EnqueueCases, Zenon
  <2> QED
    BY <2>3, <2>4, <2>5, <2>6, <2>7, Zenon
<1>4. ASSUME NEW t \in Tasks, FastSend(t) PROVE OrderInv'
  <2>1. /\ UNCHANGED <<outbox, submitted, sender>> /\ pc[t] = "fastSend"
        /\ packet' = [packet EXCEPT ![t] = NoPacket] /\ pc' = [pc EXCEPT ![t] = "idle"]
    BY <1>4 DEF FastSend, Goto, queueVars, packetVars
  <2>2. packet[t] \in Packets /\ packet[t] # NoPacket
    BY <2>1, <1>b DEF TypeInv
  <2>3. sender[packet[t]] = t /\ packet[t] <= submitted /\ packet[t] \in Nat
    BY <2>2 DEF HandInv
  <2>4. CASE wire' = wire
    BY <2>1, <2>4, <1>b DEF OrderInv, Sent
  <2>5. ASSUME NEW c \in Chunks, c.id = packet[t], wire' = Append(wire, c) PROVE OrderInv'
    <3>1. /\ DOMAIN wire' = 1..(Len(wire) + 1)
          /\ \A i \in DOMAIN wire' :
                \/ i \in DOMAIN wire /\ wire'[i].id = Sent(i)
                \/ i = Len(wire) + 1 /\ wire'[i].id = packet[t]
      <4>1. /\ DOMAIN wire' = 1..(Len(wire) + 1)
            /\ \A i \in DOMAIN wire' : \/ i \in DOMAIN wire /\ wire'[i] = wire[i]
                                       \/ i = Len(wire) + 1 /\ wire'[i] = c
        BY <2>5, <1>b, AppendPlaces
      <4> QED
        BY <2>5, <4>1 DEF Sent
    <3>2. \A i \in DOMAIN wire' : wire'[i].id <= submitted'
      BY <2>1, <2>3, <3>1 DEF OrderInv
    <3>3. \A i, j \in DOMAIN wire' :
             i < j /\ sender'[wire'[i].id] = sender'[wire'[j].id] => wire'[i].id <= wire'[j].id
      BY <2>1, <2>2, <2>3, <3>1, <1>c DEF OrderInv
    <3>4. \A i \in DOMAIN wire', j \in DOMAIN outbox' :
             sender'[wire'[i].id] = sender'[outbox'[j]] => wire'[i].id <= outbox'[j]
      BY <2>1, <2>3, <3>1 DEF OrderInv
    <3>5. ASSUME NEW u \in Tasks, packet'[u] # NoPacket
          PROVE  /\ \A i \in DOMAIN outbox' : sender'[outbox'[i]] = u => outbox'[i] < packet'[u]
                 /\ \A i \in DOMAIN wire' : sender'[wire'[i].id] = u => wire'[i].id < packet'[u]
      <4>1. u # t /\ packet'[u] = packet[u]
        BY <2>1, <3>5, <1>b
      <4>2. \A i \in DOMAIN outbox' : sender'[outbox'[i]] = u => outbox'[i] < packet'[u]
        BY <2>1, <3>5, <4>1 DEF OrderInv
      <4>3. \A i \in DOMAIN wire' : sender'[wire'[i].id] = u => wire'[i].id < packet'[u]
        BY <2>1, <2>3, <3>1, <3>5, <4>1 DEF OrderInv
      <4> QED
        BY <4>2, <4>3
    <3>6. \A u \in Tasks : pc'[u] = "fastSend" =>
             \A i \in DOMAIN outbox' : sender'[outbox'[i]] # u
      BY <2>1, <1>b DEF OrderInv
    <3> QED
      BY <2>1, <3>2, <3>3, <3>4, <3>5, <3>6 DEF OrderInv, Sent
  <2> QED
    BY <1>a, <1>4, <2>2, <2>4, <2>5, TransmitWire DEF FastSend
<1>5. ASSUME NEW t \in Tasks, DrainSend(t) PROVE OrderInv'
  <2>1. /\ UNCHANGED <<packet, submitted, sender>> /\ pc[t] = "drainSend"
        /\ \A u \in Tasks : pc'[u] = "fastSend" => pc[u] = "fastSend"
        /\ outbox' = Tail(outbox) \/ outbox' = outbox
    BY <1>5, <1>b DEF DrainSend, Goto, packetVars
  <2>2. outbox # <<>>
    BY <2>1 DEF TypeInv
  <2> DEFINE p == outbox[1]
  <2>3. p = Head(outbox) /\ p \in Packets /\ p \in Nat /\ 1 \in DOMAIN outbox
    BY <2>2, <1>b, <1>c
  <2>4. /\ Len(outbox) \in Nat
        /\ \A i \in DOMAIN outbox' :
              \E j \in DOMAIN outbox : outbox'[i] = outbox[j] /\ i <= j
        /\ \A i, j \in DOMAIN outbox' : i < j =>
              \E k, l \in DOMAIN outbox : k < l /\ outbox'[i] = outbox[k] /\ outbox'[j] = outbox[l]
    <3>1. CASE outbox' = outbox
      BY <3>1, <1>c
    <3>2. CASE outbox' = Tail(outbox)
      <4> HIDE DEF Packets
      <4>1. \A i \in DOMAIN outbox' : i \in Nat /\ i + 1 \in DOMAIN outbox
                                      /\ outbox'[i] = outbox[i + 1]
        BY <2>2, <3>2, <1>b, TailPlaces
      <4> QED
        BY <4>1, <1>c
    <3> QED
      BY <2>1, <3>1, <3>2
  <2>5. \/ wire' = wire
        \/ \E c \in Chunks : c.id = p /\ wire' = Append(wire, c)
    BY <1>a, <1>5, <2>3, TransmitWire DEF DrainSend
  <2>6. \A i \in DOMAIN wire' :
           \/ i \in DOMAIN wire /\ wire'[i].id = Sent(i)
           \/ i = Len(wire) + 1 /\ wire'[i].id = p
    <3>1. ASSUME NEW c \in Chunks, c.id = p, wire' = Append(wire, c)
          PROVE  \A i \in DOMAIN wire' : \/ i \in DOMAIN wire /\ wire'[i] = wire[i]
                                         \/ i = Len(wire) + 1 /\ wire'[i] = c
      BY <3>1, <1>b, AppendPlaces
    <3> QED
      BY <2>5, <3>1 DEF Sent
  <2> HIDE DEF p
  <2>7. \A j \in DOMAIN outbox : sender[p] = sender[outbox[j]] => p <= outbox[j]
    BY <2>3, <1>c DEF OrderInv, p
  <2>8. p <= submitted /\ \A i \in DOMAIN wire : sender[Sent(i)] = sender[p] => Sent(i) <= p
    BY <2>3, <1>c DEF OrderInv, p
  <2>9. \A u \in Tasks : packet[u] # NoPacket /\ sender[p] = u => p < packet[u]
    BY <2>3, <1>c DEF OrderInv, p
  <2>10. /\ \A i \in DOMAIN outbox' : outbox'[i] <= submitted
         /\ \A i \in DOMAIN wire' : wire'[i].id <= submitted
    BY <2>4, <2>6, <2>8 DEF OrderInv
  <2>11. \A i, j \in DOMAIN outbox' :
            i < j /\ sender[outbox'[i]] = sender[outbox'[j]] => outbox'[i] < outbox'[j]
    BY <2>4 DEF OrderInv
  <2>12. \A i, j \in DOMAIN wire' :
            i < j /\ sender[wire'[i].id] = sender[wire'[j].id] => wire'[i].id <= wire'[j].id
    BY <2>3, <2>6, <2>8, <1>c DEF OrderInv
  <2>13. \A i \in DOMAIN wire', j \in DOMAIN outbox' :
            sender[wire'[i].id] = sender[outbox'[j]] => wire'[i].id <= outbox'[j]
    BY <2>4, <2>6, <2>7 DEF OrderInv
  <2>14. \A u \in Tasks : packet[u] # NoPacket =>
            /\ \A i \in DOMAIN outbox' : sender[outbox'[i]] = u => outbox'[i] < packet[u]
            /\ \A i \in DOMAIN wire' : sender[wire'[i].id] = u => wire'[i].id < packet[u]
    BY <2>4, <2>6, <2>9 DEF OrderInv
  <2>15. \A u \in Tasks : pc'[u] = "fastSend" =>
            \A i \in DOMAIN outbox' : sender[outbox'[i]] # u
    BY <2>1, <2>4 DEF OrderInv
  <2> QED
    BY <2>1, <2>10, <2>11, <2>12, <2>13, <2>14, <2>15 DEF OrderInv, Sent
<1>6. ASSUME UNCHANGED <<wire, outbox, packet, submitted, sender>>,
             \A u \in Tasks : pc'[u] = "fastSend" => pc[u] = "fastSend"
      PROVE  OrderInv'
  BY <1>6, OrderQuiet
<1>7. ASSUME NEW t \in Tasks, StartDrain(t) \/ LockSend(t) \/ LockDrain(t) \/ SkipDrain(t)
      PROVE OrderInv'
  BY <1>6, <1>7, <1>b DEF StartDrain, LockSend, LockDrain, SkipDrain, Goto, transportVars,
                          queueVars, packetVars
<1>8. ASSUME NEW t \in Tasks, DrainCheck(t) PROVE OrderInv'
  BY <1>6, <1>8, <1>b DEF DrainCheck, Goto, transportVars, packetVars
<1>9. ASSUME NEW r \in 1..Window, Acknowledge(r) PROVE OrderInv'
  BY <1>6, <1>9 DEF Acknowledge, queueVars, packetVars
<1>10. CASE Disconnect
  BY <1>6, <1>10 DEF Disconnect, queueVars, packetVars
<1>11. ASSUME NEW n \in Limits, SetOutboxMaxSize(n) PROVE OrderInv'
  BY <1>6, <1>11 DEF SetOutboxMaxSize, transportVars, queueVars, packetVars
<1>12. CASE UNCHANGED vars
  BY <1>6, <1>12 DEF vars, transportVars, queueVars, packetVars
<1> QED
  BY <1>1, <1>2, <1>3, <1>4, <1>5, <1>7, <1>8, <1>9, <1>10, <1>11, <1>12
  DEF Next, Lock, Continue

\* The packets of one sender, on the wire and then in the outbox, are in the order in
\* which sendPacketByTcpConnection was called with them.
THEOREM OrderCorrect == Spec => []OrderKept
<1>1. Init => HandInv /\ OrderInv
  <2> SUFFICES ASSUME Init PROVE HandInv /\ OrderInv
    OBVIOUS
  <2>1. DOMAIN wire = {} /\ DOMAIN outbox = {}
    BY DEF Init
  <2>2. \A t \in Tasks : pc[t] = "idle" /\ packet[t] = NoPacket
    BY DEF Init
  <2>3. submitted = 0
    BY DEF Init
  <2> QED
    BY <2>1, <2>2, <2>3 DEF HandInv, OrderInv
<1>2. TypeInv /\ OrderInv => OrderKept
  <2> SUFFICES ASSUME TypeInv, OrderInv, NEW i \in Places, NEW j \in Places,
                      i < j, sender[Line(i)] = sender[Line(j)]
               PROVE  Line(i) <= Line(j)
    BY DEF OrderKept
  <2>1. wire \in Seq(Chunks) /\ outbox \in Seq(Packets)
    BY DEF TypeInv, TypeOK
  <2>2. /\ Len(wire) \in Nat /\ DOMAIN wire = 1..Len(wire)
        /\ Len(outbox) \in Nat /\ DOMAIN outbox = 1..Len(outbox)
        /\ \A k \in DOMAIN outbox : outbox[k] \in Nat
    BY <2>1
  <2>3. /\ i \in 1..(Len(wire) + Len(outbox)) /\ j \in 1..(Len(wire) + Len(outbox))
    BY DEF Places
  <2>4. CASE j <= Len(wire)
    BY <2>2, <2>3, <2>4 DEF Line, OrderInv, Sent
  <2>5. CASE i <= Len(wire) /\ ~(j <= Len(wire))
    BY <2>2, <2>3, <2>5 DEF Line, OrderInv, Sent
  <2>6. CASE ~(i <= Len(wire))
    <3>1. /\ i - Len(wire) \in DOMAIN outbox /\ j - Len(wire) \in DOMAIN outbox
          /\ i - Len(wire) < j - Len(wire)
          /\ Line(i) = outbox[i - Len(wire)] /\ Line(j) = outbox[j - Len(wire)]
      BY <2>2, <2>3, <2>6 DEF Line
    <3> QED
      BY <2>2, <3>1 DEF OrderInv
  <2> QED
    BY <2>4, <2>5, <2>6
<1> QED
  BY <1>1, <1>2, TypeInit, TypeInductive, HandInductive, OrderInductive, PTL DEF Spec

-----------------------------------------------------------------------------
(* Integrity.                                                              *)

\* There is room for the whole of a packet on a transport that is connected.
Roomy(p) == room > 0 /\ length[p] <= IF Framed THEN FrameSpace ELSE room

\* What holds as long as no task has written between the other's test and write: the
\* packets on the wire are whole and distinct, none of them waits, a task that is
\* about to write has room, and every packet is accounted for.
IntactInv ==
    /\ \A i \in DOMAIN wire : wire[i].bytes = length[Sent(i)]
    /\ \A i, j \in DOMAIN wire : Sent(i) = Sent(j) => i = j
    /\ \A i \in DOMAIN wire, j \in DOMAIN outbox : Sent(i) # outbox[j]
    /\ connected => \A t \in Tasks :
          /\ pc[t] = "fastSend" => Roomy(packet[t])
          /\ pc[t] = "drainSend" => Roomy(outbox[1])
    /\ connected => \A p \in 1..submitted :
          \/ p \in dropped
          \/ \E t \in Tasks : packet[t] = p
          \/ \E i \in DOMAIN wire : Sent(i) = p
          \/ \E i \in DOMAIN outbox : outbox[i] = p

\* The test of the transport that the code makes.
LEMMA FitsRoomy == ASSUME NEW p, Fits(p) PROVE connected /\ (TypeOK /\ p \in Packets => Roomy(p))
<1>1. CanSend
  BY Zenon DEF Fits
<1>6. Space >= length[p]
  BY Zenon DEF Fits
<1>2. connected /\ room > 0
  BY <1>1, Zenon DEF CanSend
<1>3. Space = IF Framed THEN FrameSpace ELSE room
  BY <1>1, Zenon DEF Space
<1>4. TypeOK /\ p \in Packets => length[p] \in Nat \ {0} /\ room \in 0..Window
  BY DEF TypeOK
<1>5. TypeOK /\ p \in Packets => Roomy(p)
  <2> SUFFICES ASSUME TypeOK, p \in Packets PROVE Roomy(p)
    OBVIOUS
  <2>1. length[p] \in Nat /\ room \in Nat /\ room > 0
    BY <1>2, <1>4
  <2>2. length[p] <= IF Framed THEN FrameSpace ELSE room
    BY <1>3, <1>6, <2>1
  <2> QED
    BY <2>1, <2>2 DEF Roomy
<1> QED
  BY <1>2, <1>5

\* A write that no other task's test was overtaken by is whole when there was room and
\* the transport is connected, and has no effect when it is not.
LEMMA TransmitClean ==
    ASSUME TypeOK, NEW t \in Tasks, NEW p \in Packets, Transmit(t, p), ~raced',
           connected => Roomy(p)
    PROVE  /\ ~raced /\ connected' = connected
           /\ \A u \in Tasks \ {t} : pc[u] \notin {"fastSend", "drainSend"}
           /\ \/ ~connected /\ wire' = wire /\ Written(p) # length[p]
              \/ /\ connected /\ Written(p) = length[p]
                 /\ \E c \in Chunks : /\ c.id = p /\ c.bytes = length[p]
                                      /\ wire' = Append(wire, c)
<1>1. raced' = IF \E u \in Tasks \ {t} : pc[u] \in {"fastSend", "drainSend"}
               THEN TRUE ELSE raced
  BY DEF Transmit
<1>2. ~raced /\ \A u \in Tasks \ {t} : pc[u] \notin {"fastSend", "drainSend"}
  <2>1. CASE \E u \in Tasks \ {t} : pc[u] \in {"fastSend", "drainSend"}
    BY <1>1, <2>1, Zenon
  <2>2. CASE ~\E u \in Tasks \ {t} : pc[u] \in {"fastSend", "drainSend"}
    <3>1. raced' = raced
      BY <1>1, <2>2, Zenon
    <3> QED
      BY <3>1, <2>2, Zenon
  <2> QED
    BY <2>1, <2>2
<1>3. connected' = connected
  BY DEF Transmit
<1>4. length[p] \in Nat \ {0} /\ room \in 0..Window
  BY DEF TypeOK
<1>5. CASE ~connected
  <2>1. Written(p) = 0
    BY <1>5 DEF Written
  <2>2. wire' = wire
    BY <2>1 DEF Transmit
  <2> QED
    BY <1>2, <1>3, <1>4, <1>5, <2>1, <2>2
<1>6. CASE connected
  <2>1. Roomy(p)
    BY <1>6
  <2>2. Written(p) = length[p] /\ room # 0
    BY <1>4, <1>6, <2>1 DEF Roomy, Written
  <2> DEFINE c == [id |-> p, bytes |-> Written(p)]
  <2>3. wire' = Append(wire, c)
    BY <1>4, <2>2 DEF Transmit
  <2>4. c \in Chunks /\ c.id = p /\ c.bytes = length[p]
    BY <1>4, <2>2 DEF Chunks
  <2> HIDE DEF c
  <2> QED
    BY <1>2, <1>3, <1>6, <2>2, <2>3, <2>4
<1> QED
  BY <1>5, <1>6

\* A step that only gives the transport room, or loses the connection, keeps the
\* invariant.
LEMMA IntactQuiet ==
    ASSUME TypeOK, TypeOK', IntactInv,
           UNCHANGED <<wire, outbox, packet, submitted, length, dropped>>,
           connected' => connected, room' >= room, outbox = <<>> \/ outbox[1] \in Packets,
           \A t \in Tasks : /\ pc'[t] = "fastSend" => pc[t] = "fastSend" /\ packet[t] \in Packets
                            /\ pc'[t] = "drainSend" => pc[t] = "drainSend" /\ outbox # <<>>
    PROVE  IntactInv'
<1>1. room \in Nat /\ room' \in Nat /\ \A p \in Packets : length[p] \in Nat
  <2>1. room \in 0..Window /\ length \in [Packets -> Lengths]
    BY DEF TypeOK
  <2>2. room' \in 0..Window
    BY DEF TypeOK
  <2>3. \A p \in Packets : length[p] \in Nat \ {0}
    BY DEF TypeOK
  <2> QED
    BY <2>1, <2>2, <2>3
<1>2. \A p \in Packets : Roomy(p) =>
         room' > 0 /\ length[p] <= IF Framed THEN FrameSpace ELSE room'
  BY <1>1 DEF Roomy
<1>3. connected' => \A t \in Tasks :
         /\ pc'[t] = "fastSend" => Roomy(packet[t]) /\ packet[t] \in Packets
         /\ pc'[t] = "drainSend" => Roomy(outbox[1]) /\ outbox[1] \in Packets
  <2> SUFFICES ASSUME connected', NEW t \in Tasks
               PROVE  /\ pc'[t] = "fastSend" => Roomy(packet[t]) /\ packet[t] \in Packets
                      /\ pc'[t] = "drainSend" => Roomy(outbox[1]) /\ outbox[1] \in Packets
    OBVIOUS
  <2>1. connected
    OBVIOUS
  <2> QED
    BY <2>1 DEF IntactInv
<1>4. connected' => \A t \in Tasks :
         /\ pc'[t] = "fastSend" => Roomy(packet[t])'
         /\ pc'[t] = "drainSend" => Roomy(outbox[1])'
  <2> SUFFICES ASSUME connected', NEW t \in Tasks
               PROVE  /\ pc'[t] = "fastSend" => Roomy(packet[t])'
                      /\ pc'[t] = "drainSend" => Roomy(outbox[1])'
    OBVIOUS
  <2>1. CASE pc'[t] = "fastSend"
    BY <1>2, <1>3, <2>1 DEF Roomy
  <2>2. CASE pc'[t] = "drainSend"
    BY <1>2, <1>3, <2>2 DEF Roomy
  <2> QED
    BY <2>1, <2>2
<1>5. connected' => connected
  OBVIOUS
<1> QED
  BY <1>4, <1>5 DEF IntactInv, Sent

\* Every step keeps the packets whole, distinct and accounted for, unless it writes
\* between another task's test and write.
LEMMA IntactInductive ==
    TypeInv /\ HandInv /\ OrderInv /\ (~raced => IntactInv) /\ [Next]_vars
        => (~raced' => IntactInv')
<1> SUFFICES ASSUME TypeInv, HandInv, OrderInv, ~raced => IntactInv, [Next]_vars, ~raced'
             PROVE  IntactInv'
  OBVIOUS
<1>a. TypeOK /\ TypeOK'
  BY TypeInductive, Zenon DEF TypeInv
<1>b. /\ wire \in Seq(Chunks) /\ outbox \in Seq(Packets) /\ submitted \in Nat
      /\ pc \in [Tasks -> {"idle", "lockSend", "lockClear", "enqueue", "fastSend", "drain",
                           "drainCheck", "drainSend"}]
      /\ packet \in [Tasks -> Packets \cup {NoPacket}]
      /\ room \in 0..Window /\ room' \in 0..Window
      /\ \A t \in Tasks : packet[t] # NoPacket => packet[t] \in Packets
  BY <1>a DEF TypeOK
<1>c. /\ Len(wire) \in Nat /\ DOMAIN wire = 1..Len(wire)
      /\ Len(outbox) \in Nat /\ DOMAIN outbox = 1..Len(outbox)
      /\ \A i \in DOMAIN outbox : outbox[i] \in Packets
      /\ outbox = <<>> \/ (1 \in DOMAIN outbox /\ outbox[1] = Head(outbox))
  BY <1>b
<1>d. \A t \in Tasks : /\ pc[t] = "fastSend" => packet[t] \in Packets
                       /\ pc[t] = "drainSend" => outbox # <<>> /\ outboxMutex = t
                       /\ pc[t] = "enqueue" => packet[t] \in Packets /\ outboxMutex = t
                       /\ pc[t] = "idle" => packet[t] = NoPacket
  BY <1>b DEF TypeInv
<1>1. ASSUME NEW t \in Tasks, Send(t) PROVE IntactInv'
  <2>1. /\ UNCHANGED <<wire, outbox, length, dropped, connected, room, raced>>
        /\ submitted' = submitted + 1
        /\ packet' = [packet EXCEPT ![t] = submitted + 1] /\ pc[t] = "idle"
        /\ \/ pc' = [pc EXCEPT ![t] = "lockSend"]
           \/ pc' = [pc EXCEPT ![t] = "lockClear"]
    BY <1>1 DEF Send, Goto, transportVars, queueVars
  <2>2. IntactInv
    BY <2>1
  <2>3. \A u \in Tasks : /\ pc'[u] = "fastSend" => pc[u] = "fastSend" /\ u # t
                         /\ pc'[u] = "drainSend" => pc[u] = "drainSend"
    BY <2>1, <1>b
  <2>4. connected => \A u \in Tasks :
           /\ pc'[u] = "fastSend" => Roomy(packet'[u])
           /\ pc'[u] = "drainSend" => Roomy(outbox[1])
    BY <2>1, <2>2, <2>3, <1>b DEF IntactInv
  <2>5. ASSUME connected, NEW q \in 1..submitted'
        PROVE  \/ q \in dropped
               \/ \E u \in Tasks : packet'[u] = q
               \/ \E i \in DOMAIN wire : Sent(i) = q
               \/ \E i \in DOMAIN outbox : outbox[i] = q
    <3>1. CASE q = submitted + 1
      BY <2>1, <3>1, <1>b
    <3>2. CASE q \in 1..submitted
      <4>1. \A u \in Tasks : packet[u] = q => packet'[u] = q
        BY <2>1, <3>2, <1>b, <1>d
      <4> QED
        BY <2>2, <2>5, <3>2, <4>1 DEF IntactInv
    <3> QED
      BY <2>1, <3>1, <3>2, <1>b
  <2> QED
    BY <2>1, <2>2, <2>4, <2>5 DEF IntactInv, Sent, Roomy
<1>2. ASSUME NEW t \in Tasks, ClearOutbox(t) PROVE IntactInv'
  <2>1. /\ UNCHANGED <<wire, length, connected, raced>> /\ DOMAIN outbox' = {}
        /\ ~connected
    BY <1>2 DEF ClearOutbox, transportVars, packetVars, HandInv
  <2>2. IntactInv
    BY <2>1
  <2> QED
    BY <2>1, <2>2 DEF IntactInv, Sent
<1>3. ASSUME NEW t \in Tasks, Enqueue(t) PROVE IntactInv'
  <2> DEFINE p == packet[t]
  <2>1. /\ UNCHANGED <<wire, submitted, length, connected, room, raced>>
        /\ pc[t] = "enqueue"
    BY <1>3 DEF Enqueue, Decide, transportVars, packetVars
  <2>2. IntactInv
    BY <2>1
  <2>3. p \in Packets /\ outboxMutex = t /\ sender[p] = t /\ p # NoPacket
    BY <2>1, <1>d DEF HandInv
  <2>4. \A i \in DOMAIN wire : Sent(i) # p
    BY <2>3 DEF OrderInv
  <2>5. \A u \in Tasks : pc[u] # "drainSend"
    BY <2>1, <2>3, <1>d
  <2>6. CASE /\ Fits(p) /\ pc' = [pc EXCEPT ![t] = "fastSend"]
             /\ outbox' = outbox /\ dropped' = dropped /\ packet' = packet
    <3>1. Roomy(p)
      BY <1>a, <2>3, <2>6, FitsRoomy
    <3>2. connected => \A u \in Tasks :
             /\ pc'[u] = "fastSend" => Roomy(packet[u])
             /\ pc'[u] # "drainSend"
      BY <2>2, <2>5, <2>6, <3>1, <1>b DEF IntactInv
    <3> QED
      BY <2>1, <2>2, <2>6, <3>2 DEF IntactInv, Sent, Roomy
  <2>7. ASSUME \/ outbox' = Append(outbox, p) /\ dropped' = dropped
               \/ outbox' = outbox /\ dropped' = dropped \cup {p},
               packet' = [packet EXCEPT ![t] = NoPacket],
               \A u \in Tasks : /\ pc'[u] = "fastSend" => pc[u] = "fastSend" /\ u # t
                                /\ pc'[u] = "drainSend" => pc[u] = "drainSend"
        PROVE  IntactInv'
    <3>1. /\ \A i \in DOMAIN outbox : i \in DOMAIN outbox' /\ outbox'[i] = outbox[i]
          /\ \A i \in DOMAIN outbox' : outbox'[i] = p \/ \E j \in DOMAIN outbox :
                outbox'[i] = outbox[j]
          /\ p \in dropped' \/ \E i \in DOMAIN outbox' : outbox'[i] = p
      <4>1. CASE outbox' = outbox /\ dropped' = dropped \cup {p}
        BY <4>1
      <4>2. CASE outbox' = Append(outbox, p)
        <5> HIDE DEF Packets, p
        <5>1. /\ DOMAIN outbox' = 1..(Len(outbox) + 1)
              /\ \A i \in 1..(Len(outbox) + 1) :
                    \/ i \in DOMAIN outbox /\ outbox'[i] = outbox[i]
                    \/ i = Len(outbox) + 1 /\ outbox'[i] = p
          BY <2>3, <4>2, <1>b, AppendPlaces
        <5> QED
          BY <5>1, <1>c
      <4> QED
        BY <2>7, <4>1, <4>2
    <3>2. \A i \in DOMAIN wire, j \in DOMAIN outbox' : Sent(i) # outbox'[j]
      BY <2>2, <2>4, <3>1 DEF IntactInv
    <3>3. connected => \A u \in Tasks : /\ pc'[u] = "fastSend" => Roomy(packet'[u])
                                        /\ pc'[u] # "drainSend"
      BY <2>2, <2>5, <2>7, <1>b DEF IntactInv
    <3>4. ASSUME connected, NEW q \in 1..submitted
          PROVE  \/ q \in dropped'
                 \/ \E u \in Tasks : packet'[u] = q
                 \/ \E i \in DOMAIN wire : Sent(i) = q
                 \/ \E i \in DOMAIN outbox' : outbox'[i] = q
      <4>1. CASE q = p
        BY <3>1, <4>1
      <4>2. CASE q # p
        <5>1. \A u \in Tasks : packet[u] = q => packet'[u] = q
          BY <2>7, <4>2, <1>b
        <5>2. dropped \subseteq dropped'
          BY <2>7
        <5> QED
          BY <2>2, <3>1, <3>4, <5>1, <5>2 DEF IntactInv
      <4> QED
        BY <4>1, <4>2
    <3> QED
      BY <2>1, <2>2, <3>2, <3>3, <3>4 DEF IntactInv, Sent, Roomy
  <2>8. /\ pc' = [pc EXCEPT ![t] = "drain"] => \A u \in Tasks :
              /\ pc'[u] = "fastSend" => pc[u] = "fastSend" /\ u # t
              /\ pc'[u] = "drainSend" => pc[u] = "drainSend"
        /\ pc' = [pc EXCEPT ![t] = "idle"] => \A u \in Tasks :
              /\ pc'[u] = "fastSend" => pc[u] = "fastSend" /\ u # t
              /\ pc'[u] = "drainSend" => pc[u] = "drainSend"
    BY <1>b
  <2>9. \/ /\ Fits(p) /\ pc' = [pc EXCEPT ![t] = "fastSend"]
           /\ outbox' = outbox /\ dropped' = dropped /\ packet' = packet
        \/ /\ \/ outbox' = Append(outbox, p) /\ dropped' = dropped
              \/ outbox' = outbox /\ dropped' = dropped \cup {p}
           /\ pc' = [pc EXCEPT ![t] = "drain"] \/ pc' = [pc EXCEPT ![t] = "idle"]
           /\ packet' = [packet EXCEPT ![t] = NoPacket]
    BY <1>3, EnqueueCases, Zenon
  <2> HIDE DEF p
  <2> QED
    BY <2>6, <2>7, <2>8, <2>9, Zenon
<1>4. ASSUME NEW t \in Tasks, NEW p \in Packets, Transmit(t, p), connected => Roomy(p),
             UNCHANGED <<submitted, length, dropped>>,
             \A i \in DOMAIN wire : Sent(i) # p,
             \A u \in Tasks : pc'[u] \notin {"fastSend", "drainSend"} \/ (u # t /\ pc'[u] = pc[u]),
             \A u \in Tasks : packet[u] = p \/ packet'[u] = packet[u],
             Written(p) = length[p] => \A i \in DOMAIN outbox' : outbox'[i] # p,
             \A i \in DOMAIN outbox' : \E j \in DOMAIN outbox : outbox'[i] = outbox[j],
             \A i \in DOMAIN outbox : outbox[i] = p \/
                \E j \in DOMAIN outbox' : outbox'[j] = outbox[i]
      PROVE  IntactInv'
  <2>1. /\ ~raced /\ connected' = connected
        /\ \A u \in Tasks \ {t} : pc[u] \notin {"fastSend", "drainSend"}
        /\ \/ ~connected /\ wire' = wire /\ Written(p) # length[p]
           \/ /\ connected /\ Written(p) = length[p]
              /\ \E c \in Chunks : /\ c.id = p /\ c.bytes = length[p]
                                   /\ wire' = Append(wire, c)
    BY <1>4, <1>a, TransmitClean
  <2>2. IntactInv
    BY <2>1
  <2>3. \A u \in Tasks : pc'[u] \notin {"fastSend", "drainSend"}
    BY <1>4, <2>1
  <2>4. CASE ~connected /\ wire' = wire
    BY <1>4, <2>1, <2>2, <2>4 DEF IntactInv, Sent
  <2>5. ASSUME connected, Written(p) = length[p],
               NEW c \in Chunks, c.id = p, c.bytes = length[p], wire' = Append(wire, c)
        PROVE  IntactInv'
    <3>1. /\ DOMAIN wire' = 1..(Len(wire) + 1)
          /\ \A i \in DOMAIN wire' : \/ i \in DOMAIN wire /\ wire'[i] = wire[i]
                                     \/ i = Len(wire) + 1 /\ wire'[i] = c
      BY <2>5, <1>b, AppendPlaces
    <3>2. /\ \A i \in DOMAIN wire' :
                \/ i \in DOMAIN wire /\ wire'[i].id = Sent(i) /\ wire'[i].bytes = wire[i].bytes
                \/ i = Len(wire) + 1 /\ wire'[i].id = p /\ wire'[i].bytes = length[p]
          /\ \A i \in DOMAIN wire : i \in DOMAIN wire' /\ wire'[i].id = Sent(i)
          /\ \E i \in DOMAIN wire' : wire'[i].id = p
      BY <2>5, <3>1, <1>c DEF Sent
    <3>3. \A i \in DOMAIN wire' : wire'[i].bytes = length'[wire'[i].id]
      BY <1>4, <2>2, <3>2 DEF IntactInv
    <3>4. \A i, j \in DOMAIN wire' : wire'[i].id = wire'[j].id => i = j
      BY <1>4, <2>2, <3>2 DEF IntactInv
    <3>5. \A i \in DOMAIN wire', j \in DOMAIN outbox' : wire'[i].id # outbox'[j]
      BY <1>4, <2>2, <2>5, <3>2 DEF IntactInv
    <3>6. ASSUME NEW q \in 1..submitted'
          PROVE  \/ q \in dropped'
                 \/ \E u \in Tasks : packet'[u] = q
                 \/ \E i \in DOMAIN wire' : wire'[i].id = q
                 \/ \E i \in DOMAIN outbox' : outbox'[i] = q
      <4>1. CASE q = p
        BY <3>2, <4>1
      <4>2. CASE q # p
        <5>1. \/ q \in dropped
              \/ \E u \in Tasks : packet[u] = q
              \/ \E i \in DOMAIN wire : Sent(i) = q
              \/ \E i \in DOMAIN outbox : outbox[i] = q
          BY <1>4, <2>2, <2>5, <3>6 DEF IntactInv
        <5>2. \A u \in Tasks : packet[u] = q => packet'[u] = q
          BY <1>4, <4>2
        <5>3. \A i \in DOMAIN outbox : outbox[i] = q => \E j \in DOMAIN outbox' : outbox'[j] = q
          BY <1>4, <4>2
        <5>4. \A i \in DOMAIN wire : Sent(i) = q => \E j \in DOMAIN wire' : wire'[j].id = q
          BY <3>2
        <5> QED
          BY <1>4, <5>1, <5>2, <5>3, <5>4
      <4> QED
        BY <4>1, <4>2
    <3> QED
      BY <2>3, <3>3, <3>4, <3>5, <3>6 DEF IntactInv, Sent
  <2> QED
    BY <2>1, <2>4, <2>5
<1>5. ASSUME NEW t \in Tasks, NEW p \in Packets, Transmit(t, p) PROVE IntactInv
  <2>1. raced' = IF \E u \in Tasks \ {t} : pc[u] \in {"fastSend", "drainSend"}
                 THEN TRUE ELSE raced
    BY <1>5 DEF Transmit
  <2>2. ~raced
    BY <2>1
  <2> QED
    BY <2>2
<1>6. ASSUME NEW t \in Tasks, FastSend(t) PROVE IntactInv'
  <2> DEFINE p == packet[t]
  <2>1. /\ UNCHANGED <<outbox, submitted, length, dropped>> /\ Transmit(t, p)
        /\ pc[t] = "fastSend" /\ packet' = [packet EXCEPT ![t] = NoPacket]
        /\ pc' = [pc EXCEPT ![t] = "idle"]
    BY <1>6 DEF FastSend, Goto, queueVars, packetVars
  <2>2. p \in Packets /\ sender[p] = t /\ p # NoPacket
    BY <2>1, <1>d DEF HandInv
  <2>3. /\ \A i \in DOMAIN wire : Sent(i) # p
        /\ \A i \in DOMAIN outbox : outbox[i] # p
    BY <2>1, <2>2 DEF OrderInv
  <2>4. connected => Roomy(p)
    BY <2>1, <2>2, <1>5 DEF IntactInv
  <2>5. /\ \A u \in Tasks : pc'[u] \notin {"fastSend", "drainSend"} \/ (u # t /\ pc'[u] = pc[u])
        /\ \A u \in Tasks : packet[u] = p \/ packet'[u] = packet[u]
    BY <2>1, <1>b
  <2> HIDE DEF p
  <2> QED
    BY <2>1, <2>2, <2>3, <2>4, <2>5, <1>4
<1>7. ASSUME NEW t \in Tasks, DrainSend(t) PROVE IntactInv'
  <2> DEFINE p == outbox[1]
  <2>1. /\ UNCHANGED <<packet, submitted, length, dropped>> /\ pc[t] = "drainSend"
        /\ pc' = [pc EXCEPT ![t] = "drainCheck"] \/ pc' = [pc EXCEPT ![t] = "idle"]
    BY <1>7 DEF DrainSend, Goto, packetVars
  <2>2. outbox # <<>> /\ 1 \in DOMAIN outbox /\ p = Head(outbox) /\ p \in Packets
    BY <2>1, <1>c, <1>d
  <2>3. Transmit(t, p)
    BY <1>7, <2>2 DEF DrainSend
  <2>4. /\ Written(p) = length[p] => outbox' = Tail(outbox)
        /\ Written(p) # length[p] => outbox' = outbox
    BY <1>7, <2>2 DEF DrainSend
  <2>5. IntactInv
    BY <2>2, <2>3, <1>5
  <2>6. (connected => Roomy(p)) /\ \A i \in DOMAIN wire : Sent(i) # p
    BY <2>1, <2>2, <2>5 DEF IntactInv
  <2>7. \A u \in Tasks : pc'[u] \notin {"fastSend", "drainSend"} \/ (u # t /\ pc'[u] = pc[u])
    BY <2>1, <1>b
  <2> HIDE DEF Packets
  <2>8. /\ DOMAIN Tail(outbox) = 1..(Len(outbox) - 1)
        /\ \A i \in DOMAIN Tail(outbox) :
              i \in Nat /\ i >= 1 /\ i + 1 \in DOMAIN outbox /\ Tail(outbox)[i] = outbox[i + 1]
    BY <2>2, <1>b, TailPlaces
  <2>9. \A i \in DOMAIN outbox : i > 1 => outbox[i] # p
    BY <2>2, <1>c DEF OrderInv, Packets
  <2>10. Written(p) = length[p] => \A i \in DOMAIN outbox' : outbox'[i] # p
    <3>1. ASSUME NEW i \in DOMAIN Tail(outbox) PROVE Tail(outbox)[i] # p
      <4>1. i + 1 \in DOMAIN outbox /\ i + 1 > 1 /\ Tail(outbox)[i] = outbox[i + 1]
        BY <2>8
      <4> QED
        BY <2>9, <4>1
    <3> QED
      BY <2>4, <3>1, Zenon
  <2>11. \A i \in DOMAIN outbox' : \E j \in DOMAIN outbox : outbox'[i] = outbox[j]
    <3>1. CASE Written(p) = length[p]
      BY <2>4, <2>8, <3>1
    <3>2. CASE Written(p) # length[p]
      BY <2>4, <3>2
    <3> QED
      BY <3>1, <3>2
  <2>12. \A i \in DOMAIN outbox : outbox[i] = p \/ \E j \in DOMAIN outbox' : outbox'[j] = outbox[i]
    <3>1. CASE Written(p) = length[p]
      <4>1. ASSUME NEW i \in DOMAIN outbox, i # 1
            PROVE  i - 1 \in DOMAIN outbox' /\ outbox'[i - 1] = outbox[i]
        <5>1. i \in 1..Len(outbox) /\ i - 1 \in 1..(Len(outbox) - 1)
          BY <4>1, <1>c
        <5>2. outbox' = Tail(outbox) /\ i - 1 \in DOMAIN Tail(outbox)
          BY <2>4, <2>8, <3>1, <5>1
        <5>3. Tail(outbox)[i - 1] = outbox[(i - 1) + 1]
          BY <2>8, <5>2
        <5> QED
          BY <5>1, <5>2, <5>3
      <4> QED
        BY <4>1
    <3>2. CASE Written(p) # length[p]
      BY <2>4, <3>2
    <3> QED
      BY <3>1, <3>2
  <2> HIDE DEF p
  <2> QED
    BY <2>1, <2>2, <2>3, <2>6, <2>7, <2>10, <2>11, <2>12, <1>4
<1>8. ASSUME UNCHANGED <<wire, outbox, packet, submitted, length, dropped, raced>>,
             connected' => connected, room' >= room,
             \A u \in Tasks : /\ pc'[u] = "fastSend" => pc[u] = "fastSend"
                              /\ pc'[u] = "drainSend" => pc[u] = "drainSend"
      PROVE  IntactInv'
  <2>1. IntactInv
    BY <1>8
  <2> QED
    BY <1>8, <2>1, <1>a, <1>c, <1>d, IntactQuiet
<1>9. room >= room
  BY <1>b
<1>10. ASSUME NEW t \in Tasks, StartDrain(t) \/ LockSend(t) \/ LockDrain(t) \/ SkipDrain(t)
       PROVE IntactInv'
  BY <1>8, <1>9, <1>10, <1>b DEF StartDrain, LockSend, LockDrain, SkipDrain, Goto,
                                 transportVars, queueVars, packetVars
<1>11. ASSUME NEW t \in Tasks, DrainCheck(t) PROVE IntactInv'
  <2>1. /\ UNCHANGED <<wire, outbox, packet, submitted, length, dropped, raced, connected, room>>
        /\ \/ /\ outbox # <<>> /\ Fits(Head(outbox)) /\ pc' = [pc EXCEPT ![t] = "drainSend"]
           \/ pc' = [pc EXCEPT ![t] = "idle"]
    <3>1. UNCHANGED <<wire, outbox, packet, submitted, length, dropped, raced, connected, room>>
      BY <1>11 DEF DrainCheck, transportVars, packetVars
    <3>2. \/ /\ outbox # <<>> /\ Fits(Head(outbox)) /\ pc' = [pc EXCEPT ![t] = "drainSend"]
          \/ pc' = [pc EXCEPT ![t] = "idle"]
      BY <1>11, Zenon DEF DrainCheck, Goto
    <3> QED
      BY <3>1, <3>2, Zenon
  <2>2. CASE pc' = [pc EXCEPT ![t] = "idle"]
    BY <2>1, <2>2, <1>8, <1>9, <1>b
  <2>3. CASE outbox # <<>> /\ Fits(Head(outbox)) /\ pc' = [pc EXCEPT ![t] = "drainSend"]
    <3>1. IntactInv
      BY <2>1
    <3>2. outbox[1] = Head(outbox) /\ outbox[1] \in Packets
      BY <2>3, <1>c
    <3>3. Roomy(outbox[1])
      BY <1>a, <2>3, <3>2, FitsRoomy
    <3>4. connected => \A u \in Tasks : /\ pc'[u] = "fastSend" => Roomy(packet[u])
                                        /\ pc'[u] = "drainSend" => Roomy(outbox[1])
      BY <2>3, <3>1, <3>3, <1>b DEF IntactInv
    <3> QED
      BY <2>1, <3>1, <3>4 DEF IntactInv, Sent, Roomy
  <2> QED
    BY <2>1, <2>2, <2>3, Zenon
<1>12. ASSUME NEW r \in 1..Window, Acknowledge(r) PROVE IntactInv'
  <2>1. /\ UNCHANGED <<wire, outbox, packet, submitted, length, dropped, raced, connected, pc>>
        /\ room' = r /\ r > room
    BY <1>12 DEF Acknowledge, queueVars, packetVars
  <2>2. room' >= room
    BY <2>1, <1>b
  <2> QED
    BY <2>1, <2>2, <1>8
<1>13. CASE Disconnect
  BY <1>8, <1>9, <1>13 DEF Disconnect, queueVars, packetVars
<1>14. ASSUME NEW n \in Limits, SetOutboxMaxSize(n) PROVE IntactInv'
  BY <1>8, <1>9, <1>14 DEF SetOutboxMaxSize, transportVars, queueVars, packetVars
<1>15. CASE UNCHANGED vars
  BY <1>8, <1>9, <1>15 DEF vars, transportVars, queueVars, packetVars
<1> QED
  BY <1>1, <1>2, <1>3, <1>6, <1>7, <1>10, <1>11, <1>12, <1>13, <1>14, <1>15
  DEF Next, Lock, Continue

\* Together: what holds in every reachable state.
OutboxInv == TypeInv /\ HandInv /\ OrderInv /\ (~raced => IntactInv)

\* The invariant holds at first and is kept by every step.
LEMMA OutboxInvariant == Spec => []OutboxInv
<1>1. Init => OutboxInv
  <2> SUFFICES ASSUME Init PROVE OutboxInv
    OBVIOUS
  <2>1. DOMAIN wire = {} /\ DOMAIN outbox = {} /\ submitted = 0
    BY DEF Init
  <2>2. \A t \in Tasks : pc[t] = "idle" /\ packet[t] = NoPacket
    BY DEF Init
  <2>3. HandInv /\ OrderInv /\ IntactInv
    BY <2>1, <2>2 DEF HandInv, OrderInv, IntactInv
  <2> QED
    BY <2>3, TypeInit DEF OutboxInv
<1>2. OutboxInv /\ [Next]_vars => OutboxInv'
  BY TypeInductive, HandInductive, OrderInductive, IntactInductive, Zenon DEF OutboxInv
<1> QED
  BY <1>1, <1>2, PTL DEF Spec

\* The parts of the invariant, over the places of the wire and of the outbox.
LEMMA PlacesCovered ==
    ASSUME TypeInv
    PROVE  /\ Len(wire) \in Nat /\ DOMAIN wire = 1..Len(wire)
           /\ Len(outbox) \in Nat /\ DOMAIN outbox = 1..Len(outbox)
           /\ \A i \in DOMAIN outbox : outbox[i] \in Nat
           /\ \A i \in DOMAIN wire : i \in Places /\ Line(i) = Sent(i)
           /\ \A i \in DOMAIN outbox : Len(wire) + i \in Places /\ Line(Len(wire) + i) = outbox[i]
           /\ \A i \in Places : \/ i \in DOMAIN wire
                                \/ i > Len(wire) /\ i - Len(wire) \in DOMAIN outbox
<1>1. wire \in Seq(Chunks) /\ outbox \in Seq(Packets)
  BY DEF TypeInv, TypeOK
<1>2. /\ Len(wire) \in Nat /\ DOMAIN wire = 1..Len(wire)
      /\ Len(outbox) \in Nat /\ DOMAIN outbox = 1..Len(outbox)
      /\ \A i \in DOMAIN outbox : outbox[i] \in Nat
  BY <1>1
<1>3. \A i \in DOMAIN wire : i \in Places /\ Line(i) = Sent(i)
  BY <1>2 DEF Places, Line, Sent
<1>4. ASSUME NEW i \in DOMAIN outbox
      PROVE  Len(wire) + i \in Places /\ Line(Len(wire) + i) = outbox[i]
  <2>1. /\ i \in Nat /\ i >= 1 /\ ~(Len(wire) + i <= Len(wire))
        /\ (Len(wire) + i) - Len(wire) = i
    BY <1>2
  <2> QED
    BY <1>2, <2>1 DEF Places, Line
<1>5. \A i \in Places : \/ i \in DOMAIN wire
                        \/ i > Len(wire) /\ i - Len(wire) \in DOMAIN outbox
  BY <1>2 DEF Places
<1> QED
  BY <1>2, <1>3, <1>4, <1>5

\* The invariant gives the two properties.
LEMMA IntactFollows ==
    ASSUME TypeInv, OrderInv, IntactInv
    PROVE  Intact /\ (connected => \A p \in 1..submitted :
                         \/ p \in dropped
                         \/ \E t \in Tasks : packet[t] = p
                         \/ \E i \in Places : Line(i) = p)
<1>1. \A i \in DOMAIN wire : wire[i].bytes = length[wire[i].id]
  BY DEF IntactInv, Sent
<1>2. ASSUME NEW i \in Places, NEW j \in Places, Line(i) = Line(j) PROVE i = j
  <2>0. i \in Nat /\ j \in Nat
    BY PlacesCovered DEF Places
  <2>1. CASE i \in DOMAIN wire /\ j \in DOMAIN wire
    BY <1>2, <2>1, PlacesCovered DEF IntactInv
  <2>2. CASE i \in DOMAIN wire /\ j > Len(wire) /\ j - Len(wire) \in DOMAIN outbox
    <3>1. Line(j) = outbox[j - Len(wire)]
      BY <2>0, <2>2, PlacesCovered DEF Line
    <3> QED
      BY <1>2, <2>2, <3>1, PlacesCovered DEF IntactInv
  <2>3. CASE j \in DOMAIN wire /\ i > Len(wire) /\ i - Len(wire) \in DOMAIN outbox
    <3>1. Line(i) = outbox[i - Len(wire)]
      BY <2>0, <2>3, PlacesCovered DEF Line
    <3> QED
      BY <1>2, <2>3, <3>1, PlacesCovered DEF IntactInv
  <2>4. CASE /\ i > Len(wire) /\ i - Len(wire) \in DOMAIN outbox
             /\ j > Len(wire) /\ j - Len(wire) \in DOMAIN outbox
    <3>1. Line(i) = outbox[i - Len(wire)] /\ Line(j) = outbox[j - Len(wire)]
      BY <2>0, <2>4, PlacesCovered DEF Line
    <3>2. ASSUME NEW k \in DOMAIN outbox, NEW l \in DOMAIN outbox, outbox[k] = outbox[l]
          PROVE  k = l
      BY <3>2, PlacesCovered DEF OrderInv
    <3>3. i - Len(wire) = j - Len(wire)
      BY <1>2, <2>4, <3>1, <3>2
    <3> QED
      BY <2>0, <3>3, PlacesCovered
  <2> QED
    BY <2>1, <2>2, <2>3, <2>4, PlacesCovered
<1>3. ASSUME connected, NEW p \in 1..submitted
      PROVE  p \in dropped \/ (\E t \in Tasks : packet[t] = p) \/ \E i \in Places : Line(i) = p
  BY <1>3, PlacesCovered DEF IntactInv
<1> QED
  BY <1>1, <1>2, <1>3 DEF Intact

\* Every packet the peer gets is whole and comes once, as long as no task has written
\* between the other's test of the transport and its write.
THEOREM IntactCorrect == Spec => []IntactUnlessRaced
<1>1. OutboxInv => IntactUnlessRaced
  BY IntactFollows DEF OutboxInv, IntactUnlessRaced
<1> QED
  BY <1>1, OutboxInvariant, PTL

\* As long as the connection lasts and no such write has happened, a packet is lost
\* only in front of a full outbox.
THEOREM NothingLostCorrect == Spec => []NothingLost
<1>1. OutboxInv => NothingLost
  BY IntactFollows DEF OutboxInv, NothingLost
<1> QED
  BY <1>1, OutboxInvariant, PTL

\* With one task there is no such write, and the packets are whole and distinct
\* unconditionally: the two tasks of the broker are what can tear the stream.
THEOREM OneTaskIntact == (\A t, u \in Tasks : t = u) => (Spec => []Intact)
<1> SUFFICES ASSUME \A t, u \in Tasks : t = u PROVE Spec => []Intact
  OBVIOUS
<1>1. Init => ~raced
  BY DEF Init
<1>2. ASSUME ~raced, [Next]_vars PROVE ~raced'
  <2>1. ASSUME NEW t \in Tasks, NEW p, Transmit(t, p) PROVE ~raced'
    <3>1. ~\E u \in Tasks \ {t} : pc[u] \in {"fastSend", "drainSend"}
      BY <1>2
    <3>2. raced' = raced
      BY <2>1, <3>1 DEF Transmit
    <3> QED
      BY <1>2, <3>2
  <2>2. ASSUME raced' = raced PROVE ~raced'
    BY <1>2, <2>2
  <2>3. ASSUME NEW t \in Tasks, FastSend(t) PROVE ~raced'
    BY <2>1, <2>3 DEF FastSend
  <2>4. ASSUME NEW t \in Tasks, DrainSend(t) PROVE ~raced'
    BY <2>1, <2>4 DEF DrainSend
  <2>5. ASSUME NEW t \in Tasks, Send(t) \/ StartDrain(t) \/ Lock(t) \/ Enqueue(t)
                                 \/ SkipDrain(t) \/ DrainCheck(t)
        PROVE  raced' = raced
    BY <2>5 DEF Send, StartDrain, Lock, LockSend, LockDrain, ClearOutbox, Enqueue, Decide,
                SkipDrain, DrainCheck, transportVars
  <2>6. ASSUME NEW r \in 1..Window, Acknowledge(r) PROVE raced' = raced
    BY <2>6 DEF Acknowledge
  <2>7. ASSUME NEW n \in Limits, SetOutboxMaxSize(n) PROVE raced' = raced
    BY <2>7 DEF SetOutboxMaxSize, transportVars
  <2>8. CASE Disconnect
    BY <2>2, <2>8 DEF Disconnect
  <2>9. CASE UNCHANGED vars
    BY <2>2, <2>9 DEF vars, transportVars
  <2> QED
    BY <1>2, <2>2, <2>3, <2>4, <2>5, <2>6, <2>7, <2>8, <2>9 DEF Next, Continue
<1>3. OutboxInv /\ ~raced => Intact
  BY IntactFollows DEF OutboxInv
<1>4. ~raced /\ [Next]_vars => ~raced'
  BY <1>2
<1>5. Spec => [](~raced)
  BY <1>1, <1>4, PTL DEF Spec
<1> QED
  BY <1>3, <1>5, OutboxInvariant, PTL
=============================================================================
