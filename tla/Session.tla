------------------------------ MODULE Session ------------------------------
(***************************************************************************)
(* One connection, byte by byte: the requests of an MQTT client arrive in  *)
(* chunks at the reader (PacketReader), its callback decodes them, the     *)
(* network task answers CONNECT and PINGREQ, the worker answers SUBSCRIBE  *)
(* and relays PUBLISH, and all answers are encoded into one stream of      *)
(* bytes to the client, which subscribes to what it publishes itself.      *)
(*                                                                         *)
(* A fixed header (type and flags) is one byte with a name.  A uint16_t is *)
(* two bytes wide, whatever the base: 65536 values in the code.            *)
(***************************************************************************)
EXTENDS PacketReader, Functions, FiniteSets

CONSTANTS
    CONNECT, CONNECTACK, PUBLISH, SUBSCRIBE, SUBACK, UNSUBSCRIBE, PINGREQ, PINGRESP,
    PUBLISHACKED,       \* PUBLISH with a QoS above 0: a message id follows the topic
    EventQueueSize,     \* 50 in the code
    ChunkSizes,         \* bound: sizes of the chunks that the transport delivers
    Scripts             \* what the client sends: a sequence of requests

Headers == <<CONNECT, CONNECTACK, PUBLISH, PUBLISHACKED, SUBSCRIBE, SUBACK, UNSUBSCRIBE,
             PINGREQ, PINGRESP>>

ASSUME SessionAssumption ==
    /\ Base > 4
    /\ Range(Headers) \subseteq Bytes \ {0} /\ IsInjective(Headers)
    /\ EventQueueSize \in Nat \ {0}
    /\ ChunkSizes \subseteq 1..MaxChunk

VARIABLES
    script,             \* what the client has to send
    unsent,             \* bytes of it that have not arrived
    connected,          \* the transport's connected()
    clientState, keepAlive,
    subscribed,         \* filters of the client
    brokerEventQueue,
    outgoing,           \* bytes sent to the client
    attempts, dropped   \* history: events for the queue, and those that found it full

sessionVars == <<script, unsent, connected, clientState, keepAlive, subscribed,
                 brokerEventQueue, outgoing, attempts, dropped>>

-----------------------------------------------------------------------------
(* The client's side of the wire, by the MQTT standard.                    *)

Word == 4 * Base * Base

TwoBytes(n) == <<n \div (2 * Base), n % (2 * Base)>>

Text(bytes) == TwoBytes(Len(bytes)) \o bytes

\* The digits of a length: the shortest ones that the reader's rule takes for it.
LengthField(n) ==
    CHOOSE s \in UNION {[1..k -> Bytes] : k \in 1..MaxDigits} :
        /\ Digits(s, 0) = {Len(s)} /\ LengthAt(s, 0, Len(s)) = n
        /\ Len(s) > 1 => s[Len(s)] # 0

Frame(header, body) == [header |-> header, body |-> body]

OnWire(frame) == <<frame.header>> \o LengthField(Len(frame.body)) \o frame.body

ProtocolName == <<1, 2>>

FrameOf(r) ==
    CASE r.type = "connect"     -> Frame(CONNECT, Text(ProtocolName) \o <<4, 2>>
                                            \o TwoBytes(r.keepAlive) \o Text(r.clientId))
      [] r.type = "pingreq"     -> Frame(PINGREQ, <<>>)
      [] r.type = "publish"     -> Frame(PUBLISH, Text(r.topic) \o r.payload)
      [] r.type = "publishAcked" ->
             Frame(PUBLISHACKED, Text(r.topic) \o TwoBytes(r.id) \o r.payload)
      [] r.type = "subscribe"   ->
             Frame(SUBSCRIBE, TwoBytes(r.id)
                       \o FlattenSeq([i \in DOMAIN r.filters |-> Text(r.filters[i]) \o <<0>>]))
      [] r.type = "unsubscribe" ->
             Frame(UNSUBSCRIBE, TwoBytes(r.id)
                       \o FlattenSeq([i \in DOMAIN r.filters |-> Text(r.filters[i])]))

\* A packet of more than MaxDigits digits, all of it zero.
Overlong == <<PINGREQ>> \o [i \in 1..MaxDigits |-> Base] \o <<1>> \o [i \in 1..4 |-> 0]

BytesOf(r) == IF r.type = "overlong" THEN Overlong ELSE OnWire(FrameOf(r))

BytesOfScript(s) == FlattenSeq([i \in DOMAIN s |-> BytesOf(s[i])])

Texts == {text \in Seq(Bytes) : Len(text) < Word}

\* A request that the standard has, in a packet that the reader's three digits can say.
WellFormed(r) ==
    /\ r.type \in {"connect", "pingreq", "publish", "publishAcked", "subscribe", "unsubscribe",
                   "overlong"}
    /\ r.type = "connect" => r.keepAlive \in 0..Word - 1 /\ r.clientId \in Texts
    /\ r.type \in {"publish", "publishAcked"} => r.topic \in Texts /\ r.payload \in Seq(Bytes)
    /\ r.type \in {"subscribe", "unsubscribe"} => r.filters \in Seq(Texts)
    /\ r.type \in {"publishAcked", "subscribe", "unsubscribe"} => r.id \in 0..Word - 1
    /\ r.type # "overlong" => Len(FrameOf(r).body) < Base * Base * Base

ASSUME ScriptsAssumption ==
    \A s \in Scripts : s \in Seq(Range(s)) /\ \A r \in Range(s) : WellFormed(r)

-----------------------------------------------------------------------------
(* Decoding.  index counts from 0, as in the code.                         *)

ConcatenateTwoBytes(msByte, lsByte) == (msByte * (2 * Base) + lsByte) % Word

DecodeTwoBytes(index) ==
    ConcatenateTwoBytes(remainingPacket[index + 1], remainingPacket[index + 2])

BytesToString(index, length) == SubSeq(remainingPacket, index + 1, index + length)

DecodeTextField(index) == BytesToString(index + 2, DecodeTwoBytes(index))

\* The index that decodeTextField returns.
BehindTextField(index) == index + 2 + DecodeTwoBytes(index)

\* Mutant: the connect flags are not skipped.
DecodeKeepAliveAtFlags == DecodeTwoBytes(BehindTextField(0) + 1)

\* ConnectMqttMessage: protocol name, version, flags, keep-alive, client id.
DecodeKeepAlive == DecodeTwoBytes(BehindTextField(0) + 2)

\* Mutant: the message id of a QoS above 0 is taken for the payload's beginning.
DecodePublishWithoutId ==
    [topic |-> DecodeTextField(0),
     payload |-> BytesToString(BehindTextField(0), remainingLengt - BehindTextField(0))]

\* PublishMqttMessage: topic, the message id if the flags say so, and the rest.
DecodePublish ==
    LET index == BehindTextField(0) + IF fixedHeader = PUBLISHACKED THEN 2 ELSE 0
    IN  [topic |-> DecodeTextField(0), payload |-> BytesToString(index, remainingLengt - index)]

\* SubscribeMqttMessage::decodeTopics: filters, each with a QoS, to the packet's end.
\* The loop after n turns, of which there are fewer than bytes.
DecodeTopics ==
    LET Turn[n \in 0..remainingLengt] ==
          IF n = 0 THEN [index |-> 2, topics |-> <<>>]
          ELSE LET last == Turn[n - 1] IN
               IF last.index < remainingLengt
               THEN [index  |-> BehindTextField(last.index) + 1,
                     topics |-> Append(last.topics, DecodeTextField(last.index))]
               ELSE last
    IN  Turn[remainingLengt].topics

DecodeSubscribe == [messageId |-> DecodeTwoBytes(0), topics |-> DecodeTopics]

-----------------------------------------------------------------------------
(* Encoding.                                                               *)

\* codeSize: the digits of the size, least significant first, are shifted into a uint32_t,
\* which is the four bytes of it here.
CodeSize(size) ==
    LET Code[n \in 0..size] ==
          IF n < Base THEN <<n>> ELSE <<(n % Base) + Base>> \o Code[n \div Base]
        shifted == <<0, 0, 0>> \o Code[size]
    IN  SubSeq(shifted, Len(shifted) - 3, Len(shifted))

\* Mutant: all four bytes of the register are sent.
ConcatWholeRegister(encodedSize) == encodedSize

\* concatEncodedSize: of the three upper bytes those with the flag, then the last byte.
ConcatEncodedSize(encodedSize) ==
    LET Upper(i) == IF encodedSize[i] >= Base THEN <<encodedSize[i]>> ELSE <<>>
    IN  Upper(1) \o Upper(2) \o Upper(3) \o <<encodedSize[4]>>

\* MqttTocpic::getTopicAndPayloadLength returns 16 bits.
TopicAndPayloadLength(message) == (Len(message.topic) + Len(message.payload)) % Word

\* PublishMqttMessage::buildMqttPacket: always QoS 0.
BuildPublish(message) ==
    <<PUBLISH>> \o ConcatEncodedSize(CodeSize(TopicAndPayloadLength(message) + 2))
        \o <<(Len(message.topic) \div (2 * Base)) % (2 * Base), Len(message.topic) % (2 * Base)>>
        \o message.topic \o message.payload

BuildAckConnect == <<CONNECTACK, 2, 0, 0>>

BuildPingRes == <<PINGRESP, 0>>

\* AckSubscriptionMqttMessage: one return code, however many filters were asked for.
BuildSubAck(packetId) ==
    <<SUBACK, 3, packetId \div (2 * Base), packetId % (2 * Base), 0>>

-----------------------------------------------------------------------------
(* The callback of the reader: network task.                               *)

\* sendPacketByTcpConnection; the outbox is Outbox's subject.
SendPacket(bytes) == outgoing' = IF connected THEN outgoing \o bytes ELSE outgoing

\* Every handler: the reader is reset behind it.
Handle(phase) ==
    /\ clientState = phase
    /\ DeliverPacket
    /\ UNCHANGED <<script, unsent, subscribed>>

HandleConnect ==
    /\ fixedHeader = CONNECT /\ Handle("pending")
    /\ clientState' = "connected" /\ keepAlive' = DecodeKeepAlive
    /\ SendPacket(BuildAckConnect)
    /\ UNCHANGED <<connected, brokerEventQueue, attempts, dropped>>

\* The first packet is not CONNECT.
HandleBadHandshake ==
    /\ fixedHeader # CONNECT /\ Handle("pending")
    /\ connected' = FALSE
    /\ UNCHANGED <<clientState, keepAlive, brokerEventQueue, outgoing, attempts, dropped>>

HandlePing ==
    /\ fixedHeader = PINGREQ /\ Handle("connected")
    /\ SendPacket(BuildPingRes)
    /\ UNCHANGED <<connected, clientState, keepAlive, brokerEventQueue, attempts, dropped>>

\* Mutant: the queue takes one event too many.
QueueEventPastEnd(event) ==
    /\ attempts' = attempts + 1
    /\ IF Len(brokerEventQueue) <= EventQueueSize
       THEN brokerEventQueue' = Append(brokerEventQueue, event) /\ UNCHANGED dropped
       ELSE dropped' = dropped \cup {attempts'} /\ UNCHANGED brokerEventQueue

\* Events of a full queue are dropped.
QueueEvent(event) ==
    /\ attempts' = attempts + 1
    /\ IF Len(brokerEventQueue) < EventQueueSize
       THEN brokerEventQueue' = Append(brokerEventQueue, event) /\ UNCHANGED dropped
       ELSE dropped' = dropped \cup {attempts'} /\ UNCHANGED brokerEventQueue

HandlePublish ==
    /\ fixedHeader \in {PUBLISH, PUBLISHACKED} /\ Handle("connected")
    /\ QueueEvent([type |-> "publish", message |-> DecodePublish])
    /\ UNCHANGED <<connected, clientState, keepAlive, outgoing>>

HandleSubscribe ==
    /\ fixedHeader = SUBSCRIBE /\ Handle("connected")
    /\ QueueEvent([type |-> "subscribe", message |-> DecodeSubscribe])
    /\ UNCHANGED <<connected, clientState, keepAlive, outgoing>>

\* UNSUBSCRIBE (its action is empty), a second CONNECT, unknown types.
HandleOther ==
    /\ fixedHeader \notin {PINGREQ, PUBLISH, PUBLISHACKED, SUBSCRIBE} /\ Handle("connected")
    /\ UNCHANGED <<connected, clientState, keepAlive, brokerEventQueue, outgoing, attempts,
                   dropped>>

\* A chunk arrives.  What follows an allocation that failed is read from the middle of
\* a packet: the session is followed up to there.
Arrive(n) ==
    /\ connected /\ ~memoryShort /\ n <= Len(unsent)
    /\ AddData(SubSeq(unsent, 1, n))
    /\ unsent' = SubSeq(unsent, n + 1, Len(unsent))
    /\ UNCHANGED <<script, connected, clientState, keepAlive, subscribed, brokerEventQueue,
                   outgoing, attempts, dropped>>

\* An iteration of the reader's loop that completes no packet.
ReadOn ==
    /\ ReadFixedHeader \/ RejectLength \/ ReadLengthByte \/ AllocationFails \/ CopyBody
    /\ UNCHANGED sessionVars

-----------------------------------------------------------------------------
(* The worker.                                                             *)

HeadMessage == Head(brokerEventQueue).message

TakeEvent(type) ==
    /\ brokerEventQueue # <<>> /\ Head(brokerEventQueue).type = type
    /\ brokerEventQueue' = Tail(brokerEventQueue)
    /\ UNCHANGED <<vars, script, unsent, connected, clientState, keepAlive, attempts, dropped>>

\* _subscribeClientImpl: every filter, then one SUBACK.
ProcessSubscribe ==
    /\ TakeEvent("subscribe")
    /\ subscribed' = subscribed \cup Range(HeadMessage.topics)
    /\ SendPacket(BuildSubAck(HeadMessage.messageId))

\* _publishMessageImpl; filters match by equality here, TopicTrie has the others.
ProcessPublish ==
    /\ TakeEvent("publish")
    /\ IF HeadMessage.topic \in subscribed THEN SendPacket(BuildPublish(HeadMessage))
                                           ELSE UNCHANGED outgoing
    /\ UNCHANGED subscribed

-----------------------------------------------------------------------------
SessionInit ==
    /\ Init
    /\ script \in Scripts
    /\ unsent = BytesOfScript(script)
    /\ connected = TRUE /\ clientState = "pending" /\ keepAlive = 60
    /\ subscribed = {} /\ brokerEventQueue = <<>> /\ outgoing = <<>>
    /\ attempts = 0 /\ dropped = {}

SessionNext ==
    \/ \E n \in ChunkSizes : Arrive(n)
    \/ ReadOn
    \/ HandleConnect \/ HandleBadHandshake \/ HandlePing \/ HandlePublish
    \/ HandleSubscribe \/ HandleOther
    \/ ProcessSubscribe \/ ProcessPublish

SessionSpec == SessionInit /\ [][SessionNext]_<<vars, sessionVars>>

-----------------------------------------------------------------------------
(* Properties.                                                             *)

\* Every variable of the session keeps its type; the queue stays within its size.
SessionTypeOK ==
    /\ script \in Scripts /\ unsent \in Seq(Bytes)
    /\ connected \in BOOLEAN /\ clientState \in {"pending", "connected"}
    /\ keepAlive \in 0..Word /\ outgoing \in Seq(Bytes)
    /\ Len(brokerEventQueue) <= EventQueueSize
    /\ attempts \in Nat /\ dropped \subseteq 1..attempts

WorkerTypes == {"publish", "publishAcked", "subscribe"}

\* The frames with one of these headers, in their order.
Only(headers, frames) ==
    FlattenSeq([i \in DOMAIN frames |->
                    IF frames[i].header \in headers THEN <<frames[i]>> ELSE <<>>])

\* What a client may expect that has sent `requests`: a CONNACK first and a PINGRESP per
\* PINGREQ from the network task,
PingAnswers(requests) ==
    [i \in DOMAIN requests |->
        IF requests[i].type = "pingreq" THEN <<Frame(PINGRESP, <<>>)>> ELSE <<>>]

NetworkAnswers(requests) ==
    <<Frame(CONNECTACK, <<0, 0>>)>> \o FlattenSeq(PingAnswers(requests))

\* a SUBACK per SUBSCRIBE with its id and a QoS 0 copy of what it is subscribed to from
\* the worker, in this order each.  "Return Code: One byte per topic filter", says
\* AckSubscriptionMqttMessage.h:18; "Assuming simple ack for 1 topic", says :19 of the
\* .cpp, and the code has one code for any number.  Either way will do here.
ReturnCodes(r, perFilter) == IF perFilter THEN [i \in DOMAIN r.filters |-> 0] ELSE <<0>>

SubscribedBefore(requests, i) ==
    \E j \in 1..i - 1 :
        requests[j].type = "subscribe" /\ requests[i].topic \in Range(requests[j].filters)

Replies(requests, perFilter) ==
    [i \in DOMAIN requests |->
        LET r == requests[i] IN
        IF r.type = "subscribe"
        THEN <<Frame(SUBACK, TwoBytes(r.id) \o ReturnCodes(r, perFilter))>>
        ELSE IF SubscribedBefore(requests, i) THEN <<Frame(PUBLISH, Text(r.topic) \o r.payload)>>
        ELSE <<>>]

WorkerAnswers(requests, perFilter) == FlattenSeq(Replies(requests, perFilter))

\* Events for the queue that the first n requests make.
Events(n) == Cardinality({i \in 1..n : script[i].type \in WorkerTypes})

\* The requests for the worker that the queue has not dropped.
Kept ==
    [i \in DOMAIN script |->
        IF script[i].type \in WorkerTypes /\ Events(i) \notin dropped THEN <<script[i]>> ELSE <<>>]

Queued == FlattenSeq(Kept)

\* Topic and payload are shorter than the 16 bits the encoder adds them in.
WithinWord ==
    \A i \in DOMAIN script : script[i].type \in {"publish", "publishAcked"} =>
        Len(script[i].topic) + Len(script[i].payload) < Word

\* No length is rejected.  "Connection should be dropped by the caller", says the comment
\* at ReaderMqttPacket.cpp:42, and no caller does: what is answered to the requests behind
\* such a length is not settled.
NoneRejected == \A i \in DOMAIN script : script[i].type # "overlong"

\* The client can take the bytes it is sent for packets, to the last byte, and they
\* are the answers to its requests, whatever chunks these were cut into, whichever
\* task was faster and whatever is in the packets: every field is read where it was
\* written, and lengths of one, two and three digits are coded as they are decoded.
\* For all that the repository says the same of: requests of lengths the reader takes,
\* publications of lengths the encoder takes, a SUBACK of either number of codes.
AnswersExact ==
    /\ Idle /\ unsent = <<>> /\ brokerEventQueue = <<>> /\ ~memoryShort
    /\ WithinWord /\ NoneRejected
    => LET frames  == Frames(outgoing)
           network == {CONNECTACK, PINGRESP}
       IN  IF connected /\ script # <<>>
           THEN /\ Only(network, frames) = NetworkAnswers(script)
                /\ \E perFilter \in BOOLEAN :
                      Only(Bytes \ network, frames) = WorkerAnswers(Queued, perFilter)
                /\ frames[1].header = CONNECTACK
                /\ outgoing = FlattenSeq([i \in DOMAIN frames |-> OnWire(frames[i])])
           ELSE outgoing = <<>>

\* What a client may be sent for its requests.
AnswersTo(requests, perFilter) ==
    LET Of(types)    == {r \in Range(requests) : r.type \in types}
        AskedFor(t)  == \E r \in Of({"subscribe"}) : t \in Range(r.filters)
    IN  {Frame(CONNECTACK, <<0, 0>>), Frame(PINGRESP, <<>>)}
        \cup {Frame(SUBACK, TwoBytes(r.id) \o ReturnCodes(r, perFilter)) : r \in Of({"subscribe"})}
        \cup {Frame(PUBLISH, Text(r.topic) \o r.payload) :
                  r \in {q \in Of({"publish", "publishAcked"}) : AskedFor(q.topic)}}

\* At any moment, in the middle of its requests and behind a rejected length too, what
\* the client has been sent is whole packets, encoded as the client encodes its own, each
\* of them an answer to a request of its own, a publication only if it asked for the
\* topic, and exactly the first of them is the CONNACK.
AnswersFramed ==
    WithinWord =>
        LET frames == Frames(outgoing)
        IN  /\ outgoing = FlattenSeq([i \in DOMAIN frames |-> OnWire(frames[i])])
            /\ \E perFilter \in BOOLEAN : Range(frames) \subseteq AnswersTo(script, perFilter)
            /\ \A i \in DOMAIN frames : frames[i].header = CONNECTACK <=> i = 1

\* The client's keep-alive is the one of its CONNECT from the moment it is connected.
KeepAliveAgreed ==
    connected /\ clientState = "connected" => keepAlive = script[1].keepAlive

=============================================================================
