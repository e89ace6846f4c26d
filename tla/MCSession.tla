---------------------------- MODULE MCSession -----------------------------
(* Instances of Session for TLC.                                           *)
EXTENDS Session

\* Byte values that are also headers, digits and flags of a length.
Connect(k) == [type |-> "connect", keepAlive |-> k, clientId |-> <<3>>]
Ping == [type |-> "pingreq"]
Publish(t, p) == [type |-> "publish", topic |-> t, payload |-> p]
PublishAcked(i, t, p) == [type |-> "publishAcked", id |-> i, topic |-> t, payload |-> p]
Subscribe(i, f) == [type |-> "subscribe", id |-> i, filters |-> f]
Unsubscribe(i, f) == [type |-> "unsubscribe", id |-> i, filters |-> f]
TooLongPacket == [type |-> "overlong"]

Ones(n) == [i \in 1..n |-> 1]

\* Two topics; after the CONNECT any three requests, or a longer script with packets of
\* three digits, a topic of two, a length that is too long, or no CONNECT at first.
A == <<8>>
B == <<5, 0>>

Requests ==
    {Ping, Publish(A, <<0, 9>>), PublishAcked(71, B, <<>>), Subscribe(12, <<A, B>>),
     Subscribe(9, <<A>>), Unsubscribe(1, <<A>>)}

MCScripts ==
    {<<Connect(37)>> \o requests : requests \in [1..3 -> Requests]}
    \cup
    {<<Connect(0), Subscribe(99, <<A>>), Ping, PublishAcked(9, A, <<9, 0, 6>>),
       Unsubscribe(1, <<A>>), Publish(B, <<3>>), Publish(A, <<>>)>>,
     <<Connect(5), Subscribe(1, <<Ones(13)>>), Publish(Ones(13), Ones(9)),
       Connect(6), Publish(Ones(13), Ones(31))>>,
     <<Connect(5), TooLongPacket, Subscribe(1, <<Ones(13)>>), Ping, Publish(Ones(13), Ones(9))>>,
     <<Ping, Connect(7), Subscribe(2, <<A>>), Publish(A, <<2>>)>>,
     <<Connect(8), Subscribe(1, <<A>>), Publish(A, Ones(98))>>,
     <<Connect(8), Subscribe(1, <<A>>), Publish(A, Ones(99))>>}
=============================================================================
