-------------------- MODULE MqttBroker_departure_proofs --------------------
(***************************************************************************)
(* Theorems about MqttBroker from the end of a connection to the deletion  *)
(* of its client, when onDisconnect is the transport's only report of that *)
(* end (Reports = {}): every connection is then reported once, and what    *)
(* the deletion queue is for comes out as it was meant to.  With errors or *)
(* timeouts reported besides (TcpTransport), it does not: run              *)
(* lost_deletion.                                                          *)
(***************************************************************************)
EXTENDS MqttBroker_proofs

-----------------------------------------------------------------------------
(* What a step does to the addresses in use.                               *)

\* The worker has taken the key t from the deletion queue and not erased it yet.
InHand(t) == workerPc \in {"lockErase", "erase"} /\ workerKey = t

\* The worker is about to delete the client c.
Doomed(c) == workerPc = "delete" /\ workerClient = c

\* The network task is accepting the connection at t.
Accepting(t) == netPc \in {"accept", "lock", "insert"} /\ netConn = t

\* Nobody's hold of an address or of a client changes, and no error is reported.
HoldsKept ==
    /\ \A t \in Conns : (InHand(t)' <=> InHand(t)) /\ (Accepting(t)' <=> Accepting(t))
    /\ \A c \in ClientIds : Doomed(c)' <=> Doomed(c)
    /\ netPc' = "errorDone" => netPc = "errorDone"

\* The broker closes the connection of the client c.
Close(c) ==
    /\ mem[c] = "live" /\ sock[transportOf[c]] = "open"
    /\ Disconnect(c)
    /\ UNCHANGED <<mem, transportOf, clients>> /\ HoldsKept

\* Nothing changes that decides over the life of a client.
Apart == UNCHANGED <<sock, deleteMqttClientQueue, departed, mem, transportOf, clients>>
         /\ HoldsKept

\* Closing does not change anything, or it closes an open connection.
LEMMA CloseOrNothing ==
    ASSUME NEW c \in ClientIds, Disconnect(c), HoldsKept, UNCHANGED <<mem, transportOf, clients>>
    PROVE  Close(c) \/ Apart
BY DEF Disconnect, Close, Apart, closeVars

\* The steps that matter, when errors and timeouts are not reported.
LEMMA LifeSteps ==
    ASSUME Reports = {}, TypeOK, netPc # "errorDone", [Next]_vars
    PROVE  \/ \E t \in Conns : OnClient(t)
           \/ RejectClient \/ InsertClient
           \/ \E c \in ClientIds : ReportDisconnect(c)
           \/ TakeDeletion \/ EraseClient \/ DeleteClient
           \/ \E c \in ClientIds : Close(c)
           \/ Apart
<1> USE DEF brokerVars, objectVars, netVars, workerVars, appVars, closeVars
<1> DEFINE NetKept == UNCHANGED <<netPc, netConn>>
           HandKept == UNCHANGED <<workerPc, workerKey, workerClient>>
           Rest == UNCHANGED <<sock, deleteMqttClientQueue, departed, mem, transportOf, clients>>
<1>1. ASSUME HandKept, netPc' \in {"idle", "packet", "packetDone"},
             netPc \in {"idle", "packet", "packetDone"}
      PROVE  HoldsKept
  BY <1>1 DEF HoldsKept, InHand, Doomed, Accepting
<1>2. CASE NetworkTask
  <2>1. CASE PassCapacityCheck \/ LockAccept
    BY <2>1 DEF PassCapacityCheck, LockAccept, Apart, HoldsKept, InHand, Doomed, Accepting
  <2>2. ASSUME NEW c \in ClientIds, OnData(c) PROVE Apart
    BY <1>1, <2>2 DEF OnData, Apart
  <2>3. CASE \/ HandleConnect \/ HandleOther
             \/ \E tps \in SUBSET Topics : HandlePublish(tps)
             \/ \E tps \in (SUBSET Topics) \ {{}} : HandleSubscribe(tps)
    BY <1>1, <2>3 DEF HandleConnect, HandleOther, HandlePublish, HandleSubscribe, Handle, Apart
  <2>4. CASE HandleBadHandshake \/ HandleDisconnect
    <3>1. /\ Disconnect(netClient) /\ UNCHANGED <<mem, transportOf, clients>> /\ HandKept
          /\ netPc = "packet" /\ netPc' = "packetDone"
      BY <2>4 DEF HandleBadHandshake, HandleDisconnect, Handle
    <3>2. netClient \in ClientIds
      BY <3>1 DEF TypeOK, NetTypeOK
    <3> QED
      BY <1>1, <3>1, <3>2, CloseOrNothing
  <2>5. ASSUME NEW more \in BOOLEAN, FinishPacket(more) PROVE Apart
    BY <1>1, <2>5 DEF FinishPacket, Apart
  <2>6. \A c \in ClientIds : ~ReportError(c) /\ ~ReportTimeout(c)
    BY DEF ReportError, ReportTimeout
  <2>7. ~ReportDisconnectAfterError
    BY DEF ReportDisconnectAfterError
  <2> HIDE DEF Apart
  <2> QED
    BY <1>2, <2>1, <2>2, <2>3, <2>4, <2>5, <2>6, <2>7, ZenonT(60) DEF NetworkTask
<1>3. CASE WorkerTask
  <2>1. CASE \/ TakePublish \/ LockPublish \/ UnlockPublish \/ ProcessSubscribe \/ EndEvents
             \/ \E c \in ClientIds : PublishToSubscriber(c)
             \/ LockErase \/ EndDeletions
             \/ SkipKeepAlive \/ LockKeepAlive \/ UnlockKeepAlive
    <3>1. Rest
      BY <2>1 DEF WorkerLocks, WorkerUnlocks, TakePublish, TakeEvent, LockPublish,
         UnlockPublish, PublishToSubscriber, ProcessSubscribe, EndEvents, LockErase,
         EndDeletions, SkipKeepAlive, LockKeepAlive, UnlockKeepAlive
    <3>2. /\ NetKept /\ UNCHANGED <<workerKey, workerClient>>
          /\ \/ workerPc \in {"lockErase", "erase"} /\ workerPc' \in {"lockErase", "erase"}
             \/ /\ workerPc \notin {"lockErase", "erase", "delete"}
                /\ workerPc' \notin {"lockErase", "erase", "delete"}
      BY <2>1 DEF WorkerLocks, WorkerUnlocks, TakePublish, TakeEvent, LockPublish,
         UnlockPublish, PublishToSubscriber, ProcessSubscribe, EndEvents, LockErase,
         EndDeletions, SkipKeepAlive, LockKeepAlive, UnlockKeepAlive
    <3>3. HoldsKept
      BY <3>2 DEF HoldsKept, InHand, Doomed, Accepting
    <3> QED
      BY <3>1, <3>3 DEF Apart
  <2>2. ASSUME NEW c \in ClientIds, NEW overdue \in BOOLEAN, CheckKeepAlive(c, overdue)
        PROVE  Close(c) \/ Apart
    <3>1. NetKept /\ HandKept /\ UNCHANGED <<mem, transportOf, clients>>
      BY <2>2 DEF CheckKeepAlive
    <3>2. HoldsKept
      BY <3>1 DEF HoldsKept, InHand, Doomed, Accepting
    <3>3. CASE overdue
      <4>1. Disconnect(c)
        BY <2>2, <3>3 DEF CheckKeepAlive
      <4> QED
        BY <3>1, <3>2, <4>1, CloseOrNothing
    <3>4. CASE ~overdue
      BY <2>2, <3>1, <3>2, <3>4 DEF CheckKeepAlive, Apart
    <3> QED
      BY <3>3, <3>4
  <2> HIDE DEF Apart
  <2> QED
    BY <1>3, <2>1, <2>2, ZenonT(60) DEF WorkerTask
<1>4. CASE Application \/ UNCHANGED vars
  <2>1. Rest /\ NetKept /\ HandKept
    BY <1>4 DEF Application, SetMaxNumClients, LockSetOutBox, UnlockSetOutBox, SetOutBoxOf, vars
  <2> QED
    BY <2>1 DEF Apart, HoldsKept, InHand, Doomed, Accepting
<1> QED
  BY <1>2, <1>3, <1>4 DEF Next

-----------------------------------------------------------------------------
(* The invariant of departure.                                             *)

\* A key on its way to deleteMqttClient is that of a registered client whose
\* connection is closed: an address is not used again before it has been erased.
KeysClosed ==
    /\ \A i \in DOMAIN deleteMqttClientQueue :
          /\ sock[deleteMqttClientQueue[i]] = "closed"
          /\ clients[deleteMqttClientQueue[i]] # NoClient
    /\ \A t \in Conns : InHand(t) => sock[t] = "closed" /\ clients[t] # NoClient

\* No key is queued twice.
KeysDistinct ==
    /\ \A i, j \in DOMAIN deleteMqttClientQueue :
          deleteMqttClientQueue[i] = deleteMqttClientQueue[j] => i = j
    /\ \A t \in Conns : InHand(t) =>
          \A i \in DOMAIN deleteMqttClientQueue : deleteMqttClientQueue[i] # t

\* Only a client whose connection is closed is deleted, and a connection being
\* accepted is open.
HoldsOfClosed ==
    /\ \A c \in ClientIds : Doomed(c) => sock[transportOf[c]] = "closed"
    /\ \A t \in Conns : Accepting(t) => sock[t] = "open"
    /\ netPc # "errorDone"

\* The clients that have departed are those whose transport is closing or closed.
DepartedClosed ==
    \A c \in ClientIds :
        /\ mem[c] = "live" => (c \in departed <=> sock[transportOf[c]] \in {"closing", "closed"})
        /\ mem[c] = "none" => c \notin departed

DepartureInv == KeysClosed /\ KeysDistinct /\ HoldsOfClosed /\ DepartedClosed

\* What the queue of keys looks like after a send.
LEMMA KeySent ==
    ASSUME NEW t \in Conns, CloseTypeOK, QueueClientForDeletion(t)
    PROVE  /\ \A i \in DOMAIN deleteMqttClientQueue' :
                 \/ i \in DOMAIN deleteMqttClientQueue
                    /\ deleteMqttClientQueue'[i] = deleteMqttClientQueue[i]
                 \/ i = Len(deleteMqttClientQueue) + 1 /\ deleteMqttClientQueue'[i] = t
           /\ \A i \in DOMAIN deleteMqttClientQueue : deleteMqttClientQueue[i] \in Conns
           /\ Len(deleteMqttClientQueue) + 1 \notin DOMAIN deleteMqttClientQueue
BY DEF CloseTypeOK, QueueClientForDeletion, TrySend

\* A key that is new to the queue keeps it an invariant queue.
LEMMA NewKeyKeeps ==
    ASSUME TypeOK, DepartureInv, NEW t \in Conns, QueueClientForDeletion(t),
           sock[t] # "closed", sock' = [sock EXCEPT ![t] = "closed"],
           clients[t] # NoClient, UNCHANGED clients, HoldsKept
    PROVE  KeysClosed' /\ KeysDistinct'
<1> USE DEF DepartureInv
<1>1. CloseTypeOK /\ sock \in [Conns -> {"free", "open", "closing", "closed"}]
  BY DEF TypeOK, CloseTypeOK
<1>2. \A i \in DOMAIN deleteMqttClientQueue : deleteMqttClientQueue[i] # t
  BY DEF KeysClosed
<1>3. ~InHand(t)
  BY DEF KeysClosed
<1>4. \A u \in Conns : InHand(u)' <=> InHand(u)
  BY DEF HoldsKept
<1> HIDE DEF InHand
<1>5. KeysClosed'
  <2>1. \A i \in DOMAIN deleteMqttClientQueue' :
           sock'[deleteMqttClientQueue'[i]] = "closed" /\ clients'[deleteMqttClientQueue'[i]] # NoClient
    BY <1>1, KeySent DEF KeysClosed
  <2>2. \A u \in Conns : InHand(u)' => sock'[u] = "closed" /\ clients'[u] # NoClient
    BY <1>1, <1>4 DEF KeysClosed
  <2> QED
    BY <2>1, <2>2 DEF KeysClosed
<1>6. KeysDistinct'
  <2>1. \A i, j \in DOMAIN deleteMqttClientQueue' :
           deleteMqttClientQueue'[i] = deleteMqttClientQueue'[j] => i = j
    BY <1>1, <1>2, KeySent DEF KeysDistinct
  <2>2. \A u \in Conns : InHand(u)' =>
           \A i \in DOMAIN deleteMqttClientQueue' : deleteMqttClientQueue'[i] # u
    BY <1>1, <1>3, <1>4, KeySent DEF KeysDistinct
  <2> QED
    BY <2>1, <2>2 DEF KeysDistinct
<1> QED
  BY <1>5, <1>6

\* A live client that is not being deleted is in the map, and only it is at its address.
LEMMA AtItsAddress ==
    ASSUME RegistryInv, NEW c \in ClientIds, mem[c] = "live"
    PROVE  /\ transportOf[c] \in Conns
           /\ Doomed(c) \/ clients[transportOf[c]] = c
           /\ \A d \in ClientIds : mem[d] = "live" /\ d # c => transportOf[d] # transportOf[c]
           /\ ~Accepting(transportOf[c])
BY DEF RegistryInv, TypeOK, ObjectsTypeOK, RegistryConsistent, AddressesHeld, Doomed, Accepting

\* The end of a client's connection, reported or only asked for, keeps the holds and
\* makes the client a departed one.
LEMMA EndKeeps ==
    ASSUME RegistryInv, DepartureInv, NEW c \in ClientIds, mem[c] = "live",
           sock[transportOf[c]] \in {"open", "closing"},
           NEW s \in {"closing", "closed"}, sock' = [sock EXCEPT ![transportOf[c]] = s],
           departed' = departed \cup {c}, UNCHANGED <<mem, transportOf, clients>>, HoldsKept
    PROVE  HoldsOfClosed' /\ DepartedClosed'
<1> DEFINE t == transportOf[c]
<1> USE DEF DepartureInv
<1>1. /\ t \in Conns /\ ~Doomed(c) /\ ~Accepting(t)
      /\ \A d \in ClientIds : mem[d] = "live" /\ d # c => transportOf[d] # t
  BY AtItsAddress DEF HoldsOfClosed
<1>2. sock \in [Conns -> {"free", "open", "closing", "closed"}]
  BY DEF RegistryInv, TypeOK, CloseTypeOK
<1>3. \A d \in ClientIds : Doomed(d) => mem[d] = "live" /\ transportOf[d] \in Conns
  BY DEF RegistryInv, DeletionInHand, Doomed, TypeOK, ObjectsTypeOK
<1>4. HoldsOfClosed'
  BY <1>1, <1>2, <1>3 DEF HoldsOfClosed, HoldsKept
<1>5. DepartedClosed'
  <2>1. \A d \in ClientIds : mem[d] = "live" => transportOf[d] \in Conns
    BY DEF RegistryInv, TypeOK, ObjectsTypeOK
  <2> QED
    BY <1>1, <1>2, <2>1 DEF DepartedClosed
<1> QED
  BY <1>4, <1>5

\* A report of the end of a connection keeps the invariant of departure.
LEMMA ReportKeeps ==
    ASSUME RegistryInv, DepartureInv, NEW c \in ClientIds, mem[c] = "live",
           sock[transportOf[c]] \in {"open", "closing"},
           sock' = [sock EXCEPT ![transportOf[c]] = "closed"],
           QueueClientForDeletion(transportOf[c]),
           departed' = departed \cup {c}, UNCHANGED <<mem, transportOf, clients>>, HoldsKept
    PROVE  DepartureInv'
<1> DEFINE t == transportOf[c]
<1>1. TypeOK /\ t \in Conns /\ sock[t] # "closed"
  BY AtItsAddress DEF RegistryInv
<1>2. clients[t] # NoClient
  BY AtItsAddress DEF DepartureInv, HoldsOfClosed, ClientIds, NoClient
<1>3. KeysClosed' /\ KeysDistinct'
  BY <1>1, <1>2, NewKeyKeeps
<1>4. HoldsOfClosed' /\ DepartedClosed'
  BY EndKeeps
<1> QED
  BY <1>3, <1>4 DEF DepartureInv

\* Every step keeps the invariant of departure.
LEMMA DepartureInductive ==
    ASSUME Reports = {}
    PROVE  RegistryInv /\ RegistryInv' /\ DepartureInv /\ [Next]_vars => DepartureInv'
<1> SUFFICES ASSUME RegistryInv, RegistryInv', DepartureInv, [Next]_vars
             PROVE  DepartureInv'
  OBVIOUS
<1> USE DEF brokerVars, objectVars, netVars, workerVars, appVars, closeVars
<1>0. /\ TypeOK /\ TypeOK' /\ netPc # "errorDone"
      /\ CloseTypeOK /\ sock \in [Conns -> {"free", "open", "closing", "closed"}]
      /\ deleteMqttClientQueue \in Seq(Conns)
  BY DEF RegistryInv, DepartureInv, HoldsOfClosed, TypeOK, CloseTypeOK
<1>1. ASSUME NEW t \in Conns, OnClient(t) PROVE DepartureInv'
  <2>1. /\ netPc = "idle" /\ sock[t] = "free" /\ sock' = [sock EXCEPT ![t] = "open"]
        /\ netPc' = "accept" /\ netConn' = t
        /\ UNCHANGED <<deleteMqttClientQueue, departed, mem, transportOf, clients>>
        /\ UNCHANGED <<workerPc, workerKey, workerClient>>
    BY <1>1 DEF OnClient
  <2>2. \A c \in ClientIds : mem[c] = "live" => transportOf[c] # t
    BY <2>1 DEF RegistryInv, AddressesHeld
  <2>3. KeysClosed' /\ KeysDistinct'
    BY <1>0, <2>1 DEF DepartureInv, KeysClosed, KeysDistinct, InHand
  <2>4. HoldsOfClosed'
    BY <1>0, <2>1 DEF DepartureInv, HoldsOfClosed, Accepting, Doomed
  <2>5. DepartedClosed'
    BY <1>0, <2>1, <2>2 DEF DepartureInv, DepartedClosed
  <2> QED
    BY <2>3, <2>4, <2>5 DEF DepartureInv
<1>2. CASE RejectClient
  <2>1. /\ netPc = "accept" /\ sock' = [sock EXCEPT ![netConn] = "free"] /\ netPc' = "idle"
        /\ UNCHANGED <<deleteMqttClientQueue, departed, mem, transportOf, clients>>
        /\ UNCHANGED <<workerPc, workerKey, workerClient>>
    BY <1>2 DEF RejectClient
  <2>2. /\ netConn \in Conns /\ sock[netConn] = "open"
        /\ \A c \in ClientIds : mem[c] = "live" => transportOf[c] # netConn
    BY <1>0, <2>1 DEF TypeOK, NetTypeOK, DepartureInv, HoldsOfClosed, Accepting, RegistryInv,
       AddressesHeld
  <2>3. KeysClosed' /\ KeysDistinct'
    BY <1>0, <2>1, <2>2 DEF DepartureInv, KeysClosed, KeysDistinct, InHand
  <2>4. HoldsOfClosed'
    BY <1>0, <2>1, <2>2 DEF DepartureInv, HoldsOfClosed, Accepting, Doomed
  <2>5. DepartedClosed'
    BY <1>0, <2>1, <2>2 DEF DepartureInv, DepartedClosed
  <2> QED
    BY <2>3, <2>4, <2>5 DEF DepartureInv
<1>3. CASE InsertClient
  <2> DEFINE c == numClient + 1
  <2>1. /\ netPc = "insert" /\ netPc' = "idle"
        /\ mem' = [mem EXCEPT ![c] = "live"]
        /\ transportOf' = [transportOf EXCEPT ![c] = netConn]
        /\ clients' = [clients EXCEPT ![netConn] = c]
        /\ UNCHANGED <<deleteMqttClientQueue, departed, sock>>
        /\ UNCHANGED <<workerPc, workerKey, workerClient>>
    BY <1>3 DEF InsertClient
  <2>2. /\ netConn \in Conns /\ sock[netConn] = "open"
        /\ c \in ClientIds /\ c # NoClient /\ mem[c] = "none"
    BY <1>0, <2>1, NumbersAssumption DEF TypeOK, NetTypeOK, BrokerTypeOK, DepartureInv,
       HoldsOfClosed, Accepting, RegistryInv, Numbering, ClientIds, NoClient
  <2>3. KeysClosed' /\ KeysDistinct'
    BY <1>0, <2>1, <2>2 DEF DepartureInv, KeysClosed, KeysDistinct, InHand, TypeOK, BrokerTypeOK
  <2>4. HoldsOfClosed'
    BY <1>0, <2>1, <2>2 DEF DepartureInv, HoldsOfClosed, Accepting, Doomed, TypeOK,
       ObjectsTypeOK, WorkerTypeOK
  <2>5. DepartedClosed'
    BY <1>0, <2>1, <2>2 DEF DepartureInv, DepartedClosed, TypeOK, ObjectsTypeOK
  <2> QED
    BY <2>3, <2>4, <2>5 DEF DepartureInv
<1>4. ASSUME NEW c \in ClientIds, ReportDisconnect(c) PROVE DepartureInv'
  <2> DEFINE t == transportOf[c]
  <2>1. /\ mem[c] = "live" /\ sock[t] \in {"open", "closing"} /\ netPc = "idle"
        /\ sock' = [sock EXCEPT ![t] = "closed"] /\ departed' = departed \cup {c}
        /\ QueueClientForDeletion(t)
        /\ UNCHANGED <<mem, transportOf, clients, netPc, netConn, workerPc, workerKey, workerClient>>
    BY <1>4 DEF ReportDisconnect
  <2>2. HoldsKept
    BY <2>1 DEF HoldsKept, InHand, Doomed, Accepting
  <2> QED
    BY <1>0, <2>1, <2>2, ReportKeeps
<1>5. CASE TakeDeletion
  <2> DEFINE q == deleteMqttClientQueue
  <2>1. /\ workerPc = "deletions" /\ q # <<>> /\ q' = Tail(q)
        /\ workerKey' = Head(q) /\ workerPc' = "lockErase"
        /\ UNCHANGED <<sock, departed, mem, transportOf, clients, netPc, netConn, workerClient>>
    BY <1>5 DEF TakeDeletion
  <2>2. /\ \A i \in DOMAIN q' : i + 1 \in DOMAIN q /\ q'[i] = q[i + 1] /\ i \in Nat /\ i # 0
        /\ 1 \in DOMAIN q /\ Head(q) = q[1]
    BY <1>0, <2>1, TailElements
  <2>3. KeysClosed'
    BY <1>0, <2>1, <2>2 DEF DepartureInv, KeysClosed, InHand
  <2>4. KeysDistinct'
    BY <1>0, <2>1, <2>2 DEF DepartureInv, KeysDistinct, InHand
  <2>5. HoldsOfClosed'
    BY <1>0, <2>1 DEF DepartureInv, HoldsOfClosed, Accepting, Doomed
  <2>6. DepartedClosed'
    BY <1>0, <2>1 DEF DepartureInv, DepartedClosed
  <2> QED
    BY <2>3, <2>4, <2>5, <2>6 DEF DepartureInv
<1>6. CASE EraseClient
  <2>1. /\ workerPc = "erase" /\ clients' = [clients EXCEPT ![workerKey] = NoClient]
        /\ workerClient' = clients[workerKey] /\ workerPc' \in {"deletions", "delete"}
        /\ UNCHANGED <<sock, deleteMqttClientQueue, departed, mem, transportOf, netPc, netConn>>
    BY <1>6 DEF EraseClient
  <2>2. workerKey \in Conns /\ InHand(workerKey)
    BY <1>0, <2>1 DEF TypeOK, WorkerTypeOK, InHand
  <2>3. KeysClosed' /\ KeysDistinct'
    BY <1>0, <2>1, <2>2 DEF DepartureInv, KeysClosed, KeysDistinct, InHand, TypeOK, BrokerTypeOK
  <2>4. HoldsOfClosed'
    BY <1>0, <2>1, <2>2 DEF DepartureInv, HoldsOfClosed, KeysClosed, Accepting, Doomed,
       RegistryInv, RegistryConsistent
  <2>5. DepartedClosed'
    BY <1>0, <2>1 DEF DepartureInv, DepartedClosed
  <2> QED
    BY <2>3, <2>4, <2>5 DEF DepartureInv
<1>7. CASE DeleteClient
  <2> DEFINE c == workerClient
             t == transportOf[c]
  <2>1. workerPc = "delete" /\ c \in ClientIds /\ mem[c] = "live" /\ Doomed(c) /\ t \in Conns
    BY <1>0, <1>7 DEF DeleteClient, TypeOK, WorkerTypeOK, RegistryInv, DeletionInHand, Doomed,
       ObjectsTypeOK
  <2>2. sock[t] = "closed"
    BY <2>1 DEF DepartureInv, HoldsOfClosed
  <2>3. /\ sock' = [sock EXCEPT ![t] = "free"] /\ mem' = [mem EXCEPT ![c] = "freed"]
        /\ workerPc' = "deletions"
        /\ UNCHANGED <<deleteMqttClientQueue, departed, transportOf, clients, netPc, netConn>>
    BY <1>7, <2>2 DEF DeleteClient
  <2>4. /\ clients[t] = NoClient
        /\ \A d \in ClientIds : mem[d] = "live" /\ d # c => transportOf[d] # t
    <3>1. \A d \in ClientIds : mem[d] = "live" /\ d # c => transportOf[d] # t
      BY <2>1, AtItsAddress
    <3>2. clients[t] # c /\ clients[t] \in ClientIds \cup {NoClient}
      BY <1>0, <2>1 DEF RegistryInv, DeletionInHand, TypeOK, BrokerTypeOK
    <3>3. clients[t] # NoClient => mem[clients[t]] = "live" /\ transportOf[clients[t]] = t
      BY <2>1 DEF RegistryInv, RegistryConsistent
    <3> QED
      BY <3>1, <3>2, <3>3
  <2>5. KeysClosed' /\ KeysDistinct'
    BY <1>0, <2>1, <2>3, <2>4 DEF DepartureInv, KeysClosed, KeysDistinct, InHand
  <2>6. HoldsOfClosed'
    BY <1>0, <2>1, <2>2, <2>3 DEF DepartureInv, HoldsOfClosed, Accepting, Doomed
  <2>7. DepartedClosed'
    BY <1>0, <2>1, <2>3, <2>4 DEF DepartureInv, DepartedClosed, TypeOK, ObjectsTypeOK
  <2> QED
    BY <2>5, <2>6, <2>7 DEF DepartureInv
<1>8. ASSUME NEW c \in ClientIds, Close(c) PROVE DepartureInv'
  <2> DEFINE t == transportOf[c]
  <2>1. /\ mem[c] = "live" /\ sock[t] = "open" /\ departed' = departed \cup {c}
        /\ UNCHANGED <<mem, transportOf, clients>> /\ HoldsKept
    BY <1>8 DEF Close, Disconnect
  <2>2. CASE SyncClose
    <3>1. sock' = [sock EXCEPT ![t] = "closed"] /\ QueueClientForDeletion(t)
      BY <1>8, <2>2 DEF Close, Disconnect
    <3> QED
      BY <1>0, <2>1, <3>1, ReportKeeps
  <2>3. CASE ~SyncClose
    <3>1. sock' = [sock EXCEPT ![t] = "closing"] /\ UNCHANGED deleteMqttClientQueue
      BY <1>8, <2>3 DEF Close, Disconnect
    <3>2. HoldsOfClosed' /\ DepartedClosed'
      BY <2>1, <3>1, EndKeeps
    <3>3. KeysClosed' /\ KeysDistinct'
      BY <1>0, <2>1, <3>1 DEF DepartureInv, KeysClosed, KeysDistinct, HoldsKept
    <3> QED
      BY <3>2, <3>3 DEF DepartureInv
  <2> QED
    BY <2>2, <2>3
<1>9. CASE Apart
  <2>1. KeysClosed' /\ KeysDistinct'
    BY <1>0, <1>9 DEF Apart, DepartureInv, KeysClosed, KeysDistinct, HoldsKept
  <2>2. HoldsOfClosed'
    BY <1>0, <1>9 DEF Apart, DepartureInv, HoldsOfClosed, HoldsKept
  <2>3. DepartedClosed'
    BY <1>0, <1>9 DEF Apart, DepartureInv, DepartedClosed
  <2> QED
    BY <2>1, <2>2, <2>3 DEF DepartureInv
<1> QED
  BY <1>0, <1>1, <1>2, <1>3, <1>4, <1>5, <1>6, <1>7, <1>8, <1>9, LifeSteps

\* Nobody has departed when the broker starts.
LEMMA DepartureInit == Init => DepartureInv
BY DEF Init, DepartureInv, KeysClosed, KeysDistinct, HoldsOfClosed, DepartedClosed, InHand,
   Doomed, Accepting

\* The invariant of departure holds in every reachable state.
LEMMA DepartureInvariant == ASSUME Reports = {} PROVE Spec => []DepartureInv
<1>1. RegistryInv /\ RegistryInv' /\ DepartureInv /\ [Next]_vars => DepartureInv'
  BY DepartureInductive
<1> QED
  BY <1>1, DepartureInit, RegistryInvariant, PTL DEF Spec

-----------------------------------------------------------------------------
(* No deletion is lost.                                                    *)

\* The deletion queue is as long as the registry may become: 20 and 16 in the code.
QueueFits ==
    /\ MAXNUMCLIENTS <= DeleteQueueSize
    /\ \A n \in MaxChoices : n <= DeleteQueueSize

\* The keys in the queue are of different clients, and the client whose connection
\* ends now is not among them: there is a place for one more.
LEMMA PlaceForOneMore ==
    ASSUME RegistryInv, DepartureInv, Cardinality(Registered) <= DeleteQueueSize,
           NEW t \in Conns, clients[t] # NoClient, sock[t] # "closed"
    PROVE  Len(deleteMqttClientQueue) < DeleteQueueSize
<1> DEFINE q == deleteMqttClientQueue
           S == 1..Len(q)
           T == Registered \ {clients[t]}
           f == [i \in S |-> clients[q[i]]]
<1>0. /\ q \in Seq(Conns) /\ Len(q) \in Nat /\ DOMAIN q = S
      /\ \A i \in S : q[i] \in Conns
      /\ clients \in [Conns -> ClientIds \cup {NoClient}]
  BY DEF RegistryInv, TypeOK, CloseTypeOK, BrokerTypeOK
<1>1. IsFiniteSet(Registered) /\ Cardinality(Registered) \in Nat
  BY <1>0, RegisteredFinite DEF Registered
<1>2. \A u, v \in Conns : clients[u] # NoClient /\ clients[u] = clients[v] => u = v
  BY DEF RegistryInv, RegistryConsistent
<1>3. \A i \in S : clients[q[i]] # NoClient /\ q[i] # t
  BY <1>0 DEF DepartureInv, KeysClosed
<1>4. f \in [S -> T]
  <2>1. \A i \in S : clients[q[i]] \in T
    BY <1>0, <1>2, <1>3 DEF Registered
  <2> QED
    BY <2>1
<1>5. f \in Injection(S, T)
  <2>1. \A i, j \in S : f[i] = f[j] => i = j
    BY <1>0, <1>2, <1>3 DEF DepartureInv, KeysDistinct
  <2> QED
    BY <1>4, <2>1 DEF Injection, IsInjective
<1>6. IsFiniteSet(T) /\ Cardinality(T) = Cardinality(Registered) - 1
  <2>1. clients[t] \in Registered
    BY DEF Registered
  <2> QED
    BY <1>1, <2>1, FS_RemoveElement
<1>7. Cardinality(S) <= Cardinality(T)
  BY <1>5, <1>6, FS_Injection
<1>8. Cardinality(S) = Len(q)
  <2>1. Len(q) \in Nat
    BY <1>0
  <2>2. \A n \in Nat : Cardinality(1..n) = n
    BY FS_Interval
  <2> QED
    BY <2>1, <2>2
<1> QED
  BY <1>0, <1>1, <1>6, <1>7, <1>8, NumbersAssumption

\* A report of the end of a connection leaves its key in the queue, with those before.
LEMMA ReportIsQueued ==
    ASSUME RegistryInv, DepartureInv, CleanupScheduled,
           Cardinality(Registered) <= DeleteQueueSize,
           NEW c \in ClientIds, mem[c] = "live",
           sock[transportOf[c]] \in {"open", "closing"},
           sock' = [sock EXCEPT ![transportOf[c]] = "closed"],
           QueueClientForDeletion(transportOf[c]), UNCHANGED clients, HoldsKept
    PROVE  CleanupScheduled'
<1> DEFINE t == transportOf[c]
           q == deleteMqttClientQueue
<1>1. t \in Conns /\ clients[t] # NoClient /\ sock[t] # "closed"
  BY AtItsAddress DEF DepartureInv, HoldsOfClosed, ClientIds, NoClient
<1>2. q' = Append(q, t)
  BY <1>1, PlaceForOneMore DEF QueueClientForDeletion, TrySend
<1>3. /\ q \in Seq(Conns) /\ sock \in [Conns -> {"free", "open", "closing", "closed"}]
      /\ \A u \in Conns : InHand(u)' <=> InHand(u)
  BY DEF RegistryInv, TypeOK, CloseTypeOK, HoldsKept
<1>4. /\ \A i \in DOMAIN q : i \in DOMAIN q' /\ q'[i] = q[i]
      /\ \E i \in DOMAIN q' : q'[i] = t
  BY <1>2, <1>3
<1> QED
  BY <1>1, <1>3, <1>4 DEF CleanupScheduled, InHand

\* What is in a queue is received next, or still there after a receive.
LEMMA HeadOrTail ==
    ASSUME NEW S, NEW s \in Seq(S), s # <<>>, NEW i \in DOMAIN s
    PROVE  s[i] = Head(s) \/ \E j \in DOMAIN Tail(s) : Tail(s)[j] = s[i]
<1>1. CASE i = 1
  BY <1>1
<1>2. CASE i # 1
  <2>1. i - 1 \in DOMAIN Tail(s) /\ Tail(s)[i - 1] = s[i]
    BY <1>2
  <2> QED
    BY <2>1
<1> QED
  BY <1>1, <1>2

\* Every step keeps the deletions scheduled.
LEMMA CleanupInductive ==
    ASSUME Reports = {}
    PROVE  /\ RegistryInv /\ DepartureInv /\ CleanupScheduled
           /\ Cardinality(Registered) <= DeleteQueueSize /\ [Next]_vars
           => CleanupScheduled'
<1> SUFFICES ASSUME RegistryInv, DepartureInv, CleanupScheduled,
                    Cardinality(Registered) <= DeleteQueueSize, [Next]_vars
             PROVE  CleanupScheduled'
  OBVIOUS
<1> USE DEF brokerVars, objectVars, netVars, workerVars, appVars, closeVars
<1> DEFINE q == deleteMqttClientQueue
<1>0. /\ TypeOK /\ netPc # "errorDone" /\ q \in Seq(Conns)
      /\ sock \in [Conns -> {"free", "open", "closing", "closed"}]
  BY DEF RegistryInv, DepartureInv, HoldsOfClosed, TypeOK, CloseTypeOK
<1>1. ASSUME NEW t \in Conns, OnClient(t) PROVE CleanupScheduled'
  BY <1>0, <1>1 DEF OnClient, CleanupScheduled
<1>2. CASE RejectClient
  <2>1. netConn \in Conns
    BY <1>0, <1>2 DEF RejectClient, TypeOK, NetTypeOK
  <2> QED
    BY <1>0, <1>2, <2>1 DEF RejectClient, CleanupScheduled
<1>3. CASE InsertClient
  <2>1. netConn \in Conns /\ sock[netConn] = "open"
    BY <1>0, <1>3 DEF InsertClient, TypeOK, NetTypeOK, DepartureInv, HoldsOfClosed, Accepting
  <2> QED
    BY <1>0, <1>3, <2>1 DEF InsertClient, CleanupScheduled, TypeOK, BrokerTypeOK
<1>4. ASSUME NEW c \in ClientIds, ReportDisconnect(c) PROVE CleanupScheduled'
  <2>1. HoldsKept
    BY <1>4 DEF ReportDisconnect, HoldsKept, InHand, Doomed, Accepting
  <2> QED
    BY <1>4, <2>1, ReportIsQueued DEF ReportDisconnect
<1>5. CASE TakeDeletion
  <2>1. /\ q # <<>> /\ q' = Tail(q) /\ workerPc = "deletions"
        /\ workerKey' = Head(q) /\ workerPc' = "lockErase" /\ UNCHANGED <<sock, clients>>
    BY <1>5 DEF TakeDeletion
  <2>2. \A i \in DOMAIN q : q[i] = Head(q) \/ \E j \in DOMAIN Tail(q) : Tail(q)[j] = q[i]
    BY <1>0, <2>1, HeadOrTail
  <2> QED
    BY <1>0, <2>1, <2>2 DEF CleanupScheduled
<1>6. CASE EraseClient
  <2>1. /\ workerPc = "erase" /\ clients' = [clients EXCEPT ![workerKey] = NoClient]
        /\ UNCHANGED <<sock, deleteMqttClientQueue>> /\ workerKey \in Conns
    BY <1>0, <1>6 DEF EraseClient, TypeOK, WorkerTypeOK
  <2> QED
    BY <1>0, <2>1 DEF CleanupScheduled, TypeOK, BrokerTypeOK
<1>7. CASE DeleteClient
  <2>1. /\ workerPc = "delete" /\ transportOf[workerClient] \in Conns
        /\ sock[transportOf[workerClient]] = "closed"
    BY <1>0, <1>7 DEF DeleteClient, TypeOK, WorkerTypeOK, ObjectsTypeOK, DepartureInv,
       HoldsOfClosed, Doomed
  <2>2. /\ sock' = [sock EXCEPT ![transportOf[workerClient]] = "free"]
        /\ UNCHANGED <<deleteMqttClientQueue, clients>>
    BY <1>7, <2>1 DEF DeleteClient
  <2> QED
    BY <1>0, <2>1, <2>2 DEF CleanupScheduled
<1>8. ASSUME NEW c \in ClientIds, Close(c) PROVE CleanupScheduled'
  <2>1. /\ mem[c] = "live" /\ sock[transportOf[c]] = "open"
        /\ UNCHANGED clients /\ HoldsKept
    BY <1>8 DEF Close
  <2>2. CASE SyncClose
    <3>1. /\ sock' = [sock EXCEPT ![transportOf[c]] = "closed"]
          /\ QueueClientForDeletion(transportOf[c])
      BY <1>8, <2>2 DEF Close, Disconnect
    <3> QED
      BY <2>1, <3>1, ReportIsQueued
  <2>3. CASE ~SyncClose
    <3>1. sock' = [sock EXCEPT ![transportOf[c]] = "closing"] /\ UNCHANGED q
      BY <1>8, <2>3 DEF Close, Disconnect
    <3>2. \A t \in Conns : InHand(t)' <=> InHand(t)
      BY <2>1 DEF HoldsKept
    <3> QED
      BY <1>0, <2>1, <3>1, <3>2 DEF CleanupScheduled, InHand
  <2> QED
    BY <2>2, <2>3
<1>9. CASE Apart
  BY <1>0, <1>9 DEF Apart, HoldsKept, CleanupScheduled, InHand
<1> QED
  BY <1>0, <1>1, <1>2, <1>3, <1>4, <1>5, <1>6, <1>7, <1>8, <1>9, LifeSteps

\* Only the application changes the limit.
LEMMA LimitSteps ==
    ASSUME [Next]_vars
    PROVE  UNCHANGED maxNumClients \/ \E n \in MaxChoices : SetMaxNumClients(n)
<1> USE DEF brokerVars
<1>1. CASE NetworkTask
  BY <1>1 DEF NetworkTask, OnClient, RejectClient, PassCapacityCheck, LockAccept,
     InsertClient, OnData, Handle, HandleConnect, HandleBadHandshake, HandlePublish,
     HandleSubscribe, HandleDisconnect, HandleOther, FinishPacket, ReportDisconnect,
     ReportError, ReportTimeout, ReportDisconnectAfterError
<1>2. CASE WorkerTask
  BY <1>2 DEF WorkerTask, WorkerLocks, WorkerUnlocks, TakePublish, LockPublish,
     UnlockPublish, PublishToSubscriber, ProcessSubscribe, EndEvents, TakeDeletion,
     LockErase, EraseClient, DeleteClient, EndDeletions, SkipKeepAlive, LockKeepAlive,
     UnlockKeepAlive, CheckKeepAlive
<1>3. CASE Application
  BY <1>3 DEF Application, LockSetOutBox, UnlockSetOutBox, SetOutBoxOf
<1>4. CASE UNCHANGED vars
  BY <1>4 DEF vars
<1> QED
  BY <1>1, <1>2, <1>3, <1>4 DEF Next

\* The limit in force is within the queue's length.
LimitWithin == maxNumClients <= DeleteQueueSize

\* It stays there.
LEMMA LimitFits == ASSUME QueueFits PROVE Spec => []LimitWithin
<1>1. Init => LimitWithin
  BY DEF Init, QueueFits, LimitWithin
<1>2. LimitWithin /\ [Next]_vars => LimitWithin'
  <2> SUFFICES ASSUME LimitWithin, [Next]_vars
               PROVE  LimitWithin'
    OBVIOUS
  <2>1. ASSUME NEW n \in MaxChoices, SetMaxNumClients(n) PROVE LimitWithin'
    BY <2>1 DEF SetMaxNumClients, QueueFits, LimitWithin
  <2>2. UNCHANGED maxNumClients \/ \E n \in MaxChoices : SetMaxNumClients(n)
    BY LimitSteps
  <2> QED
    BY <2>1, <2>2 DEF LimitWithin
<1> QED
  BY <1>1, <1>2, PTL DEF Spec

\* The worker is told of every client whose connection is closed: no deletion is lost
\* as long as the queue is as long as the registry may become (property
\* CleanupScheduled).
THEOREM CleanupCorrect ==
    ASSUME Reports = {}, ~MayLowerMax, QueueFits
    PROVE  Spec => []CleanupScheduled
<1>1. Init => CleanupScheduled
  BY DEF Init, CleanupScheduled
<1>2. /\ RegistryInv /\ DepartureInv /\ CleanupScheduled
      /\ Cardinality(Registered) <= DeleteQueueSize /\ [Next]_vars
      => CleanupScheduled'
  BY CleanupInductive
<1>3. RegistryInv /\ CapacityRespected /\ LimitWithin
         => Cardinality(Registered) <= DeleteQueueSize
  <2> SUFFICES ASSUME RegistryInv, CapacityRespected, LimitWithin
               PROVE  Cardinality(Registered) <= DeleteQueueSize
    OBVIOUS
  <2>1. maxNumClients \in Nat /\ Cardinality(Registered) \in Nat /\ DeleteQueueSize \in Nat
    BY RegisteredFinite, NumbersAssumption DEF RegistryInv, TypeOK, BrokerTypeOK, Registered
  <2> QED
    BY <2>1 DEF CapacityRespected, LimitWithin
<1>4. Spec => []CapacityRespected
  BY CapacityCorrect
<1>5. Spec => []DepartureInv
  BY DepartureInvariant
<1>6. Spec => []LimitWithin
  BY LimitFits
<1> QED
  BY <1>1, <1>2, <1>3, <1>4, <1>5, <1>6, RegistryInvariant, PTL DEF Spec

-----------------------------------------------------------------------------
(* Callbacks.  With a deferred close, a client can only be queued for       *)
(* deletion while no callback runs, and a callback only starts for one     *)
(* that is not.                                                            *)

\* The client of the callback that is running.
CallbackInv ==
    /\ netPc \in {"packet", "packetDone"} =>
          mem[netClient] = "live" /\ sock[transportOf[netClient]] \in {"open", "closing"}
    /\ CallbacksSafe

\* A deferred close takes no transport away.
LEMMA DeferredClose ==
    ASSUME ~SyncClose, TypeOK, NEW c \in ClientIds, Disconnect(c), NEW t \in Conns,
           sock[t] \in {"open", "closing"}
    PROVE  sock'[t] \in {"open", "closing"}
BY DEF Disconnect, closeVars, TypeOK, CloseTypeOK

\* A handler keeps its client as it was, except that it may close its connection.
LEMMA HandlerKeeps ==
    ASSUME ~SyncClose, TypeOK, CallbackInv, NEW phase, Handle(phase),
           Disconnect(netClient) \/ UNCHANGED sock
    PROVE  CallbackInv'
<1> USE DEF CallbackInv, CallbacksSafe
<1>1. /\ netPc = "packet" /\ netPc' = "packetDone" /\ netClient \in ClientIds
      /\ UNCHANGED <<netClient, mem, transportOf>> /\ Touch(netClient, "onData")
  BY DEF Handle, TypeOK, NetTypeOK
<1>2. faults' = faults
  BY <1>1 DEF Touch
<1>3. transportOf[netClient] \in Conns
  BY <1>1 DEF TypeOK, ObjectsTypeOK
<1>4. sock'[transportOf[netClient]] \in {"open", "closing"}
  BY <1>1, <1>3, DeferredClose
<1> QED
  BY <1>1, <1>2, <1>4

\* Every step keeps the client of the callback.
LEMMA CallbackInductive ==
    ASSUME ~SyncClose, Reports = {}
    PROVE  RegistryInv /\ DepartureInv /\ CallbackInv /\ [Next]_vars => CallbackInv'
<1> SUFFICES ASSUME RegistryInv, DepartureInv, CallbackInv, [Next]_vars
             PROVE  CallbackInv'
  OBVIOUS
<1> USE DEF CallbackInv, CallbacksSafe, brokerVars, objectVars, netVars, workerVars, appVars,
        closeVars
<1>0. TypeOK /\ netPc # "errorDone"
  BY DEF RegistryInv, DepartureInv, HoldsOfClosed
<1>1. CASE NetworkTask
  <2>1. ASSUME NEW c \in ClientIds, OnData(c) PROVE CallbackInv'
    BY <2>1 DEF OnData
  <2>2. CASE \/ HandleConnect \/ HandleBadHandshake \/ HandleDisconnect \/ HandleOther
             \/ \E tps \in SUBSET Topics : HandlePublish(tps)
             \/ \E tps \in (SUBSET Topics) \ {{}} : HandleSubscribe(tps)
    <3>1. /\ Handle("pending") \/ Handle("connected")
          /\ Disconnect(netClient) \/ UNCHANGED sock
      BY <2>2 DEF HandleConnect, HandleBadHandshake, HandleDisconnect, HandleOther,
         HandlePublish, HandleSubscribe
    <3> QED
      BY <1>0, <3>1, HandlerKeeps
  <2>3. ASSUME NEW more \in BOOLEAN, FinishPacket(more) PROVE CallbackInv'
    <3>1. faults' = faults
      BY <2>3 DEF FinishPacket, Touch
    <3> QED
      BY <2>3, <3>1 DEF FinishPacket
  <2>4. CASE \/ \E t \in Conns : OnClient(t)
             \/ RejectClient \/ PassCapacityCheck \/ LockAccept \/ InsertClient
             \/ \E c \in ClientIds : ReportDisconnect(c) \/ ReportError(c) \/ ReportTimeout(c)
             \/ ReportDisconnectAfterError
    BY <1>0, <2>4 DEF OnClient, RejectClient, PassCapacityCheck, LockAccept, InsertClient,
       ReportDisconnect, ReportError, ReportTimeout, ReportDisconnectAfterError
  <2> HIDE DEF CallbackInv
  <2> QED
    BY <1>1, <2>1, <2>2, <2>3, <2>4, ZenonT(60) DEF NetworkTask
<1>2. CASE WorkerTask
  <2> DEFINE FaultsKept ==
               \A f \in faults' : f \in faults \/ f[1] \in {"publish", "subscribe", "keepAlive"}
  <2>0. ASSUME NEW c, NEW who \in {"publish", "subscribe", "keepAlive"}, Touch(c, who)
        PROVE  FaultsKept
    <3>1. \A f \in faults' : f \in faults \/ f = <<who, c>>
      BY <2>0, TouchAdds
    <3>2. <<who, c>>[1] = who
      OBVIOUS
    <3> QED
      BY <3>1, <3>2
  <2>1. CASE \/ TakePublish \/ LockPublish \/ UnlockPublish \/ ProcessSubscribe \/ EndEvents
             \/ \E c \in ClientIds : PublishToSubscriber(c)
             \/ TakeDeletion \/ LockErase \/ EraseClient \/ EndDeletions
             \/ SkipKeepAlive \/ LockKeepAlive \/ UnlockKeepAlive
    <3>1. UNCHANGED <<netPc, netClient, mem, sock, transportOf>>
      BY <2>1 DEF WorkerLocks, WorkerUnlocks, TakePublish, TakeEvent, LockPublish,
         UnlockPublish, PublishToSubscriber, ProcessSubscribe, EndEvents, TakeDeletion,
         LockErase, EraseClient, EndDeletions, SkipKeepAlive, LockKeepAlive, UnlockKeepAlive
    <3>2. FaultsKept
      <4>1. CASE ProcessSubscribe
        BY <2>0, <4>1 DEF ProcessSubscribe
      <4>2. ASSUME NEW c \in ClientIds, PublishToSubscriber(c) PROVE FaultsKept
        BY <2>0, <4>2 DEF PublishToSubscriber
      <4>3. CASE ~ProcessSubscribe /\ \A c \in ClientIds : ~PublishToSubscriber(c)
        BY <2>1, <4>3 DEF WorkerLocks, WorkerUnlocks, TakePublish, LockPublish,
           UnlockPublish, EndEvents, TakeDeletion, LockErase, EraseClient, EndDeletions,
           SkipKeepAlive, LockKeepAlive, UnlockKeepAlive
      <4> HIDE DEF FaultsKept
      <4> QED
        BY <4>1, <4>2, <4>3
    <3> QED
      BY <3>1, <3>2
  <2>2. CASE DeleteClient
    <3>1. /\ UNCHANGED <<netPc, netClient, transportOf, faults>>
          /\ workerPc = "delete" /\ Doomed(workerClient) /\ workerClient \in ClientIds
          /\ mem' = [mem EXCEPT ![workerClient] = "freed"]
          /\ sock' = [sock EXCEPT ![transportOf[workerClient]] = "free"]
      BY <1>0, <2>2 DEF DeleteClient, Doomed, TypeOK, WorkerTypeOK
    <3>2. sock[transportOf[workerClient]] = "closed"
      BY <3>1 DEF DepartureInv, HoldsOfClosed
    <3>3. netPc \in {"packet", "packetDone"} =>
             netClient # workerClient /\ transportOf[netClient] # transportOf[workerClient]
      BY <3>2
    <3> QED
      BY <1>0, <3>1, <3>3 DEF TypeOK, NetTypeOK, ObjectsTypeOK, CloseTypeOK
  <2>3. ASSUME NEW c \in ClientIds, NEW overdue \in BOOLEAN, CheckKeepAlive(c, overdue)
        PROVE  CallbackInv'
    <3>1. UNCHANGED <<netPc, netClient, mem, transportOf>> /\ FaultsKept
      BY <2>0, <2>3 DEF CheckKeepAlive
    <3>2. ASSUME netPc \in {"packet", "packetDone"}
          PROVE  sock'[transportOf[netClient]] \in {"open", "closing"}
      <4>1. transportOf[netClient] \in Conns
        BY <1>0, <3>2 DEF TypeOK, NetTypeOK, ObjectsTypeOK
      <4>2. CASE overdue
        <5>1. Disconnect(c)
          BY <2>3, <4>2 DEF CheckKeepAlive
        <5> QED
          BY <1>0, <3>2, <4>1, <5>1, DeferredClose
      <4>3. CASE ~overdue
        BY <2>3, <3>2, <4>3 DEF CheckKeepAlive
      <4> QED
        BY <4>2, <4>3
    <3> QED
      BY <3>1, <3>2
  <2> HIDE DEF CallbackInv
  <2> QED
    BY <1>2, <2>1, <2>2, <2>3, ZenonT(60) DEF WorkerTask
<1>3. CASE Application
  <2>1. UNCHANGED <<netPc, netClient, mem, sock, transportOf>>
    BY <1>3 DEF Application, SetMaxNumClients, LockSetOutBox, UnlockSetOutBox, SetOutBoxOf
  <2>2. \A f \in faults' : f \in faults \/ f[1] = "setOutBox"
    <3>1. ASSUME NEW c, Touch(c, "setOutBox")
          PROVE  \A f \in faults' : f \in faults \/ f[1] = "setOutBox"
      <4>1. \A f \in faults' : f \in faults \/ f = <<"setOutBox", c>>
        BY <3>1, TouchAdds
      <4>2. <<"setOutBox", c>>[1] = "setOutBox"
        OBVIOUS
      <4> QED
        BY <4>1, <4>2
    <3>2. faults' = faults \/ \E c \in ClientIds : Touch(c, "setOutBox")
      BY <1>3 DEF Application, SetMaxNumClients, LockSetOutBox, UnlockSetOutBox, SetOutBoxOf
    <3> QED
      BY <3>1, <3>2
  <2> QED
    BY <2>1, <2>2
<1>4. CASE UNCHANGED vars
  BY <1>4 DEF vars
<1> QED
  BY <1>1, <1>2, <1>3, <1>4 DEF Next

\* The client of a callback stays, in every reachable state.
LEMMA CallbackInvariant ==
    ASSUME ~SyncClose, Reports = {} PROVE Spec => []CallbackInv
<1>1. Init => CallbackInv
  BY DEF Init, CallbackInv, CallbacksSafe
<1>2. RegistryInv /\ DepartureInv /\ CallbackInv /\ [Next]_vars => CallbackInv'
  BY CallbackInductive
<1>3. Spec => []DepartureInv
  BY DepartureInvariant
<1> QED
  BY <1>1, <1>2, <1>3, RegistryInvariant, PTL DEF Spec

\* No client is freed under a callback of the network task, when closing is deferred
\* and onDisconnect is the only report (property CallbacksSafe).
THEOREM CallbacksCorrect ==
    ASSUME ~SyncClose, Reports = {} PROVE Spec => []CallbacksSafe
<1>1. Spec => []CallbackInv
  BY CallbackInvariant
<1>2. CallbackInv => CallbacksSafe
  BY DEF CallbackInv
<1> QED
  BY <1>1, <1>2, PTL

-----------------------------------------------------------------------------
(* Use of clients.  Every thread's uses together: the walks under the mutex, *)
(* the callbacks, the publishes to subscribers and the SUBSCRIBE events.   *)

\* Every recorded use of a freed client is one of these.
LEMMA UsesAreNamed ==
    ASSUME RegistryWalksSafe, CallbacksSafe, OnlyLateSubscribersDangle, FaultsTypeOK,
           NEW f \in faults
    PROVE  f[2] \in LateSubscribers
<1>1. PICK who \in {"onData", "onError", "publish", "subscribe", "keepAlive", "setOutBox"},
           c \in ClientIds : f = <<who, c>>
  BY DEF FaultsTypeOK
<1>2. f[1] = who /\ f[2] = c
  BY <1>1
<1>3. who = "publish" \/ who = "subscribe"
  BY <1>2 DEF RegistryWalksSafe, CallbacksSafe
<1>4. CASE who = "publish"
  BY <1>2, <1>4 DEF OnlyLateSubscribersDangle
<1>5. CASE who = "subscribe"
  BY <1>1, <1>2, <1>5 DEF LateSubscribers
<1> QED
  BY <1>3, <1>4, <1>5

\* When closing is deferred and onDisconnect is the only report, a thread dereferences a
\* freed client in one way only: processBrokerEvents takes the client's SUBSCRIBE from
\* the queue after the client has been deleted, or sends a message to a client for which
\* it has done so.  Every freed client that is ever used is such a late subscriber, and
\* as long as there is none, no freed client is used at all (property NoUseAfterFree).
THEOREM UseCorrect ==
    ASSUME ~SyncClose, Reports = {}
    PROVE  Spec => [](/\ \A f \in faults : f[2] \in LateSubscribers
                      /\ LateSubscribers = {} => NoUseAfterFree)
<1>1. /\ RegistryWalksSafe /\ CallbacksSafe /\ OnlyLateSubscribersDangle /\ TypeOK
      => /\ \A f \in faults : f[2] \in LateSubscribers
         /\ LateSubscribers = {} => NoUseAfterFree
  <2> SUFFICES ASSUME RegistryWalksSafe, CallbacksSafe, OnlyLateSubscribersDangle, TypeOK
               PROVE  /\ \A f \in faults : f[2] \in LateSubscribers
                      /\ LateSubscribers = {} => NoUseAfterFree
    OBVIOUS
  <2>1. \A f \in faults : f[2] \in LateSubscribers
    BY UsesAreNamed DEF TypeOK
  <2> QED
    BY <2>1 DEF NoUseAfterFree
<1>2. Spec => []CallbacksSafe
  BY CallbacksCorrect
<1> QED
  BY <1>1, <1>2, WalksCorrect, DanglingCorrect, TypeCorrect, PTL

-----------------------------------------------------------------------------
(* The lifecycle of ClientLifecycle.                                       *)

\* The application sets no limit above the one the broker starts with.
LimitIsCapacity == \A n \in MaxChoices : n <= MAXNUMCLIENTS

\* The limit in force is at most the capacity.
WithinCapacity == maxNumClients <= MAXNUMCLIENTS

\* The clients being served are in the registry.
LEMMA ServedAreRegistered ==
    ASSUME RegistryInv, DepartureInv
    PROVE  Lifecycle!Serving \subseteq Registered
<1> SUFFICES ASSUME NEW c \in ClientIds, mem[c] = "live", c \notin departed
             PROVE  c \in Registered
  BY DEF Lifecycle!Serving, ClientPhase, RegistryInv, TypeOK, ObjectsTypeOK
<1>1. transportOf[c] \in Conns /\ (Doomed(c) \/ clients[transportOf[c]] = c)
  BY AtItsAddress
<1>2. ~Doomed(c)
  BY DEF DepartureInv, DepartedClosed, HoldsOfClosed
<1> QED
  BY <1>1, <1>2 DEF Registered, ClientIds, NoClient

\* acceptClient inserts a client: the next number is admitted, and there is room for it.
LEMMA InsertAdmits ==
    ASSUME RegistryInv, DepartureInv, CapacityInv, WithinCapacity, InsertClient
    PROVE  \E c \in ClientIds : Lifecycle!Admit(c)
<1> DEFINE c == numClient + 1
<1>1. /\ mem \in [ClientIds -> {"none", "live", "freed"}] /\ numClient \in Nat
      /\ c \in ClientIds /\ mem[c] = "none" /\ c \notin departed
      /\ \A d \in ClientIds : mem[d] = "none" => c <= d
  <2>1. numClient < MaxClientId /\ numClient \in 0..MaxClientId
    BY DEF InsertClient, RegistryInv, TypeOK, NetTypeOK, BrokerTypeOK
  <2>2. c \in ClientIds
    BY <2>1, NumbersAssumption DEF ClientIds
  <2>3. \A d \in ClientIds : mem[d] = "none" <=> d > numClient
    BY DEF RegistryInv, Numbering
  <2> QED
    BY <2>1, <2>2, <2>3 DEF RegistryInv, TypeOK, ObjectsTypeOK, DepartureInv, DepartedClosed,
       ClientIds
<1>2. mem' = [mem EXCEPT ![c] = "live"] /\ UNCHANGED departed
  BY DEF InsertClient, closeVars
<1>3. Lifecycle!Cardinality(Lifecycle!Serving) < MAXNUMCLIENTS
  <2>1. IsFiniteSet(Registered) /\ Cardinality(Registered) \in Nat
    BY RegisteredFinite DEF RegistryInv, TypeOK, BrokerTypeOK, Registered
  <2>2. /\ Cardinality(Lifecycle!Serving) <= Cardinality(Registered)
        /\ Cardinality(Lifecycle!Serving) \in Nat
    BY <2>1, ServedAreRegistered, FS_Subset, FS_CardinalityType
  <2>3. Cardinality(Registered) < maxNumClients /\ maxNumClients \in Nat
    BY DEF InsertClient, CapacityInv, RegistryInv, TypeOK, BrokerTypeOK
  <2>4. Lifecycle!Cardinality(Lifecycle!Serving) = Cardinality(Lifecycle!Serving)
    BY DEF Lifecycle!Cardinality, Cardinality
  <2> QED
    BY <2>1, <2>2, <2>3, <2>4, NumbersAssumption DEF WithinCapacity
<1>4. ClientPhase[c] = "absent" /\ \A d \in ClientIds : ClientPhase[d] = "absent" => c <= d
  BY <1>1 DEF ClientPhase
<1>5. ClientPhase' = [ClientPhase EXCEPT ![c] = "serving"]
  BY <1>1, <1>2 DEF ClientPhase
<1> HIDE DEF c
<1>6. Lifecycle!Admit(c)
  BY <1>3, <1>4, <1>5 DEF Lifecycle!Admit
<1> QED
  BY <1>1, <1>6

\* The end of a served client's connection is its departure; that of a departed one, of
\* which the broker asked for it, is nothing new.
LEMMA EndDeparts ==
    ASSUME NEW c \in ClientIds, mem[c] = "live", departed' = departed \cup {c}, UNCHANGED mem
    PROVE  Lifecycle!Depart(c) \/ UNCHANGED ClientPhase
<1>1. CASE c \in departed
  BY <1>1 DEF ClientPhase
<1>2. CASE c \notin departed
  <2>1. ClientPhase[c] = "serving" /\ ClientPhase' = [ClientPhase EXCEPT ![c] = "departed"]
    BY <1>2 DEF ClientPhase
  <2> QED
    BY <2>1 DEF Lifecycle!Depart
<1> QED
  BY <1>1, <1>2

\* Only a departed client is destroyed.
LEMMA DeleteDestroys ==
    ASSUME RegistryInv, DepartureInv, DeleteClient
    PROVE  \E c \in ClientIds : Lifecycle!Destroy(c)
<1> DEFINE c == workerClient
<1>1. /\ c \in ClientIds /\ mem[c] = "live" /\ Doomed(c)
      /\ mem' = [mem EXCEPT ![c] = "freed"] /\ UNCHANGED departed
      /\ mem \in [ClientIds -> {"none", "live", "freed"}]
  BY DEF DeleteClient, Doomed, RegistryInv, TypeOK, WorkerTypeOK, ObjectsTypeOK, DeletionInHand
<1>2. c \in departed
  BY <1>1 DEF DepartureInv, DepartedClosed, HoldsOfClosed
<1>3. ClientPhase[c] = "departed" /\ ClientPhase' = [ClientPhase EXCEPT ![c] = "destroyed"]
  BY <1>1, <1>2 DEF ClientPhase
<1> QED
  BY <1>1, <1>3 DEF Lifecycle!Destroy

\* Every step of the broker is a step of the lifecycle or leaves it alone.
LEMMA LifecycleStep ==
    ASSUME Reports = {}
    PROVE  /\ RegistryInv /\ DepartureInv /\ CapacityInv /\ WithinCapacity /\ [Next]_vars
           => [Lifecycle!Next]_ClientPhase
<1> SUFFICES ASSUME RegistryInv, DepartureInv, CapacityInv, WithinCapacity, [Next]_vars
             PROVE  Lifecycle!Next \/ UNCHANGED ClientPhase
  OBVIOUS
<1>1. CASE \/ \E t \in Conns : OnClient(t)
           \/ RejectClient \/ TakeDeletion \/ EraseClient \/ Apart
  <2>1. UNCHANGED <<mem, departed>>
    BY <1>1 DEF OnClient, RejectClient, TakeDeletion, EraseClient, Apart, objectVars, closeVars
  <2> QED
    BY <2>1 DEF ClientPhase
<1>2. CASE InsertClient
  BY <1>2, InsertAdmits DEF Lifecycle!Next
<1>3. ASSUME NEW c \in ClientIds, ReportDisconnect(c) \/ Close(c)
      PROVE  Lifecycle!Next \/ UNCHANGED ClientPhase
  <2>1. mem[c] = "live" /\ departed' = departed \cup {c} /\ UNCHANGED mem
    BY <1>3 DEF ReportDisconnect, Close, Disconnect, objectVars
  <2> QED
    BY <2>1, EndDeparts DEF Lifecycle!Next
<1>4. CASE DeleteClient
  BY <1>4, DeleteDestroys DEF Lifecycle!Next
<1>5. TypeOK /\ netPc # "errorDone"
  BY DEF RegistryInv, DepartureInv, HoldsOfClosed
<1> QED
  BY <1>1, <1>2, <1>3, <1>4, <1>5, LifeSteps

\* The limit stays within the capacity.
LEMMA WithinCapacityInvariant == ASSUME LimitIsCapacity PROVE Spec => []WithinCapacity
<1>1. Init => WithinCapacity
  BY NumbersAssumption DEF Init, WithinCapacity
<1>2. WithinCapacity /\ [Next]_vars => WithinCapacity'
  <2> SUFFICES ASSUME WithinCapacity, [Next]_vars PROVE WithinCapacity'
    OBVIOUS
  <2>1. ASSUME NEW n \in MaxChoices, SetMaxNumClients(n) PROVE WithinCapacity'
    BY <2>1 DEF SetMaxNumClients, LimitIsCapacity, WithinCapacity
  <2> QED
    BY <2>1, LimitSteps DEF WithinCapacity
<1> QED
  BY <1>1, <1>2, PTL DEF Spec

\* The broker implements the lifecycle, whatever its threads do: clients are admitted in
\* the order of their numbers and within capacity, depart once, and only a departed one
\* is destroyed (property ImplementsLifecycle).
THEOREM LifecycleImplemented ==
    ASSUME Reports = {}, ~MayLowerMax, LimitIsCapacity
    PROVE  Spec => ImplementsLifecycle
<1>1. Init => Lifecycle!Init
  BY DEF Init, Lifecycle!Init, ClientPhase
<1>2. /\ RegistryInv /\ DepartureInv /\ CapacityInv /\ WithinCapacity /\ [Next]_vars
      => [Lifecycle!Next]_ClientPhase
  BY LifecycleStep
<1>3. Spec => []DepartureInv
  BY DepartureInvariant
<1>4. Spec => []CapacityInv
  BY CapacityInvariant
<1>5. Spec => []WithinCapacity
  BY WithinCapacityInvariant
<1> QED
  BY <1>1, <1>2, <1>3, <1>4, <1>5, RegistryInvariant, PTL
  DEF Spec, ImplementsLifecycle, Lifecycle!Spec
=============================================================================
