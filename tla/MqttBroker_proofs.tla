------------------------- MODULE MqttBroker_proofs -------------------------
(***************************************************************************)
(* Theorems about MqttBroker, for every value of its constants.            *)
(***************************************************************************)
EXTENDS MqttBroker, FiniteSetTheorems, TLAPS

-----------------------------------------------------------------------------
(* Type correctness.                                                       *)

\* A send to a FreeRTOS queue keeps the type of the queue.
LEMMA TrySendType ==
    ASSUME NEW S, NEW q \in Seq(S), NEW e \in S, NEW n
    PROVE  TrySend(q, n, e) \in Seq(S)
BY DEF TrySend

\* Closing a client's transport keeps the types of what it changes.
LEMMA DisconnectType ==
    ASSUME ObjectsTypeOK, CloseTypeOK, NEW c \in ClientIds, Disconnect(c)
    PROVE  CloseTypeOK'
<1>1. CASE mem[c] = "live" /\ sock[transportOf[c]] = "open"
  <2>1. transportOf[c] \in Conns
    BY <1>1 DEF ObjectsTypeOK
  <2>2. deleteMqttClientQueue' \in Seq(Conns)
    BY <1>1, <2>1, TrySendType DEF CloseTypeOK, Disconnect, QueueClientForDeletion
  <2> QED
    BY <1>1, <2>1, <2>2 DEF CloseTypeOK, Disconnect
<1>2. CASE ~(mem[c] = "live" /\ sock[transportOf[c]] = "open")
  BY <1>2 DEF CloseTypeOK, Disconnect, closeVars
<1> QED
  BY <1>1, <1>2

\* Recording the use of a client keeps the type of the record.
LEMMA TouchType ==
    ASSUME NEW Users, faults \subseteq Users \X ClientIds,
           NEW c \in ClientIds, NEW who \in Users, Touch(c, who)
    PROVE  faults' \subseteq Users \X ClientIds
BY DEF Touch

\* A use that is recorded now and was not before is the one just made, of a client
\* that has been freed.
LEMMA TouchAdds ==
    ASSUME NEW c, NEW who, Touch(c, who)
    PROVE  /\ faults \subseteq faults'
           /\ \A f \in faults' : f \in faults \/ (f = <<who, c>> /\ mem[c] = "freed")
           /\ mem[c] = "freed" => <<who, c>> \in faults'
<1>1. CASE mem[c] = "freed"
  <2>1. faults' = faults \cup {<<who, c>>}
    BY <1>1 DEF Touch
  <2> QED
    BY <1>1, <2>1, Zenon
<1>2. CASE mem[c] # "freed"
  <2>1. faults' = faults
    BY <1>2, Zenon DEF Touch
  <2> QED
    BY <1>2, <2>1
<1> QED
  BY <1>1, <1>2

\* Every step of the broker keeps the types.
LEMMA TypeInductive == TypeOK /\ [Next]_vars => TypeOK'
<1> SUFFICES ASSUME TypeOK, [Next]_vars PROVE TypeOK'
  OBVIOUS
<1> USE NumbersAssumption
    DEF TypeOK, BrokerTypeOK, ObjectsTypeOK, CloseTypeOK, NetTypeOK, WorkerTypeOK,
        AppTypeOK, FaultsTypeOK, brokerVars, objectVars, netVars, workerVars, appVars, closeVars,
        ClientIds, NoClient
<1>1. ASSUME NetworkTask PROVE TypeOK'
  <2>1. ASSUME NEW t \in Conns, OnClient(t) PROVE TypeOK'
    BY <2>1 DEF OnClient
  <2>2. CASE RejectClient
    BY <2>2 DEF RejectClient
  <2>3. CASE PassCapacityCheck
    BY <2>3 DEF PassCapacityCheck
  <2>4. CASE LockAccept
    BY <2>4 DEF LockAccept
  <2>5. CASE InsertClient
    BY <2>5 DEF InsertClient
  <2>6. ASSUME NEW c \in ClientIds, OnData(c) PROVE TypeOK'
    BY <2>6 DEF OnData
  <2>7. CASE HandleConnect
    BY <2>7 DEF HandleConnect, Handle, Touch
  <2>8. CASE HandleBadHandshake
    <3>1. netClient \in ClientIds /\ Disconnect(netClient)
      BY <2>8 DEF HandleBadHandshake, Handle
    <3>2. CloseTypeOK'
      BY <3>1, DisconnectType
    <3> HIDE DEF CloseTypeOK
    <3> QED
      BY <2>8, <3>2 DEF HandleBadHandshake, Handle, Touch
  <2>9. CASE HandleDisconnect
    <3>1. netClient \in ClientIds /\ Disconnect(netClient)
      BY <2>9 DEF HandleDisconnect, Handle
    <3>2. CloseTypeOK'
      BY <3>1, DisconnectType
    <3> HIDE DEF CloseTypeOK
    <3> QED
      BY <2>9, <3>2 DEF HandleDisconnect, Handle, Touch
  <2>10. CASE HandleOther
    BY <2>10 DEF HandleOther, Handle, Touch
  <2>11. ASSUME NEW tps \in SUBSET Topics, HandlePublish(tps) PROVE TypeOK'
    <3>1. [type |-> "publish", client |-> NoClient, topics |-> tps] \in BrokerEvent
      BY <2>11 DEF BrokerEvent, PublishEvents
    <3>2. brokerEventQueue' \in Seq(BrokerEvent)
      BY <2>11, <3>1, TrySendType DEF HandlePublish
    <3> QED
      BY <2>11, <3>2 DEF HandlePublish, Handle, Touch
  <2>12. ASSUME NEW tps \in (SUBSET Topics) \ {{}}, HandleSubscribe(tps) PROVE TypeOK'
    <3>1. netClient \in ClientIds
      BY <2>12 DEF HandleSubscribe, Handle
    <3>2. [type |-> "subscribe", client |-> netClient, topics |-> tps] \in BrokerEvent
      BY <3>1 DEF BrokerEvent, SubscribeEvents
    <3>3. brokerEventQueue' \in Seq(BrokerEvent)
      BY <2>12, <3>2, TrySendType DEF HandleSubscribe
    <3> QED
      BY <2>12, <3>3 DEF HandleSubscribe, Handle, Touch
  <2>13. ASSUME NEW more \in BOOLEAN, FinishPacket(more) PROVE TypeOK'
    <3>1. netClient \in ClientIds /\ Touch(netClient, "onData")
      BY <2>13 DEF FinishPacket
    <3>2. FaultsTypeOK'
      BY <3>1, TouchType
    <3> HIDE DEF FaultsTypeOK
    <3> QED
      BY <2>13, <3>2 DEF FinishPacket
  <2>14. ASSUME NEW c \in ClientIds, ReportDisconnect(c) PROVE TypeOK'
    BY TrySendType, <2>14 DEF ReportDisconnect, QueueClientForDeletion
  <2>15. ASSUME NEW c \in ClientIds, ReportError(c) PROVE TypeOK'
    BY TrySendType, <2>15 DEF ReportError, QueueClientForDeletion
  <2>16. ASSUME NEW c \in ClientIds, ReportTimeout(c) PROVE TypeOK'
    BY TrySendType, <2>16 DEF ReportTimeout, QueueClientForDeletion
  <2>17. CASE ReportDisconnectAfterError
    BY TrySendType, <2>17 DEF ReportDisconnectAfterError, Touch, QueueClientForDeletion
  <2> HIDE DEF TypeOK, ClientIds
  <2> QED
    BY <1>1, <2>1, <2>2, <2>3, <2>4, <2>5, <2>6, <2>7, <2>8, <2>9, <2>10, <2>11, <2>12, <2>13, <2>14, <2>15, <2>16, <2>17, ZenonT(60) DEF NetworkTask
<1>2. ASSUME WorkerTask PROVE TypeOK'
  <2>1. CASE TakePublish
    <3>1. FaultsTypeOK'
      BY <2>1 DEF TakePublish
    <3> HIDE DEF FaultsTypeOK
    <3> QED
      BY <2>1, <3>1
      DEF TakePublish, TakeEvent, HeadEvent, BrokerEvent, PublishEvents, SubscribeEvents
  <2>2. CASE LockPublish
    BY <2>2 DEF LockPublish, WorkerLocks
  <2>3. CASE UnlockPublish
    BY <2>3 DEF UnlockPublish, WorkerUnlocks
  <2>4. CASE ProcessSubscribe
    BY <2>4 DEF ProcessSubscribe, TakeEvent, HeadEvent, Touch, BrokerEvent, PublishEvents, SubscribeEvents
  <2>5. CASE EndEvents
    BY <2>5 DEF EndEvents
  <2>6. ASSUME NEW c \in ClientIds, PublishToSubscriber(c) PROVE TypeOK'
    BY <2>6 DEF PublishToSubscriber, Touch
  <2>7. CASE TakeDeletion
    BY <2>7 DEF TakeDeletion
  <2>8. CASE LockErase
    BY <2>8 DEF LockErase, WorkerLocks
  <2>9. CASE EraseClient
    BY <2>9 DEF EraseClient
  <2>10. CASE DeleteClient
    <3> DEFINE t == transportOf[workerClient]
    <3>1. deleteMqttClientQueue' \in Seq(Conns)
      <4>0. t \in Conns
        BY <2>10 DEF DeleteClient
      <4>1. CASE SyncClose /\ sock[t] = "open"
        BY <2>10, <4>0, <4>1, TrySendType DEF DeleteClient, QueueClientForDeletion
      <4>2. CASE ~(SyncClose /\ sock[t] = "open")
        BY <2>10, <4>2 DEF DeleteClient
      <4> QED
        BY <4>1, <4>2
    <3> QED
      BY <2>10, <3>1 DEF DeleteClient
  <2>11. CASE EndDeletions
    BY <2>11 DEF EndDeletions
  <2>12. CASE SkipKeepAlive
    BY <2>12 DEF SkipKeepAlive
  <2>13. CASE LockKeepAlive
    BY <2>13 DEF LockKeepAlive, WorkerLocks, Registered
  <2>14. CASE UnlockKeepAlive
    BY <2>14 DEF UnlockKeepAlive, WorkerUnlocks
  <2>15. ASSUME NEW c \in ClientIds, NEW overdue \in BOOLEAN, CheckKeepAlive(c, overdue) PROVE TypeOK'
    <3>1. CloseTypeOK'
      <4>1. CASE overdue
        BY <2>15, <4>1, DisconnectType DEF CheckKeepAlive
      <4>2. CASE ~overdue
        BY <2>15, <4>2 DEF CheckKeepAlive
      <4> QED
        BY <4>1, <4>2
    <3> HIDE DEF CloseTypeOK
    <3> QED
      BY <2>15, <3>1 DEF CheckKeepAlive, Touch
  <2> HIDE DEF TypeOK, ClientIds
  <2> QED
    BY <1>2, <2>1, <2>2, <2>3, <2>4, <2>5, <2>6, <2>7, <2>8, <2>9, <2>10, <2>11, <2>12, <2>13, <2>14, <2>15, ZenonT(60) DEF WorkerTask
<1>3. ASSUME Application PROVE TypeOK'
  <2>1. ASSUME NEW n \in MaxChoices, SetMaxNumClients(n) PROVE TypeOK'
    BY <2>1 DEF SetMaxNumClients
  <2>2. CASE LockSetOutBox
    BY <2>2 DEF LockSetOutBox, Registered
  <2>3. CASE UnlockSetOutBox
    BY <2>3 DEF UnlockSetOutBox
  <2>4. ASSUME NEW c \in ClientIds, SetOutBoxOf(c) PROVE TypeOK'
    BY <2>4 DEF SetOutBoxOf, Touch
  <2> HIDE DEF TypeOK, ClientIds
  <2> QED
    BY <1>3, <2>1, <2>2, <2>3, <2>4, ZenonT(60) DEF Application
<1>4. CASE UNCHANGED vars
  BY <1>4 DEF vars
<1> QED
  BY <1>1, <1>2, <1>3, <1>4 DEF Next

\* Every variable keeps its type (property TypeOK).
THEOREM TypeCorrect == Spec => []TypeOK
<1>1. Init => TypeOK
  BY NumbersAssumption
  DEF Init, TypeOK, BrokerTypeOK, ObjectsTypeOK, CloseTypeOK, NetTypeOK, WorkerTypeOK,
      AppTypeOK, FaultsTypeOK, ClientIds, NoClient
<1> QED
  BY <1>1, TypeInductive, PTL DEF Spec

-----------------------------------------------------------------------------
(* The registry.  RegistryConsistent is not inductive: that an address is    *)
(* not handed out twice, who holds the mutex and what the worker has in hand *)
(* must be carried along.                                                  *)

\* Clients are numbered in the order of their acceptance.
Numbering == \A c \in ClientIds : mem[c] = "none" <=> c > numClient

\* A thread holds the mutex exactly while it is in a critical section.
MutexHeld ==
    /\ netPc = "insert" <=> clientSetMutex = "net"
    /\ workerPc \in {"publish", "erase", "keepAlive"} <=> clientSetMutex = "worker"
    /\ appPc = "setOutBox" <=> clientSetMutex = "app"

\* A live client has its address to itself, and so has a connection being accepted.
AddressesHeld ==
    /\ \A c \in ClientIds : mem[c] = "live" => sock[transportOf[c]] # "free"
    /\ \A c, d \in ClientIds :
          mem[c] = "live" /\ mem[d] = "live" /\ transportOf[c] = transportOf[d] => c = d
    /\ netPc \in {"accept", "lock", "insert"} =>
          /\ sock[netConn] # "free"
          /\ \A c \in ClientIds : mem[c] = "live" => transportOf[c] # netConn

\* The client the worker is about to delete is live and out of the map.
DeletionInHand ==
    workerPc = "delete" => mem[workerClient] = "live" /\ \A t \in Conns : clients[t] # workerClient

\* A walk under the mutex has only clients of the map before it.
WalksInside ==
    /\ workerPc = "keepAlive" => \A c \in workerTodo : \E t \in Conns : clients[t] = c
    /\ appPc = "setOutBox" => \A c \in appTodo : \E t \in Conns : clients[t] = c

RegistryInv ==
    /\ TypeOK /\ Numbering /\ MutexHeld /\ AddressesHeld /\ DeletionInHand /\ WalksInside
    /\ RegistryConsistent /\ RegistryWalksSafe

\* Closing a client's transport never releases an address.
LEMMA DisconnectKeeps ==
    ASSUME ObjectsTypeOK, CloseTypeOK, NEW c \in ClientIds, Disconnect(c)
    PROVE  \A t \in Conns : sock'[t] = "free" <=> sock[t] = "free"
BY DEF ObjectsTypeOK, CloseTypeOK, Disconnect, closeVars

\* Every step of the broker keeps the registry's invariant.
LEMMA RegistryInductive == RegistryInv /\ [Next]_vars => RegistryInv'
<1> SUFFICES ASSUME RegistryInv, [Next]_vars PROVE RegistryInv'
  OBVIOUS
<1> USE NumbersAssumption, ConnsAssumption
    DEF RegistryInv, Numbering, MutexHeld, AddressesHeld, DeletionInHand, WalksInside,
        RegistryConsistent, RegistryWalksSafe,
        TypeOK, BrokerTypeOK, ObjectsTypeOK, CloseTypeOK, NetTypeOK, WorkerTypeOK,
        AppTypeOK, brokerVars, objectVars, netVars, workerVars, appVars, closeVars,
        ClientIds, NoClient
<1>0. TypeOK'
  BY TypeInductive DEF RegistryInv
<1> HIDE DEF TypeOK
<1>1. ASSUME NetworkTask PROVE RegistryInv'
  <2>1. ASSUME NEW t \in Conns, OnClient(t) PROVE RegistryInv'
    BY <1>0, <2>1 DEF OnClient, TypeOK
  <2>2. CASE RejectClient
    <3>1. Numbering'
      BY <1>0, <2>2 DEF RejectClient, TypeOK
    <3>2. MutexHeld'
      BY <1>0, <2>2 DEF RejectClient, TypeOK
    <3>3. AddressesHeld'
      BY <1>0, <2>2 DEF RejectClient, TypeOK
    <3>4. DeletionInHand'
      BY <1>0, <2>2 DEF RejectClient, TypeOK
    <3>5. WalksInside'
      BY <1>0, <2>2 DEF RejectClient, TypeOK
    <3>6. RegistryConsistent'
      BY <1>0, <2>2 DEF RejectClient, TypeOK
    <3>7. RegistryWalksSafe'
      BY <2>2 DEF RejectClient
    <3> QED
      BY <1>0, <3>1, <3>2, <3>3, <3>4, <3>5, <3>6, <3>7
  <2>3. CASE PassCapacityCheck
    BY <1>0, <2>3 DEF PassCapacityCheck, TypeOK
  <2>4. CASE LockAccept
    BY <1>0, <2>4 DEF LockAccept, TypeOK
  <2>5. CASE InsertClient
    <3>1. Numbering'
      BY <1>0, <2>5 DEF InsertClient, TypeOK
    <3>2. MutexHeld'
      BY <1>0, <2>5 DEF InsertClient, TypeOK
    <3>3. AddressesHeld'
      BY <1>0, <2>5 DEF InsertClient, TypeOK
    <3>4. DeletionInHand'
      BY <1>0, <2>5 DEF InsertClient, TypeOK
    <3>5. WalksInside'
      BY <1>0, <2>5 DEF InsertClient, TypeOK
    <3>6. RegistryConsistent'
      BY <1>0, <2>5 DEF InsertClient, TypeOK
    <3>7. RegistryWalksSafe'
      BY <2>5 DEF InsertClient
    <3> QED
      BY <1>0, <3>1, <3>2, <3>3, <3>4, <3>5, <3>6, <3>7
  <2>6. ASSUME NEW c \in ClientIds, OnData(c) PROVE RegistryInv'
    BY <1>0, <2>6 DEF OnData, TypeOK
  <2>7. CASE HandleConnect
    BY <1>0, <2>7 DEF HandleConnect, Handle, Touch, TypeOK
  <2>8. CASE HandleBadHandshake
    <3>1. netClient \in ClientIds /\ Disconnect(netClient)
      BY <2>8 DEF HandleBadHandshake, Handle, TypeOK
    <3>2. \A t \in Conns : sock'[t] = "free" <=> sock[t] = "free"
      BY <3>1, DisconnectKeeps DEF TypeOK
    <3> QED
      BY <1>0, <2>8, <3>2 DEF HandleBadHandshake, Handle, Touch, TypeOK
  <2>9. CASE HandleDisconnect
    <3>1. netClient \in ClientIds /\ Disconnect(netClient)
      BY <2>9 DEF HandleDisconnect, Handle, TypeOK
    <3>2. \A t \in Conns : sock'[t] = "free" <=> sock[t] = "free"
      BY <3>1, DisconnectKeeps DEF TypeOK
    <3> QED
      BY <1>0, <2>9, <3>2 DEF HandleDisconnect, Handle, Touch, TypeOK
  <2>10. CASE HandleOther
    BY <1>0, <2>10 DEF HandleOther, Handle, Touch, TypeOK
  <2>11. ASSUME NEW tps \in SUBSET Topics, HandlePublish(tps) PROVE RegistryInv'
    BY <1>0, <2>11 DEF HandlePublish, Handle, Touch, TypeOK
  <2>12. ASSUME NEW tps \in (SUBSET Topics) \ {{}}, HandleSubscribe(tps) PROVE RegistryInv'
    BY <1>0, <2>12 DEF HandleSubscribe, Handle, Touch, TypeOK
  <2>13. ASSUME NEW more \in BOOLEAN, FinishPacket(more) PROVE RegistryInv'
    <3>1. \A f \in faults' : f \in faults \/ f[1] = "onData"
      <4>1. Touch(netClient, "onData")
        BY <2>13 DEF FinishPacket
      <4>2. \A f \in faults' : f \in faults \/ f = <<"onData", netClient>>
        BY <4>1, TouchAdds
      <4>3. <<"onData", netClient>>[1] = "onData"
        OBVIOUS
      <4> QED
        BY <4>2, <4>3
    <3>2. RegistryWalksSafe'
      BY <3>1
    <3>3. /\ netPc = "packetDone" /\ netPc' \in {"packet", "idle"} /\ netConn' = netConn
          /\ UNCHANGED <<brokerVars, objectVars, workerVars, appVars, closeVars>>
      BY <2>13 DEF FinishPacket
    <3> HIDE DEF RegistryWalksSafe
    <3> QED
      BY <1>0, <3>2, <3>3 DEF TypeOK
  <2>14. ASSUME NEW c \in ClientIds, ReportDisconnect(c) PROVE RegistryInv'
    BY <1>0, <2>14 DEF ReportDisconnect, TypeOK
  <2>15. ASSUME NEW c \in ClientIds, ReportError(c) PROVE RegistryInv'
    <3>1. transportOf[c] \in Conns /\ sock' = [sock EXCEPT ![transportOf[c]] = "closed"]
      BY <2>15 DEF ReportError, TypeOK
    <3>2. \A t \in Conns : sock'[t] = "free" <=> sock[t] = "free"
      BY <2>15, <3>1 DEF ReportError, TypeOK
    <3>3. /\ netPc = "idle" /\ netPc' = "errorDone"
          /\ UNCHANGED <<brokerVars, objectVars, workerVars, appVars, faults>>
      BY <2>15 DEF ReportError
    <3> QED
      BY <1>0, <3>2, <3>3 DEF TypeOK
  <2>16. ASSUME NEW c \in ClientIds, ReportTimeout(c) PROVE RegistryInv'
    BY <1>0, <2>16 DEF ReportTimeout, TypeOK
  <2>17. CASE ReportDisconnectAfterError
    BY <1>0, <2>17 DEF ReportDisconnectAfterError, Touch, TypeOK
  <2> HIDE DEF RegistryInv, ClientIds
  <2> QED
    BY <1>1, <2>1, <2>2, <2>3, <2>4, <2>5, <2>6, <2>7, <2>8, <2>9, <2>10, <2>11, <2>12, <2>13, <2>14, <2>15, <2>16, <2>17, ZenonT(60) DEF NetworkTask
<1>2. ASSUME WorkerTask PROVE RegistryInv'
  <2>1. CASE TakePublish
    BY <1>0, <2>1 DEF TakePublish, TakeEvent, HeadEvent, TypeOK
  <2>2. CASE LockPublish
    BY <1>0, <2>2 DEF LockPublish, WorkerLocks, TypeOK
  <2>3. CASE UnlockPublish
    BY <1>0, <2>3 DEF UnlockPublish, WorkerUnlocks, TypeOK
  <2>4. CASE ProcessSubscribe
    BY <1>0, <2>4 DEF ProcessSubscribe, TakeEvent, HeadEvent, Touch, TypeOK
  <2>5. CASE EndEvents
    BY <1>0, <2>5 DEF EndEvents, TypeOK
  <2>6. ASSUME NEW c \in ClientIds, PublishToSubscriber(c) PROVE RegistryInv'
    BY <1>0, <2>6 DEF PublishToSubscriber, Touch, TypeOK
  <2>7. CASE TakeDeletion
    BY <1>0, <2>7 DEF TakeDeletion, TypeOK
  <2>8. CASE LockErase
    BY <1>0, <2>8 DEF LockErase, WorkerLocks, TypeOK
  <2>9. CASE EraseClient
    <3>1. Numbering'
      BY <1>0, <2>9 DEF EraseClient, TypeOK
    <3>2. MutexHeld'
      BY <1>0, <2>9 DEF EraseClient, TypeOK
    <3>3. AddressesHeld'
      BY <1>0, <2>9 DEF EraseClient, TypeOK
    <3>4. DeletionInHand'
      BY <1>0, <2>9 DEF EraseClient, TypeOK
    <3>5. WalksInside'
      BY <1>0, <2>9 DEF EraseClient, TypeOK
    <3>6. RegistryConsistent'
      BY <1>0, <2>9 DEF EraseClient, TypeOK
    <3>7. RegistryWalksSafe'
      BY <2>9 DEF EraseClient
    <3> QED
      BY <1>0, <3>1, <3>2, <3>3, <3>4, <3>5, <3>6, <3>7
  <2>10. CASE DeleteClient
    <3>1. Numbering'
      BY <1>0, <2>10 DEF DeleteClient, TypeOK
    <3>2. MutexHeld'
      BY <1>0, <2>10 DEF DeleteClient, TypeOK
    <3>3. AddressesHeld'
      BY <1>0, <2>10 DEF DeleteClient, TypeOK
    <3>4. DeletionInHand'
      BY <1>0, <2>10 DEF DeleteClient, TypeOK
    <3>5. WalksInside'
      BY <1>0, <2>10 DEF DeleteClient, TypeOK
    <3>6. RegistryConsistent'
      BY <1>0, <2>10 DEF DeleteClient, TypeOK
    <3>7. RegistryWalksSafe'
      BY <2>10 DEF DeleteClient
    <3> QED
      BY <1>0, <3>1, <3>2, <3>3, <3>4, <3>5, <3>6, <3>7
  <2>11. CASE EndDeletions
    BY <1>0, <2>11 DEF EndDeletions, TypeOK
  <2>12. CASE SkipKeepAlive
    BY <1>0, <2>12 DEF SkipKeepAlive, TypeOK
  <2>13. CASE LockKeepAlive
    BY <1>0, <2>13 DEF LockKeepAlive, WorkerLocks, Registered, TypeOK
  <2>14. CASE UnlockKeepAlive
    BY <1>0, <2>14 DEF UnlockKeepAlive, WorkerUnlocks, TypeOK
  <2>15. ASSUME NEW c \in ClientIds, NEW overdue \in BOOLEAN, CheckKeepAlive(c, overdue) PROVE RegistryInv'
    <3>0. /\ workerPc = "keepAlive" /\ c \in workerTodo /\ workerTodo' = workerTodo \ {c}
          /\ UNCHANGED <<workerPc, workerKey, workerClient, batch, brokerVars, objectVars,
                         netVars, appVars>>
      BY <2>15 DEF CheckKeepAlive
    <3>1. mem[c] = "live"
      BY <3>0
    <3>2. faults' = faults
      BY <2>15, <3>1 DEF CheckKeepAlive, Touch
    <3>3. \A t \in Conns : sock'[t] = "free" <=> sock[t] = "free"
      <4>1. CASE overdue
        BY <2>15, <4>1, DisconnectKeeps DEF CheckKeepAlive, TypeOK
      <4>2. CASE ~overdue
        BY <2>15, <4>2 DEF CheckKeepAlive
      <4> QED
        BY <4>1, <4>2
    <3> QED
      BY <1>0, <3>0, <3>2, <3>3 DEF TypeOK
  <2> HIDE DEF RegistryInv, ClientIds
  <2> QED
    BY <1>2, <2>1, <2>2, <2>3, <2>4, <2>5, <2>6, <2>7, <2>8, <2>9, <2>10, <2>11, <2>12, <2>13, <2>14, <2>15, ZenonT(60) DEF WorkerTask
<1>3. ASSUME Application PROVE RegistryInv'
  <2>1. ASSUME NEW n \in MaxChoices, SetMaxNumClients(n) PROVE RegistryInv'
    BY <1>0, <2>1 DEF SetMaxNumClients, TypeOK
  <2>2. CASE LockSetOutBox
    BY <1>0, <2>2 DEF LockSetOutBox, Registered, TypeOK
  <2>3. CASE UnlockSetOutBox
    BY <1>0, <2>3 DEF UnlockSetOutBox, TypeOK
  <2>4. ASSUME NEW c \in ClientIds, SetOutBoxOf(c) PROVE RegistryInv'
    <3>1. mem[c] = "live"
      <4>1. PICK t \in Conns : clients[t] = c
        BY <2>4 DEF SetOutBoxOf
      <4> QED
        BY <4>1
    <3>2. faults' = faults
      BY <2>4, <3>1 DEF SetOutBoxOf, Touch
    <3> QED
      BY <1>0, <2>4, <3>2 DEF SetOutBoxOf, TypeOK
  <2> HIDE DEF RegistryInv, ClientIds
  <2> QED
    BY <1>3, <2>1, <2>2, <2>3, <2>4, ZenonT(60) DEF Application
<1>4. CASE UNCHANGED vars
  BY <1>0, <1>4 DEF vars, TypeOK
<1> QED
  BY <1>1, <1>2, <1>3, <1>4 DEF Next

\* The broker starts with an empty registry.
LEMMA RegistryInit == Init => RegistryInv
BY NumbersAssumption
DEF Init, RegistryInv, Numbering, MutexHeld, AddressesHeld, DeletionInHand, WalksInside,
    RegistryConsistent, RegistryWalksSafe, TypeOK, BrokerTypeOK, ObjectsTypeOK,
    CloseTypeOK, NetTypeOK, WorkerTypeOK, AppTypeOK, FaultsTypeOK, ClientIds, NoClient

\* The registry's invariant holds in every reachable state.
LEMMA RegistryInvariant == Spec => []RegistryInv
BY RegistryInit, RegistryInductive, PTL DEF Spec

\* The map and the client objects agree (property RegistryConsistent).
THEOREM RegistryCorrect == Spec => []RegistryConsistent
BY RegistryInvariant, PTL DEF RegistryInv

\* No walk of the registry under the mutex, neither the keep-alive walk nor the
\* application's, reaches a freed client (property RegistryWalksSafe).
THEOREM WalksCorrect == Spec => []RegistryWalksSafe
BY RegistryInvariant, PTL DEF RegistryInv

\* The critical sections of the three threads exclude each other (property
\* MapAccessExclusive).
THEOREM MutexCorrect == Spec => []MapAccessExclusive
<1>1. RegistryInv => MapAccessExclusive
  BY DEF RegistryInv, MutexHeld, MapAccessExclusive
<1> QED
  BY <1>1, RegistryInvariant, PTL

-----------------------------------------------------------------------------
(* Capacity.  The check of acceptClient is outside the mutex and tests for    *)
(* equality; it is enough because only the network task adds clients, so the *)
(* room it saw can only grow until it inserts.                             *)

\* The invariant: while a connection that passed the check waits to be inserted,
\* there is room for it.
CapacityInv ==
    /\ CapacityRespected
    /\ netPc \in {"lock", "insert"} => Cardinality(Registered) < maxNumClients

\* A registry holds finitely many clients.
LEMMA RegisteredFinite ==
    ASSUME NEW f \in [Conns -> ClientIds \cup {NoClient}]
    PROVE  LET R == {f[t] : t \in Conns} \ {NoClient}
           IN  IsFiniteSet(R) /\ Cardinality(R) \in Nat
<1> DEFINE R == {f[t] : t \in Conns} \ {NoClient}
<1>1. IsFiniteSet(1..MaxClientId)
  BY NumbersAssumption, FS_Interval
<1>2. R \subseteq 1..MaxClientId
  BY DEF ClientIds
<1>3. IsFiniteSet(R)
  BY <1>1, <1>2, FS_Subset
<1> QED
  BY <1>3, FS_CardinalityType

\* Inserting an entry adds at most one client.
LEMMA InsertCardinality ==
    ASSUME TypeOK, InsertClient
    PROVE  Cardinality(Registered') <= Cardinality(Registered) + 1
<1> DEFINE c == numClient + 1
<1>1. Registered' \subseteq Registered \cup {c}
  BY DEF InsertClient, TypeOK, BrokerTypeOK, Registered
<1>2. IsFiniteSet(Registered) /\ Cardinality(Registered) \in Nat
  BY RegisteredFinite DEF TypeOK, BrokerTypeOK, Registered
<1>3. /\ IsFiniteSet(Registered \cup {c})
      /\ Cardinality(Registered \cup {c}) \in {Cardinality(Registered), Cardinality(Registered) + 1}
  BY <1>2, FS_AddElement
<1>4. Cardinality(Registered') <= Cardinality(Registered \cup {c}) /\ Cardinality(Registered') \in Nat
  BY <1>1, <1>3, FS_Subset, FS_CardinalityType
<1> QED
  BY <1>2, <1>3, <1>4

\* Erasing an entry adds no client.
LEMMA EraseCardinality ==
    ASSUME TypeOK, EraseClient
    PROVE  Cardinality(Registered') <= Cardinality(Registered)
<1>1. Registered' \subseteq Registered
  BY DEF EraseClient, TypeOK, BrokerTypeOK, Registered
<1>2. IsFiniteSet(Registered)
  BY RegisteredFinite DEF TypeOK, BrokerTypeOK, Registered
<1> QED
  BY <1>1, <1>2, FS_Subset

\* Every step keeps the registry within capacity.
LEMMA CapacityInductive ==
    ASSUME ~MayLowerMax
    PROVE  TypeOK /\ TypeOK' /\ CapacityInv /\ [Next]_vars => CapacityInv'
<1> SUFFICES ASSUME TypeOK, TypeOK', CapacityInv, [Next]_vars
             PROVE  CapacityInv'
  OBVIOUS
<1> USE DEF CapacityInv, CapacityRespected
<1>1. /\ Cardinality(Registered) \in Nat /\ Cardinality(Registered') \in Nat
      /\ maxNumClients \in Nat /\ maxNumClients' \in Nat
  <2>1. /\ clients \in [Conns -> ClientIds \cup {NoClient}]
        /\ clients' \in [Conns -> ClientIds \cup {NoClient}]
        /\ maxNumClients \in Nat /\ maxNumClients' \in Nat
    BY DEF TypeOK, BrokerTypeOK
  <2> QED
    BY <2>1, RegisteredFinite DEF Registered
<1>2. CASE PassCapacityCheck
  BY <1>1, <1>2 DEF PassCapacityCheck, IsBrokerFullOfClients, brokerVars, Registered
<1>3. CASE InsertClient
  BY <1>1, <1>3, InsertCardinality DEF InsertClient
<1>4. CASE EraseClient
  BY <1>1, <1>4, EraseCardinality DEF EraseClient, netVars
<1>5. ASSUME NEW n \in MaxChoices, SetMaxNumClients(n)
      PROVE  CapacityInv'
  BY <1>1, <1>5, NumbersAssumption DEF SetMaxNumClients, Registered, netVars
<1>6. CASE /\ UNCHANGED <<clients, maxNumClients>>
           /\ netPc' \in {"lock", "insert"} => netPc \in {"lock", "insert"}
  BY <1>1, <1>6 DEF Registered
<1>7. \/ PassCapacityCheck \/ InsertClient \/ EraseClient
      \/ \E n \in MaxChoices : SetMaxNumClients(n)
      \/ /\ UNCHANGED <<clients, maxNumClients>>
         /\ netPc' \in {"lock", "insert"} => netPc \in {"lock", "insert"}
  <2> USE DEF brokerVars, netVars
  <2>1. CASE NetworkTask
    BY <2>1 DEF NetworkTask, OnClient, RejectClient, LockAccept, OnData, Handle,
       HandleConnect, HandleBadHandshake, HandlePublish, HandleSubscribe, HandleDisconnect,
       HandleOther, FinishPacket, ReportDisconnect, ReportError, ReportTimeout,
       ReportDisconnectAfterError
  <2>2. CASE WorkerTask
    BY <2>2 DEF WorkerTask, WorkerLocks, WorkerUnlocks, TakePublish, LockPublish,
       UnlockPublish, PublishToSubscriber, ProcessSubscribe, EndEvents, TakeDeletion,
       LockErase, DeleteClient, EndDeletions, SkipKeepAlive, LockKeepAlive,
       UnlockKeepAlive, CheckKeepAlive
  <2>3. CASE Application
    BY <2>3 DEF Application, LockSetOutBox, UnlockSetOutBox, SetOutBoxOf
  <2>4. CASE UNCHANGED vars
    BY <2>4 DEF vars
  <2> QED
    BY <2>1, <2>2, <2>3, <2>4 DEF Next
<1> QED
  BY <1>2, <1>3, <1>4, <1>5, <1>6, <1>7

\* The capacity's invariant holds in every reachable state.
LEMMA CapacityInvariant == ASSUME ~MayLowerMax PROVE Spec => []CapacityInv
<1>1. Init => CapacityInv
  <2> SUFFICES ASSUME Init PROVE CapacityInv
    OBVIOUS
  <2>1. Registered = {}
    BY DEF Init, Registered
  <2> QED
    BY <2>1, FS_EmptySet, NumbersAssumption DEF Init, CapacityInv, CapacityRespected
<1>2. TypeOK /\ TypeOK' /\ CapacityInv /\ [Next]_vars => CapacityInv'
  BY CapacityInductive
<1> QED
  BY <1>1, <1>2, TypeCorrect, PTL DEF Spec

\* The registry never exceeds maxNumClients as long as the application does not
\* lower the limit (property CapacityRespected).
THEOREM CapacityCorrect == ASSUME ~MayLowerMax PROVE Spec => []CapacityRespected
<1>1. Spec => []CapacityInv
  BY CapacityInvariant
<1>2. CapacityInv => CapacityRespected
  BY DEF CapacityInv
<1> QED
  BY <1>1, <1>2, PTL

-----------------------------------------------------------------------------
(* Subscriptions of live clients.                                          *)

\* Nothing names a client that has not been accepted yet.
NamesKnown ==
    /\ netPc \in {"packet", "packetDone", "errorDone"} => mem[netClient] # "none"
    /\ \A i \in DOMAIN brokerEventQueue :
          brokerEventQueue[i].type = "subscribe" => mem[brokerEventQueue[i].client] # "none"
    /\ \A tp \in Topics : \A c \in trie[tp] : mem[c] # "none"

\* The invariant behind SubscriptionsTracked.
SubscriptionsInv == NamesKnown /\ SubscriptionsTracked

\* What is in a queue after a send was in it before, or is what was sent.
LEMMA TrySendElements ==
    ASSUME NEW S, NEW q \in Seq(S), NEW e \in S, NEW n,
           NEW i \in DOMAIN TrySend(q, n, e)
    PROVE  TrySend(q, n, e)[i] = e \/ (i \in DOMAIN q /\ TrySend(q, n, e)[i] = q[i])
BY DEF TrySend

\* What is in a queue after a receive was in it before.
LEMMA TailElements ==
    ASSUME NEW S, NEW q \in Seq(S), q # <<>>, NEW i \in DOMAIN Tail(q)
    PROVE  i + 1 \in DOMAIN q /\ Tail(q)[i] = q[i + 1]
OBVIOUS

\* Every step keeps the subscriptions' invariant.
LEMMA SubscriptionsInductive ==
    RegistryInv /\ TypeOK' /\ SubscriptionsInv /\ [Next]_vars => SubscriptionsInv'
<1> SUFFICES ASSUME RegistryInv, TypeOK', SubscriptionsInv, [Next]_vars
             PROVE  SubscriptionsInv'
  OBVIOUS
<1> USE DEF SubscriptionsInv, NamesKnown, SubscriptionsTracked, brokerVars, objectVars,
        netVars, workerVars, appVars, closeVars
<1>0. TypeOK
  BY DEF RegistryInv
<1> DEFINE Same == UNCHANGED <<mem, brokerEventQueue, trie, nodesToFree>>
           NetSame == netPc' = netPc /\ netClient' = netClient
<1>1. CASE /\ Same
           /\ netPc' \in {"packet", "packetDone", "errorDone"} =>
                 \/ netClient' \in ClientIds /\ mem[netClient'] = "live"
                 \/ netPc \in {"packet", "packetDone"} /\ netClient' = netClient
  BY <1>1
<1>2. CASE InsertClient
  <2>1. \A c \in ClientIds : mem[c] # "none" => mem'[c] = mem[c]
    BY <1>0, <1>2 DEF InsertClient, RegistryInv, Numbering, TypeOK, BrokerTypeOK,
       ObjectsTypeOK, NetTypeOK, ClientIds
  <2>2. \A c \in ClientIds : mem[c] # "none" => mem'[c] # "none"
    BY <2>1
  <2>3. netPc' = "idle" /\ UNCHANGED <<brokerEventQueue, trie, nodesToFree>>
    BY <1>2 DEF InsertClient
  <2>4. \A i \in DOMAIN brokerEventQueue :
           brokerEventQueue[i].type = "subscribe" => brokerEventQueue[i].client \in ClientIds
    BY <1>0 DEF TypeOK, BrokerTypeOK, BrokerEvent, PublishEvents, SubscribeEvents
  <2>5. \A tp \in Topics : trie[tp] \subseteq ClientIds
    BY <1>0 DEF TypeOK, ObjectsTypeOK
  <2> QED
    BY <2>1, <2>2, <2>3, <2>4, <2>5
<1>3. ASSUME NEW tps \in SUBSET Topics, HandlePublish(tps)
      PROVE  SubscriptionsInv'
  <2> DEFINE e == [type |-> "publish", client |-> NoClient, topics |-> tps]
  <2>1. e \in BrokerEvent
    BY DEF BrokerEvent, PublishEvents
  <2>2. /\ brokerEventQueue' = TrySend(brokerEventQueue, EventQueueSize, e)
        /\ netPc = "packet" /\ netClient' = netClient /\ UNCHANGED <<mem, trie, nodesToFree>>
    BY <1>3 DEF HandlePublish, Handle
  <2>3. \A i \in DOMAIN brokerEventQueue' :
           \/ brokerEventQueue'[i].type = "publish"
           \/ i \in DOMAIN brokerEventQueue /\ brokerEventQueue'[i] = brokerEventQueue[i]
    BY <1>0, <2>1, <2>2, TrySendElements DEF TypeOK, BrokerTypeOK
  <2> QED
    BY <2>2, <2>3
<1>4. ASSUME NEW tps \in (SUBSET Topics) \ {{}}, HandleSubscribe(tps)
      PROVE  SubscriptionsInv'
  <2> DEFINE e == [type |-> "subscribe", client |-> netClient, topics |-> tps]
  <2>1. /\ brokerEventQueue' = TrySend(brokerEventQueue, EventQueueSize, e)
        /\ netPc = "packet" /\ netClient' = netClient /\ UNCHANGED <<mem, trie, nodesToFree>>
    BY <1>4 DEF HandleSubscribe, Handle
  <2>2. e \in BrokerEvent
    BY <1>0, <2>1 DEF TypeOK, NetTypeOK, BrokerEvent, SubscribeEvents
  <2>3. \A i \in DOMAIN brokerEventQueue' :
           \/ brokerEventQueue'[i].client = netClient
           \/ i \in DOMAIN brokerEventQueue /\ brokerEventQueue'[i] = brokerEventQueue[i]
    BY <1>0, <2>1, <2>2, TrySendElements DEF TypeOK, BrokerTypeOK
  <2> QED
    BY <2>1, <2>3
<1>5. CASE TakePublish
  <2>1. /\ brokerEventQueue # <<>> /\ brokerEventQueue' = Tail(brokerEventQueue)
        /\ UNCHANGED <<mem, trie, nodesToFree, netVars>>
    BY <1>5 DEF TakePublish, TakeEvent
  <2>2. \A i \in DOMAIN brokerEventQueue' :
           i + 1 \in DOMAIN brokerEventQueue /\ brokerEventQueue'[i] = brokerEventQueue[i + 1]
    BY <1>0, <2>1, TailElements DEF TypeOK, BrokerTypeOK
  <2> QED
    BY <2>1, <2>2
<1>6. CASE ProcessSubscribe
  <2> DEFINE c == brokerEventQueue[1].client
             tps == brokerEventQueue[1].topics
  <2>1. /\ brokerEventQueue # <<>> /\ brokerEventQueue' = Tail(brokerEventQueue)
        /\ brokerEventQueue[1].type = "subscribe"
        /\ trie' = [tp \in Topics |-> IF tp \in tps THEN trie[tp] \cup {c} ELSE trie[tp]]
        /\ nodesToFree' = IF mem[c] = "live" THEN [nodesToFree EXCEPT ![c] = @ \cup tps]
                                             ELSE nodesToFree
        /\ UNCHANGED <<mem, netVars>>
    <3>1. brokerEventQueue # <<>>
      BY <1>6 DEF ProcessSubscribe, TakeEvent
    <3>2. HeadEvent = brokerEventQueue[1]
      BY <1>0, <3>1 DEF TypeOK, BrokerTypeOK, HeadEvent
    <3> QED
      BY <1>6, <3>1, <3>2 DEF ProcessSubscribe, TakeEvent
  <2>2. \A i \in DOMAIN brokerEventQueue' :
           i + 1 \in DOMAIN brokerEventQueue /\ brokerEventQueue'[i] = brokerEventQueue[i + 1]
    BY <1>0, <2>1, TailElements DEF TypeOK, BrokerTypeOK
  <2>3. 1 \in DOMAIN brokerEventQueue /\ c \in ClientIds /\ mem[c] # "none"
    BY <1>0, <2>1 DEF TypeOK, BrokerTypeOK, BrokerEvent, PublishEvents, SubscribeEvents
  <2>4. NamesKnown'
    BY <2>1, <2>2, <2>3
  <2>5. SubscriptionsTracked'
    BY <1>0, <2>1, <2>3 DEF TypeOK, ObjectsTypeOK
  <2> QED
    BY <2>4, <2>5
<1>7. CASE DeleteClient
  <2> DEFINE c == workerClient
  <2>1. /\ trie' = [tp \in Topics |-> IF tp \in nodesToFree[c] THEN trie[tp] \ {c} ELSE trie[tp]]
        /\ nodesToFree' = [nodesToFree EXCEPT ![c] = {}]
        /\ mem' = [mem EXCEPT ![c] = "freed"]
        /\ UNCHANGED <<brokerEventQueue, netVars>>
    BY <1>7 DEF DeleteClient
  <2>2. c \in ClientIds
    BY <1>0, <1>7 DEF DeleteClient, TypeOK, WorkerTypeOK
  <2>3. NamesKnown'
    BY <1>0, <2>1, <2>2 DEF TypeOK, ObjectsTypeOK, BrokerTypeOK, NetTypeOK, BrokerEvent,
       PublishEvents, SubscribeEvents
  <2>4. SubscriptionsTracked'
    BY <1>0, <2>1, <2>2 DEF TypeOK, ObjectsTypeOK
  <2> QED
    BY <2>3, <2>4
<1>8. CASE NetworkTask
  <2>1. ASSUME NEW c \in ClientIds, OnData(c) PROVE SubscriptionsInv'
    BY <1>1, <2>1 DEF OnData
  <2>2. ASSUME NEW c \in ClientIds, ReportError(c) PROVE SubscriptionsInv'
    BY <1>1, <2>2 DEF ReportError
  <2>3. CASE \/ HandleConnect \/ HandleBadHandshake \/ HandleDisconnect \/ HandleOther
             \/ \E more \in BOOLEAN : FinishPacket(more)
    BY <1>1, <2>3 DEF HandleConnect, HandleBadHandshake, HandleDisconnect, HandleOther,
       Handle, FinishPacket
  <2>4. CASE \/ \E t \in Conns : OnClient(t)
             \/ RejectClient \/ PassCapacityCheck \/ LockAccept
             \/ ReportDisconnectAfterError
    BY <1>1, <2>4 DEF OnClient, RejectClient, PassCapacityCheck, LockAccept,
       ReportDisconnectAfterError
  <2>5. CASE \E c \in ClientIds : ReportDisconnect(c) \/ ReportTimeout(c)
    BY <2>5 DEF ReportDisconnect, ReportTimeout
  <2> QED
    BY <1>2, <1>3, <1>4, <1>8, <2>1, <2>2, <2>3, <2>4, <2>5, ZenonT(60) DEF NetworkTask
<1>9. CASE WorkerTask
  <2>1. \/ TakePublish \/ ProcessSubscribe \/ DeleteClient
        \/ UNCHANGED <<mem, brokerEventQueue, trie, nodesToFree, netVars>>
    BY <1>9 DEF WorkerTask, WorkerLocks, WorkerUnlocks, LockPublish, UnlockPublish,
       PublishToSubscriber, EndEvents, TakeDeletion, LockErase, EraseClient, EndDeletions,
       SkipKeepAlive, LockKeepAlive, UnlockKeepAlive, CheckKeepAlive
  <2> QED
    BY <1>5, <1>6, <1>7, <2>1
<1>10. CASE Application
  BY <1>10 DEF Application, SetMaxNumClients, LockSetOutBox, UnlockSetOutBox, SetOutBoxOf
<1>11. CASE UNCHANGED vars
  BY <1>11 DEF vars
<1> QED
  BY <1>8, <1>9, <1>10, <1>11 DEF Next

\* The subscriptions' invariant holds in every reachable state.
LEMMA SubscriptionsInvariant == Spec => []SubscriptionsInv
<1>1. Init => SubscriptionsInv
  BY DEF Init, SubscriptionsInv, NamesKnown, SubscriptionsTracked
<1> QED
  BY <1>1, SubscriptionsInductive, RegistryInvariant, TypeCorrect, PTL DEF Spec

\* Every subscription of a live client is among the nodes its destructor will
\* unsubscribe (property SubscriptionsTracked).
THEOREM SubscriptionsCorrect == Spec => []SubscriptionsTracked
BY SubscriptionsInvariant, PTL DEF SubscriptionsInv

-----------------------------------------------------------------------------
(* Dangling pointers, whatever the transports report and whenever they do.   *)

\* The subscribers a publish still has before it are covered too.
PublishingCovered ==
    workerPc \in {"lockPublish", "publish"} =>
        \A c \in workerTodo : mem[c] = "live" \/ c \in LateSubscribers

\* The invariant behind OnlyLateSubscribersDangle.
DanglingInv == OnlyLateSubscribersDangle /\ PublishingCovered

\* A use of a freed client other than by a publish leaves the rest as it is.
LEMMA OtherUse ==
    ASSUME DanglingInv, UNCHANGED <<mem, trie, workerPc>>, workerTodo' \subseteq workerTodo,
           NEW c, NEW who, who # "publish", Touch(c, who)
    PROVE  DanglingInv'
<1>1. faults \subseteq faults' /\ \A f \in faults' : f \in faults \/ f = <<who, c>>
  BY TouchAdds
<1>2. LateSubscribers \subseteq LateSubscribers'
  BY <1>1 DEF LateSubscribers
<1>3. <<who, c>>[1] # "publish"
  OBVIOUS
<1>4. \A f \in faults' : f[1] = "publish" => f \in faults
  BY <1>1, <1>3
<1> QED
  BY <1>2, <1>4 DEF DanglingInv, OnlyLateSubscribersDangle, PublishingCovered

\* A step that uses no freed client and frees none, and adds nothing to the trie.
LEMMA NoUse ==
    ASSUME DanglingInv, UNCHANGED <<trie, faults>>, TypeOK,
           \A c \in ClientIds : mem[c] = "live" => mem'[c] = "live",
           workerPc' \in {"lockPublish", "publish"} =>
               workerPc \in {"lockPublish", "publish"} /\ workerTodo' = workerTodo
    PROVE  DanglingInv'
<1>1. LateSubscribers' = LateSubscribers
  BY DEF LateSubscribers
<1>2. /\ \A tp \in Topics : trie[tp] \subseteq ClientIds
      /\ workerTodo \subseteq ClientIds
  BY DEF TypeOK, ObjectsTypeOK, WorkerTypeOK
<1> QED
  BY <1>1, <1>2 DEF DanglingInv, OnlyLateSubscribersDangle, PublishingCovered

\* Every step of the broker keeps the invariant.
LEMMA DanglingInductive ==
    RegistryInv /\ SubscriptionsInv /\ DanglingInv /\ [Next]_vars => DanglingInv'
<1> SUFFICES ASSUME RegistryInv, SubscriptionsInv, DanglingInv, [Next]_vars
             PROVE  DanglingInv'
  OBVIOUS
<1> USE DEF brokerVars, objectVars, netVars, workerVars, appVars, closeVars
<1>0. TypeOK
  BY DEF RegistryInv
<1>1. CASE UNCHANGED <<trie, faults, mem, workerPc, workerTodo>>
  BY <1>0, <1>1, NoUse
<1>2. CASE NetworkTask
  <2>1. CASE InsertClient
    <3>1. /\ UNCHANGED <<trie, faults, workerPc, workerTodo>>
          /\ mem' = [mem EXCEPT ![numClient + 1] = "live"]
      BY <2>1 DEF InsertClient
    <3>2. \A c \in ClientIds : mem[c] = "live" => mem'[c] = "live"
      BY <1>0, <3>1 DEF TypeOK, ObjectsTypeOK
    <3> QED
      BY <1>0, <3>1, <3>2, NoUse
  <2>2. ASSUME NEW phase, Handle(phase) PROVE DanglingInv'
    <3>1. /\ Touch(netClient, "onData")
          /\ UNCHANGED <<mem, trie, workerPc, workerTodo>>
      BY <2>2 DEF Handle
    <3> QED
      BY <3>1, OtherUse
  <2>3. CASE \/ HandleConnect \/ HandleBadHandshake \/ HandleDisconnect \/ HandleOther
             \/ \E tps \in SUBSET Topics : HandlePublish(tps)
             \/ \E tps \in (SUBSET Topics) \ {{}} : HandleSubscribe(tps)
    BY <2>2, <2>3 DEF HandleConnect, HandleBadHandshake, HandleDisconnect, HandleOther,
       HandlePublish, HandleSubscribe
  <2>4. ASSUME NEW more \in BOOLEAN, FinishPacket(more) PROVE DanglingInv'
    <3>1. /\ Touch(netClient, "onData")
          /\ UNCHANGED <<mem, trie, workerPc, workerTodo>>
      BY <2>4 DEF FinishPacket
    <3> QED
      BY <3>1, OtherUse
  <2>5. CASE ReportDisconnectAfterError
    <3>1. /\ Touch(netClient, "onError")
          /\ UNCHANGED <<mem, trie, workerPc, workerTodo>>
      BY <2>5 DEF ReportDisconnectAfterError
    <3> QED
      BY <3>1, OtherUse
  <2>6. CASE \/ \E t \in Conns : OnClient(t)
             \/ RejectClient \/ PassCapacityCheck \/ LockAccept
             \/ \E c \in ClientIds : OnData(c)
             \/ \E c \in ClientIds : ReportDisconnect(c) \/ ReportError(c) \/ ReportTimeout(c)
    BY <1>1, <2>6 DEF OnClient, RejectClient, PassCapacityCheck, LockAccept, OnData,
       ReportDisconnect, ReportError, ReportTimeout
  <2> QED
    BY <1>2, <2>1, <2>3, <2>4, <2>5, <2>6, ZenonT(60) DEF NetworkTask
<1>3. CASE WorkerTask
  <2>1. CASE TakePublish
    <3>1. /\ UNCHANGED <<mem, trie, faults>>
          /\ brokerEventQueue # <<>>
          /\ workerTodo' = UNION {trie[tp] : tp \in HeadEvent.topics}
      BY <2>1 DEF TakePublish, TakeEvent
    <3>2. HeadEvent.topics \subseteq Topics
      BY <1>0, <3>1 DEF TypeOK, BrokerTypeOK, HeadEvent, BrokerEvent, PublishEvents,
         SubscribeEvents
    <3>3. LateSubscribers' = LateSubscribers
      BY <3>1 DEF LateSubscribers
    <3>4. \A c \in workerTodo' : mem[c] = "live" \/ c \in LateSubscribers
      BY <3>1, <3>2 DEF DanglingInv, OnlyLateSubscribersDangle
    <3> QED
      BY <3>1, <3>3, <3>4 DEF DanglingInv, OnlyLateSubscribersDangle, PublishingCovered
  <2>2. ASSUME NEW c \in ClientIds, PublishToSubscriber(c) PROVE DanglingInv'
    <3>1. /\ workerPc = "publish" /\ c \in workerTodo /\ workerTodo' = workerTodo \ {c}
          /\ Touch(c, "publish") /\ UNCHANGED <<mem, trie, workerPc>>
      BY <2>2 DEF PublishToSubscriber
    <3>2. /\ faults \subseteq faults'
          /\ \A f \in faults' : f \in faults \/ (f = <<"publish", c>> /\ mem[c] = "freed")
      BY <3>1, TouchAdds
    <3>3. mem[c] = "freed" => c \in LateSubscribers
      BY <3>1 DEF DanglingInv, PublishingCovered
    <3>4. LateSubscribers \subseteq LateSubscribers'
      BY <3>2 DEF LateSubscribers
    <3>5. \A f \in faults' : f[1] = "publish" => f[2] \in LateSubscribers'
      <4>1. \A f \in faults : f[1] = "publish" => f[2] \in LateSubscribers'
        BY <3>4 DEF DanglingInv, OnlyLateSubscribersDangle
      <4>2. mem[c] = "freed" => <<"publish", c>>[2] \in LateSubscribers'
        BY <3>3, <3>4
      <4> QED
        BY <3>2, <4>1, <4>2
    <3> QED
      BY <3>1, <3>4, <3>5 DEF DanglingInv, OnlyLateSubscribersDangle, PublishingCovered
  <2>3. CASE ProcessSubscribe
    <3> DEFINE c == HeadEvent.client
    <3>1. /\ workerPc = "events" /\ workerPc' = "events"
          /\ brokerEventQueue # <<>> /\ HeadEvent.type = "subscribe"
          /\ trie' = [tp \in Topics |->
                         IF tp \in HeadEvent.topics THEN trie[tp] \cup {c} ELSE trie[tp]]
          /\ mem' = mem /\ Touch(c, "subscribe")
      BY <2>3 DEF ProcessSubscribe, TakeEvent
    <3>2. c \in ClientIds /\ mem[c] \in {"live", "freed"}
      <4>1. 1 \in DOMAIN brokerEventQueue /\ HeadEvent = brokerEventQueue[1]
        BY <1>0, <3>1 DEF TypeOK, BrokerTypeOK, HeadEvent
      <4>2. c \in ClientIds
        BY <1>0, <3>1, <4>1 DEF TypeOK, BrokerTypeOK, BrokerEvent, PublishEvents,
           SubscribeEvents
      <4>3. mem[c] # "none"
        BY <3>1, <4>1 DEF SubscriptionsInv, NamesKnown
      <4> QED
        BY <1>0, <4>2, <4>3 DEF TypeOK, ObjectsTypeOK
    <3>3. /\ faults \subseteq faults'
          /\ \A f \in faults' : f \in faults \/ f = <<"subscribe", c>>
          /\ mem[c] = "freed" => <<"subscribe", c>> \in faults'
      BY <3>1, TouchAdds
    <3>4. /\ LateSubscribers \subseteq LateSubscribers'
          /\ mem[c] = "live" \/ c \in LateSubscribers'
      BY <3>2, <3>3 DEF LateSubscribers
    <3>5. \A tp \in Topics : \A d \in trie'[tp] : mem[d] = "live" \/ d \in LateSubscribers'
      <4>1. \A tp \in Topics : trie'[tp] \subseteq trie[tp] \cup {c}
        BY <3>1
      <4> QED
        BY <3>4, <4>1 DEF DanglingInv, OnlyLateSubscribersDangle
    <3>6. \A f \in faults' : f[1] = "publish" => f[2] \in LateSubscribers'
      <4>1. <<"subscribe", c>>[1] # "publish"
        OBVIOUS
      <4> QED
        BY <3>3, <3>4, <4>1 DEF DanglingInv, OnlyLateSubscribersDangle
    <3> QED
      BY <3>1, <3>5, <3>6 DEF DanglingInv, OnlyLateSubscribersDangle, PublishingCovered
  <2>4. CASE DeleteClient
    <3> DEFINE c == workerClient
    <3>1. /\ workerPc = "delete" /\ workerPc' = "deletions" /\ faults' = faults
          /\ trie' = [tp \in Topics |-> IF tp \in nodesToFree[c] THEN trie[tp] \ {c}
                                                                 ELSE trie[tp]]
          /\ mem' = [mem EXCEPT ![c] = "freed"]
      BY <2>4 DEF DeleteClient
    <3>2. mem[c] = "live"
      BY <3>1 DEF RegistryInv, DeletionInHand
    <3>3. \A tp \in Topics : c \notin trie'[tp] /\ trie'[tp] \subseteq trie[tp]
      BY <3>1, <3>2 DEF SubscriptionsInv, SubscriptionsTracked
    <3>4. \A d \in ClientIds : d # c => mem'[d] = mem[d]
      BY <1>0, <3>1 DEF TypeOK, ObjectsTypeOK
    <3>5. \A tp \in Topics : trie[tp] \subseteq ClientIds
      BY <1>0 DEF TypeOK, ObjectsTypeOK
    <3>6. LateSubscribers' = LateSubscribers
      BY <3>1 DEF LateSubscribers
    <3> QED
      BY <3>1, <3>3, <3>4, <3>5, <3>6
      DEF DanglingInv, OnlyLateSubscribersDangle, PublishingCovered
  <2>5. ASSUME NEW c \in ClientIds, NEW overdue \in BOOLEAN, CheckKeepAlive(c, overdue)
        PROVE  DanglingInv'
    <3>1. /\ Touch(c, "keepAlive") /\ UNCHANGED <<mem, trie, workerPc>>
          /\ workerTodo' \subseteq workerTodo
      BY <2>5 DEF CheckKeepAlive
    <3> QED
      BY <3>1, OtherUse
  <2>6. CASE LockPublish \/ LockErase \/ LockKeepAlive
    <3>1. /\ UNCHANGED <<mem, trie, faults>>
          /\ workerPc' \in {"lockPublish", "publish"} =>
                workerPc \in {"lockPublish", "publish"} /\ workerTodo' = workerTodo
      BY <2>6 DEF LockPublish, LockErase, LockKeepAlive, WorkerLocks
    <3> QED
      BY <1>0, <3>1, NoUse
  <2>7. CASE \/ UnlockPublish \/ UnlockKeepAlive \/ EndEvents \/ TakeDeletion \/ EraseClient
             \/ EndDeletions \/ SkipKeepAlive
    <3>1. /\ UNCHANGED <<mem, trie, faults>>
          /\ workerPc' \notin {"lockPublish", "publish"}
      BY <2>7 DEF UnlockPublish, UnlockKeepAlive, WorkerUnlocks, EndEvents, TakeDeletion,
         EraseClient, EndDeletions, SkipKeepAlive
    <3> QED
      BY <1>0, <3>1, NoUse
  <2> QED
    BY <1>3, <2>1, <2>2, <2>3, <2>4, <2>5, <2>6, <2>7, ZenonT(60) DEF WorkerTask
<1>4. CASE Application
  <2>1. ASSUME NEW c \in ClientIds, SetOutBoxOf(c) PROVE DanglingInv'
    <3>1. /\ Touch(c, "setOutBox")
          /\ UNCHANGED <<mem, trie, workerPc, workerTodo>>
      BY <2>1 DEF SetOutBoxOf
    <3> QED
      BY <3>1, OtherUse
  <2>2. CASE \/ \E n \in MaxChoices : SetMaxNumClients(n)
             \/ LockSetOutBox \/ UnlockSetOutBox
    BY <1>1, <2>2 DEF SetMaxNumClients, LockSetOutBox, UnlockSetOutBox
  <2> QED
    BY <1>4, <2>1, <2>2 DEF Application
<1>5. CASE UNCHANGED vars
  BY <1>1, <1>5 DEF vars
<1> QED
  BY <1>2, <1>3, <1>4, <1>5 DEF Next

\* Whatever the transports report, and however late a SUBSCRIBE is processed: the trie
\* names a freed client, and a PUBLISH is sent to one, only after a SUBSCRIBE of that
\* client was processed after its destruction (property OnlyLateSubscribersDangle).
THEOREM DanglingCorrect == Spec => []OnlyLateSubscribersDangle
<1>1. Init => DanglingInv
  BY DEF Init, DanglingInv, OnlyLateSubscribersDangle, PublishingCovered
<1>2. DanglingInv => OnlyLateSubscribersDangle
  BY DEF DanglingInv
<1> QED
  BY <1>1, <1>2, DanglingInductive, RegistryInvariant, SubscriptionsInvariant, PTL DEF Spec
=============================================================================
