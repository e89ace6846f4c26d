-------------------------- MODULE WsRouting_proofs --------------------------
(***************************************************************************)
(* Proofs about WsRouting: types, and that as long as the broker has had   *)
(* room for every client its events reach its own transport.               *)
(***************************************************************************)
EXTENDS WsRouting, FiniteSetTheorems, TLAPS

USE DEF NoId

-----------------------------------------------------------------------------
(* Type correctness.                                                       *)

\* The network task queues a key, or records that the queue refused it.
LEMMA QueueType ==
    ASSUME TypeOK, NEW a \in Addresses, QueueClientForDeletion(a)
    PROVE  /\ deleteMqttClientQueue' \in Seq(Addresses)
           /\ Len(deleteMqttClientQueue') <= DeleteQueueSize
           /\ forgotten' \subseteq Addresses
<1>1. CASE Len(deleteMqttClientQueue) < DeleteQueueSize
  <2>1. /\ deleteMqttClientQueue' = Append(deleteMqttClientQueue, a)
        /\ forgotten' = forgotten
    BY <1>1 DEF QueueClientForDeletion
  <2> QED BY <1>1, <2>1, WsRoutingAssumption DEF TypeOK
<1>2. CASE ~ (Len(deleteMqttClientQueue) < DeleteQueueSize)
  BY <1>2 DEF TypeOK, QueueClientForDeletion
<1> QED BY <1>1, <1>2

\* Closing changes the status of one client at most, and only to "closing".
LEMMA CloseType ==
    ASSUME TypeOK, NEW a \in Addresses, Close(a)
    PROVE  /\ wsStatus' \in [WsIds -> {"new", "connected", "closing", "gone"}]
           /\ UNCHANGED <<deleteMqttClientQueue, forgotten>>
           /\ \A i \in WsIds : /\ wsStatus'[i] = "new" <=> wsStatus[i] = "new"
                               /\ wsStatus'[i] = "gone" <=> wsStatus[i] = "gone"
                               /\ wsStatus'[i] \in Open <=> wsStatus[i] \in Open
  BY DEF TypeOK, Close, Open

\* Dispatching records ids.
LEMMA DispatchType ==
    ASSUME TypeOK, NEW i \in WsIds, NEW a \in Addresses, Dispatched(i, a)
    PROVE  wild' \subseteq WsIds /\ strayed' \subseteq WsIds \X WsIds
  BY DEF TypeOK, Dispatched

\* Every step keeps the types.
LEMMA TypeStep == TypeOK /\ [Next]_vars => TypeOK'
<1> SUFFICES ASSUME TypeOK, [Next]_vars PROVE TypeOK'
  OBVIOUS
<1>1. ASSUME NEW i \in WsIds, NEW a \in Addresses, ConnectAccepted(i, a) PROVE TypeOK'
  BY <1>1 DEF TypeOK, ConnectAccepted, Arrives, workerVars
<1>2. ASSUME NEW i \in WsIds, NEW a \in Addresses, ConnectRejected(i, a) PROVE TypeOK'
  BY <1>2 DEF TypeOK, ConnectRejected, Arrives, workerVars
<1>3. ASSUME NEW i \in WsIds, Data(i) PROVE TypeOK'
  <2> DEFINE a == activeTransports[i]
  <2>1. a \in Addresses /\ Dispatched(i, a)
    BY <1>3 DEF TypeOK, Data
  <2>2. wild' \subseteq WsIds /\ strayed' \subseteq WsIds \X WsIds
    BY <2>1, DispatchType
  <2>3. /\ wsStatus' \in [WsIds -> {"new", "connected", "closing", "gone"}]
        /\ UNCHANGED <<deleteMqttClientQueue, forgotten>>
    <3>1. CASE UNCHANGED <<wsStatus, deleteMqttClientQueue, forgotten>>
      BY <3>1 DEF TypeOK
    <3>2. CASE Close(a)
      BY <3>2, <2>1, CloseType
    <3> QED BY <3>1, <3>2, <1>3 DEF Data
  <2> QED BY <1>3, <2>2, <2>3 DEF TypeOK, Data, listenerVars, workerVars
<1>4. ASSUME NEW i \in WsIds, Disconnect(i) PROVE TypeOK'
  <2> DEFINE a == activeTransports[i]
  <2>1. a \in Addresses /\ Dispatched(i, a)
    BY <1>4 DEF TypeOK, Disconnect, HandleDisconnect
  <2>2. wild' \subseteq WsIds /\ strayed' \subseteq WsIds \X WsIds
    BY <2>1, DispatchType
  <2>3. /\ deleteMqttClientQueue' \in Seq(Addresses)
        /\ Len(deleteMqttClientQueue') <= DeleteQueueSize
        /\ forgotten' \subseteq Addresses
    <3>1. CASE client[a] = NoId
      BY <3>1, <1>4 DEF TypeOK, Disconnect, HandleDisconnect
    <3>2. CASE client[a] # NoId
      BY <3>2, <2>1, <1>4, QueueType DEF Disconnect, HandleDisconnect
    <3> QED BY <3>1, <3>2
  <2> QED BY <1>4, <2>2, <2>3 DEF TypeOK, Disconnect, workerVars
<1>5. ASSUME NEW i \in WsIds, DisconnectUnrouted(i) PROVE TypeOK'
  BY <1>5 DEF TypeOK, DisconnectUnrouted, listenerVars, workerVars, historyVars
<1>6. CASE Erase
  BY <1>6 DEF TypeOK, Erase, workerVars
<1>7. ASSUME NEW a \in Addresses, KeepAliveTimeout(a) PROVE TypeOK'
  <2>1. Close(a)
    BY <1>7 DEF KeepAliveTimeout
  <2> QED BY <1>7, <2>1, CloseType DEF TypeOK, KeepAliveTimeout, listenerVars, workerVars
<1>8. CASE TakeDeletion
  <2>1. Head(deleteMqttClientQueue) \in Addresses
    BY <1>8 DEF TypeOK, TakeDeletion
  <2>2. /\ deleteMqttClientQueue' \in Seq(Addresses)
        /\ Len(deleteMqttClientQueue') <= DeleteQueueSize
    BY <1>8, WsRoutingAssumption DEF TypeOK, TakeDeletion
  <2>3. clients' \subseteq Addresses /\ doomed' \in Addresses \cup {NoAddress}
    BY <1>8, <2>1 DEF TypeOK, TakeDeletion
  <2> QED BY <1>8, <2>2, <2>3 DEF TypeOK, TakeDeletion, listenerVars, historyVars
<1>9. CASE DeleteClient
  <2>1. doomed \in Addresses /\ Close(doomed)
    BY <1>9 DEF TypeOK, DeleteClient
  <2> QED BY <1>9, <2>1, CloseType DEF TypeOK, DeleteClient, listenerVars
<1>10. CASE StopListener
  BY <1>10 DEF TypeOK, StopListener, workerVars, historyVars
<1>11. CASE StopWorker
  BY <1>11 DEF TypeOK, StopWorker, listenerVars, historyVars
<1>12. CASE DestroyBroker
  <2>1. wsStatus' \in [WsIds -> {"new", "connected", "closing", "gone"}]
    BY <1>12 DEF TypeOK, DestroyBroker
  <2>2. client' \in [Addresses -> WsIds \cup {NoId}]
    BY <1>12 DEF TypeOK, DestroyBroker
  <2>3. /\ deleteMqttClientQueue' \in Seq(Addresses)
        /\ Len(deleteMqttClientQueue') <= DeleteQueueSize
    BY <1>12, WsRoutingAssumption DEF DestroyBroker
  <2> QED BY <1>12, <2>1, <2>2, <2>3 DEF TypeOK, DestroyBroker, listenerVars, workerVars, historyVars
<1>13. CASE UNCHANGED vars
  BY <1>13 DEF TypeOK, vars, listenerVars, workerVars, historyVars
<1> QED BY <1>1, <1>2, <1>3, <1>4, <1>5, <1>6, <1>7, <1>8, <1>9, <1>10, <1>11, <1>12,
        <1>13 DEF Next, Worker

\* Every reachable state is well typed.
THEOREM TypeCorrect == Spec => []TypeOK
<1>1. Init => TypeOK
  BY WsRoutingAssumption DEF Init, TypeOK
<1> QED BY <1>1, TypeStep, PTL DEF Spec

-----------------------------------------------------------------------------
(* The inductive invariant.                                                *)

Ended(i) == i = leaving \/ wsStatus[i] = "gone"

\* Who lives where, whatever has been rejected or stopped.
ObjectsInv ==
    /\ \A a \in Addresses : client[a] # NoId <=> (a \in clients \/ a = doomed)
    /\ doomed \notin clients
    /\ \A a, b \in Addresses : client[a] = client[b] /\ client[a] # NoId => a = b
    /\ \A a \in Addresses : client[a] # NoId => wsStatus[client[a]] # "new"

RoutesInv ==
    /\ RoutesOfTheLiving
    /\ leaving # NoId => wsStatus[leaving] \in Open
    /\ ~listening => \A i \in WsIds : activeTransports[i] = NoAddress

\* Only the end of a connection makes its client's deletion due.
DeletionsInv ==
    /\ \A n \in 1..Len(deleteMqttClientQueue) :
          /\ deleteMqttClientQueue[n] \in clients
          /\ Ended(client[deleteMqttClientQueue[n]])
    /\ \A m, n \in 1..Len(deleteMqttClientQueue) :
          deleteMqttClientQueue[m] = deleteMqttClientQueue[n] => m = n
    /\ doomed # NoAddress => Ended(client[doomed])

RoutedInv ==
    /\ RoutedToOwner /\ wild = {}
    /\ \A i \in WsIds :
          activeTransports[i] # NoAddress /\ i # leaving => client[activeTransports[i]] = i
    /\ leaving # NoId => activeTransports[leaving] # NoAddress
    /\ \A a \in clients : wsStatus[client[a]] \in Open => activeTransports[client[a]] = a

\* The listener serves, and nobody has been turned away.
Quiet == rejected = {} /\ listening

CapacityInv == Cardinality(clients) <= maxNumClients

ForgottenInv == DeletionsFit

Inv ==
    /\ TypeOK /\ ObjectsInv /\ RoutesInv
    /\ Quiet => DeletionsInv /\ RoutedInv
    /\ CapacityInv /\ ForgottenInv

-----------------------------------------------------------------------------
(* Who lives where.                                                        *)

\* A step that moves no transport and opens no connection keeps the objects.
LEMMA ObjectsKept ==
    ASSUME TypeOK, ObjectsInv, UNCHANGED <<client, clients, doomed>>,
           \A i \in WsIds : wsStatus'[i] = "new" => wsStatus[i] = "new"
    PROVE  ObjectsInv'
  BY DEF ObjectsInv, TypeOK

\* Every step keeps the objects in order.
LEMMA ObjectsStep == TypeOK /\ ObjectsInv /\ [Next]_vars => ObjectsInv'
<1> SUFFICES ASSUME TypeOK, ObjectsInv, [Next]_vars PROVE ObjectsInv'
  OBVIOUS
<1>1. ASSUME NEW i \in WsIds, NEW a \in Addresses, ConnectAccepted(i, a) PROVE ObjectsInv'
  <2>1. /\ client' = [client EXCEPT ![a] = i] /\ client[a] = NoId
        /\ clients' = clients \cup {a}
        /\ wsStatus[i] = "new" /\ wsStatus' = [wsStatus EXCEPT ![i] = "connected"]
        /\ doomed' = doomed
    BY <1>1 DEF ConnectAccepted, Arrives, workerVars
  <2> QED BY <2>1, WsRoutingAssumption DEF ObjectsInv, TypeOK, WsIds
<1>2. ASSUME NEW i \in WsIds, NEW a \in Addresses, ConnectRejected(i, a) PROVE ObjectsInv'
  BY <1>2, ObjectsKept DEF ConnectRejected, Arrives, workerVars, TypeOK
<1>3. ASSUME NEW i \in WsIds, Data(i) PROVE ObjectsInv'
  <2>1. activeTransports[i] \in Addresses
    BY <1>3 DEF Data, TypeOK
  <2>2. \A j \in WsIds : wsStatus'[j] = "new" => wsStatus[j] = "new"
    BY <1>3, <2>1, CloseType DEF Data
  <2> QED BY <1>3, <2>2, ObjectsKept DEF Data, workerVars
<1>4. ASSUME NEW i \in WsIds, Disconnect(i) PROVE ObjectsInv'
  BY <1>4, ObjectsKept DEF Disconnect, workerVars
<1>5. ASSUME NEW i \in WsIds, DisconnectUnrouted(i) PROVE ObjectsInv'
  BY <1>5, ObjectsKept DEF DisconnectUnrouted, workerVars, TypeOK
<1>6. CASE Erase
  BY <1>6, ObjectsKept DEF Erase, workerVars, TypeOK
<1>7. ASSUME NEW a \in Addresses, KeepAliveTimeout(a) PROVE ObjectsInv'
  BY <1>7, CloseType, ObjectsKept DEF KeepAliveTimeout, workerVars
<1>8. CASE TakeDeletion
  <2>1. Head(deleteMqttClientQueue) \in Addresses
    BY <1>8 DEF TypeOK, TakeDeletion
  <2>2. /\ doomed = NoAddress
        /\ UNCHANGED <<wsStatus, client>>
        /\ doomed' = IF Head(deleteMqttClientQueue) \in clients
                     THEN Head(deleteMqttClientQueue) ELSE NoAddress
        /\ clients' = clients \ {Head(deleteMqttClientQueue)}
    BY <1>8 DEF TakeDeletion
  <2> QED BY <2>1, <2>2, WsRoutingAssumption DEF ObjectsInv, TypeOK
<1>9. CASE DeleteClient
  <2>1. /\ doomed \in Addresses /\ doomed' = NoAddress
        /\ client' = [client EXCEPT ![doomed] = NoId]
        /\ clients' = clients
    BY <1>9 DEF DeleteClient, TypeOK
  <2>2. \A i \in WsIds : wsStatus'[i] = "new" => wsStatus[i] = "new"
    BY <1>9, <2>1, CloseType DEF DeleteClient
  <2> QED BY <2>1, <2>2, WsRoutingAssumption DEF ObjectsInv, TypeOK
<1>10. CASE StopListener
  BY <1>10, ObjectsKept DEF StopListener, workerVars
<1>11. CASE StopWorker
  BY <1>11, ObjectsKept DEF StopWorker
<1>12. CASE DestroyBroker
  <2>1. /\ client' = [a \in Addresses |-> IF a \in clients THEN NoId ELSE client[a]]
        /\ clients' = {} /\ doomed' = doomed
    BY <1>12 DEF DestroyBroker, workerVars
  <2>2. \A i \in WsIds : wsStatus'[i] = "new" <=> wsStatus[i] = "new"
    BY <1>12 DEF DestroyBroker, TypeOK
  <2> QED BY <2>1, <2>2 DEF ObjectsInv, TypeOK
<1>13. CASE UNCHANGED vars
  BY <1>13, ObjectsKept DEF vars, workerVars
<1> QED BY <1>1, <1>2, <1>3, <1>4, <1>5, <1>6, <1>7, <1>8, <1>9, <1>10, <1>11, <1>12,
        <1>13 DEF Next, Worker

-----------------------------------------------------------------------------
(* The map.                                                                *)

\* Every step keeps the map free of clients without a connection.
LEMMA RoutesStep == TypeOK /\ RoutesInv /\ [Next]_vars => RoutesInv'
<1> SUFFICES ASSUME TypeOK, RoutesInv, [Next]_vars PROVE RoutesInv'
  OBVIOUS
<1> USE DEF RoutesInv, RoutesOfTheLiving
<1>1. ASSUME NEW i \in WsIds, NEW a \in Addresses, ConnectAccepted(i, a) PROVE RoutesInv'
  BY <1>1 DEF ConnectAccepted, Arrives, TypeOK, Open
<1>2. ASSUME NEW i \in WsIds, NEW a \in Addresses, ConnectRejected(i, a) PROVE RoutesInv'
  BY <1>2 DEF ConnectRejected, Arrives, TypeOK, Open
<1>3. ASSUME NEW i \in WsIds, Data(i) PROVE RoutesInv'
  <2>1. activeTransports[i] \in Addresses
    BY <1>3 DEF Data, TypeOK
  <2>2. \A j \in WsIds : wsStatus'[j] \in Open <=> wsStatus[j] \in Open
    BY <1>3, <2>1, CloseType DEF Data
  <2> QED BY <1>3, <2>2 DEF Data, listenerVars, TypeOK
<1>4. ASSUME NEW i \in WsIds, Disconnect(i) PROVE RoutesInv'
  BY <1>4 DEF Disconnect, TypeOK
<1>5. ASSUME NEW i \in WsIds, DisconnectUnrouted(i) PROVE RoutesInv'
  BY <1>5 DEF DisconnectUnrouted, listenerVars, TypeOK
<1>6. CASE Erase
  BY <1>6 DEF Erase, TypeOK
<1>7. ASSUME NEW a \in Addresses, KeepAliveTimeout(a) PROVE RoutesInv'
  <2>1. \A j \in WsIds : wsStatus'[j] \in Open <=> wsStatus[j] \in Open
    BY <1>7, CloseType DEF KeepAliveTimeout
  <2> QED BY <1>7, <2>1 DEF KeepAliveTimeout, listenerVars, TypeOK
<1>8. CASE TakeDeletion
  BY <1>8 DEF TakeDeletion, listenerVars
<1>9. CASE DeleteClient
  <2>1. \A j \in WsIds : wsStatus'[j] \in Open <=> wsStatus[j] \in Open
    BY <1>9, CloseType DEF DeleteClient, TypeOK
  <2> QED BY <1>9, <2>1 DEF DeleteClient, listenerVars, TypeOK
<1>10. CASE StopListener
  BY <1>10 DEF StopListener, TypeOK
<1>11. CASE StopWorker
  BY <1>11 DEF StopWorker, listenerVars
<1>12. CASE DestroyBroker
  <2>1. \A i \in WsIds : activeTransports[i] = NoAddress
    BY <1>12 DEF DestroyBroker
  <2>2. leaving \in WsIds => (wsStatus'[leaving] \in Open <=> wsStatus[leaving] \in Open)
    BY <1>12 DEF DestroyBroker, TypeOK, Open
  <2> QED BY <1>12, <2>1, <2>2 DEF DestroyBroker, listenerVars, TypeOK
<1>13. CASE UNCHANGED vars
  BY <1>13 DEF vars, listenerVars
<1> QED BY <1>1, <1>2, <1>3, <1>4, <1>5, <1>6, <1>7, <1>8, <1>9, <1>10, <1>11, <1>12,
        <1>13 DEF Next, Worker

-----------------------------------------------------------------------------
(* Deletions and routes, while there has been room for everyone.           *)

Known == TypeOK /\ ObjectsInv /\ RoutesInv /\ Quiet /\ DeletionsInv /\ RoutedInv

\* A step that closes connections at most keeps both.
LEMMA QuietKept ==
    ASSUME Known,
           UNCHANGED <<client, clients, doomed, leaving, activeTransports,
                       deleteMqttClientQueue, strayed, wild>>,
           \A i \in WsIds : /\ wsStatus'[i] = "gone" <=> wsStatus[i] = "gone"
                            /\ wsStatus'[i] \in Open <=> wsStatus[i] \in Open
    PROVE  DeletionsInv' /\ RoutedInv'
<1>1. \A a \in Addresses : client[a] # NoId => client[a] \in WsIds
  BY DEF Known, TypeOK
<1>2. DeletionsInv'
  <2>1. \A n \in 1..Len(deleteMqttClientQueue) :
           /\ deleteMqttClientQueue[n] \in clients
           /\ client[deleteMqttClientQueue[n]] \in WsIds
    BY <1>1 DEF Known, TypeOK, ObjectsInv, DeletionsInv
  <2>2. doomed # NoAddress => client[doomed] \in WsIds
    BY <1>1 DEF Known, TypeOK, ObjectsInv
  <2> QED BY <2>1, <2>2 DEF Known, DeletionsInv, Ended
<1>3. RoutedInv'
  BY <1>1 DEF Known, RoutedInv, RoutedToOwner, TypeOK, ObjectsInv
<1> QED BY <1>2, <1>3

\* A dispatched event of a client that is not leaving goes home.
LEMMA GoesHome ==
    ASSUME Known, NEW i \in WsIds, i # leaving, activeTransports[i] # NoAddress,
           Dispatched(i, activeTransports[i])
    PROVE  wild' = {} /\ strayed' = {}
  BY WsRoutingAssumption DEF Known, RoutedInv, RoutedToOwner, Dispatched, WsIds

\* A transport whose client is open and not leaving is registered, and neither
\* queued nor being deleted.
LEMMA OpenIsRegistered ==
    ASSUME Known, NEW i \in WsIds, wsStatus[i] \in Open, i # leaving,
           NEW a \in Addresses, client[a] = i
    PROVE  /\ a \in clients /\ a # doomed
           /\ \A n \in 1..Len(deleteMqttClientQueue) : deleteMqttClientQueue[n] # a
<1>1. ~Ended(client[a])
  BY DEF Ended, Open
<1>2. client[a] # NoId /\ a # NoAddress
  BY WsRoutingAssumption DEF WsIds
<1> QED BY <1>1, <1>2 DEF Known, ObjectsInv, DeletionsInv

\* Every step keeps deletions and routes in order as long as it leaves the broker quiet.
LEMMA QuietStep == Known /\ [Next]_vars /\ Quiet' => DeletionsInv' /\ RoutedInv'
<1> SUFFICES ASSUME Known, [Next]_vars, Quiet' PROVE DeletionsInv' /\ RoutedInv'
  OBVIOUS
<1>1. ASSUME NEW i \in WsIds, NEW a \in Addresses, ConnectAccepted(i, a)
      PROVE  DeletionsInv' /\ RoutedInv'
  <2>1. /\ client' = [client EXCEPT ![a] = i] /\ client[a] = NoId
        /\ clients' = clients \cup {a}
        /\ wsStatus[i] = "new" /\ wsStatus' = [wsStatus EXCEPT ![i] = "connected"]
        /\ activeTransports' = [activeTransports EXCEPT ![i] = a]
        /\ leaving = NoId
        /\ UNCHANGED <<doomed, leaving, deleteMqttClientQueue, strayed, wild>>
    BY <1>1 DEF ConnectAccepted, Arrives, workerVars
  <2>2. \A b \in Addresses : client[b] # NoId => client[b] \in WsIds /\ client[b] # i
    BY <2>1 DEF Known, ObjectsInv, TypeOK
  <2>3. a \notin clients /\ a # doomed
    BY <2>1 DEF Known, ObjectsInv
  <2>4. DeletionsInv'
    <3>1. \A n \in 1..Len(deleteMqttClientQueue) :
             /\ deleteMqttClientQueue[n] \in clients /\ deleteMqttClientQueue[n] # a
             /\ client[deleteMqttClientQueue[n]] \in WsIds \ {i}
      BY <2>2, <2>3 DEF Known, DeletionsInv, ObjectsInv, TypeOK
    <3>2. doomed # NoAddress => client[doomed] \in WsIds \ {i}
      BY <2>2 DEF Known, ObjectsInv, TypeOK
    <3> QED BY <2>1, <2>3, <3>1, <3>2 DEF Known, DeletionsInv, Ended, TypeOK
  <2>5. RoutedInv'
    <3>1. \A j \in WsIds : activeTransports[j] # NoAddress => activeTransports[j] # a
      BY <2>1 DEF Known, RoutedInv, WsIds
    <3> QED BY <2>1, <2>2, <2>3, <3>1 DEF Known, RoutedInv, RoutedToOwner, TypeOK, Open, ObjectsInv
  <2> QED BY <2>4, <2>5
<1>2. ASSUME NEW i \in WsIds, NEW a \in Addresses, ConnectRejected(i, a) PROVE FALSE
  BY <1>2 DEF ConnectRejected, Quiet
<1>3. ASSUME NEW i \in WsIds, Data(i) PROVE DeletionsInv' /\ RoutedInv'
  <2>1. /\ leaving = NoId /\ activeTransports[i] # NoAddress
        /\ activeTransports[i] \in Addresses
        /\ Dispatched(i, activeTransports[i])
        /\ UNCHANGED <<client, clients, doomed, leaving, activeTransports>>
    BY <1>3 DEF Data, Known, TypeOK, listenerVars, workerVars
  <2>2. wild' = wild /\ strayed' = strayed
    BY <2>1, GoesHome DEF WsIds, Known, RoutedInv, RoutedToOwner
  <2>3. /\ UNCHANGED deleteMqttClientQueue
        /\ \A j \in WsIds : /\ wsStatus'[j] = "gone" <=> wsStatus[j] = "gone"
                            /\ wsStatus'[j] \in Open <=> wsStatus[j] \in Open
    BY <1>3, <2>1, CloseType DEF Data, Known
  <2> QED BY <2>1, <2>2, <2>3, QuietKept
<1>4. ASSUME NEW i \in WsIds, Disconnect(i) PROVE DeletionsInv' /\ RoutedInv'
  <2> DEFINE a == activeTransports[i]
  <2>1. /\ leaving = NoId /\ wsStatus[i] \in Open /\ leaving' = i
        /\ a # NoAddress /\ a \in Addresses
        /\ HandleDisconnect(i) /\ Dispatched(i, a)
        /\ UNCHANGED <<wsStatus, client, clients, doomed, activeTransports>>
    BY <1>4 DEF Disconnect, HandleDisconnect, Known, TypeOK, workerVars
  <2>2. client[a] = i /\ i # NoId
    BY <2>1 DEF Known, RoutedInv, WsIds
  <2>3. /\ a \in clients /\ a # doomed
        /\ \A n \in 1..Len(deleteMqttClientQueue) : deleteMqttClientQueue[n] # a
    BY <2>1, <2>2, OpenIsRegistered
  <2>4. wild' = {} /\ strayed' = {}
    BY <2>1, <2>2, GoesHome
  <2>5. DeletionsInv'
    <3>1. CASE deleteMqttClientQueue' = Append(deleteMqttClientQueue, a)
      <4>1. /\ deleteMqttClientQueue' \in Seq(Addresses)
            /\ Len(deleteMqttClientQueue') = Len(deleteMqttClientQueue) + 1
            /\ \A n \in 1..Len(deleteMqttClientQueue') :
                  deleteMqttClientQueue'[n] =
                      IF n \in 1..Len(deleteMqttClientQueue)
                      THEN deleteMqttClientQueue[n] ELSE a
            /\ Len(deleteMqttClientQueue) \in Nat
        BY <2>1, <3>1 DEF Known, TypeOK
      <4>2. \A n \in 1..Len(deleteMqttClientQueue') :
               n \notin 1..Len(deleteMqttClientQueue) => n = Len(deleteMqttClientQueue')
        BY <4>1
      <4>3. \A n \in 1..Len(deleteMqttClientQueue) : Ended(client[deleteMqttClientQueue[n]])'
        BY <2>1, <4>1 DEF Known, DeletionsInv, Ended, ObjectsInv, TypeOK
      <4>4. \A n \in 1..Len(deleteMqttClientQueue') :
               /\ deleteMqttClientQueue'[n] \in clients
               /\ Ended(client[deleteMqttClientQueue[n]])'
        BY <2>1, <2>2, <2>3, <4>1, <4>3 DEF Known, DeletionsInv, Ended
      <4>5. \A m, n \in 1..Len(deleteMqttClientQueue') :
               deleteMqttClientQueue'[m] = deleteMqttClientQueue'[n] => m = n
        BY <2>3, <4>1, <4>2 DEF Known, DeletionsInv
      <4>6. (doomed # NoAddress => Ended(client[doomed]))'
        BY <2>1 DEF Known, DeletionsInv, Ended, ObjectsInv, TypeOK
      <4> QED BY <2>1, <4>4, <4>5, <4>6 DEF DeletionsInv
    <3>2. CASE UNCHANGED deleteMqttClientQueue
      <4>1. \A b \in clients : client[b] # NoId
        BY DEF Known, ObjectsInv, TypeOK
      <4>2. doomed # NoAddress => client[doomed] # NoId
        BY DEF Known, ObjectsInv, TypeOK
      <4> QED BY <2>1, <3>2, <4>1, <4>2 DEF Known, DeletionsInv, Ended
    <3> QED BY <2>1, <2>2, <3>1, <3>2 DEF HandleDisconnect, QueueClientForDeletion
  <2>6. RoutedInv'
    <3>1. \A j \in WsIds : j # leaving
      BY <2>1 DEF WsIds
    <3> QED BY <2>1, <2>4, <3>1 DEF Known, RoutedInv, RoutedToOwner
  <2> QED BY <2>5, <2>6
<1>5. ASSUME NEW i \in WsIds, DisconnectUnrouted(i) PROVE DeletionsInv' /\ RoutedInv'
  <2>1. /\ leaving = NoId /\ wsStatus[i] \in Open /\ activeTransports[i] = NoAddress
        /\ wsStatus' = [wsStatus EXCEPT ![i] = "gone"]
        /\ UNCHANGED <<client, clients, deleteMqttClientQueue, activeTransports, leaving,
                       doomed, strayed, wild>>
    BY <1>5 DEF DisconnectUnrouted, listenerVars, workerVars, historyVars
  <2>2. \A a \in Addresses : client[a] # NoId => client[a] \in WsIds
    BY DEF Known, TypeOK
  <2>3. DeletionsInv'
    <3>1. \A n \in 1..Len(deleteMqttClientQueue) : client[deleteMqttClientQueue[n]] \in WsIds
      BY <2>2 DEF Known, DeletionsInv, ObjectsInv, TypeOK
    <3>2. doomed # NoAddress => client[doomed] \in WsIds
      BY <2>2 DEF Known, ObjectsInv, TypeOK
    <3> QED BY <2>1, <3>1, <3>2 DEF Known, DeletionsInv, Ended, TypeOK
  <2>4. RoutedInv'
    BY <2>1, <2>2 DEF Known, RoutedInv, RoutedToOwner, TypeOK, ObjectsInv, Open
  <2> QED BY <2>3, <2>4
<1>6. CASE Erase
  <2>1. /\ leaving \in WsIds /\ leaving' = NoId
        /\ activeTransports' = [activeTransports EXCEPT ![leaving] = NoAddress]
        /\ wsStatus' = [wsStatus EXCEPT ![leaving] = "gone"]
        /\ wild' = wild
        /\ UNCHANGED <<client, clients, doomed, deleteMqttClientQueue, strayed>>
    BY <1>6 DEF Erase, Known, TypeOK, RoutedInv, workerVars
  <2>2. \A a \in Addresses : client[a] # NoId => client[a] \in WsIds
    BY DEF Known, TypeOK
  <2>3. DeletionsInv'
    <3>1. \A n \in 1..Len(deleteMqttClientQueue) : client[deleteMqttClientQueue[n]] \in WsIds
      BY <2>2 DEF Known, DeletionsInv, ObjectsInv, TypeOK
    <3>2. doomed # NoAddress => client[doomed] \in WsIds
      BY <2>2 DEF Known, ObjectsInv, TypeOK
    <3> QED BY <2>1, <3>1, <3>2 DEF Known, DeletionsInv, Ended, TypeOK
  <2>4. RoutedInv'
    BY <2>1, <2>2 DEF Known, RoutedInv, RoutedToOwner, TypeOK, ObjectsInv, Open
  <2> QED BY <2>3, <2>4
<1>7. ASSUME NEW a \in Addresses, KeepAliveTimeout(a) PROVE DeletionsInv' /\ RoutedInv'
  <2>1. /\ UNCHANGED deleteMqttClientQueue
        /\ \A j \in WsIds : /\ wsStatus'[j] = "gone" <=> wsStatus[j] = "gone"
                            /\ wsStatus'[j] \in Open <=> wsStatus[j] \in Open
    BY <1>7, CloseType DEF KeepAliveTimeout, Known
  <2> QED BY <1>7, <2>1, QuietKept DEF KeepAliveTimeout, listenerVars, workerVars
<1>8. CASE TakeDeletion
  <2> DEFINE a == Head(deleteMqttClientQueue)
             q == deleteMqttClientQueue
  <2>1. /\ doomed = NoAddress /\ q # <<>> /\ q \in Seq(Addresses)
        /\ deleteMqttClientQueue' = Tail(q)
        /\ clients' = clients \ {a}
        /\ doomed' = IF a \in clients THEN a ELSE NoAddress
        /\ UNCHANGED <<wsStatus, client, leaving, activeTransports, strayed, wild>>
    BY <1>8 DEF TakeDeletion, Known, TypeOK, listenerVars, historyVars
  <2>2. /\ Len(q) \in Nat /\ Len(q) > 0 /\ a = q[1] /\ Len(Tail(q)) = Len(q) - 1
        /\ \A n \in 1..Len(Tail(q)) : Tail(q)[n] = q[n + 1] /\ n + 1 \in 1..Len(q)
    BY <2>1
  <2>3. a \in clients /\ Ended(client[a]) /\ doomed' = a
    BY <2>1, <2>2 DEF Known, DeletionsInv
  <2>4. \A n \in 1..Len(Tail(q)) : Tail(q)[n] # a
    BY <2>2 DEF Known, DeletionsInv
  <2>5. DeletionsInv'
    <3>1. \A n \in 1..Len(Tail(q)) :
             Tail(q)[n] \in clients \ {a} /\ Ended(client[Tail(q)[n]])
      BY <2>2, <2>4 DEF Known, DeletionsInv
    <3>2. \A m, n \in 1..Len(Tail(q)) : Tail(q)[m] = Tail(q)[n] => m = n
      BY <2>2 DEF Known, DeletionsInv
    <3>3. \A i : Ended(i)' <=> Ended(i)
      BY <2>1 DEF Ended
    <3> QED BY <2>1, <2>3, <3>1, <3>2, <3>3 DEF DeletionsInv, Ended
  <2>6. RoutedInv'
    BY <2>1 DEF Known, RoutedInv, RoutedToOwner
  <2> QED BY <2>5, <2>6
<1>9. CASE DeleteClient
  <2>1. /\ doomed \in Addresses /\ doomed # NoAddress /\ doomed' = NoAddress /\ Close(doomed)
        /\ client' = [client EXCEPT ![doomed] = NoId]
        /\ UNCHANGED <<clients, leaving, activeTransports, strayed, wild>>
    BY <1>9 DEF DeleteClient, Known, TypeOK, listenerVars
  <2>2. /\ UNCHANGED deleteMqttClientQueue
        /\ \A j \in WsIds : /\ wsStatus'[j] = "gone" <=> wsStatus[j] = "gone"
                            /\ wsStatus'[j] \in Open <=> wsStatus[j] \in Open
    BY <2>1, CloseType DEF Known
  <2>3. doomed \notin clients /\ client[doomed] \in WsIds /\ Ended(client[doomed])
    BY <2>1 DEF Known, ObjectsInv, DeletionsInv, TypeOK
  <2>4. DeletionsInv'
    <3>1. \A n \in 1..Len(deleteMqttClientQueue) :
             /\ deleteMqttClientQueue[n] \in clients
             /\ deleteMqttClientQueue[n] # doomed
             /\ client[deleteMqttClientQueue[n]] \in WsIds
             /\ deleteMqttClientQueue[n] \in Addresses
      BY <2>3 DEF Known, DeletionsInv, ObjectsInv, TypeOK
    <3>2. \A n \in 1..Len(deleteMqttClientQueue) :
             client'[deleteMqttClientQueue[n]] = client[deleteMqttClientQueue[n]]
      BY <2>1, <3>1 DEF Known, TypeOK
    <3> QED BY <2>1, <2>2, <3>1, <3>2 DEF Known, DeletionsInv, Ended
  <2>5. RoutedInv'
    <3>1. \A i \in WsIds :
             activeTransports[i] # NoAddress /\ i # leaving => activeTransports[i] # doomed
      BY <2>3 DEF Known, RoutedInv, RoutesInv, RoutesOfTheLiving, Ended, Open
    <3>2. \A a \in clients : client'[a] = client[a] /\ client[a] \in WsIds
      BY <2>1, <2>3 DEF Known, ObjectsInv, TypeOK
    <3> QED BY <2>1, <2>2, <3>1, <3>2 DEF Known, RoutedInv, RoutedToOwner, TypeOK
  <2> QED BY <2>4, <2>5
<1>10. CASE StopListener
  BY <1>10 DEF StopListener, Quiet
<1>11. CASE StopWorker
  BY <1>11 DEF StopWorker, Known, Quiet
<1>12. CASE DestroyBroker
  BY <1>12 DEF DestroyBroker, Known, Quiet
<1>13. CASE UNCHANGED vars
  BY <1>13, QuietKept DEF vars, listenerVars, workerVars, historyVars
<1> QED BY <1>1, <1>2, <1>3, <1>4, <1>5, <1>6, <1>7, <1>8, <1>9, <1>10, <1>11, <1>12,
        <1>13 DEF Next, Worker

-----------------------------------------------------------------------------
(* Capacity: the registry, and with it the deletion queue.                 *)

\* The registry never holds more clients than maxNumClients.
LEMMA CapacityStep == TypeOK /\ CapacityInv /\ [Next]_vars => CapacityInv'
<1> SUFFICES ASSUME TypeOK, CapacityInv, [Next]_vars PROVE CapacityInv'
  OBVIOUS
<1>0. IsFiniteSet(clients) /\ Cardinality(clients) \in Nat
  BY WsRoutingAssumption, FS_Subset, FS_CardinalityType DEF TypeOK
<1>1. ASSUME NEW i \in WsIds, NEW a \in Addresses, ConnectAccepted(i, a) PROVE CapacityInv'
  <2>1. Cardinality(clients) # maxNumClients /\ clients' = clients \cup {a}
    BY <1>1 DEF ConnectAccepted
  <2>2. Cardinality(clients \cup {a}) <= Cardinality(clients) + 1
    <3>1. CASE a \in clients
      <4>1. clients \cup {a} = clients
        BY <3>1
      <4> QED BY <1>0, <4>1
    <3>2. CASE a \notin clients
      <4>1. Cardinality(clients \cup {a}) = Cardinality(clients) + 1
        BY <1>0, <3>2, FS_AddElement
      <4> QED BY <1>0, <4>1
    <3> QED BY <3>1, <3>2
  <2>3. Cardinality(clients \cup {a}) \in Nat
    BY <1>0, FS_AddElement, FS_CardinalityType
  <2> QED BY <1>0, <2>1, <2>2, <2>3, WsRoutingAssumption DEF CapacityInv
<1>2. ASSUME NEW i \in WsIds, NEW a \in Addresses, ConnectRejected(i, a) PROVE CapacityInv'
  BY <1>2 DEF ConnectRejected, CapacityInv
<1>3. ASSUME NEW i \in WsIds, Data(i) PROVE CapacityInv'
  BY <1>3 DEF Data, CapacityInv
<1>4. ASSUME NEW i \in WsIds, Disconnect(i) PROVE CapacityInv'
  BY <1>4 DEF Disconnect, CapacityInv
<1>5. ASSUME NEW i \in WsIds, DisconnectUnrouted(i) PROVE CapacityInv'
  BY <1>5 DEF DisconnectUnrouted, CapacityInv
<1>6. CASE Erase
  BY <1>6 DEF Erase, CapacityInv
<1>7. ASSUME NEW a \in Addresses, KeepAliveTimeout(a) PROVE CapacityInv'
  BY <1>7 DEF KeepAliveTimeout, CapacityInv
<1>8. CASE TakeDeletion
  <2>1. clients' \subseteq clients
    BY <1>8 DEF TakeDeletion
  <2>2. IsFiniteSet(clients') /\ Cardinality(clients') <= Cardinality(clients)
    BY <1>0, <2>1, FS_Subset
  <2>3. Cardinality(clients') \in Nat
    BY <2>2, FS_CardinalityType
  <2> QED BY <1>0, <2>2, <2>3, WsRoutingAssumption DEF CapacityInv
<1>9. CASE DeleteClient
  BY <1>9 DEF DeleteClient, CapacityInv
<1>10. CASE StopListener
  BY <1>10 DEF StopListener, CapacityInv
<1>11. CASE StopWorker
  BY <1>11 DEF StopWorker, CapacityInv
<1>12. CASE DestroyBroker
  BY <1>12, FS_EmptySet, WsRoutingAssumption DEF DestroyBroker, CapacityInv
<1>13. CASE UNCHANGED vars
  BY <1>13 DEF vars, CapacityInv
<1> QED BY <1>1, <1>2, <1>3, <1>4, <1>5, <1>6, <1>7, <1>8, <1>9, <1>10, <1>11, <1>12,
        <1>13 DEF Next, Worker

\* Keys of registered clients, none twice and one client's missing, leave a place
\* in a queue that has one for every client.
LEMMA PlaceForOneMore ==
    ASSUME Known, CapacityInv, maxNumClients <= DeleteQueueSize, NEW a \in clients,
           \A n \in 1..Len(deleteMqttClientQueue) : deleteMqttClientQueue[n] # a
    PROVE  Len(deleteMqttClientQueue) < DeleteQueueSize
<1> DEFINE q == deleteMqttClientQueue
           S == 1..Len(q)
           T == clients \ {a}
<1>0. IsFiniteSet(clients) /\ Cardinality(clients) \in Nat
  BY WsRoutingAssumption, FS_Subset, FS_CardinalityType DEF Known, TypeOK
<1>1. q \in Seq(Addresses) /\ Len(q) \in Nat /\ DOMAIN q = S
  BY DEF Known, TypeOK
<1>2. \A n \in S : q[n] \in T
  BY DEF Known, DeletionsInv
<1>3. q \in [S -> Addresses]
  BY <1>1
<1>4. q \in [S -> T]
  BY <1>2, <1>3
<1>5. q \in Injection(S, T)
  <2>1. \A m, n \in S : q[m] = q[n] => m = n
    BY DEF Known, DeletionsInv
  <2> QED BY <1>4, <2>1 DEF Injection, IsInjective
<1>6. IsFiniteSet(T) /\ Cardinality(T) = Cardinality(clients) - 1
  BY <1>0, FS_RemoveElement
<1>7. Cardinality(S) <= Cardinality(T)
  BY <1>5, <1>6, FS_Injection
<1>8. Cardinality(S) = Len(q)
  BY <1>1, FS_Interval
<1> QED BY <1>0, <1>1, <1>6, <1>7, <1>8, WsRoutingAssumption DEF CapacityInv

\* Every step forgets no deletion as long as there has been room for everyone.
LEMMA ForgottenStep == Inv /\ [Next]_vars => ForgottenInv'
<1> SUFFICES ASSUME Inv, [Next]_vars, rejected' = {}, maxNumClients <= DeleteQueueSize
             PROVE  forgotten' = {}
  BY DEF ForgottenInv, DeletionsFit
<1>0. rejected = {} => forgotten = {}
  BY DEF Inv, ForgottenInv, DeletionsFit
<1>1. ASSUME NEW i \in WsIds, NEW a \in Addresses, ConnectAccepted(i, a) PROVE forgotten' = {}
  BY <1>0, <1>1 DEF ConnectAccepted, Arrives
<1>2. ASSUME NEW i \in WsIds, NEW a \in Addresses, ConnectRejected(i, a) PROVE forgotten' = {}
  BY <1>2 DEF ConnectRejected
<1>3. ASSUME NEW i \in WsIds, Data(i) PROVE forgotten' = {}
  <2>1. activeTransports[i] \in Addresses /\ UNCHANGED rejected
    BY <1>3 DEF Data, Inv, TypeOK
  <2>2. UNCHANGED forgotten
    BY <1>3, <2>1, CloseType DEF Data, Inv
  <2> QED BY <1>0, <2>1, <2>2
<1>4. ASSUME NEW i \in WsIds, Disconnect(i) PROVE forgotten' = {}
  <2> DEFINE a == activeTransports[i]
  <2>1. /\ leaving = NoId /\ wsStatus[i] \in Open
        /\ a # NoAddress /\ a \in Addresses
        /\ HandleDisconnect(i) /\ Dispatched(i, a)
        /\ rejected = {}
    BY <1>4 DEF Disconnect, HandleDisconnect, Inv, TypeOK
  <2>2. Known
    BY <2>1 DEF Inv, Known, Quiet, RoutesInv, TypeOK
  <2>3. client[a] = i /\ i # leaving
    BY <2>1, <2>2 DEF Known, RoutedInv, WsIds
  <2>4. /\ a \in clients
        /\ \A n \in 1..Len(deleteMqttClientQueue) : deleteMqttClientQueue[n] # a
    BY <2>1, <2>2, <2>3, OpenIsRegistered
  <2>5. Len(deleteMqttClientQueue) < DeleteQueueSize
    BY <2>2, <2>4, PlaceForOneMore DEF Inv
  <2>6. UNCHANGED forgotten
    BY <2>1, <2>5 DEF HandleDisconnect, QueueClientForDeletion
  <2> QED BY <1>0, <2>1, <2>6
<1>5. ASSUME NEW i \in WsIds, DisconnectUnrouted(i) PROVE forgotten' = {}
  BY <1>0, <1>5 DEF DisconnectUnrouted, historyVars
<1>6. CASE Erase
  BY <1>0, <1>6 DEF Erase
<1>7. ASSUME NEW a \in Addresses, KeepAliveTimeout(a) PROVE forgotten' = {}
  BY <1>0, <1>7, CloseType DEF KeepAliveTimeout, Inv
<1>8. CASE TakeDeletion
  BY <1>0, <1>8 DEF TakeDeletion, historyVars
<1>9. CASE DeleteClient
  <2>1. doomed \in Addresses
    BY <1>9 DEF DeleteClient, Inv, TypeOK
  <2> QED BY <1>0, <1>9, <2>1, CloseType DEF DeleteClient, Inv
<1>10. CASE StopListener
  BY <1>0, <1>10 DEF StopListener, historyVars
<1>11. CASE StopWorker
  BY <1>0, <1>11 DEF StopWorker, historyVars
<1>12. CASE DestroyBroker
  BY <1>0, <1>12 DEF DestroyBroker, historyVars
<1>13. CASE UNCHANGED vars
  BY <1>0, <1>13 DEF vars, historyVars
<1> QED BY <1>1, <1>2, <1>3, <1>4, <1>5, <1>6, <1>7, <1>8, <1>9, <1>10, <1>11, <1>12,
        <1>13 DEF Next, Worker

-----------------------------------------------------------------------------
(* The invariant, and what follows from it.                                *)

\* The invariant holds at the start.
LEMMA InvInit == Init => Inv
<1> SUFFICES ASSUME Init PROVE Inv
  OBVIOUS
<1>1. TypeOK
  BY WsRoutingAssumption DEF Init, TypeOK
<1>2. ObjectsInv /\ RoutesInv
  BY WsRoutingAssumption DEF Init, ObjectsInv, RoutesInv, RoutesOfTheLiving
<1>3. DeletionsInv /\ RoutedInv
  BY DEF Init, DeletionsInv, RoutedInv, RoutedToOwner
<1>4. CapacityInv /\ ForgottenInv
  BY WsRoutingAssumption, FS_EmptySet DEF Init, CapacityInv, ForgottenInv, DeletionsFit
<1> QED BY <1>1, <1>2, <1>3, <1>4 DEF Inv

\* Nobody is taken back after a rejection, and the listener does not start again.
LEMMA QuietBefore == [Next]_vars /\ Quiet' => Quiet
<1> SUFFICES ASSUME [Next]_vars, Quiet' PROVE Quiet
  OBVIOUS
<1>1. rejected \subseteq rejected'
  BY DEF Next, Worker, ConnectAccepted, ConnectRejected, Data, Disconnect, DisconnectUnrouted,
         Erase, KeepAliveTimeout, TakeDeletion, DeleteClient, StopListener, StopWorker,
         DestroyBroker, historyVars, vars
<1>2. listening' => listening
  BY DEF Next, Worker, ConnectAccepted, ConnectRejected, Arrives, Data, Disconnect,
         DisconnectUnrouted, Erase, KeepAliveTimeout, TakeDeletion, DeleteClient, StopListener,
         StopWorker, DestroyBroker, listenerVars, vars
<1> QED BY <1>1, <1>2 DEF Quiet

\* Every step keeps the invariant.
LEMMA InvStep == Inv /\ [Next]_vars => Inv'
<1> SUFFICES ASSUME Inv, [Next]_vars PROVE Inv'
  OBVIOUS
<1>1. TypeOK' /\ ObjectsInv' /\ RoutesInv'
  BY TypeStep, ObjectsStep, RoutesStep DEF Inv
<1>2. Quiet' => DeletionsInv' /\ RoutedInv'
  BY QuietBefore, QuietStep DEF Inv, Known
<1>3. CapacityInv' /\ ForgottenInv'
  BY CapacityStep, ForgottenStep DEF Inv
<1> QED BY <1>1, <1>2, <1>3 DEF Inv

\* The invariant holds in every reachable state.
LEMMA Invariant == Spec => []Inv
  BY InvInit, InvStep, PTL DEF Spec

\* As long as there has been room for everyone and the listener serves, every event
\* goes to the transport of its own client and never to a freed one.
THEOREM EventsGoHome == Spec => []RoutedWhileRoom
<1>1. Inv => RoutedWhileRoom
  BY DEF Inv, RoutedWhileRoom, Quiet, RoutedInv
<1> QED BY <1>1, Invariant, PTL

\* Every registered client with a connection is reached by its events.
THEOREM RegisteredReachable == Spec => []ClientsReachable
<1>1. Inv => ClientsReachable
  BY DEF Inv, ClientsReachable, Quiet, RoutedInv
<1> QED BY <1>1, Invariant, PTL

\* The map holds entries of clients with a connection only, whatever happens.
THEOREM MapDoesNotLeak == Spec => []RoutesOfTheLiving
<1>1. Inv => RoutesOfTheLiving
  BY DEF Inv, RoutesInv
<1> QED BY <1>1, Invariant, PTL

\* A deletion queue with a place for every client loses no deletion.
THEOREM NoDeletionForgotten == Spec => []DeletionsFit
<1>1. Inv => DeletionsFit
  BY DEF Inv, ForgottenInv
<1> QED BY <1>1, Invariant, PTL

\* Every transport is in the registry or in the worker's hands, and not in both.
THEOREM TransportsOwned == Spec => []OwnedOnce
<1>1. Inv => OwnedOnce
  BY DEF Inv, ObjectsInv, OwnedOnce
<1> QED BY <1>1, Invariant, PTL
=============================================================================
