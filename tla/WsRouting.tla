----------------------------- MODULE WsRouting -----------------------------
(***************************************************************************)
(* The WebSocket listener.  AsyncWebSocket reports the events of all its   *)
(* clients to one callback, WsServerListener::onWsEvent, which finds the   *)
(* client's transport in activeTransports.  The transport itself belongs   *)
(* to an MqttClient: the network task creates it, the worker deletes it,   *)
(* and acceptClient deletes the one it has no room for.                    *)
(*                                                                         *)
(* A WebSocket client is its id, which AsyncWebSocket does not reuse; a    *)
(* transport is its address, which the allocator may hand out again.       *)
(* Frames that are fragments or not binary are not routed and change       *)
(* nothing.  Locks, publications and the application are MqttBroker's      *)
(* subject: here the registry changes in one step.  close() of a WebSocket *)
(* client that is gone, whose pointer the transport keeps, does nothing.   *)
(***************************************************************************)
EXTENDS Naturals, Sequences, FiniteSets

CONSTANTS
    Addresses,          \* where WsTransport objects may live
    NoAddress,
    maxNumClients,
    DeleteQueueSize,    \* 20 in the code
    MaxWsId             \* bound: WebSocket clients in a behaviour

WsIds == 1..MaxWsId
NoId  == 0

ASSUME WsRoutingAssumption ==
    /\ IsFiniteSet(Addresses) /\ NoAddress \notin Addresses
    /\ maxNumClients \in Nat \ {0} /\ DeleteQueueSize \in Nat \ {0}
    /\ MaxWsId \in Nat

VARIABLES
    wsStatus,               \* AsyncWebSocketClient: its status(), "gone" after its last event
    client,                 \* the transport at an address: its _client, NoId where none lives
    activeTransports,
    clients,                \* the broker's registry, its keys
    deleteMqttClientQueue,
    leaving,                \* the id whose disconnection onWsEvent is handling
    doomed,                 \* the transport whose client the worker has taken out to delete
    listening, working,     \* not yet stopped
    rejected,               \* history: ids for which there was no room
    strayed,                \* history: events of one id that reached another's transport
    wild,                   \* history: ids whose events used a freed transport or map entry
    forgotten               \* history: transports whose deletion the full queue refused

listenerVars == <<activeTransports, leaving, listening>>
workerVars   == <<doomed, working>>
historyVars  == <<rejected, strayed, wild, forgotten>>
vars == <<wsStatus, client, clients, deleteMqttClientQueue, listenerVars, workerVars, historyVars>>

Init ==
    /\ wsStatus = [i \in WsIds |-> "new"]
    /\ client = [a \in Addresses |-> NoId]
    /\ activeTransports = [i \in WsIds |-> NoAddress]
    /\ clients = {} /\ deleteMqttClientQueue = <<>>
    /\ leaving = NoId /\ doomed = NoAddress
    /\ listening = TRUE /\ working = TRUE
    /\ rejected = {} /\ strayed = {} /\ wild = {} /\ forgotten = {}

-----------------------------------------------------------------------------
(* The transport and its callbacks.                                        *)

Open == {"connected", "closing"}

\* Mutant: one key more than the queue holds.
QueueClientForDeletionPastEnd(a) ==
    IF Len(deleteMqttClientQueue) <= DeleteQueueSize
    THEN /\ deleteMqttClientQueue' = Append(deleteMqttClientQueue, a)
         /\ UNCHANGED forgotten
    ELSE /\ forgotten' = forgotten \cup {a}
         /\ UNCHANGED deleteMqttClientQueue

\* queueClientForDeletion: a key that finds the queue full is dropped.
QueueClientForDeletion(a) ==
    IF Len(deleteMqttClientQueue) < DeleteQueueSize
    THEN /\ deleteMqttClientQueue' = Append(deleteMqttClientQueue, a)
         /\ UNCHANGED forgotten
    ELSE /\ forgotten' = forgotten \cup {a}
         /\ UNCHANGED deleteMqttClientQueue

\* Mutant: as in TcpTransport, close() tells the broker at once.
CloseAndReport(a) ==
    /\ wsStatus' = IF wsStatus[client[a]] = "connected"
                   THEN [wsStatus EXCEPT ![client[a]] = "closing"] ELSE wsStatus
    /\ IF wsStatus[client[a]] = "connected"
       THEN QueueClientForDeletion(a)
       ELSE UNCHANGED <<deleteMqttClientQueue, forgotten>>

\* WsTransport::close and the destructor: the closing handshake begins, and
\* its end is reported by the library, as a disconnection.
Close(a) ==
    /\ wsStatus' = IF wsStatus[client[a]] = "connected"
                   THEN [wsStatus EXCEPT ![client[a]] = "closing"] ELSE wsStatus
    /\ UNCHANGED <<deleteMqttClientQueue, forgotten>>

\* An event of i is handed to the transport at address a, whoever lives there.
Dispatched(i, a) ==
    /\ wild' = IF client[a] = NoId THEN wild \cup {i} ELSE wild
    /\ strayed' = IF client[a] \in {NoId, i} THEN strayed
                  ELSE strayed \cup {<<i, client[a]>>}

-----------------------------------------------------------------------------
(* onWsEvent, in the network task: one event at a time.                    *)

\* A new client gets the next id, and its transport some free address.
Arrives(i, a) ==
    /\ leaving = NoId /\ listening
    /\ wsStatus[i] = "new" /\ \A j \in 1..(i - 1) : wsStatus[j] # "new"
    /\ client[a] = NoId
    /\ activeTransports' = [activeTransports EXCEPT ![i] = a]
    /\ UNCHANGED <<deleteMqttClientQueue, leaving, listening, workerVars, strayed, wild, forgotten>>

ConnectAccepted(i, a) ==
    /\ Cardinality(clients) # maxNumClients
    /\ Arrives(i, a)
    /\ wsStatus' = [wsStatus EXCEPT ![i] = "connected"]
    /\ client' = [client EXCEPT ![a] = i]
    /\ clients' = clients \cup {a}
    /\ UNCHANGED rejected

\* The broker is full: the transport is closed and deleted again.
ConnectRejected(i, a) ==
    /\ Cardinality(clients) = maxNumClients
    /\ Arrives(i, a)
    /\ wsStatus' = [wsStatus EXCEPT ![i] = "closing"]
    /\ rejected' = rejected \cup {i}
    /\ UNCHANGED <<client, clients>>

\* A whole binary frame.  The packet may make its client close the connection.
Data(i) ==
    LET a == activeTransports[i] IN
    /\ leaving = NoId /\ wsStatus[i] \in Open
    /\ a # NoAddress
    /\ Dispatched(i, a)
    /\ \/ UNCHANGED <<wsStatus, deleteMqttClientQueue, forgotten>>
       \/ client[a] # NoId /\ Close(a)
    /\ UNCHANGED <<client, clients, listenerVars, workerVars, rejected>>

\* Mutant: the disconnection is reported by the transport and by the listener.
HandleDisconnectTwice(i) ==
    LET a == activeTransports[i]
        reports == IF client[a] = NoId THEN <<>> ELSE <<a, a>>
        kept == {n \in 1..Len(reports) : Len(deleteMqttClientQueue) + n <= DeleteQueueSize}
    IN  /\ Dispatched(i, a)
        /\ deleteMqttClientQueue' = deleteMqttClientQueue \o SubSeq(reports, 1, Cardinality(kept))
        /\ forgotten' = IF Cardinality(kept) < Len(reports) THEN forgotten \cup {a} ELSE forgotten

\* WsTransport::handleDisconnect.
HandleDisconnect(i) ==
    LET a == activeTransports[i] IN
    /\ Dispatched(i, a)
    /\ IF client[a] = NoId
       THEN UNCHANGED <<deleteMqttClientQueue, forgotten>>
       ELSE QueueClientForDeletion(a)

\* The connection ends, closed by either side: the transport is told ...
Disconnect(i) ==
    /\ leaving = NoId /\ wsStatus[i] \in Open
    /\ activeTransports[i] # NoAddress
    /\ HandleDisconnect(i)
    /\ leaving' = i
    /\ UNCHANGED <<wsStatus, client, clients, activeTransports, listening, workerVars, rejected>>

\* Mutant: the entry stays in the map.
EraseNothing ==
    /\ leaving # NoId
    /\ wsStatus' = [wsStatus EXCEPT ![leaving] = "gone"]
    /\ leaving' = NoId
    /\ UNCHANGED <<activeTransports, client, clients, deleteMqttClientQueue, listening,
                   workerVars, historyVars>>

\* Mutant: the map is cleared.
EraseAll ==
    /\ leaving # NoId
    /\ wsStatus' = [wsStatus EXCEPT ![leaving] = "gone"]
    /\ activeTransports' = [i \in WsIds |-> NoAddress]
    /\ leaving' = NoId
    /\ UNCHANGED <<client, clients, deleteMqttClientQueue, listening, workerVars, historyVars>>

\* ... and its entry erased, by the iterator found before: stop() may have cleared
\* the map, and the worker may already be deleting the transport.  Then the library
\* frees its client.
Erase ==
    /\ leaving # NoId
    /\ wild' = IF activeTransports[leaving] = NoAddress THEN wild \cup {leaving} ELSE wild
    /\ activeTransports' = [activeTransports EXCEPT ![leaving] = NoAddress]
    /\ wsStatus' = [wsStatus EXCEPT ![leaving] = "gone"]
    /\ leaving' = NoId
    /\ UNCHANGED <<client, clients, deleteMqttClientQueue, listening, workerVars,
                   rejected, strayed, forgotten>>

\* After stop() a disconnection finds no entry.
DisconnectUnrouted(i) ==
    /\ leaving = NoId /\ wsStatus[i] \in Open
    /\ activeTransports[i] = NoAddress
    /\ wsStatus' = [wsStatus EXCEPT ![i] = "gone"]
    /\ UNCHANGED <<client, clients, deleteMqttClientQueue, listenerVars, workerVars, historyVars>>

-----------------------------------------------------------------------------
(* The worker: processKeepAlives and processDeletions.                     *)

KeepAliveTimeout(a) ==
    /\ working /\ doomed = NoAddress
    /\ a \in clients /\ wsStatus[client[a]] = "connected"
    /\ Close(a)
    /\ UNCHANGED <<client, clients, listenerVars, workerVars, rejected, strayed, wild>>

\* Mutant: the registry forgets the client and nobody deletes it.
TakeWithoutDeleting ==
    /\ working /\ doomed = NoAddress
    /\ deleteMqttClientQueue # <<>>
    /\ clients' = clients \ {Head(deleteMqttClientQueue)}
    /\ deleteMqttClientQueue' = Tail(deleteMqttClientQueue)
    /\ UNCHANGED <<wsStatus, client, doomed, working, listenerVars, historyVars>>

\* deleteMqttClient: the client leaves the registry; a key that is not there is skipped.
TakeDeletion ==
    /\ working /\ doomed = NoAddress
    /\ deleteMqttClientQueue # <<>>
    /\ LET a == Head(deleteMqttClientQueue) IN
       doomed' = IF a \in clients THEN a ELSE NoAddress
    /\ clients' = clients \ {Head(deleteMqttClientQueue)}
    /\ deleteMqttClientQueue' = Tail(deleteMqttClientQueue)
    /\ UNCHANGED <<wsStatus, client, working, listenerVars, historyVars>>

\* ~MqttClient closes and deletes the transport.
DeleteClient ==
    /\ working /\ doomed # NoAddress
    /\ Close(doomed)
    /\ client' = [client EXCEPT ![doomed] = NoId]
    /\ doomed' = NoAddress
    /\ UNCHANGED <<clients, working, listenerVars, rejected, strayed, wild>>

-----------------------------------------------------------------------------
(* The application: stopBroker and ~MqttBroker.                            *)

\* WsServerListener::stop: no new clients, and no entries for those there are.
StopListener ==
    /\ listening
    /\ listening' = FALSE
    /\ activeTransports' = [i \in WsIds |-> NoAddress]
    /\ UNCHANGED <<wsStatus, client, clients, deleteMqttClientQueue, leaving, workerVars,
                   historyVars>>

\* The worker task is deleted, wherever it is.
StopWorker ==
    /\ ~listening /\ working
    /\ working' = FALSE
    /\ UNCHANGED <<wsStatus, client, clients, deleteMqttClientQueue, doomed, listenerVars,
                   historyVars>>

\* Mutant: the registry is cleared, and the clients in it are not deleted.
ClearRegistry ==
    /\ ~listening /\ ~working
    /\ clients' = {} /\ deleteMqttClientQueue' = <<>>
    /\ UNCHANGED <<wsStatus, client, listenerVars, workerVars, historyVars>>

\* ~MqttBroker, stopped: the clients in the registry close and delete their transports.
\* One that the worker had taken out when it was stopped stays where it is.
DestroyBroker ==
    /\ ~listening /\ ~working
    /\ wsStatus' = [i \in WsIds |->
           IF wsStatus[i] = "connected" /\ i \in {client[a] : a \in clients}
           THEN "closing" ELSE wsStatus[i]]
    /\ client' = [a \in Addresses |-> IF a \in clients THEN NoId ELSE client[a]]
    /\ clients' = {} /\ deleteMqttClientQueue' = <<>>
    /\ UNCHANGED <<listenerVars, workerVars, historyVars>>

-----------------------------------------------------------------------------

Worker ==
    \/ TakeDeletion
    \/ DeleteClient

Next ==
    \/ \E i \in WsIds, a \in Addresses : ConnectAccepted(i, a) \/ ConnectRejected(i, a)
    \/ \E i \in WsIds : Data(i) \/ Disconnect(i) \/ DisconnectUnrouted(i)
    \/ Erase
    \/ \E a \in Addresses : KeepAliveTimeout(a)
    \/ Worker
    \/ StopListener
    \/ StopWorker
    \/ DestroyBroker

Spec == Init /\ [][Next]_vars

\* FreeRTOS runs both tasks on; connections need never end.
FairSpec == Spec /\ WF_vars(Worker) /\ WF_vars(Erase)

-----------------------------------------------------------------------------
(* Properties.                                                             *)

TypeOK ==
    /\ wsStatus \in [WsIds -> {"new", "connected", "closing", "gone"}]
    /\ client \in [Addresses -> WsIds \cup {NoId}]
    /\ activeTransports \in [WsIds -> Addresses \cup {NoAddress}]
    /\ clients \subseteq Addresses
    /\ deleteMqttClientQueue \in Seq(Addresses) /\ Len(deleteMqttClientQueue) <= DeleteQueueSize
    /\ leaving \in WsIds \cup {NoId}
    /\ doomed \in Addresses \cup {NoAddress}
    /\ listening \in BOOLEAN /\ working \in BOOLEAN
    /\ rejected \subseteq WsIds /\ wild \subseteq WsIds
    /\ strayed \subseteq WsIds \X WsIds
    /\ forgotten \subseteq Addresses

\* Every event is handed to the transport of the client that it is about
\* (MqttBroker.h: "dispatch global events to the correct specific transport").
\* It does not hold: see RoutedWhileRoom.
RoutedToOwner == strayed = {}

\* As long as the broker has had room for every client and is not stopped, no event
\* reaches the transport of another client or a freed one, whatever the worker
\* deletes meanwhile and however soon an address is used again.
RoutedWhileRoom == (rejected = {} /\ listening) => RoutedToOwner /\ wild = {}

\* Until the listener is stopped, what a registered client sends reaches it:
\* its id leads to its transport, unless its connection has ended.
ClientsReachable ==
    (listening /\ rejected = {}) =>
        \A a \in clients :
            wsStatus[client[a]] \in Open => activeTransports[client[a]] = a

\* The map has entries of clients with a connection only: it does not grow with
\* the clients that have left, rejected ones included.
RoutesOfTheLiving ==
    \A i \in WsIds : activeTransports[i] # NoAddress => wsStatus[i] \in Open

\* Every transport has one owner that will free it: its client is in the registry,
\* or it is the one the worker is deleting.  So a transport leaks with the broker only
\* if the worker was stopped while it deleted it.
OwnedOnce ==
    /\ \A a \in Addresses : client[a] # NoId <=> a \in clients \cup {doomed}
    /\ doomed \notin clients

\* A deletion queue with a place for each client refuses no deletion, as long as
\* there has been room for everyone: a client is queued once, however its
\* connection ended.  (20 places for the 16 clients of the default.)
DeletionsFit ==
    (rejected = {} /\ maxNumClients <= DeleteQueueSize) => forgotten = {}

\* A client whose connection has ended leaves the registry and its transport is
\* deleted, if the broker is not stopped before and has had room for everyone.
EventuallyReleased ==
    \A i \in WsIds :
        wsStatus[i] = "gone" ~>
            \/ \A a \in Addresses : client[a] # i
            \/ rejected # {} \/ ~listening
=============================================================================
