----------------------------- MODULE MqttBroker -----------------------------
(***************************************************************************)
(* The client registry of the broker and the three threads that use it.    *)
(*                                                                         *)
(*  - the network task (AsyncTCP / AsyncWebSocket callbacks, one at a      *)
(*    time): accepts connections, feeds received packets to their client,  *)
(*    reports closed connections;                                          *)
(*  - the worker task (CheckMqttClientTask::run): broker events, deferred  *)
(*    deletions, keep-alive walk, for ever;                                *)
(*  - the application (setup/loop): changes the limits while clients are   *)
(*    connected.                                                           *)
(*                                                                         *)
(* A transport is its address (the registry's key, which the allocator may *)
(* hand out again); a client object is its clientId, which the broker      *)
(* never reuses, so a pointer to a freed object stays distinguishable.     *)
(* After a use of freed memory the model goes on with what the destructor  *)
(* left in it (transport, reader NULL) and records the access in faults.   *)
(***************************************************************************)
EXTENDS Naturals, Sequences, FiniteSets

CONSTANTS
    Conns,            \* addresses of MqttTransport objects
    NoConn,           \* the null transport
    Topics,           \* topic filters; matching them is TopicTrie's subject
    MAXNUMCLIENTS,    \* initial maxNumClients
    MaxChoices,       \* values the application passes to setMaxNumClients
    MayLowerMax,      \* may it pass less than the value in force?
    EventQueueSize,   \* 50 in the code
    DeleteQueueSize,  \* 20 in the code
    MaxBatch,         \* MAX_BATCH, 10 in the code
    SyncClose,        \* close() calls onDisconnect before it returns (TCP)
    Reports,          \* transport callbacks, other than onDisconnect itself,
                      \* that are wired to _onDisconnect
    Patient,          \* no connection ends while its SUBSCRIBE is queued
    MaxClientId,      \* bound: connections accepted in a behaviour
    MaxChained,       \* bound: packets after the first in one chunk of data
    MaxAppCalls       \* bound: calls the application makes

NoClient  == 0
ClientIds == 1..MaxClientId

ASSUME NumbersAssumption ==
    /\ MAXNUMCLIENTS \in Nat \ {0}
    /\ MaxChoices \subseteq Nat
    /\ EventQueueSize \in Nat \ {0}
    /\ DeleteQueueSize \in Nat \ {0}
    /\ MaxBatch \in Nat \ {0}
    /\ MaxClientId \in Nat
    /\ MaxChained \in Nat
    /\ MaxAppCalls \in Nat

ASSUME SwitchesAssumption ==
    /\ MayLowerMax \in BOOLEAN
    /\ SyncClose \in BOOLEAN
    /\ Patient \in BOOLEAN
    /\ Reports \subseteq {"error", "timeout"}

ASSUME ConnsAssumption == IsFiniteSet(Conns) /\ NoConn \notin Conns

VARIABLES
    maxNumClients, numClient,
    clients,                \* [Conns -> ClientIds, or NoClient when absent]
    clientSetMutex,         \* its holder, or "free"
    brokerEventQueue,
    deleteMqttClientQueue,
    trie,                   \* subscribed clients at the end node of a filter
    mem, state, transportOf, nodesToFree,   \* MqttClient objects
    sock,                   \* the transport at an address, "free" when none
    netPc, netConn, netClient, chained,
    workerPc, workerKey, workerClient, workerTodo, batch,
    appPc, appTodo, appCalls,
    departed,               \* history: clients whose connection has ended
    faults                  \* history: <<who, client>>, uses of freed clients

brokerVars == <<maxNumClients, numClient, clients, clientSetMutex>>
objectVars == <<mem, state, transportOf, nodesToFree, trie>>
netVars    == <<netPc, netConn, netClient, chained>>
workerVars == <<workerPc, workerKey, workerClient, workerTodo, batch>>
appVars    == <<appPc, appTodo, appCalls>>
closeVars  == <<sock, deleteMqttClientQueue, departed>>
vars == <<brokerVars, brokerEventQueue, objectVars, netVars, workerVars,
          appVars, closeVars, faults>>

PublishEvents   == [type : {"publish"}, client : {NoClient}, topics : SUBSET Topics]
SubscribeEvents == [type : {"subscribe"}, client : ClientIds, topics : SUBSET Topics]
BrokerEvent     == PublishEvents \cup SubscribeEvents

Registered == {clients[t] : t \in Conns} \ {NoClient}

Init ==
    /\ maxNumClients = MAXNUMCLIENTS
    /\ numClient = 0
    /\ clients = [t \in Conns |-> NoClient]
    /\ clientSetMutex = "free"
    /\ brokerEventQueue = <<>>
    /\ deleteMqttClientQueue = <<>>
    /\ trie = [tp \in Topics |-> {}]
    /\ mem = [c \in ClientIds |-> "none"]
    /\ state = [c \in ClientIds |-> "pending"]
    /\ transportOf = [c \in ClientIds |-> NoConn]
    /\ nodesToFree = [c \in ClientIds |-> {}]
    /\ sock = [t \in Conns |-> "free"]
    /\ netPc = "idle" /\ netConn = NoConn /\ netClient = NoClient /\ chained = 0
    /\ workerPc = "events" /\ workerKey = NoConn /\ workerClient = NoClient
    /\ workerTodo = {} /\ batch = 0
    /\ appPc = "idle" /\ appTodo = {} /\ appCalls = 0
    /\ departed = {}
    /\ faults = {}

-----------------------------------------------------------------------------
(* Helpers shared by the threads.                                          *)

\* Mutant: one slot of the queue is never used.
TrySendShort(queue, size, item) ==
    IF Len(queue) + 1 < size THEN Append(queue, item) ELSE queue

\* xQueueSend with timeout 0 returns at once when the queue is full.
TrySend(queue, size, item) == IF Len(queue) < size THEN Append(queue, item) ELSE queue

\* MqttBroker::queueClientForDeletion, the result of xQueueSend ignored.
QueueClientForDeletion(t) ==
    deleteMqttClientQueue' = TrySend(deleteMqttClientQueue, DeleteQueueSize, t)

\* Mutant: the limit is off by one.
IsBrokerOverfull == Cardinality(Registered) > maxNumClients

\* isBrokerFullOfClients: an equality, read without the mutex.
IsBrokerFullOfClients == Cardinality(Registered) = maxNumClients

\* Thread `who` dereferences the client pointer c.
Touch(c, who) ==
    faults' = IF mem[c] = "freed" THEN faults \cup {<<who, c>>} ELSE faults

\* The end of connections is restricted only by the Patient switch.
MayEnd(c) == Patient => \A i \in DOMAIN brokerEventQueue : brokerEventQueue[i].client # c

\* Mutant: the client is queued for deletion and its socket left open.
DisconnectWithoutClose(c) ==
    /\ QueueClientForDeletion(transportOf[c])
    /\ UNCHANGED <<sock, departed>>

\* MqttClient::disconnect followed by MqttTransport::close.  Nothing happens
\* when the transport is closed already, or NULL in a destroyed client.
Disconnect(c) ==
    LET t == transportOf[c] IN
    IF mem[c] = "live" /\ sock[t] = "open"
    THEN /\ sock' = [sock EXCEPT ![t] = IF SyncClose THEN "closed" ELSE "closing"]
         /\ departed' = departed \cup {c}
         /\ IF SyncClose THEN QueueClientForDeletion(t)
                         ELSE UNCHANGED deleteMqttClientQueue
    ELSE UNCHANGED closeVars

-----------------------------------------------------------------------------
(* Network task: a new connection.                                         *)

\* The listener wraps the new socket into a transport and calls acceptClient.
OnClient(t) ==
    /\ netPc = "idle" /\ sock[t] = "free" /\ numClient < MaxClientId
    /\ sock' = [sock EXCEPT ![t] = "open"]
    /\ netPc' = "accept" /\ netConn' = t
    /\ UNCHANGED <<netClient, chained, deleteMqttClientQueue, departed, brokerVars,
                   brokerEventQueue, objectVars, workerVars, appVars, faults>>

RejectClient ==
    /\ netPc = "accept" /\ IsBrokerFullOfClients
    /\ sock' = [sock EXCEPT ![netConn] = "free"]
    /\ netPc' = "idle" /\ netConn' = NoConn
    /\ UNCHANGED <<netClient, chained, deleteMqttClientQueue, departed, brokerVars,
                   brokerEventQueue, objectVars, workerVars, appVars, faults>>

PassCapacityCheck ==
    /\ netPc = "accept" /\ ~IsBrokerFullOfClients
    /\ netPc' = "lock"
    /\ UNCHANGED <<netConn, netClient, chained, brokerVars, brokerEventQueue,
                   objectVars, workerVars, appVars, closeVars, faults>>

\* Mutant: acceptClient enters its critical section without the mutex.
LockAcceptUnguarded ==
    /\ netPc = "lock"
    /\ clientSetMutex' = "net" /\ netPc' = "insert"
    /\ UNCHANGED <<netConn, netClient, chained, maxNumClients, numClient, clients,
                   brokerEventQueue, objectVars, workerVars, appVars, closeVars, faults>>

LockAccept ==
    /\ netPc = "lock" /\ clientSetMutex = "free"
    /\ clientSetMutex' = "net" /\ netPc' = "insert"
    /\ UNCHANGED <<netConn, netClient, chained, maxNumClients, numClient, clients,
                   brokerEventQueue, objectVars, workerVars, appVars, closeVars, faults>>

\* The critical section of acceptClient: number, construct, store, release.
InsertClient ==
    LET c == numClient + 1 IN
    /\ netPc = "insert"
    /\ numClient' = c
    /\ mem' = [mem EXCEPT ![c] = "live"]
    /\ transportOf' = [transportOf EXCEPT ![c] = netConn]
    /\ clients' = [clients EXCEPT ![netConn] = c]
    /\ clientSetMutex' = "free" /\ netPc' = "idle" /\ netConn' = NoConn
    /\ UNCHANGED <<netClient, chained, maxNumClients, state, nodesToFree, trie,
                   brokerEventQueue, workerVars, appVars, closeVars, faults>>

-----------------------------------------------------------------------------
(* Network task: received data.  The callback holds the client pointer from *)
(* the first byte of the chunk to the reset of the reader after the last.   *)

\* A transport delivers until it is closed, also after the broker asked it to close.
OnData(c) ==
    /\ netPc = "idle" /\ mem[c] = "live" /\ sock[transportOf[c]] \in {"open", "closing"}
    /\ netPc' = "packet" /\ netClient' = c
    /\ UNCHANGED <<netConn, chained, brokerVars, brokerEventQueue, objectVars,
                   workerVars, appVars, closeVars, faults>>

\* What every packet handler does besides its own effect.
Handle(phase) ==
    /\ netPc = "packet" /\ state[netClient] = phase
    /\ Touch(netClient, "onData")
    /\ netPc' = "packetDone"
    /\ UNCHANGED <<netConn, netClient, chained, brokerVars, mem, transportOf,
                   nodesToFree, trie, workerVars, appVars>>

\* A well-formed CONNECT.
HandleConnect ==
    /\ Handle("pending")
    /\ state' = [state EXCEPT ![netClient] = "connected"]
    /\ UNCHANGED <<brokerEventQueue, closeVars>>

\* A malformed CONNECT, or any other packet, from a pending client.
HandleBadHandshake ==
    /\ Handle("pending")
    /\ Disconnect(netClient)
    /\ UNCHANGED <<state, brokerEventQueue>>

\* tps: the filters that the topic of the message matches.
HandlePublish(tps) ==
    /\ Handle("connected")
    /\ brokerEventQueue' = TrySend(brokerEventQueue, EventQueueSize,
                              [type |-> "publish", client |-> NoClient, topics |-> tps])
    /\ UNCHANGED <<state, closeVars>>

HandleSubscribe(tps) ==
    /\ Handle("connected")
    /\ Patient => netClient \notin departed
    /\ brokerEventQueue' = TrySend(brokerEventQueue, EventQueueSize,
                              [type |-> "subscribe", client |-> netClient, topics |-> tps])
    /\ UNCHANGED <<state, closeVars>>

HandleDisconnect ==
    /\ Handle("connected") /\ MayEnd(netClient)
    /\ Disconnect(netClient)
    /\ UNCHANGED <<state, brokerEventQueue>>

\* PINGREQ, UNSUBSCRIBE (its action is empty) and unknown packet types.
HandleOther ==
    /\ Handle("connected")
    /\ UNCHANGED <<state, brokerEventQueue, closeVars>>

\* `delete action; action = NULL` and the reader's reset; then the next packet
\* of the same chunk, whatever became of the connection.
FinishPacket(more) ==
    /\ netPc = "packetDone"
    /\ Touch(netClient, "onData")
    /\ IF more THEN /\ chained < MaxChained /\ chained' = chained + 1
                    /\ netPc' = "packet" /\ UNCHANGED netClient
               ELSE chained' = 0 /\ netPc' = "idle" /\ netClient' = NoClient
    /\ UNCHANGED <<netConn, brokerVars, brokerEventQueue, objectVars, workerVars,
                   appVars, closeVars>>

-----------------------------------------------------------------------------
(* Network task: the transport reports the end of a connection.            *)

\* onDisconnect: the peer closed, or the close the broker asked for completed.
ReportDisconnect(c) ==
    LET t == transportOf[c] IN
    /\ netPc = "idle" /\ mem[c] = "live"
    /\ \/ sock[t] = "open" /\ MayEnd(c)
       \/ sock[t] = "closing"
    /\ sock' = [sock EXCEPT ![t] = "closed"]
    /\ departed' = departed \cup {c}
    /\ QueueClientForDeletion(t)
    /\ UNCHANGED <<brokerVars, brokerEventQueue, objectVars, netVars, workerVars,
                   appVars, faults>>

\* onError comes first and onDisconnect follows in the same library call.
ReportError(c) ==
    LET t == transportOf[c] IN
    /\ "error" \in Reports /\ netPc = "idle"
    /\ mem[c] = "live" /\ sock[t] = "open" /\ MayEnd(c)
    /\ sock' = [sock EXCEPT ![t] = "closed"]
    /\ departed' = departed \cup {c}
    /\ QueueClientForDeletion(t)
    /\ netPc' = "errorDone" /\ netClient' = c /\ netConn' = t
    /\ UNCHANGED <<chained, brokerVars, brokerEventQueue, objectVars, workerVars,
                   appVars, faults>>

ReportDisconnectAfterError ==
    /\ netPc = "errorDone"
    /\ Touch(netClient, "onError")
    /\ IF mem[netClient] = "live" THEN QueueClientForDeletion(netConn)
                                  ELSE UNCHANGED deleteMqttClientQueue
    /\ netPc' = "idle" /\ netClient' = NoClient /\ netConn' = NoConn
    /\ UNCHANGED <<chained, sock, departed, brokerVars, brokerEventQueue, objectVars,
                   workerVars, appVars>>

\* onTimeout: an acknowledgement is overdue; the socket stays open.
ReportTimeout(c) ==
    /\ "timeout" \in Reports /\ netPc = "idle"
    /\ mem[c] = "live" /\ sock[transportOf[c]] = "open" /\ MayEnd(c)
    /\ QueueClientForDeletion(transportOf[c])
    /\ UNCHANGED <<sock, departed, brokerVars, brokerEventQueue, objectVars, netVars,
                   workerVars, appVars, faults>>

NetworkTask ==
    \/ \E t \in Conns : OnClient(t)
    \/ RejectClient \/ PassCapacityCheck \/ LockAccept \/ InsertClient
    \/ \E c \in ClientIds : OnData(c)
    \/ HandleConnect \/ HandleBadHandshake \/ HandleDisconnect \/ HandleOther
    \/ \E tps \in SUBSET Topics : HandlePublish(tps)
    \/ \E tps \in (SUBSET Topics) \ {{}} : HandleSubscribe(tps)
    \/ \E more \in BOOLEAN : FinishPacket(more)
    \/ \E c \in ClientIds : ReportDisconnect(c) \/ ReportError(c) \/ ReportTimeout(c)
    \/ ReportDisconnectAfterError

-----------------------------------------------------------------------------
(* Worker task: processBrokerEvents.                                       *)

HeadEvent == Head(brokerEventQueue)

\* Mutant: count++ is missing from the batch loop.
TakeEventUncounted(type) ==
    /\ workerPc = "events" /\ brokerEventQueue # <<>> /\ HeadEvent.type = type
    /\ brokerEventQueue' = Tail(brokerEventQueue)
    /\ UNCHANGED batch

\* Mutant: MAX_BATCH is not tested.
TakeEventUncapped(type) ==
    /\ workerPc = "events" /\ brokerEventQueue # <<>> /\ HeadEvent.type = type
    /\ brokerEventQueue' = Tail(brokerEventQueue)
    /\ batch' = batch + 1

\* One turn of the batch loop of processBrokerEvents.
TakeEvent(type) ==
    /\ workerPc = "events" /\ batch < MaxBatch
    /\ brokerEventQueue # <<>> /\ HeadEvent.type = type
    /\ brokerEventQueue' = Tail(brokerEventQueue)
    /\ batch' = batch + 1

\* _publishMessageImpl up to its test of the subscribers found in the trie.
TakePublish ==
    /\ TakeEvent("publish")
    /\ workerTodo' = UNION {trie[tp] : tp \in HeadEvent.topics}
    /\ workerPc' = IF workerTodo' = {} THEN "events" ELSE "lockPublish"
    /\ UNCHANGED <<workerKey, workerClient, brokerVars, objectVars, netVars, appVars,
                   closeVars, faults>>

\* The thread takes the mutex at pc `from` and goes on at pc `to`.
WorkerLocks(from, to) ==
    /\ workerPc = from /\ clientSetMutex = "free"
    /\ clientSetMutex' = "worker" /\ workerPc' = to
    /\ UNCHANGED <<maxNumClients, numClient, clients, workerKey, workerClient, batch,
                   brokerEventQueue, objectVars, netVars, appVars, closeVars, faults>>

\* The thread ends the walk at pc `from`, with the mutex held.
WorkerUnlocks(from) ==
    /\ workerPc = from /\ workerTodo = {}
    /\ clientSetMutex' = "free" /\ workerPc' = "events"
    /\ UNCHANGED <<maxNumClients, numClient, clients, workerKey, workerClient, batch,
                   workerTodo, brokerEventQueue, objectVars, netVars, appVars, closeVars,
                   faults>>

LockPublish == WorkerLocks("lockPublish", "publish") /\ UNCHANGED workerTodo

\* getState and publishMessage of one subscriber; sending is Outbox's subject.
PublishToSubscriber(c) ==
    /\ workerPc = "publish" /\ c \in workerTodo
    /\ Touch(c, "publish")
    /\ workerTodo' = workerTodo \ {c}
    /\ UNCHANGED <<workerPc, workerKey, workerClient, batch, brokerVars, brokerEventQueue,
                   objectVars, netVars, appVars, closeVars>>

UnlockPublish == WorkerUnlocks("publish")

\* Mutant: the node is not recorded with the client (addNode is missing).
ProcessSubscribeUntracked ==
    LET c == HeadEvent.client IN
    /\ TakeEvent("subscribe")
    /\ Touch(c, "subscribe")
    /\ trie' = [tp \in Topics |->
                   IF tp \in HeadEvent.topics THEN trie[tp] \cup {c} ELSE trie[tp]]
    /\ UNCHANGED <<workerPc, workerKey, workerClient, workerTodo, mem, state, transportOf,
                   nodesToFree, brokerVars, netVars, appVars, closeVars>>

\* _subscribeClientImpl, through the raw client pointer in the event.
ProcessSubscribe ==
    LET c == HeadEvent.client IN
    /\ TakeEvent("subscribe")
    /\ Touch(c, "subscribe")
    /\ trie' = [tp \in Topics |->
                   IF tp \in HeadEvent.topics THEN trie[tp] \cup {c} ELSE trie[tp]]
    /\ nodesToFree' = IF mem[c] = "live"
                      THEN [nodesToFree EXCEPT ![c] = @ \cup HeadEvent.topics]
                      ELSE nodesToFree
    /\ UNCHANGED <<workerPc, workerKey, workerClient, workerTodo, mem, state, transportOf,
                   brokerVars, netVars, appVars, closeVars>>

EndEvents ==
    /\ workerPc = "events"
    /\ brokerEventQueue = <<>> \/ batch = MaxBatch
    /\ workerPc' = "deletions" /\ batch' = 0
    /\ UNCHANGED <<workerKey, workerClient, workerTodo, brokerVars, brokerEventQueue,
                   objectVars, netVars, appVars, closeVars, faults>>

-----------------------------------------------------------------------------
(* Worker task: processDeletions and deleteMqttClient.                     *)

TakeDeletion ==
    /\ workerPc = "deletions" /\ deleteMqttClientQueue # <<>>
    /\ workerKey' = Head(deleteMqttClientQueue)
    /\ deleteMqttClientQueue' = Tail(deleteMqttClientQueue)
    /\ workerPc' = "lockErase"
    /\ UNCHANGED <<workerClient, workerTodo, batch, sock, departed, brokerVars,
                   brokerEventQueue, objectVars, netVars, appVars, faults>>

\* Mutant: deleteMqttClient does not wait for the mutex.
LockEraseUnguarded ==
    /\ workerPc = "lockErase"
    /\ clientSetMutex' = "worker" /\ workerPc' = "erase"
    /\ UNCHANGED <<maxNumClients, numClient, clients, workerKey, workerClient, batch,
                   workerTodo, brokerEventQueue, objectVars, netVars, appVars, closeVars,
                   faults>>

LockErase == WorkerLocks("lockErase", "erase") /\ UNCHANGED workerTodo

\* Mutant: the entry found is not erased from the map.
EraseNothing ==
    /\ workerPc = "erase"
    /\ workerClient' = clients[workerKey]
    /\ workerPc' = IF clients[workerKey] = NoClient THEN "deletions" ELSE "delete"
    /\ clientSetMutex' = "free" /\ workerKey' = NoConn
    /\ UNCHANGED <<clients, workerTodo, batch, maxNumClients, numClient, brokerEventQueue,
                   objectVars, netVars, appVars, closeVars, faults>>

\* The critical section: find, erase, release.
EraseClient ==
    /\ workerPc = "erase"
    /\ clients' = [clients EXCEPT ![workerKey] = NoClient]
    /\ workerClient' = clients[workerKey]
    /\ workerPc' = IF clients[workerKey] = NoClient THEN "deletions" ELSE "delete"
    /\ clientSetMutex' = "free" /\ workerKey' = NoConn
    /\ UNCHANGED <<workerTodo, batch, maxNumClients, numClient, brokerEventQueue,
                   objectVars, netVars, appVars, closeVars, faults>>

\* Mutant: the destructor does not unsubscribe the client from its nodes.
DeleteClientSubscribed ==
    LET t == transportOf[workerClient] IN
    /\ workerPc = "delete"
    /\ IF SyncClose /\ sock[t] = "open" THEN QueueClientForDeletion(t)
                                        ELSE UNCHANGED deleteMqttClientQueue
    /\ sock' = [sock EXCEPT ![t] = "free"]
    /\ mem' = [mem EXCEPT ![workerClient] = "freed"]
    /\ workerPc' = "deletions" /\ workerClient' = NoClient
    /\ UNCHANGED <<workerKey, workerTodo, batch, state, transportOf, nodesToFree, trie,
                   departed, brokerVars, brokerEventQueue, netVars, appVars, faults>>

\* MqttClient::~MqttClient, outside the mutex: unsubscribe, close, free.  Closing
\* a transport that is still open runs onDisconnect once more.
DeleteClient ==
    LET c == workerClient
        t == transportOf[workerClient] IN
    /\ workerPc = "delete"
    /\ trie' = [tp \in Topics |-> IF tp \in nodesToFree[c] THEN trie[tp] \ {c}
                                                           ELSE trie[tp]]
    /\ nodesToFree' = [nodesToFree EXCEPT ![c] = {}]
    /\ IF SyncClose /\ sock[t] = "open" THEN QueueClientForDeletion(t)
                                        ELSE UNCHANGED deleteMqttClientQueue
    /\ sock' = [sock EXCEPT ![t] = "free"]
    /\ mem' = [mem EXCEPT ![c] = "freed"]
    /\ workerPc' = "deletions" /\ workerClient' = NoClient
    /\ UNCHANGED <<workerKey, workerTodo, batch, state, transportOf, departed, brokerVars,
                   brokerEventQueue, netVars, appVars, faults>>

EndDeletions ==
    /\ workerPc = "deletions" /\ deleteMqttClientQueue = <<>>
    /\ workerPc' = "lockKeepAlive"
    /\ UNCHANGED <<workerKey, workerClient, workerTodo, batch, brokerVars,
                   brokerEventQueue, objectVars, netVars, appVars, closeVars, faults>>

-----------------------------------------------------------------------------
(* Worker task: processKeepAlives; which clients are overdue is KeepAlive's *)
(* subject, here any connected client may be.                              *)

\* The interval has not elapsed, or the mutex did not come within 10 ms.
SkipKeepAlive ==
    /\ workerPc = "lockKeepAlive"
    /\ workerPc' = "events"
    /\ UNCHANGED <<workerKey, workerClient, workerTodo, batch, brokerVars,
                   brokerEventQueue, objectVars, netVars, appVars, closeVars, faults>>

LockKeepAlive ==
    /\ WorkerLocks("lockKeepAlive", "keepAlive")
    /\ workerTodo' = Registered

CheckKeepAlive(c, overdue) ==
    /\ workerPc = "keepAlive" /\ c \in workerTodo
    /\ Touch(c, "keepAlive")
    /\ workerTodo' = workerTodo \ {c}
    /\ overdue => state[c] = "connected" /\ MayEnd(c)
    /\ IF overdue THEN Disconnect(c) ELSE UNCHANGED closeVars
    /\ UNCHANGED <<workerPc, workerKey, workerClient, batch, brokerVars, brokerEventQueue,
                   objectVars, netVars, appVars>>

UnlockKeepAlive == WorkerUnlocks("keepAlive")

WorkerTask ==
    \/ TakePublish \/ LockPublish \/ UnlockPublish \/ ProcessSubscribe \/ EndEvents
    \/ \E c \in ClientIds : PublishToSubscriber(c)
    \/ TakeDeletion \/ LockErase \/ EraseClient \/ DeleteClient \/ EndDeletions
    \/ SkipKeepAlive \/ LockKeepAlive \/ UnlockKeepAlive
    \/ \E c \in ClientIds, overdue \in BOOLEAN : CheckKeepAlive(c, overdue)

-----------------------------------------------------------------------------
(* Application.                                                            *)

SetMaxNumClients(n) ==
    /\ appPc = "idle" /\ appCalls < MaxAppCalls
    /\ MayLowerMax \/ n >= maxNumClients
    /\ maxNumClients' = n /\ appCalls' = appCalls + 1
    /\ UNCHANGED <<numClient, clients, clientSetMutex, appPc, appTodo, brokerEventQueue,
                   objectVars, netVars, workerVars, closeVars, faults>>

\* setOutBoxMaxSize: a walk of the registry under the mutex.
LockSetOutBox ==
    /\ appPc = "idle" /\ appCalls < MaxAppCalls /\ clientSetMutex = "free"
    /\ clientSetMutex' = "app" /\ appPc' = "setOutBox" /\ appTodo' = Registered
    /\ appCalls' = appCalls + 1
    /\ UNCHANGED <<maxNumClients, numClient, clients, brokerEventQueue, objectVars,
                   netVars, workerVars, closeVars, faults>>

SetOutBoxOf(c) ==
    /\ appPc = "setOutBox" /\ c \in appTodo
    /\ Touch(c, "setOutBox")
    /\ appTodo' = appTodo \ {c}
    /\ UNCHANGED <<appPc, appCalls, brokerVars, brokerEventQueue, objectVars, netVars,
                   workerVars, closeVars>>

UnlockSetOutBox ==
    /\ appPc = "setOutBox" /\ appTodo = {}
    /\ clientSetMutex' = "free" /\ appPc' = "idle"
    /\ UNCHANGED <<maxNumClients, numClient, clients, appTodo, appCalls, brokerEventQueue,
                   objectVars, netVars, workerVars, closeVars, faults>>

Application ==
    \/ \E n \in MaxChoices : SetMaxNumClients(n)
    \/ LockSetOutBox \/ UnlockSetOutBox
    \/ \E c \in ClientIds : SetOutBoxOf(c)

Next == NetworkTask \/ WorkerTask \/ Application

Spec == Init /\ [][Next]_vars

\* Fairness.  The worker is a FreeRTOS task that is always given the CPU in the
\* end, and each of its steps but the waits for the mutex is always possible.
\* The network task finishes the callback it is in; it waits for the mutex without
\* a timeout and at a higher priority than the worker, so it gets it although the
\* worker keeps coming back for it; the application leaves its critical section.
\* A close the broker asked for is an event in the network task's own queue, so
\* it is not passed over for ever by newer callbacks.
FairSpec ==
    /\ Spec
    /\ WF_vars(WorkerTask)
    /\ SF_vars(LockAccept) /\ WF_vars(InsertClient) /\ WF_vars(RejectClient)
    /\ WF_vars(PassCapacityCheck)
    /\ WF_vars(netPc = "packet" /\ NetworkTask)
    /\ WF_vars(FinishPacket(FALSE)) /\ WF_vars(ReportDisconnectAfterError)
    /\ \A c \in ClientIds :
          SF_vars(ReportDisconnect(c) /\ sock[transportOf[c]] = "closing")
    /\ WF_vars(UnlockSetOutBox) /\ WF_vars(\E c \in ClientIds : SetOutBoxOf(c))

-----------------------------------------------------------------------------
(* Properties.                                                             *)

BrokerTypeOK ==
    /\ maxNumClients \in Nat
    /\ numClient \in 0..MaxClientId
    /\ clients \in [Conns -> ClientIds \cup {NoClient}]
    /\ clientSetMutex \in {"free", "net", "worker", "app"}
    /\ brokerEventQueue \in Seq(BrokerEvent)

ObjectsTypeOK ==
    /\ mem \in [ClientIds -> {"none", "live", "freed"}]
    /\ state \in [ClientIds -> {"pending", "connected"}]
    /\ transportOf \in [ClientIds -> Conns \cup {NoConn}]
    /\ \A c \in ClientIds : mem[c] # "none" => transportOf[c] \in Conns
    /\ \A t \in Conns : clients[t] # NoClient => mem[clients[t]] # "none"
    /\ nodesToFree \in [ClientIds -> SUBSET Topics]
    /\ trie \in [Topics -> SUBSET ClientIds]

CloseTypeOK ==
    /\ sock \in [Conns -> {"free", "open", "closing", "closed"}]
    /\ deleteMqttClientQueue \in Seq(Conns)
    /\ departed \subseteq ClientIds

NetTypeOK ==
    /\ netPc \in {"idle", "accept", "lock", "insert", "packet", "packetDone", "errorDone"}
    /\ netConn \in Conns \cup {NoConn}
    /\ netClient \in ClientIds \cup {NoClient}
    /\ chained \in 0..MaxChained
    /\ netPc \in {"accept", "lock", "insert", "errorDone"} => netConn \in Conns
    /\ netPc \in {"packet", "packetDone", "errorDone"} => netClient \in ClientIds
    /\ netPc \in {"accept", "lock", "insert"} => numClient < MaxClientId

WorkerTypeOK ==
    /\ workerPc \in {"events", "lockPublish", "publish", "deletions", "lockErase",
                     "erase", "delete", "lockKeepAlive", "keepAlive"}
    /\ workerKey \in Conns \cup {NoConn}
    /\ workerClient \in ClientIds \cup {NoClient}
    /\ workerTodo \subseteq ClientIds
    /\ batch \in 0..MaxBatch
    /\ workerPc \in {"lockErase", "erase"} => workerKey \in Conns
    /\ workerPc = "delete" => workerClient \in ClientIds /\ mem[workerClient] # "none"

AppTypeOK ==
    /\ appPc \in {"idle", "setOutBox"}
    /\ appTodo \subseteq ClientIds
    /\ appCalls \in 0..MaxAppCalls

FaultsTypeOK ==
    faults \subseteq {"onData", "onError", "publish", "subscribe", "keepAlive",
                     "setOutBox"} \X ClientIds

\* Every variable keeps its type, and a thread that uses a connection or a client
\* has one.
TypeOK ==
    /\ BrokerTypeOK /\ ObjectsTypeOK /\ CloseTypeOK
    /\ NetTypeOK /\ WorkerTypeOK /\ AppTypeOK /\ FaultsTypeOK

\* The registry's map and the client objects agree: an entry leads to a live
\* client whose transport is the entry's key, and a live client is either in the
\* map or the one deleteMqttClient has just erased and is about to delete.
RegistryConsistent ==
    /\ \A t \in Conns : clients[t] # NoClient =>
          mem[clients[t]] = "live" /\ transportOf[clients[t]] = t
    /\ \A c \in ClientIds : mem[c] = "live" =>
          \/ transportOf[c] \in Conns /\ clients[transportOf[c]] = c
          \/ workerPc = "delete" /\ workerClient = c

\* Although deleteMqttClient frees the client outside the mutex, no walk of the
\* registry under the mutex (processKeepAlives, setOutBoxMaxSize) reaches a
\* client that has been freed.
RegistryWalksSafe == \A f \in faults : f[1] \notin {"keepAlive", "setOutBox"}

\* Two threads are never at once inside code that clientSetMutex protects.
MapAccessExclusive ==
    /\ ~(netPc = "insert" /\ workerPc \in {"publish", "erase", "keepAlive"})
    /\ ~(netPc = "insert" /\ appPc = "setOutBox")
    /\ ~(appPc = "setOutBox" /\ workerPc \in {"publish", "erase", "keepAlive"})

\* The check of isBrokerFullOfClients is made before the mutex is taken and tests
\* for equality, and still the registry never exceeds maxNumClients.
CapacityRespected == Cardinality(Registered) <= maxNumClients

\* Every subscription of a live client is among the nodes its destructor will
\* unsubscribe: deleting a client cannot leave its pointer in the trie.
SubscriptionsTracked ==
    \A tp \in Topics : \A c \in trie[tp] : mem[c] = "live" => tp \in nodesToFree[c]

\* Every callback of the network task ends before its client is freed.
CallbacksSafe == \A f \in faults : f[1] \notin {"onData", "onError"}

\* The trie holds no pointer to a freed client.
SubscriptionsLive == \A tp \in Topics : \A c \in trie[tp] : mem[c] = "live"

\* Clients of which a SUBSCRIBE was processed after they had been freed.
LateSubscribers == {c \in ClientIds : <<"subscribe", c>> \in faults}

\* Whatever was reported twice, closed early or kept waiting: the trie names a freed
\* client, and a PUBLISH is sent to one, only after a SUBSCRIBE of that very client was
\* processed too late.  What the destructor, the keys of reused addresses and the walks
\* leave behind is never a dangling pointer.
OnlyLateSubscribersDangle ==
    /\ \A tp \in Topics : \A c \in trie[tp] : mem[c] = "live" \/ c \in LateSubscribers
    /\ \A f \in faults : f[1] = "publish" => f[2] \in LateSubscribers

\* No thread ever dereferences a client that has been freed: processDeletions
\* destroys a client "only when it is no longer in use".
NoUseAfterFree == faults = {}

\* A client whose connection is closed is on its way out: its key is in the
\* deletion queue, or in the worker's hands, or being reported.
CleanupScheduled ==
    \A t \in Conns : clients[t] # NoClient /\ sock[t] = "closed" =>
        \/ \E i \in DOMAIN deleteMqttClientQueue : deleteMqttClientQueue[i] = t
        \/ workerPc \in {"lockErase", "erase"} /\ workerKey = t

\* A client whose connection has ended is destroyed in the end, however many
\* events keep arriving: the batch limit lets the worker reach the deletions.
EventuallyDestroyed ==
    \A c \in ClientIds : c \in departed ~> mem[c] = "freed"

\* Where every client is in its life.
ClientPhase ==
    [c \in ClientIds |->
        IF mem[c] = "none" THEN "absent"
        ELSE IF mem[c] = "freed" THEN "destroyed"
        ELSE IF c \in departed THEN "departed" ELSE "serving"]

\* The life of a client as ClientLifecycle promises it.
Lifecycle == INSTANCE ClientLifecycle WITH
    Clients <- ClientIds,
    Capacity <- MAXNUMCLIENTS,
    phase <- ClientPhase

\* The broker implements the lifecycle: clients are admitted in the order of
\* their numbers and within capacity, and only a departed one is destroyed.
ImplementsLifecycle == Lifecycle!Spec
=============================================================================
