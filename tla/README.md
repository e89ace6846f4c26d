# EmbeddedMqttBroker: TLA+ models, model checking and proofs

EmbeddedMqttBroker is an MQTT 3.1.1 broker for the ESP32 (C++, FreeRTOS,
Arduino).  Clients connect over TCP (AsyncTCP) or WebSocket (ESPAsyncWebServer).
This directory holds TLA+ models of the broker's concurrent core, the TLC
configurations that check them, and TLAPS proofs.  Paths are relative to `src/`
(`src/MqttBroker/MqttBroker.cpp` is the broker).

    tlc -workers 2 -config MCMqttBroker_tcp.cfg MCMqttBroker.tla
    tlapm MqttBroker_proofs.tla

## 1. Inventory

Three tasks run, on two cores:

* the **network task** of AsyncTCP / AsyncWebSocket runs every transport callback,
  one at a time: new connection, data, acknowledgement, poll, disconnect, error,
  timeout;
* the **worker** `CheckMqttClientTask` loops over broker events, deferred deletions
  and, from time to time, the keep-alive walk;
* the **application** (`setup`/`loop` of the sketch) calls the setters and
  `stopBroker`.

| Component | State | Operations | Interacts with | Hard behaviour | Correct when |
|---|---|---|---|---|---|
| Registry and deletion (`MqttBroker.cpp`) | `clients` (transport -> client), `numClient`, `maxNumClients`, `clientSetMutex`, `deleteMqttClientQueue` (20) | `acceptClient`, `queueClientForDeletion`, `processDeletions`, `deleteMqttClient`, `processKeepAlives`, setters | listeners (call), transports (callbacks), worker | capacity test before the mutex; freeing outside the mutex; keys are addresses that are reused; a full queue drops | entries lead to live clients with their key; capacity; nobody uses a freed client; a closed client is destroyed in the end |
| Event queue (`MqttBroker.cpp`) | `brokerEventQueue` (50), batch of 10 | `publishMessage`, `SubscribeClientToTopic`, `processBrokerEvents` | packet handlers produce, worker consumes, trie | raw client pointers in events; a full queue drops; events before deletions | events are handled while their client lives; deletions are not starved |
| `MqttClient` | `_state`, `nodesToFree`, `lastAlive`, `keepAlive`, `transport`, `reader`, `action` | handshake, dispatch by packet type, `disconnect`, destructor | reader (callback), actions, broker, trie nodes | the callback goes on after its own client was queued for deletion | callbacks end before the client is freed |
| Outbox (`MqttClient.cpp:166-239`) | `_outbox`, `outboxMaxSize`, `_outboxMutex` | `sendPacketByTcpConnection`, `_drainOutbox` | both tasks, transport | send after the unlock; a write cut short; 10 ms mutex timeout | order, whole packets, nothing lost, everything sent in the end |
| Keep-alive timing | `lastAlive`, `keepAlive`, `millis()` | `checkKeepAlive`, update on every packet | network task writes, worker reads | unsigned subtraction, `now` read before a lock, clock wrap | an active client is never dropped, a silent one is |
| `ReaderMqttPacket` | state, header, remaining length, buffer | `addData` | transports (chunks), client (callback) | any chunking; remaining length of several bytes | the packets do not depend on the chunks |
| `Trie` / `NodeTrie` | tree of levels, subscribers per node | insert, find with `+` and `#` | subscribe, publish, destructor | recursion with wildcards | finds exactly the matching filters |
| Transports and listeners | socket; for WebSocket the map `activeTransports` | accept, send, space, close, callbacks | external libraries | who deletes a rejected transport; double reports | one report per closed connection, routing only to live transports |
| Shutdown (`stopBroker`, `~MqttBroker`) | all of it | stop, delete | worker, listener | destruction order, a worker still running | nothing is used after it is freed |
| Actions, message classes, factories | none of their own | one strategy per packet type, encode, decode | client, broker | | |

Everything hard to test in this code is in `PROJECT.json` under `hazards`, each at
its line, with the properties that watch it or the reason why none does.

## 2. Plan

| # | Module | Subject | Composes / implements | State |
|---|---|---|---|---|
| 1 | `MqttBroker`, `MqttBroker_proofs`, `MqttBroker_departure_proofs` | registry, event queue, deletion queue, life of client objects, three tasks | implements `ClientLifecycle` | done, its safety and the refinement proved |
| 2 | `ClientLifecycle` | abstract: admit, depart, destroy | | done |
| 3 | `Outbox`, `Outbox_proofs` | the sending half of a client, two tasks | | done, proved |
| 4 | `KeepAlive`, `KeepAlive_proofs` | clock of finite width, pending clients, the read of `now` before the lock | the `overdue` choice of `MqttBroker` | done, proved |
| 5 | `PacketReader`, `PacketReader_proofs` | framing of chunked input | checked against the framing of the whole stream | done, proved |
| 6 | `Session`, `Session_proofs` | one connection to the byte: requests, decoding, event queue, answers, encoding | extends `PacketReader` and implements it; checked against what a client may expect | done, proved |
| 7 | `TopicTrie`, `TopicTrie_proofs` | the nodes of the tree, insert, lookup with wildcards, destructor | checked against the level-wise rule the code implements | done, proved |
| 8 | `WsRouting`, `WsRouting_proofs` | `activeTransports`, reused addresses, rejection, stop and destruction | the WebSocket side of `MqttBroker`'s `Conns` | done, proved |
| 9 | the TCP side of shutdown, several sessions that relay to each other | | 1, 6, 8 | later |

Abstract specifications: `ClientLifecycle` for `MqttBroker`, `PacketReader` for
`Session`; the level-wise matching rule (`Matches`) for `TopicTrie`, the framing of a whole
stream (`Frames`) for `PacketReader`, and the answers that a client may expect
(`NetworkAnswers`, `WorkerAnswers`, `AnswersTo`) for `Session` are reference definitions.

## 3. MqttBroker: what stands for what

A transport is its address (`Conns`), the key of the map; addresses are reused.  A
client object is its `clientId`, which the broker never reuses, so that a dangling
pointer can be told from a live one; `mem` is `none`, `live` or `freed`.  A thread is
a program counter: it changes at each wait, at each lock and unlock, and where the
code reads shared state that another thread may change before it is used.  After a
use of freed memory the model goes on with what the destructor left there and
records the thread and the client in `faults`; `NoUseAfterFree` is `faults = {}`, and
`LateSubscribers` are the clients that `faults` has with a `subscribe`.

| Code | Actions |
|---|---|
| `TcpServerListener::begin`, `acceptClient` (`MqttBroker.cpp:105-133`) | `OnClient`, `RejectClient`, `PassCapacityCheck`, `LockAccept`, `InsertClient` |
| `onData` callback, `ReaderMqttPacket::addData`'s callback loop | `OnData`, one `Handle*`, `FinishPacket` (then perhaps the next packet of the chunk) |
| `processOnConnectMqttPacket` | `HandleConnect`, `HandleBadHandshake` |
| `proccessOnMqttPacket` and the actions | `HandlePublish`, `HandleSubscribe`, `HandleDisconnect`, `HandleOther` |
| `onDisconnect`, `onError`, `onTimeout` | `ReportDisconnect`, `ReportError` + `ReportDisconnectAfterError`, `ReportTimeout` |
| `processBrokerEvents`, `_publishMessageImpl`, `_subscribeClientImpl` | `TakePublish`, `LockPublish`, `PublishToSubscriber`, `UnlockPublish`, `ProcessSubscribe`, `EndEvents` |
| `processDeletions`, `deleteMqttClient`, `~MqttClient` | `TakeDeletion`, `LockErase`, `EraseClient`, `DeleteClient`, `EndDeletions` |
| `processKeepAlives` | `SkipKeepAlive`, `LockKeepAlive`, `CheckKeepAlive`, `UnlockKeepAlive` |
| `setMaxNumClients`, `setOutBoxMaxSize` | `SetMaxNumClients`, `LockSetOutBox`, `SetOutBoxOf`, `UnlockSetOutBox` |

The libraries are external.  Three constants say what is assumed of them:
`SyncClose` (`close()` runs the disconnect callback before it returns, as AsyncTCP
does), `Reports` (which other callbacks are wired to `_onDisconnect`: an error, a
timeout), and `Patient` (no connection ends while a SUBSCRIBE of its client is
queued; a restriction that only isolates one defect from the others).
Which filters a topic matches and which client is overdue are free choices here.

## 4. The other modules: what stands for what

### Outbox

One client, two tasks that call into it.  A packet is a number, with a sender and a
length; `wire` is what the transport took of it.  `Framed` chooses between TCP
(`space()` is the free bytes, a write may be cut short) and WebSocket (`space()`
answers a constant, `send()` claims success).

| Code | Actions |
|---|---|
| `sendPacketByTcpConnection` 166-174 (not connected) | `Send`, `ClearOutbox` |
| 176-200 (critical section) | `LockSend`, `Enqueue` |
| 202-208 (fast path, after the unlock) | `FastSend` |
| `_drainOutbox` 211-239 | `StartDrain`, `SkipDrain`, `LockDrain`, `DrainCheck`, `DrainSend` |
| `setOutboxMaxSize` (no mutex) | `SetOutboxMaxSize` |
| the transport | `Acknowledge`, `Disconnect` |

`raced` is a history variable: it becomes true when a task writes while the other is
between its test of the space and its own write.

### KeepAlive

The clock is `millis()`, a counter of finite width that wraps.  A client has a state,
an interval and `lastAlive`.  History variables keep what the wrapping clock loses:
`silence` (real time since a packet of the client was handled), `sinceWalk` (since the
worker ended a walk) and `raced` (clients with a packet handled during the check).

| Code | Actions |
|---|---|
| `acceptClient`, constructor | `Accept` |
| `processOnConnectMqttPacket` (state, interval, `lastAlive`: three assignments) | `HandleConnect`, `SetKeepAlive`, `SetLastAlive` |
| `proccessOnMqttPacket` | `HandlePacket` |
| `CheckMqttClientTask::run` (`CheckMqttClientTask.cpp:40-45`) | `StartCheck`, `UnlockKeepAlive` |
| `processKeepAlives` (`now`, then the mutex with a timeout, then the walk) | `LockKeepAlive`, `SkipKeepAlive`, `VisitClient` |
| `checkKeepAlive` (interval, then `lastAlive`, then the subtraction) | `ReadKeepAlive`, `CheckLastAlive` |
| disconnection and deletion | `Close`, `DestroyClient` |
| time | `Tick` |

### PacketReader

`addData` runs in the network task alone; a step is one iteration of its loop.  A
byte is a number below 2 x `Base` (`Base` is 128 in the code): a digit of the length
and the continuation bit.  `stream` and `packets` are history variables: all bytes
received, and what the callback was given.

| Code | Actions |
|---|---|
| `addData`, a new chunk | `AddData` |
| `WAITING_FIXED_HEADER` | `ReadFixedHeader` |
| `WAITING_REMAINING_LENGTH`, `_parseRemainingLength` | `ReadLengthByte`, `RejectLength`, `AllocationFails` |
| `WAITING_REMAINING_PACKET` | `CopyBody` |
| the callback and the reset | `DeliverPacket` |

### Session

Extends `PacketReader`: the reader's callback is no longer only a delivery but one of
the `Handle*` actions, and the bytes it reads are those of a `script`, a sequence of
requests of one client, in the encoding of the MQTT standard (the external operators
`FrameOf`, `OnWire` and those they use).  A fixed header is one named byte; all other
bytes are what they are on the wire, with `Base` for 128.  The client subscribes to
what it publishes itself, so that one connection shows every kind of answer.

| Code | Actions and operators |
|---|---|
| a chunk arrives; the loop of `addData` | `Arrive`, `ReadOn` |
| `processOnConnectMqttPacket` | `HandleConnect`, `HandleBadHandshake` |
| `PingResAction`, `PublishAction`, `SubscribeAction`, the others | `HandlePing`, `HandlePublish`, `HandleSubscribe`, `HandleOther` |
| `publishMessage`, `SubscribeClientToTopic` (the queue) | `QueueEvent` |
| `_subscribeClientImpl`, `_publishMessageImpl` | `ProcessSubscribe`, `ProcessPublish` |
| `decodeTextField`, `decodeTwoBytes`, `decodeTopics`, ... | `DecodeTextField`, `DecodeTwoBytes`, `DecodeTopics`, `DecodePublish`, `DecodeSubscribe`, `DecodeKeepAlive` |
| `buildMqttPacket` of each message, `codeSize`, `concatEncodedSize` | `Build*`, `CodeSize`, `ConcatEncodedSize` |

`attempts` and `dropped` are history: which events found the queue full.

### TopicTrie

`heap` is the sequence of the `NodeTrie` objects in the order in which they were made, a
pointer a place in it; a character is its code, since the lists are ordered by it.  A
level is a head and the ordered list of its brothers; the end mark makes a head its
own son.  Only the worker uses the tree, so each operation is one step, and a lookup
is an operator.

| Code | Definition |
|---|---|
| `NodeTrie::find`, `insert`, `takeNew` | `Before`, `Brother`, `Find`, `Insert`, `TakeNew` |
| `Trie::find` | `Has`: whether a filter is one of the `MaxFilters` already there |
| `Trie::insert`, `subscribeToTopic` in `_subscribeClientImpl` | `Down`, `InsertFilter`, `Subscribe` |
| `unSubscribeMqttClient` in `~MqttClient` | `Unsubscribe` (the nodes stay) |
| `getSubscribedMqttClients` | `GetSubscribed` |
| `findSubscribedMqttClients` | `FindSubscribed`; its main loop goes on with `NextLevel` and `NextCharacter` |
| `matchWithPlusWildCard`, `matchWithNumberSignWildCard` | `PlusWildCard`, `NumberSignWildCard` |
| `~NodeTrie` | `Deleted`, the order in which the nodes are freed |

### WsRouting

A WebSocket client is its id, which AsyncWebSocket counts up; a transport is its
address, which the allocator may hand out again as soon as it is free.  `client` says who
lives at an address (`NoId`: freed).  One step is one event of AsyncWebSocket, except
that a disconnection takes two (`Disconnect`, `Erase`), between which the worker and the
application may run.  `strayed` and `wild` record events that reached a wrong or a
freed transport, `forgotten` the deletions a full queue refused.

| Code | Actions |
|---|---|
| `onWsEvent`, `WS_EVT_CONNECT`; `acceptClient` | `ConnectAccepted`, `ConnectRejected` |
| `WS_EVT_DATA` | `Data` |
| `WS_EVT_DISCONNECT`, `handleDisconnect` | `Disconnect`, `Erase`, `DisconnectUnrouted` |
| `processKeepAlives`, `disconnect` | `KeepAliveTimeout` |
| `processDeletions`, `~MqttClient`, `~WsTransport` | `TakeDeletion`, `DeleteClient` |
| `stopBroker` (`stop()`, the end of the worker), `~MqttBroker` | `StopListener`, `StopWorker`, `DestroyBroker` |

## 5. Runs

| Run | Question | Result |
|---|---|---|
| `tcp` | With the callbacks of the TCP build (synchronous close, double and stale reports), are the registry's map and objects consistent, its walks safe, its critical sections exclusive, its capacity kept, its subscriptions tracked? Does the trie lead to a freed client only if a SUBSCRIBE of that client was processed too late? | pass |
| `deferred` | With the close the comments describe, is no freed client ever used, is every closed client scheduled and in the end destroyed although events keep coming, do callbacks end before their client is freed, is `ClientLifecycle` implemented? | pass |
| `stale_subscribe` | Does a queued SUBSCRIBE event outlive its client? | violation: yes (finding) |
| `lost_deletion` | Does a full deletion queue lose a client for good? | violation: yes (finding) |
| `outbox_tcp` | Order, whole packets, nothing lost, everything sent, over TCP | pass |
| `outbox_torn` | Is every packet whole when both tasks send? | violation: no (finding) |
| `keepalive_timing` | Is a silent client dropped in bounded time, and a client only for its silence, unless a packet of it is handled during the check? | pass |
| `keepalive_active` | Does the check spare a client that has just been heard of? | violation: no (finding) |
| `session_answers` | Can a client read the answers to its requests, to the byte, however these are cut and whichever task is faster, and is what it has been sent whole packets at every moment (`AnswersFramed`)? Are the packets delivered those of the stream, inside their buffer? The number of codes in a SUBACK and the answers behind a rejected length are left open (section 6). | pass |
| `trie_routing` | Does the trie find exactly the filters that match level by level, by the rule the code implements, each once, and is every node freed once? | pass |
| `ws_routing` | Does every event reach its own transport while addresses are reused, does the map forget who has left, is every client that left deleted, has every transport one owner until the broker is destroyed? | pass |
| `ws_rejected` | The same first question when a client had to be rejected | violation: no (finding) |

**Bounds.**  `MaxClientId` (connections in a behaviour), `MaxChained` (packets after
the first in one chunk), `MaxAppCalls`, `MaxPackets` bound counters the code leaves
unbounded.  Capacity 1 and two addresses (`tcp`) already give a rejected connection,
a reused address with a stale key in the deletion queue, two reports for one
connection and a chunk with two packets; two addresses with room for both (`deferred`) give a
client that is deleted while another is served.  A batch of 1 with queues of 1 or 2 reaches
every full queue and every interrupted batch, which 10, 20 and 50 would reach only
after many more steps of the same kind.  `lost_deletion` needs 3 x 2 reports against
4 slots, where the code has 16 x 2 against 20.  In `Outbox` two tasks are all there
are; packets of one and two bytes with two bytes of room give the full, the
partly full and the empty buffer; three packets allow two of one sender with one of
the other between them; limits 1 and 2 fill the outbox.  Symmetry is used over
`Conns` and, in `TopicTrie`, `Clients`, only in runs without liveness: they are
interchangeable.

`KeepAlive` has one client, since clients do not influence each other except by how
long a walk takes, which `MaxGap` bounds, and a clock of 16 values that wraps in
every longer behaviour.  `MaxGap` is the assumption on time, in `Tick`: the worker ends a
walk at least every `MaxGap` ticks, whatever else it does and however often it fails to
get the mutex within its timeout.  The theorems hold for any number of clients and any
width in which the limits and two gaps fit (`KeepAliveAssumption`).
`Session` uses `Base` 5 for 128: three digits of a length reach 124 as they reach 2 MiB in
the code, and a word of two bytes 99 as it reaches 65535, so that lengths of one, two and
three digits, the last publication that fits the 16 bits and the first that does not, and the
rejected fourth digit appear in packets of about a hundred bytes.  The scripts are a
CONNECT and any three of six requests, and six longer ones (one with a rejected length); six sizes of chunks cut
them inside headers, lengths and fields or put several packets in one chunk; two
places in the event queue make it full.  `WsRouting` has four clients, three
addresses and room for two: an address is reused, also while the disconnection of its
former owner is handled, and a client is rejected in between.  In
`TopicTrie` the visits to a node depend only on the paths that are prefixes of it, so
two filters show what any number would; three levels put a wildcard in the first, an
inner and the last place; one name of the first level is the beginning of the other, and
the levels behind it may be empty.

**Deadlock** is checked in every run but `session_answers`, `ws_routing` and
`ws_rejected`, where a client has said everything, all ids are used up, or the broker
is stopped.

**Fairness** (`FairSpec`).  *MqttBroker*: the worker is a FreeRTOS task with no
unbounded wait except for the mutex; the network task finishes the callback it is in,
and gets the mutex although the worker keeps taking it (strong fairness: it waits
without a timeout and is the waiter of higher priority); a close the broker asked for
is an event of the network task's own queue, so newer callbacks cannot pass it for
ever; the application leaves its critical section.  Nothing is assumed about peers:
they may send for ever, or never close.  *Outbox*: a task inside a call goes on and
gets a mutex that is free again and again; `onPoll` and the keep-alive walk call
`_drainOutbox` periodically; TCP acknowledges what it was given while the connection
lasts.  No fairness for `Send`, `Disconnect` or the setters.  *WsRouting*: the
worker goes on, and the network task ends the event it handles; connections need
never end.

## 6. Findings

1. `stale_subscribe`: `BrokerEvent` of a SUBSCRIBE holds a raw pointer; a client can be
   destroyed between two batches, and `_subscribeClientImpl` then uses it
   (`MqttBroker.cpp:251`).  The comment of `processDeletions` promises the opposite.
2. `lost_deletion`: `queueClientForDeletion` ignores a full queue (`MqttBroker.cpp:139`);
   the closed client stays in the registry for ever and counts against the limit.
3. `outbox_torn`: the fast path writes after it has released the mutex and ignores the
   result (`MqttClient.cpp:207`).
4. `keepalive_active`: `now` is read before the wait for the mutex, and a packet handled
   in between makes the unsigned difference huge: the client is disconnected just
   after it was heard of (`MqttBroker.cpp:182`, `MqttClient.cpp:260`).
5. `ws_rejected`: a transport the broker has no room for is deleted by `acceptClient` but
   stays in `activeTransports` (`WsListener.cpp:51-55`); its later events go through a
   dangling pointer, or to the next client that gets the address, which is then
   queued for deletion although it is connected.

Some divergences have no run of their own: they need no search, or lie outside the
inputs the modules enumerate.  A message longer than 1024 bytes, the constant answer of
`WsTransport::space()` (`WsTransport.h:68`), stays at the head of its client's outbox for ever
(`MqttClient.cpp:224`) and with it all that follow, where `MqttBroker.h:658-659` promises
that the outbox "ensures data integrity and prevents packet loss".  `~MqttBroker` deletes the
trie before the clients that unsubscribe from its nodes (`MqttBroker.cpp:57`).  A SUBACK has
one return code for any number of filters (`AckSubscriptionMqttMessage.cpp:20`), where
`AckSubscriptionMqttMessage.h:18` says "One byte per topic filter"; `AnswersExact` and
`AnswersFramed` accept either.  `README.md:331` says that a length has 1 to 4 bytes; the reader
accepts three, and gives a longer one up without dropping the connection, although
the comment at `ReaderMqttPacket.cpp:42` says "Connection should be dropped by the caller"
(`RejectLength` models what it does then, and `Frames` and `MaxDigits` take it from there).  What
a client is answered behind such a length is therefore not stated: `AnswersExact` ends at
it (`NoneRejected`), and `AnswersFramed` only wants whole packets that answer something.  The
encoder of PUBLISH adds topic and payload in 16 bits (`MqttTocpic.h:57`): from 65536 bytes on the
length field is too small, and both properties stop before (`WithinWord`).  `$` is the end mark of the trie (`Trie.cpp:24`), so the README's own
examples `$building1/#` and `$building1/apartmentB/controllers/+/bethroom`
(`README.md:278`, `:282`) are stored as the empty filter and never match.  Empty levels
are matched loosely: `a//b` also receives `a/b` (`Readings` says exactly what), and `+/a` does
not receive `/a`; `a/#` does not receive `a`, as MQTT 3.1.1 would have it.

`CallbacksSafe` is checked only with a deferred close: with `SyncClose` the run would
fail, because a DISCONNECT queues its client for deletion while the network task
is still in the client's own callback.  The hazard at `MqttClient.cpp:133` records it.

`ImplementsLifecycle`, and with it that only a departed client is destroyed, is checked where
`onDisconnect` is the only report.  With `SyncClose` and `Reports = {"error"}` TLC refutes it
within twenty steps: the error and the disconnection of one connection queue its key twice,
the second key outlives the client, the allocator hands the address out again, and
`processDeletions` destroys the new client, which nobody disconnected
(`MqttBroker.cpp:147`).  The registry is consistent all the while, so the run `tcp` does not
see it.  `CapacityRespected` is checked with a limit that only grows (`MayLowerMax = FALSE`);
a limit lowered below the number of clients turns the equality test off
(`MqttBroker.h:299`).  That a walk gets the mutex within `MaxGap` is assumed of `KeepAlive`, however
often it is put off.

## 7. Proofs

All theorems hold for every value of the constants that satisfies the named
assumptions (`NumbersAssumption`, `SwitchesAssumption`, `ConnsAssumption`,
`OutboxAssumption`, `KeepAliveAssumption`, `ReaderAssumption`, `SessionAssumption`,
`WsRoutingAssumption`, `TrieAssumption`: sizes are naturals, the set of connections is finite, the
null transport is not a connection, the names of a topic's levels hold none of the four
characters with a meaning, and its first level is not empty).  For `Session`, `SessionAssumption` has a base above 4, so
that the constants in the packets are bytes, and different headers; `ScriptsAssumption`
says what a client sends: any sequence of requests the standard has (`WellFormed`) with
fields of two-byte lengths and packets within the reader's three digits, and packets
with a longer length (`Overlong`).  A client that does not follow the standard is
outside: for it the theorems about the reader alone hold.

**`MqttBroker_proofs`.**
* `TypeCorrect`: `TypeOK` is inductive as it stands, because it includes what each
  program counter implies about the thread's locals.
* `RegistryCorrect`, `WalksCorrect`, `MutexCorrect`: one inductive invariant,
  `RegistryInv`.  `RegistryConsistent` alone is not inductive: `InsertClient` could
  overwrite an entry.  It needs that client numbers are fresh (`Numbering`), that the
  address of a connection being accepted or of a client being deleted is in nobody
  else's hands (`AddressesHeld`, `DeletionInHand`), that each program counter inside a
  critical section holds the mutex (`MutexHeld`), and that the clients a walk has still
  to visit are registered (`WalksInside`).  The last is why freeing outside the mutex
  is safe for walks: the erasure is inside.
* `CapacityCorrect` (if the application never lowers the limit): between the
  unlocked test and the insertion the registry only shrinks, since the network task
  is the only one that inserts; so `Cardinality < maxNumClients` at the insertion, and
  the equality test never misses.
* `SubscriptionsCorrect`: needs that every client named in an event or a trie node has
  been constructed.
* `DanglingCorrect`, without a hypothesis: the destructor takes a live client out of every
  node (`SubscriptionsTracked`) and the worker frees nothing during a publish, so a freed
  client is in the trie, or before a publish (`PublishingCovered`), only if its SUBSCRIBE
  was processed after it had been freed (`LateSubscribers`).

**`MqttBroker_departure_proofs`.**  What happens to a client whose connection ends.  These
theorems have hypotheses on the constants, because with the callbacks of the TCP build the
code does not have these properties: `Reports = {}` says that the disconnect callback is the
only report of an end, `~SyncClose` that `close()` does not run it before it returns.  Both
hold of the WebSocket transport, whose one report is `handleDisconnect`
(`WsTransport.h:94`), called by the listener on the network task's own event after `close()`;
`TcpTransport.h:36-47` reports errors and timeouts too.  The run `lost_deletion`
shows what happens otherwise.
* `DepartureInv` is the inductive invariant, for either kind of close: the keys in the deletion queue are
  those of connections that are closed (`KeysClosed`) and differ (`KeysDistinct`), the
  connection being accepted is open and that of the client being deleted closed
  (`HoldsOfClosed`), and a client that departed has a connection that is
  ending (`DepartedClosed`).  An address is reused only after its client was erased, so a
  key leads to one client as long as it is queued.
* `CleanupCorrect`: the keys in the queue belong to different registered clients other than
  the one being reported (`PlaceForOneMore`), so a queue as long as the limit
  (`QueueFits`: 16 clients, 20 places) is never full when a client is reported.
* `CallbacksCorrect`: while the network task is in a callback of a client, its connection is
  open or closing, hence its key is not queued, hence nobody deletes it (`CallbackInv`).
* `UseCorrect` puts `WalksCorrect`, `CallbacksCorrect` and `DanglingCorrect` together: whoever uses
  a freed client uses a late subscriber, and while there is none nothing freed is used.  It
  does not assume `Patient`: connections end when they like.  So the raw pointer in
  a SUBSCRIBE event, which `stale_subscribe` shows, is the only defect of this kind with a
  deferred close.
* `LifecycleImplemented`: `InsertClient` maps to `Admit`, the step that ends a connection to
  `Depart`, `DeleteClient` to `Destroy`, every other step to a stutter.  `Admit` needs
  the capacity to be respected (`CapacityInv`) and the clients that are served to be registered
  (`ServedAreRegistered`).

**`Outbox_proofs`.**
* `TypeCorrect`, with the mutex and the packet in hand tied to the program counter
  (`TypeInv`).
* `OrderCorrect`: `OrderKept` needs `OrderInv`: of one sender, what was sent precedes what
  waits, both precede what it holds, and a sender on the fast path has nothing waiting.
  It holds whether or not writes race.
* `IntactCorrect`, `NothingLostCorrect`: as long as `raced` is false, a task about to write
  has room for the whole packet, because between its test and its write only
  acknowledgements happen (`IntactInv`).
* `OneTaskIntact`: with one task, `Intact` holds without condition.

**`KeepAlive_proofs`.**
* `TypeCorrect`: samples of the clock stay in its width.
* `OverstayCorrect`: a silent client is gone within its limit and two gaps of the worker.
  The invariant ties the samples of the clock to `silence` and `sinceWalk`, so that the
  unsigned difference is known to be the real silence, at any width.
* `DropCorrect`: a difference above the limit is real unless a packet was handled
  after the sample.

**`PacketReader_proofs`.**
* `TypeCorrect` and `BufferCorrect`, for every base, chunk size and stream:
  `BufferRespected` is inductive together with the type invariant, because it says
  for each state of the parser how the count compares with the length.
* `ChunksCorrect` (`Base` above 1: with 1 a length has no digits): the packets delivered are
  those of the whole stream by the rule `Frames`, however it was cut.  The invariant
  `StreamInv` has three parts: the chunk is the end of the stream (`ChunkInv`); the
  parser's state is what it has read of the packet that begins at some place of the stream
  (`ParsedTo`); and the packets delivered followed by the frames from that place, whatever
  the stream goes on with, are the frames of the stream (`DeliveredTo`).  `Frames` is a recursive
  function; that it has a solution and is natural at each place (`FramesDefined`) is proved
  with the least-number principle (`LeastNatural`, from well-foundedness of `<` on the
  naturals), which replaces induction by an operator.

**`Session_proofs`.**
* `SessionRunsReader`: every step of a session is a step of `PacketReader` or leaves its
  variables alone, so what is proved of the reader holds in a session.
* `SessionReaderTyped`, `SessionBufferCorrect`: the two invariants of the reader, carried over.
* `NothingBeforeConnect`: until the CONNECT there is no answer, subscription or event, and
  after a bad handshake there is no answer (`HandshakeFirst` is inductive).
* `RequestsArrive`, `SessionChunksCorrect`: with `WireInv` (what has arrived and what has not
  are the bytes of the script), `ShortInv` (memory that is short stays short) and the reader's
  `StreamInv`, the packets delivered are the first frames of the script.  The
  argument is about the rule `FramesFrom`: where the bytes of a request lie in a stream, it
  gives the frame of the request and goes on behind it (`RequestThere`; for the rejected
  length and what is read of it, `OverlongThere`), hence for a script (`PartsThere`, `ScriptThere`).
* `KeepAliveCorrect`, `EventsCorrect`: what a client wrote is what is decoded
  (`ConnectDecoded`, `PublishDecoded`, `SubscribeDecoded`): a field behind others is found at the
  place where they end (`CarriesParts`, `TextAt`), and the loop of `decodeTopics` comes to
  every filter (`TurnsDefined`).  `EventsInv` names for each event of the queue the request
  it comes from, in increasing order.
* `AnswersFramedCorrect`: `AnswersInv` says that `outgoing` is the concatenation of answers.
  Each encoder writes what the client would (`PublishEncoded`, `FixedAnswers`), which rests
  on `SizeIsCoded`: the digits that `codeSize` shifts through four bytes, and of
  which `concatEncodedSize` takes those with the flag and the last, are `LengthField` for up
  to three digits.  The rule `Frames`, applied to the concatenation, gives the answers back
  (`WireThere`).  `WithinWord` is needed: the run has a script beyond it.
* `SessionTypeCorrect`: from the decoded fields, which are bytes of what arrived, and the
  bounds of the two-byte reads.
* `AnswersExactCorrect`: `AnswersFramed` allows an answer to be missing, repeated or out of
  its place; here the inductive `ExactInv` counts.  It names the frames `q` that have been sent,
  the number `k` of requests that the callback has got (`Progress`; `NextRequest`: the next packet is
  request `k + 1`) and the number `m` of those that the worker is through with.  The
  network task's part of `q` answers the first `k` requests (`NetworkDone`); with those of them
  that were not dropped (`Kept`), the worker's part answers the first `m`, the queue has
  the others, and the subscriptions are the filters of the first `m` (`WorkerDone`).  A SUBSCRIBE
  that is dropped is why a later PUBLISH is not relayed: `Events` numbers the events as
  `attempts` does, so what is dropped later changes nothing for the requests before
  (`KeptSame`).  All lists that the property compares are joined from parts of at most one
  element (`Single`), and each step adds one (`SingleGrows`).  At the end `k` and `m` are the
  lengths of the script and of `Queued` (`AllTaken`).

**`TopicTrie_proofs`.**  All that the run checks of the tree, for any names, any number of levels,
clients and subscriptions.
* `TrieCorrect`: the inductive invariant `TrieInv`.  `Tree` describes the heap by four witnesses:
  the level to which a node belongs, its place in the list of that level (its rank), and for the
  levels their number and the node that leads to each.  Lists are ordered by character,
  ranks grow along `bro`, sons are heads, and a level is led to by one node of a lower level.
  `Down` and the end mark keep it (`TreeGrows`, `DownTree`, `WayDownTree`, `InsertFilterTree`),
  a change of the clients alone does too (`SameShape`).  The second part, `Routes`, says which
  clients are at the node where a filter ends.
* `TypeCorrect`: `TypeOK`, from the tree.
* `DeletesOnce`: levels are numbered downwards and ranks along the list, so the destructor's
  recursion is defined (`DeletesDefined`); what it deletes below two pointers of a node is disjoint,
  because a level has one parent (`OneLeads`, `DeletesBelow`); nothing is left out since
  every level hangs from the root (`DeletesAll`).
* `FindsEachOnce`: every visit of a lookup leads to visits of lower nodes or a later index
  (`VisitsLower`), so the recursion of `FindSubscribed` has a solution (`FindsSolved`) and may be
  unfolded (`FindsFrom`).  The nodes found by two visits from one node are different
  unless an empty level lets the search of the next level and the main loop meet (`CalledBelow`,
  `FindsBelow`, `PartsBelow`, `FindsOnce`): exactly the exception `FoundOnce` names.
* `RoutesAsRuled`: the lookup is compared with the rule for levels through the places in a topic and in a
  filter at which its characters lie (`FilterLaid`, `TopicLaid`).  `Unfolded` says that a node
  where a filter ends is found from a visit exactly when the rest of the filter fits the rest of
  the topic, character by character (`NameCompared`), up to the next `/` for a `+` (`NextSlash`), and
  to the end for a `#` (`WildCardsTried`); `LevelsUnfold` and `LevelsMatch` turn this into
  `Matches` of one of the `Readings`; `FoundAsRuled` combines the two.

**`WsRouting_proofs`.**
* `TypeCorrect`, and one inductive invariant `Inv` for the rest.  `ObjectsInv` says who lives
  at which address, whatever has been rejected or stopped; `RoutesInv` that the map has
  entries of the living only.  While nobody has been rejected and the listener serves
  (`Quiet`), `RoutedInv` says that every entry but the one being erased leads home, and
  `DeletionsInv` that only clients whose connection has ended are queued, each once: that
  is why no address is reused before its entry is as good as gone.
* `EventsGoHome`, `RegisteredReachable`, `MapDoesNotLeak`, `TransportsOwned` follow.
* `NoDeletionForgotten` needs a count: the queue's keys are different members of `clients`
  without the one being queued, so there are fewer than `maxNumClients` (`PlaceForOneMore`).

Two things replace induction by an operator: recursive functions are shown to have a
solution from the least-number principle (`FramesDefined`, `FlatteningDefined`, `TurnsDefined`, and
`RecursionSolved` for any set with a rank), and what is true of the first n parts of
something is carried from n to n + 1 by `Climb`, which takes a set of numbers in place of a
predicate.

**Only model-checked**: all liveness (`EventuallyDestroyed`, `EventuallySent`,
`EventuallyReleased`), since liveness under fairness and `ENABLED` are out of the prover's
reach; and `NoUseAfterFree` and `SubscriptionsLive` as the run `deferred` has them, under
`Patient`, which isolates one defect and is no property of the code: what is proved instead
is `UseCorrect` and `DanglingCorrect`.  Every other invariant and every action property
that a run checks has a theorem.

## 8. Not modelled

The TCP listener's `stop()`, which only closes the port, and the order in which
`~MqttBroker` frees the trie and the clients.  Fragmented and text frames of WebSocket,
which are dropped.  Topics with `$`, or with an empty first level, are outside
`TopicTrie`.  In `Session` one
client talks to itself; what several clients do to each other is in `MqttBroker` without
the bytes.  The text fields of CONNECT behind the keep-alive, which nothing reads, and
`UnsubscribeMqttMessage`, which no action uses.  Logging, the factories and the examples
have no control worth a model, and the headers are mostly declarations and comments.
Memory exhaustion outside the reader and the restart it causes, WiFi, and the internals
of FreeRTOS, AsyncTCP and ESPAsyncWebServer are outside; the latter are modelled only as
the code uses them.
