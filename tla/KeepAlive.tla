----------------------------- MODULE KeepAlive -----------------------------
(***************************************************************************)
(* The keep-alive timing of the broker: the worker's periodic walk         *)
(* (CheckMqttClientTask::run, MqttBroker::processKeepAlives,               *)
(* MqttClient::checkKeepAlive) against the network task, which handles     *)
(* CONNECT and the later packets.  millis() is an unsigned counter that    *)
(* wraps, and neither keepAlive, lastAlive nor _state is protected by a    *)
(* lock.  Time is counted in ticks.                                        *)
(*                                                                         *)
(* The timing assumption is in Tick: the worker ends a walk at least every *)
(* MaxGap ticks, whatever else it has to do and however often it fails to  *)
(* get the mutex within its 10 ms.                                         *)
(***************************************************************************)
EXTENDS Naturals

CONSTANTS
    Clients,            \* client objects; one is reused when it was destroyed
    KeepAlives,         \* keep-alive intervals offered by CONNECT, in seconds
    DefaultKeepAlive,   \* the constructor's, 60 in the code
    HalfSecond,         \* ticks in 500 ms
    Interval,           \* KEEP_ALIVE_INTERVAL, ticks in 100 ms
    MaxGap,             \* the timing assumption
    Word,               \* millis() counts modulo Word, 2^32 in the code
    MaxSilence          \* bound: a longer silence is not counted further

\* MQTT allows one and a half times the interval.
Timeout(seconds) == 3 * HalfSecond * seconds

ASSUME KeepAliveAssumption ==
    /\ KeepAlives \subseteq Nat /\ DefaultKeepAlive \in Nat
    /\ HalfSecond \in Nat /\ Interval \in Nat /\ MaxGap \in Nat
    /\ Word \in Nat /\ MaxSilence \in Nat /\ MaxSilence < Word
    /\ Interval < MaxGap
    /\ \A k \in KeepAlives \cup {DefaultKeepAlive} :
           Timeout(k) + 2 * MaxGap < MaxSilence

VARIABLES
    clock,                                  \* millis()
    state, open, keepAlive, lastAlive,      \* each client and its transport
    netPc, netClient, offered,              \* network task, in a CONNECT
    pc, waited, now, todo, current, interval,   \* worker
    silence,        \* history: ticks since the client's last packet was handled
    sinceWalk,      \* history: ticks since the worker ended a walk
    raced           \* history: clients with a packet handled during the check

clientVars  == <<state, open, keepAlive, lastAlive>>
networkVars == <<netPc, netClient, offered>>
workerVars  == <<pc, waited, now, todo, current, interval>>
vars == <<clock, clientVars, networkVars, workerVars, silence, sinceWalk, raced>>

Init ==
    /\ clock \in 0..Word-1
    /\ state = [c \in Clients |-> "absent"] /\ open = [c \in Clients |-> FALSE]
    /\ keepAlive = [c \in Clients |-> DefaultKeepAlive]
    /\ lastAlive = [c \in Clients |-> 0]
    /\ netPc = "idle" /\ netClient \in Clients /\ offered = DefaultKeepAlive
    /\ pc = "idle" /\ waited = 0 /\ now = 0 /\ todo = {}
    /\ current \in Clients /\ interval = DefaultKeepAlive
    /\ silence = [c \in Clients |-> 0] /\ sinceWalk = 0 /\ raced = {}

\* The handshake of c is under way: c may be visible as connected too early.
InHandshake(c) == netPc # "idle" /\ netClient = c

\* A packet of c is being handled while the worker holds a sample of the clock.
NoteRace(c) == raced' = IF pc = "idle" THEN raced ELSE raced \cup {c}

-----------------------------------------------------------------------------
(* Time.                                                                   *)

\* Mutant: the counter does not wrap.
AdvanceUnbounded(t) == t + 1

Advance(t) == IF t + 1 = Word THEN 0 ELSE t + 1

Tick ==
    /\ sinceWalk < MaxGap
    /\ clock' = Advance(clock)
    /\ waited' = waited + 1 /\ sinceWalk' = sinceWalk + 1
    /\ silence' = [c \in Clients |->
                      IF state[c] = "absent" \/ silence[c] = MaxSilence
                      THEN silence[c] ELSE silence[c] + 1]
    /\ UNCHANGED <<clientVars, networkVars, pc, now, todo, current, interval, raced>>

-----------------------------------------------------------------------------
(* The network task.                                                       *)

\* acceptClient: constructor and registration, under the mutex.
Accept(c) ==
    /\ netPc = "idle" /\ state[c] = "absent" /\ pc \in {"idle", "lock"}
    /\ state' = [state EXCEPT ![c] = "pending"]
    /\ open' = [open EXCEPT ![c] = TRUE]
    /\ keepAlive' = [keepAlive EXCEPT ![c] = DefaultKeepAlive]
    /\ lastAlive' = [lastAlive EXCEPT ![c] = clock]
    /\ silence' = [silence EXCEPT ![c] = 0]
    /\ NoteRace(c)
    /\ UNCHANGED <<clock, networkVars, workerVars, sinceWalk>>

\* A valid CONNECT: first the state, then the interval, then lastAlive.
HandleConnect(c, k) ==
    /\ netPc = "idle" /\ state[c] = "pending" /\ open[c]
    /\ state' = [state EXCEPT ![c] = "connected"]
    /\ silence' = [silence EXCEPT ![c] = 0]
    /\ netPc' = "setKeepAlive" /\ netClient' = c /\ offered' = k
    /\ NoteRace(c)
    /\ UNCHANGED <<clock, open, keepAlive, lastAlive, workerVars, sinceWalk>>

SetKeepAlive ==
    /\ netPc = "setKeepAlive"
    /\ keepAlive' = [keepAlive EXCEPT ![netClient] = offered]
    /\ netPc' = "setLastAlive"
    /\ UNCHANGED <<clock, state, open, lastAlive, netClient, offered, workerVars,
                   silence, sinceWalk, raced>>

SetLastAlive ==
    /\ netPc = "setLastAlive"
    /\ lastAlive' = [lastAlive EXCEPT ![netClient] = clock]
    /\ silence' = [silence EXCEPT ![netClient] = 0]
    /\ netPc' = "idle"
    /\ NoteRace(netClient)
    /\ UNCHANGED <<clock, state, open, keepAlive, netClient, offered, workerVars,
                   sinceWalk>>

\* Any packet of a connected client.
HandlePacket(c) ==
    /\ netPc = "idle" /\ state[c] = "connected" /\ open[c]
    /\ lastAlive' = [lastAlive EXCEPT ![c] = clock]
    /\ silence' = [silence EXCEPT ![c] = 0]
    /\ NoteRace(c)
    /\ UNCHANGED <<clock, state, open, keepAlive, networkVars, workerVars, sinceWalk>>

\* The peer closes, or a packet makes the network task disconnect the client.
Close(c) ==
    /\ netPc = "idle" /\ open[c]
    /\ open' = [open EXCEPT ![c] = FALSE]
    /\ UNCHANGED <<clock, state, keepAlive, lastAlive, networkVars, workerVars, silence,
                   sinceWalk, raced>>

-----------------------------------------------------------------------------
(* The worker.                                                             *)

\* processDeletions: the closed client leaves the registry and is destroyed.
DestroyClient(c) ==
    /\ pc = "idle" /\ state[c] # "absent" /\ ~open[c] /\ ~InHandshake(c)
    /\ state' = [state EXCEPT ![c] = "absent"]
    /\ UNCHANGED <<clock, open, keepAlive, lastAlive, networkVars, workerVars, silence,
                   sinceWalk, raced>>

\* The interval has passed: the clock is read before the mutex is waited for.
StartCheck ==
    /\ pc = "idle" /\ waited > Interval
    /\ now' = clock /\ pc' = "lock"
    /\ raced' = {c \in Clients : InHandshake(c)}
    /\ UNCHANGED <<clock, clientVars, networkVars, waited, todo, current, interval,
                   silence, sinceWalk>>

LockKeepAlive ==
    /\ pc = "lock"
    /\ todo' = {c \in Clients : state[c] # "absent"} /\ pc' = "walk"
    /\ UNCHANGED <<clock, clientVars, networkVars, waited, now, current, interval,
                   silence, sinceWalk, raced>>

\* The mutex was not free for 10 ms: the check is put off by a whole interval.
SkipKeepAlive ==
    /\ pc = "lock"
    /\ waited' = 0 /\ pc' = "idle"
    /\ UNCHANGED <<clock, clientVars, networkVars, now, todo, current, interval, silence,
                   sinceWalk, raced>>

\* getState: only connected clients are checked.
VisitClient(c) ==
    /\ pc = "walk" /\ c \in todo
    /\ todo' = todo \ {c} /\ current' = c
    /\ pc' = IF state[c] = "connected" THEN "readKeepAlive" ELSE "walk"
    /\ UNCHANGED <<clock, clientVars, networkVars, waited, now, interval, silence,
                   sinceWalk, raced>>

\* checkKeepAlive: interval zero disables the check.
ReadKeepAlive ==
    /\ pc = "readKeepAlive"
    /\ interval' = keepAlive[current]
    /\ pc' = IF keepAlive[current] = 0 THEN "walk" ELSE "readLastAlive"
    /\ UNCHANGED <<clock, clientVars, networkVars, waited, now, todo, current, silence,
                   sinceWalk, raced>>

\* Mutant: the distance of the two times, whichever is the later.
DistanceBetween(a, b) == IF a >= b THEN a - b ELSE b - a

\* Mutant: no time has passed when the later time is the smaller number.
DifferenceClamped(a, b) == IF a >= b THEN a - b ELSE 0

\* Unsigned subtraction.
Difference(a, b) == IF a >= b THEN a - b ELSE a - b + Word

CheckLastAlive ==
    /\ pc = "readLastAlive"
    /\ open' = IF Difference(now, lastAlive[current]) > Timeout(interval)
               THEN [open EXCEPT ![current] = FALSE] ELSE open
    /\ pc' = "walk"
    /\ UNCHANGED <<clock, state, keepAlive, lastAlive, networkVars, waited, now, todo,
                   current, interval, silence, sinceWalk, raced>>

UnlockKeepAlive ==
    /\ pc = "walk" /\ todo = {}
    /\ pc' = "idle" /\ waited' = 0 /\ sinceWalk' = 0
    /\ UNCHANGED <<clock, clientVars, networkVars, now, todo, current, interval, silence,
                   raced>>

-----------------------------------------------------------------------------
Network ==
    \/ \E c \in Clients : Accept(c) \/ HandlePacket(c) \/ Close(c)
    \/ \E c \in Clients, k \in KeepAlives : HandleConnect(c, k)
    \/ SetKeepAlive \/ SetLastAlive

Worker ==
    \/ \E c \in Clients : DestroyClient(c) \/ VisitClient(c)
    \/ StartCheck \/ LockKeepAlive \/ SkipKeepAlive
    \/ ReadKeepAlive \/ CheckLastAlive \/ UnlockKeepAlive

Next == Tick \/ Network \/ Worker

Spec == Init /\ [][Next]_vars

-----------------------------------------------------------------------------
(* Properties.                                                             *)

Times == 0..Word-1
Seconds == KeepAlives \cup {DefaultKeepAlive}

\* Values stay in their ranges; in particular the clock and its samples stay in
\* the width of millis().
TypeOK ==
    /\ clock \in Times
    /\ state \in [Clients -> {"absent", "pending", "connected"}]
    /\ open \in [Clients -> BOOLEAN]
    /\ keepAlive \in [Clients -> Seconds] /\ lastAlive \in [Clients -> Times]
    /\ netPc \in {"idle", "setKeepAlive", "setLastAlive"}
    /\ netClient \in Clients /\ offered \in Seconds
    /\ pc \in {"idle", "lock", "walk", "readKeepAlive", "readLastAlive"}
    /\ waited \in 0..MaxGap /\ now \in Times /\ todo \subseteq Clients
    /\ current \in Clients /\ interval \in Seconds
    /\ silence \in [Clients -> 0..MaxSilence] /\ sinceWalk \in 0..MaxGap
    /\ raced \subseteq Clients

\* The worker's check closes the transport of c in this step.
Dropped(c) == pc = "readLastAlive" /\ pc' = "walk" /\ open[c] /\ ~open'[c]

Overdue(c) == keepAlive[c] # 0 /\ silence[c] > Timeout(keepAlive[c])

\* What the comment of processKeepAlives says: a client is disconnected if the time
\* since its last packet exceeds one and a half times its interval; a client
\* that has just sent something, or asked for no keep-alive, is left alone.
ActiveStaysConnected == [][\A c \in Clients : Dropped(c) => Overdue(c)]_vars

\* The check drops a client only for its silence, at any value of the wrapping clock,
\* unless one of its packets (or its handshake) was handled during the check.
DropJustified == [][\A c \in Clients : Dropped(c) => Overdue(c) \/ c \in raced]_vars

\* A connected client that asked for a keep-alive and falls silent is disconnected
\* in time: it outlasts its limit by two gaps of the worker at most.
OverstayBounded ==
    \A c \in Clients :
        state[c] = "connected" /\ open[c] /\ ~InHandshake(c) /\ keepAlive[c] # 0
            => silence[c] <= Timeout(keepAlive[c]) + 2 * MaxGap

=============================================================================
