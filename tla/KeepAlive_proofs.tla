-------------------------- MODULE KeepAlive_proofs --------------------------
(***************************************************************************)
(* Proofs about KeepAlive, for any number of clients, any intervals, any   *)
(* width of the clock and any gap of the worker that the assumption of the *)
(* module allows.                                                          *)
(***************************************************************************)
EXTENDS KeepAlive, TLAPS

-----------------------------------------------------------------------------
(* Arithmetic of the clock.                                                *)

\* How long ago the clock read t, up to its width.
Behind(t) == IF clock >= t THEN clock - t ELSE clock - t + Word

\* The limits are numbers that leave room for two gaps of the worker.
LEMMA Limits ==
    \A k \in Seconds : Timeout(k) \in Nat /\ Timeout(k) + 2 * MaxGap < MaxSilence
<1>1. \A k \in Nat : 3 * HalfSecond * k \in Nat
  BY KeepAliveAssumption
<1>2. Seconds \subseteq Nat
  BY KeepAliveAssumption DEF Seconds
<1> QED
  BY <1>1, <1>2, KeepAliveAssumption DEF Seconds, Timeout

\* The bounds are naturals, and the clock is wider than any silence counted.
LEMMA Bounds ==
    /\ Interval \in Nat /\ MaxGap \in Nat /\ Word \in Nat /\ MaxSilence \in Nat
    /\ MaxSilence < Word /\ Interval < MaxGap /\ 2 * MaxGap < MaxSilence
<1>1. DefaultKeepAlive \in Seconds
  BY DEF Seconds
<1> QED
  BY <1>1, Limits, KeepAliveAssumption

\* When the clock advances, every earlier reading is one tick further behind, except
\* one that is a whole turn behind.
LEMMA Advancing ==
    ASSUME clock \in Times, clock' = Advance(clock), NEW t \in Times
    PROVE  /\ clock' \in Times /\ Behind(t) \in Times
           /\ Behind(t) + 1 < Word => Behind(t)' = Behind(t) + 1
BY Bounds DEF Times, Advance, Behind

\* Of two readings less than a turn old, the unsigned difference is what separates
\* them if the first is the later one.
LEMMA Subtracting ==
    ASSUME clock \in Times, NEW a \in Times, NEW b \in Times, Behind(a) <= Behind(b)
    PROVE  Difference(a, b) = Behind(b) - Behind(a)
BY Bounds DEF Times, Behind, Difference

-----------------------------------------------------------------------------
(* The inductive invariant.                                                *)

Present(c) == state[c] # "absent"

\* The worker is between reading the interval of c and reading its lastAlive.
Reading(c) == pc = "readLastAlive" /\ current = c

\* The current check of c is not finished.
Unvisited(c) ==
    \/ pc \in {"idle", "lock"} \/ c \in todo
    \/ pc \in {"readKeepAlive", "readLastAlive"} /\ current = c

Established(c) ==
    state[c] = "connected" /\ open[c] /\ ~InHandshake(c) /\ keepAlive[c] # 0

\* lastAlive records the silence, as far as it is counted.
LastAliveInv ==
    \A c \in Clients : Present(c) /\ ~InHandshake(c) /\ silence[c] < MaxSilence
                           => Behind(lastAlive[c]) = silence[c]

\* The worker's sample is not older than its last check, and the packets handled
\* after it are those of the clients in raced.
SampleInv ==
    pc # "idle" =>
        /\ Behind(now) <= waited
        /\ \A c \in Clients : InHandshake(c) => c \in raced
        /\ \A c \in raced : Present(c) /\ ~InHandshake(c) => silence[c] <= Behind(now)
        /\ \A c \in Clients \ raced : Present(c) => Behind(now) <= silence[c]

\* The client in hand is connected, and its interval is the one read.
CheckInv ==
    /\ pc \in {"readKeepAlive", "readLastAlive"} => state[current] = "connected"
    /\ \A c \in Clients \ raced :
           Reading(c) => interval = keepAlive[c] /\ interval # 0

\* The silence of an established client: within a gap of the limit when the worker
\* starts the walk, and within the limit at the sample once it was visited.
OverstayInv ==
    \A c \in Clients : Established(c) =>
        silence[c] <= Timeout(keepAlive[c]) + sinceWalk
                          + (IF Unvisited(c) THEN MaxGap ELSE 0)

TimerInv == waited <= sinceWalk

KeepAliveInv ==
    TypeOK /\ TimerInv /\ LastAliveInv /\ SampleInv /\ CheckInv /\ OverstayInv

-----------------------------------------------------------------------------
(* Types.                                                                  *)

\* The first samples are in the width of the clock.
LEMMA TypeInit == Init => TypeOK /\ TimerInv
BY Bounds DEF Init, TypeOK, TimerInv, Times, Seconds

\* Every step keeps the samples in it, and the timers in their bounds.
LEMMA TypeStep ==
    ASSUME TypeOK, TimerInv, [Next]_vars PROVE TypeOK' /\ TimerInv'
<1> USE DEF TypeOK, TimerInv, clientVars, networkVars, workerVars
<1>1. CASE Tick
  <2>1. clock' \in Times
    BY <1>1, Advancing DEF Tick
  <2>2. silence' \in [Clients -> 0..MaxSilence]
    BY <1>1, Bounds DEF Tick
  <2> QED
    BY <1>1, <2>1, <2>2, Bounds DEF Tick
<1>2. ASSUME NEW c \in Clients, Accept(c) PROVE TypeOK' /\ TimerInv'
  BY <1>2, Bounds DEF Accept, NoteRace, Seconds
<1>3. ASSUME NEW c \in Clients, HandlePacket(c) PROVE TypeOK' /\ TimerInv'
  BY <1>3, Bounds DEF HandlePacket, NoteRace
<1>4. ASSUME NEW c \in Clients, Close(c) PROVE TypeOK' /\ TimerInv'
  BY <1>4 DEF Close
<1>5. ASSUME NEW c \in Clients, NEW k \in KeepAlives, HandleConnect(c, k)
      PROVE  TypeOK' /\ TimerInv'
  BY <1>5, Bounds DEF HandleConnect, NoteRace, Seconds
<1>6. CASE SetKeepAlive
  BY <1>6 DEF SetKeepAlive
<1>7. CASE SetLastAlive
  BY <1>7, Bounds DEF SetLastAlive, NoteRace
<1>8. ASSUME NEW c \in Clients, DestroyClient(c) PROVE TypeOK' /\ TimerInv'
  BY <1>8 DEF DestroyClient
<1>9. ASSUME NEW c \in Clients, VisitClient(c) PROVE TypeOK' /\ TimerInv'
  BY <1>9 DEF VisitClient
<1>10. CASE StartCheck
  BY <1>10 DEF StartCheck
<1>11. CASE LockKeepAlive
  BY <1>11 DEF LockKeepAlive
<1>12. CASE SkipKeepAlive
  BY <1>12, Bounds DEF SkipKeepAlive
<1>13. CASE ReadKeepAlive
  BY <1>13 DEF ReadKeepAlive
<1>14. CASE CheckLastAlive
  BY <1>14 DEF CheckLastAlive
<1>15. CASE UnlockKeepAlive
  BY <1>15, Bounds DEF UnlockKeepAlive
<1>16. CASE UNCHANGED vars
  BY <1>16 DEF vars
<1> QED
  BY <1>1, <1>2, <1>3, <1>4, <1>5, <1>6, <1>7, <1>8, <1>9, <1>10, <1>11, <1>12,
     <1>13, <1>14, <1>15, <1>16 DEF Next, Network, Worker

\* The ranges of the values never overflow: the clock, its samples and the times
\* of the clients stay in the width of millis().
THEOREM TypeCorrect == Spec => []TypeOK
<1>1. Init => TypeOK /\ TimerInv
  BY TypeInit
<1>2. TypeOK /\ TimerInv /\ [Next]_vars => TypeOK' /\ TimerInv'
  BY TypeStep
<1> QED
  BY <1>1, <1>2, PTL DEF Spec

-----------------------------------------------------------------------------
(* The clock and the samples.                                              *)

\* lastAlive goes on recording the silence: time passes for both, and every
\* other step either sets both or leaves both.
LEMMA LastAliveStep ==
    ASSUME TypeOK, LastAliveInv, [Next]_vars PROVE LastAliveInv'
<1> USE DEF clientVars, networkVars, workerVars, InHandshake, Present
<1>1. CASE Tick
  <2> SUFFICES ASSUME NEW c \in Clients, Present(c)', ~InHandshake(c)',
                      silence'[c] < MaxSilence
               PROVE  Behind(lastAlive[c])' = silence'[c]
    BY DEF LastAliveInv
  <2>1. /\ silence[c] \in 0..MaxSilence /\ lastAlive[c] \in Times
        /\ state'[c] = state[c] /\ lastAlive' = lastAlive
    BY <1>1 DEF Tick, TypeOK
  <2>2. silence[c] < MaxSilence /\ silence'[c] = silence[c] + 1
    BY <1>1, <2>1, Bounds DEF Tick
  <2>3. Behind(lastAlive[c]) = silence[c]
    BY <1>1, <2>1, <2>2 DEF LastAliveInv, Tick
  <2> DEFINE t == lastAlive[c]
  <2>4. Behind(t)' = Behind(t) + 1
    <3>1. Behind(t) + 1 < Word
      BY <2>1, <2>2, <2>3, Bounds
    <3>2. t' = t /\ t \in Times
      BY <2>1
    <3> HIDE DEF t
    <3>3. clock \in Times /\ clock' = Advance(clock)
      BY <1>1 DEF Tick, TypeOK
    <3> QED
      BY <3>1, <3>2, <3>3, Bounds DEF Times, Advance, Behind
  <2> QED
    BY <2>2, <2>3, <2>4
<1>2. ASSUME NEW c \in Clients, Accept(c) \/ HandlePacket(c) PROVE LastAliveInv'
  <2> SUFFICES ASSUME NEW d \in Clients, Present(d)', ~InHandshake(d)',
                      silence'[d] < MaxSilence
               PROVE  Behind(lastAlive[d])' = silence'[d]
    BY DEF LastAliveInv
  <2>1. CASE d = c
    BY <1>2, <2>1 DEF Accept, HandlePacket, TypeOK, Behind, Times
  <2>2. CASE d # c
    <3>1. /\ state'[d] = state[d] /\ silence'[d] = silence[d]
          /\ lastAlive'[d] = lastAlive[d] /\ clock' = clock /\ ~InHandshake(d)
      BY <1>2, <2>2 DEF Accept, HandlePacket, TypeOK
    <3> QED
      BY <3>1 DEF LastAliveInv, Behind
  <2> QED
    BY <2>1, <2>2
<1>3. ASSUME NEW c \in Clients, NEW k \in KeepAlives, HandleConnect(c, k)
      PROVE  LastAliveInv'
  BY <1>3 DEF HandleConnect, LastAliveInv, TypeOK, Behind
<1>4. CASE SetLastAlive
  BY <1>4 DEF SetLastAlive, LastAliveInv, TypeOK, Behind, Times
<1>5. CASE SetKeepAlive
  BY <1>5 DEF SetKeepAlive, LastAliveInv, TypeOK, Behind
<1>6. ASSUME NEW c \in Clients, DestroyClient(c) PROVE LastAliveInv'
  BY <1>6 DEF DestroyClient, LastAliveInv, TypeOK, Behind
<1>7. ASSUME UNCHANGED <<clock, state, lastAlive, networkVars, silence>>
      PROVE  LastAliveInv'
  BY <1>7 DEF LastAliveInv, Behind
<1> HIDE DEF LastAliveInv
<1> QED
  BY <1>1, <1>2, <1>3, <1>4, <1>5, <1>6, <1>7
     DEF Next, Network, Worker, Close, StartCheck, LockKeepAlive, SkipKeepAlive,
         VisitClient, ReadKeepAlive, CheckLastAlive, UnlockKeepAlive, vars

\* Whoever has a packet handled after the sample is in raced and has been silent for
\* less time than the sample is old; the others for at least as long.
LEMMA SampleStep ==
    ASSUME TypeOK, TimerInv, SampleInv, [Next]_vars PROVE SampleInv'
<1> USE DEF clientVars, networkVars, workerVars, InHandshake, Present, NoteRace
<1>1. CASE Tick
  <2> SUFFICES ASSUME pc # "idle" PROVE SampleInv'
    BY <1>1 DEF SampleInv, Tick
  <2>1. /\ waited \in 0..MaxGap /\ waited' = waited + 1 /\ waited < MaxGap
        /\ now \in Times /\ now' = now
    BY <1>1, Bounds DEF Tick, TypeOK, TimerInv
  <2>2. Behind(now) <= waited
    BY DEF SampleInv
  <2> DEFINE t == now
  <2>3. Behind(t)' = Behind(t) + 1
    <3>1. Behind(t) + 1 < Word
      BY <2>1, <2>2, Bounds DEF Behind, TypeOK, Times
    <3>2. t' = t /\ t \in Times
      BY <2>1
    <3> HIDE DEF t
    <3> QED
      BY <1>1, <3>1, <3>2, Bounds DEF Tick, TypeOK, Times, Advance, Behind
  <2>4. Behind(now) \in Times
    BY <2>1, Bounds DEF TypeOK, Times, Behind
  <2>5. ASSUME NEW c \in Clients, Present(c)
        PROVE  /\ silence[c] \in 0..MaxSilence
               /\ silence'[c] = silence[c] \/ silence'[c] = silence[c] + 1
               /\ silence'[c] = silence[c] => silence[c] = MaxSilence
    BY <1>1, <2>5, Bounds DEF Tick, TypeOK
  <2> HIDE DEF Present, InHandshake
  <2>6. ASSUME NEW c \in raced, Present(c), ~InHandshake(c)
        PROVE  silence'[c] <= Behind(now) + 1
    <3>1. silence[c] <= Behind(now) /\ c \in Clients
      BY <2>6 DEF SampleInv, TypeOK
    <3> QED
      BY <2>4, <2>5, <2>6, <3>1, Bounds DEF Times
  <2>7. ASSUME NEW c \in Clients \ raced, Present(c)
        PROVE  Behind(now) + 1 <= silence'[c]
    <3>1. Behind(now) <= silence[c]
      BY <2>7 DEF SampleInv
    <3> QED
      BY <2>1, <2>2, <2>4, <2>5, <2>7, <3>1, Bounds DEF Times
  <2>8. Behind(now)' <= waited'
    BY <2>1, <2>2, <2>3, <2>4, Bounds DEF Times
  <2>9. /\ raced' = raced /\ pc' = pc
        /\ \A c : Present(c)' = Present(c) /\ InHandshake(c)' = InHandshake(c)
    BY <1>1 DEF Tick, Present, InHandshake
  <2> QED
    BY <2>3, <2>6, <2>7, <2>8, <2>9 DEF SampleInv
<1>2. ASSUME NEW c \in Clients, Accept(c) \/ HandlePacket(c) PROVE SampleInv'
  <2>1. /\ silence' = [silence EXCEPT ![c] = 0] /\ UNCHANGED <<clock, networkVars, workerVars>>
        /\ NoteRace(c) /\ netPc = "idle"
        /\ \A d \in Clients \ {c} : state'[d] = state[d]
    BY <1>2 DEF Accept, HandlePacket, TypeOK
  <2>2. Behind(now) \in Times
    BY Bounds DEF TypeOK, Times, Behind
  <2> QED
    BY <2>1, <2>2 DEF SampleInv, TypeOK, Behind, Times
<1>3. ASSUME NEW c \in Clients, NEW k \in KeepAlives, HandleConnect(c, k)
      PROVE  SampleInv'
  BY <1>3 DEF HandleConnect, SampleInv, TypeOK, Behind
<1>4. CASE SetLastAlive
  <2>1. Behind(now) \in Times
    BY Bounds DEF TypeOK, Times, Behind
  <2> QED
    BY <1>4, <2>1 DEF SetLastAlive, SampleInv, TypeOK, Behind, Times
<1>5. CASE SetKeepAlive
  BY <1>5 DEF SetKeepAlive, SampleInv, Behind
<1>6. ASSUME NEW c \in Clients, DestroyClient(c) PROVE SampleInv'
  BY <1>6 DEF DestroyClient, SampleInv
<1>7. CASE StartCheck
  BY <1>7, Bounds DEF StartCheck, SampleInv, TypeOK, Behind, Times
<1>8. CASE SkipKeepAlive \/ UnlockKeepAlive
  BY <1>8 DEF SkipKeepAlive, UnlockKeepAlive, SampleInv
<1>9. ASSUME UNCHANGED <<clock, state, networkVars, now, waited, silence, raced>>,
             pc' = "idle" \/ pc # "idle"
      PROVE  SampleInv'
  BY <1>9 DEF SampleInv, Behind
<1> HIDE DEF SampleInv
<1> QED
  BY <1>1, <1>2, <1>3, <1>4, <1>5, <1>6, <1>7, <1>8, <1>9
     DEF Next, Network, Worker, Close, LockKeepAlive,
         VisitClient, ReadKeepAlive, CheckLastAlive, vars

\* What the worker read of the client in hand stays true of it, unless it is in raced.
LEMMA CheckStep ==
    ASSUME TypeOK, SampleInv, CheckInv, [Next]_vars PROVE CheckInv'
<1> USE DEF clientVars, networkVars, workerVars, InHandshake, NoteRace, Reading
<1>1. CASE Tick
  BY <1>1 DEF Tick, CheckInv
<1>2. ASSUME NEW c \in Clients, Accept(c) \/ HandlePacket(c) \/ Close(c) PROVE CheckInv'
  BY <1>2 DEF Accept, HandlePacket, Close, CheckInv, TypeOK
<1>3. ASSUME NEW c \in Clients, NEW k \in KeepAlives, HandleConnect(c, k)
      PROVE  CheckInv'
  BY <1>3 DEF HandleConnect, CheckInv, TypeOK
<1>4. CASE SetKeepAlive
  <2>1. pc # "idle" => netClient \in raced
    BY <1>4 DEF SetKeepAlive, SampleInv, TypeOK
  <2> QED
    BY <1>4, <2>1 DEF SetKeepAlive, CheckInv, TypeOK
<1>5. CASE SetLastAlive
  BY <1>5 DEF SetLastAlive, CheckInv, TypeOK
<1>6. ASSUME NEW c \in Clients, DestroyClient(c) PROVE CheckInv'
  BY <1>6 DEF DestroyClient, CheckInv
<1>7. ASSUME NEW c \in Clients, VisitClient(c) PROVE CheckInv'
  BY <1>7 DEF VisitClient, CheckInv
<1>8. CASE StartCheck \/ LockKeepAlive \/ SkipKeepAlive \/ CheckLastAlive \/ UnlockKeepAlive
  BY <1>8 DEF StartCheck, LockKeepAlive, SkipKeepAlive, CheckLastAlive, UnlockKeepAlive,
              CheckInv
<1>9. CASE ReadKeepAlive
  BY <1>9 DEF ReadKeepAlive, CheckInv
<1>10. CASE UNCHANGED vars
  BY <1>10 DEF vars, CheckInv
<1> HIDE DEF CheckInv
<1> QED
  BY <1>1, <1>2, <1>3, <1>4, <1>5, <1>6, <1>7, <1>8, <1>9, <1>10
     DEF Next, Network, Worker

-----------------------------------------------------------------------------
(* The check.                                                              *)

\* For a client that sent nothing during the check, the difference the worker
\* computes is the silence up to the sample, unless the silence is past counting.
LEMMA CheckReads ==
    ASSUME TypeOK, LastAliveInv, SampleInv, pc # "idle",
           NEW c \in Clients \ raced, Present(c), silence[c] < MaxSilence
    PROVE  /\ Behind(now) <= silence[c]
           /\ Difference(now, lastAlive[c]) = silence[c] - Behind(now)
<1>1. ~InHandshake(c) /\ Behind(now) <= silence[c]
  BY DEF SampleInv
<1>2. Behind(lastAlive[c]) = silence[c]
  BY <1>1 DEF LastAliveInv
<1>3. clock \in Times /\ now \in Times /\ lastAlive[c] \in Times
  BY DEF TypeOK
<1> QED
  BY <1>1, <1>2, <1>3, Subtracting

\* A check that does not drop an established client has found it within its limit at
\* the sample; a client in raced has sent something since the sample.
LEMMA CheckFinds ==
    ASSUME TypeOK, TimerInv, LastAliveInv, SampleInv, CheckInv, OverstayInv,
           CheckLastAlive, Established(current), open'[current]
    PROVE  silence[current] <= Timeout(keepAlive[current]) + sinceWalk
<1>1. /\ current \in Clients /\ keepAlive[current] \in Seconds /\ silence[current] \in 0..MaxSilence
      /\ waited \in 0..MaxGap /\ sinceWalk \in 0..MaxGap /\ waited <= sinceWalk
  BY DEF TypeOK, TimerInv
<1>2. Timeout(keepAlive[current]) \in Nat /\ Timeout(keepAlive[current]) + 2 * MaxGap < MaxSilence
  BY <1>1, Limits
<1>3. pc = "readLastAlive" /\ Present(current) /\ ~InHandshake(current)
  BY DEF CheckLastAlive, Established, Present
<1>4. Behind(now) \in Nat /\ Behind(now) <= waited
  BY <1>3, Bounds DEF SampleInv, TypeOK, Times, Behind
<1>5. CASE current \in raced
  <2>1. silence[current] <= Behind(now)
    BY <1>3, <1>5 DEF SampleInv
  <2> QED
    BY <1>1, <1>2, <1>4, <2>1, Bounds
<1>6. CASE current \notin raced
  <2>1. silence[current] <= Timeout(keepAlive[current]) + sinceWalk + MaxGap
    BY <1>1, <1>3 DEF OverstayInv, Unvisited
  <2>2. silence[current] < MaxSilence
    BY <1>1, <1>2, <2>1, Bounds
  <2>3. Difference(now, lastAlive[current]) = silence[current] - Behind(now)
    BY <1>1, <1>3, <1>6, <2>2, CheckReads
  <2>4. interval = keepAlive[current]
    BY <1>1, <1>3, <1>6 DEF CheckInv, Reading
  <2>5. ~(Difference(now, lastAlive[current]) > Timeout(interval))
    BY <1>1 DEF CheckLastAlive, TypeOK
  <2> QED
    BY <1>1, <1>2, <1>4, <2>3, <2>4, <2>5, Bounds
<1> QED
  BY <1>5, <1>6

-----------------------------------------------------------------------------
(* Silent clients.                                                         *)

\* The silence allowed now.
Allowed(c) == Timeout(keepAlive[c]) + sinceWalk + (IF Unvisited(c) THEN MaxGap ELSE 0)

\* Every step keeps the bound on how long a silent client stays.
LEMMA OverstayStep ==
    ASSUME TypeOK, TimerInv, LastAliveInv, SampleInv, CheckInv, OverstayInv, [Next]_vars,
           TypeOK'
    PROVE  OverstayInv'
<1> USE DEF clientVars, networkVars, workerVars, InHandshake
<1> DEFINE Within(c) == Established(c) => silence[c] <= Allowed(c)
<1>a. /\ OverstayInv = \A c \in Clients : Within(c)
      /\ OverstayInv' = \A c \in Clients : Within(c)'
  BY DEF OverstayInv, Allowed
<1> SUFFICES ASSUME NEW c \in Clients, Established(c)' PROVE silence'[c] <= Allowed(c)'
  BY <1>a
<1>b. Within(c)
  BY <1>a
<1>c. /\ keepAlive'[c] \in Seconds /\ silence'[c] \in 0..MaxSilence
      /\ sinceWalk \in 0..MaxGap /\ sinceWalk' \in 0..MaxGap
      /\ silence[c] \in 0..MaxSilence
  BY DEF TypeOK
<1>d. Timeout(keepAlive'[c]) \in Nat
  BY <1>c, Limits
\* A client whose packet has just been handled.
<1>e. ASSUME silence'[c] = 0 PROVE silence'[c] <= Allowed(c)'
  BY <1>c, <1>d, <1>e, Bounds DEF Allowed
\* A client the step does not concern, which is not visited by it either.
<1>f. ASSUME UNCHANGED <<state[c], keepAlive[c], silence[c], sinceWalk>>, InHandshake(c)' = InHandshake(c),
             open'[c] => open[c], Unvisited(c) => Unvisited(c)'
      PROVE  silence'[c] <= Allowed(c)'
  <2>1. silence[c] <= Allowed(c)
    BY <1>b, <1>f DEF Established
  <2> QED
    BY <1>c, <1>d, <1>f, <2>1, Bounds DEF Allowed
<1> HIDE DEF Within
<1>1. CASE Tick
  <2>1. /\ Established(c) /\ keepAlive' = keepAlive
        /\ Unvisited(c)' = Unvisited(c)
    BY <1>1 DEF Tick, Established, Unvisited
  <2>2. silence'[c] <= silence[c] + 1 /\ sinceWalk' = sinceWalk + 1
    BY <1>1, <1>c, Bounds DEF Tick
  <2>3. silence[c] <= Allowed(c)
    BY <1>b, <2>1 DEF Within
  <2> QED
    BY <1>c, <1>d, <2>1, <2>2, <2>3, Bounds DEF Allowed
<1>2. ASSUME NEW d \in Clients, Accept(d) PROVE silence'[c] <= Allowed(c)'
  <2>1. CASE c = d
    BY <1>2, <1>e, <2>1 DEF Accept, TypeOK
  <2>2. CASE c # d
    BY <1>2, <1>f, <2>2 DEF Accept, TypeOK, Unvisited
  <2> QED
    BY <2>1, <2>2
<1>3. ASSUME NEW d \in Clients, HandlePacket(d) PROVE silence'[c] <= Allowed(c)'
  <2>1. CASE c = d
    BY <1>3, <1>e, <2>1 DEF HandlePacket, TypeOK
  <2>2. CASE c # d
    BY <1>3, <1>f, <2>2 DEF HandlePacket, TypeOK, Unvisited
  <2> QED
    BY <2>1, <2>2
<1>4. ASSUME NEW d \in Clients, Close(d) PROVE silence'[c] <= Allowed(c)'
  BY <1>4, <1>f DEF Close, TypeOK, Unvisited
<1>5. ASSUME NEW d \in Clients, NEW k \in KeepAlives, HandleConnect(d, k)
      PROVE  silence'[c] <= Allowed(c)'
  <2>1. c # d
    BY <1>5 DEF HandleConnect, Established
  <2> QED
    BY <1>5, <1>f, <2>1 DEF HandleConnect, TypeOK, Unvisited
<1>6. CASE SetKeepAlive
  <2>1. c # netClient
    BY <1>6 DEF SetKeepAlive, Established
  <2> QED
    BY <1>6, <1>f, <2>1 DEF SetKeepAlive, TypeOK, Unvisited
<1>7. CASE SetLastAlive
  <2>1. CASE c = netClient
    BY <1>7, <1>e, <2>1 DEF SetLastAlive, TypeOK
  <2>2. CASE c # netClient
    BY <1>7, <1>f, <2>2 DEF SetLastAlive, TypeOK, Unvisited
  <2> QED
    BY <2>1, <2>2
<1>8. ASSUME NEW d \in Clients, DestroyClient(d) PROVE silence'[c] <= Allowed(c)'
  <2>1. c # d
    BY <1>8 DEF DestroyClient, Established
  <2> QED
    BY <1>8, <1>f, <2>1 DEF DestroyClient, TypeOK, Unvisited
<1>9. ASSUME NEW d \in Clients, VisitClient(d) PROVE silence'[c] <= Allowed(c)'
  <2>1. Unvisited(c) => Unvisited(c)'
    BY <1>9 DEF VisitClient, Unvisited, Established
  <2> QED
    BY <1>9, <1>f, <2>1 DEF VisitClient
<1>10. CASE StartCheck
  BY <1>10, <1>f DEF StartCheck, Unvisited
<1>11. CASE LockKeepAlive
  BY <1>11, <1>f DEF LockKeepAlive, Unvisited, Established
<1>12. CASE SkipKeepAlive
  BY <1>12, <1>f DEF SkipKeepAlive, Unvisited
<1>13. CASE ReadKeepAlive
  <2>1. Unvisited(c) => Unvisited(c)'
    BY <1>13 DEF ReadKeepAlive, Unvisited, Established
  <2> QED
    BY <1>13, <1>f, <2>1 DEF ReadKeepAlive
<1>14. CASE CheckLastAlive
  <2>1. /\ keepAlive' = keepAlive /\ silence' = silence /\ sinceWalk' = sinceWalk
        /\ open'[c] => open[c]
    BY <1>14 DEF CheckLastAlive, TypeOK
  <2>2. CASE c = current
    <3>1. Established(current) /\ open'[current]
      BY <1>14, <2>1, <2>2 DEF CheckLastAlive, Established
    <3>2. silence[c] <= Timeout(keepAlive[c]) + sinceWalk
      BY <1>14, <2>2, <3>1, CheckFinds
    <3> QED
      BY <1>c, <1>d, <2>1, <3>2, Bounds DEF Allowed
  <2>3. CASE c # current
    BY <1>14, <1>f, <2>1, <2>3 DEF CheckLastAlive, Unvisited
  <2> QED
    BY <2>2, <2>3
<1>15. CASE UnlockKeepAlive
  <2>1. /\ Established(c) /\ keepAlive' = keepAlive /\ silence' = silence
        /\ ~Unvisited(c) /\ Unvisited(c)' /\ sinceWalk' = 0
    BY <1>15 DEF UnlockKeepAlive, Established, Unvisited
  <2>2. silence[c] <= Allowed(c)
    BY <1>b, <2>1 DEF Within
  <2> QED
    BY <1>c, <1>d, <2>1, <2>2, Bounds DEF Allowed
<1>16. CASE UNCHANGED vars
  BY <1>16, <1>f DEF vars, Unvisited
<1> QED
  BY <1>1, <1>2, <1>3, <1>4, <1>5, <1>6, <1>7, <1>8, <1>9, <1>10, <1>11, <1>12,
     <1>13, <1>14, <1>15, <1>16 DEF Next, Network, Worker

-----------------------------------------------------------------------------
(* The theorems.                                                           *)

\* All of it holds in every reachable state.
LEMMA KeepAliveInvariant == Spec => []KeepAliveInv
<1>1. Init => KeepAliveInv
  <2> SUFFICES ASSUME Init PROVE KeepAliveInv
    OBVIOUS
  <2>1. TypeOK /\ TimerInv
    BY TypeInit
  <2>2. LastAliveInv /\ SampleInv /\ CheckInv /\ OverstayInv
    BY DEF Init, LastAliveInv, SampleInv, CheckInv, OverstayInv, Present, Established,
           Reading
  <2> QED
    BY <2>1, <2>2 DEF KeepAliveInv
<1>2. KeepAliveInv /\ [Next]_vars => KeepAliveInv'
  <2> SUFFICES ASSUME KeepAliveInv, [Next]_vars PROVE KeepAliveInv'
    OBVIOUS
  <2>1. TypeOK /\ TimerInv /\ LastAliveInv /\ SampleInv /\ CheckInv /\ OverstayInv
    BY DEF KeepAliveInv
  <2>2. TypeOK' /\ TimerInv'
    BY <2>1, TypeStep
  <2>3. LastAliveInv'
    BY <2>1, LastAliveStep
  <2>4. SampleInv'
    BY <2>1, SampleStep
  <2>5. CheckInv'
    BY <2>1, CheckStep
  <2>6. OverstayInv'
    BY <2>1, <2>2, OverstayStep
  <2> QED
    BY <2>2, <2>3, <2>4, <2>5, <2>6 DEF KeepAliveInv
<1> QED
  BY <1>1, <1>2, PTL DEF Spec

\* A silent client does not outlast its limit by more than two gaps of the worker.
THEOREM OverstayCorrect == Spec => []OverstayBounded
<1>1. KeepAliveInv => OverstayBounded
  <2> SUFFICES ASSUME KeepAliveInv, NEW c \in Clients, Established(c)
               PROVE  silence[c] <= Timeout(keepAlive[c]) + 2 * MaxGap
    BY DEF OverstayBounded, Established
  <2>1. /\ silence[c] \in 0..MaxSilence /\ keepAlive[c] \in Seconds
        /\ sinceWalk \in 0..MaxGap
    BY DEF KeepAliveInv, TypeOK
  <2>2. Timeout(keepAlive[c]) \in Nat
    BY <2>1, Limits
  <2>3. silence[c] <= Timeout(keepAlive[c]) + sinceWalk
                          + (IF Unvisited(c) THEN MaxGap ELSE 0)
    BY DEF KeepAliveInv, OverstayInv
  <2> QED
    BY <2>1, <2>2, <2>3, Bounds
<1> QED
  BY <1>1, KeepAliveInvariant, PTL

\* The check drops a client only for its silence, unless a packet of that client is
\* handled during the check.
THEOREM DropCorrect == Spec => DropJustified
<1>1. KeepAliveInv /\ [Next]_vars
          => [\A c \in Clients : Dropped(c) => Overdue(c) \/ c \in raced]_vars
  <2> SUFFICES ASSUME KeepAliveInv, [Next]_vars, NEW c \in Clients, Dropped(c),
                      c \notin raced
               PROVE  Overdue(c)
    OBVIOUS
  <2>1. TypeOK /\ LastAliveInv /\ SampleInv /\ CheckInv
    BY DEF KeepAliveInv
  <2>2. CheckLastAlive /\ c = current
    BY <2>1 DEF Dropped, Next, Network, Worker, Tick, Accept, HandlePacket, Close,
                HandleConnect, SetKeepAlive, SetLastAlive, DestroyClient, VisitClient,
                StartCheck, LockKeepAlive, SkipKeepAlive, ReadKeepAlive, CheckLastAlive,
                UnlockKeepAlive, vars, clientVars, workerVars, TypeOK
  <2>3. /\ interval = keepAlive[c] /\ interval # 0 /\ Present(c) /\ pc # "idle"
    BY <2>1, <2>2 DEF CheckInv, Reading, CheckLastAlive, Present
  <2>4. Difference(now, lastAlive[c]) > Timeout(interval)
    BY <2>2 DEF Dropped, CheckLastAlive
  <2>5. /\ keepAlive[c] \in Seconds /\ silence[c] \in 0..MaxSilence
        /\ Behind(now) \in Nat
    BY <2>1, Bounds DEF TypeOK, Times, Behind
  <2>6. Timeout(interval) \in Nat /\ Timeout(interval) + 2 * MaxGap < MaxSilence
    BY <2>3, <2>5, Limits
  <2>7. CASE silence[c] < MaxSilence
    <3>1. Difference(now, lastAlive[c]) = silence[c] - Behind(now)
      BY <2>1, <2>3, <2>7, CheckReads
    <3> QED
      BY <2>3, <2>4, <2>5, <2>6, <3>1 DEF Overdue
  <2>8. CASE silence[c] = MaxSilence
    BY <2>3, <2>5, <2>6, <2>8, Bounds DEF Overdue
  <2> QED
    BY <2>5, <2>7, <2>8, Bounds
<1> QED
  BY <1>1, KeepAliveInvariant, PTL DEF Spec, DropJustified

=============================================================================
