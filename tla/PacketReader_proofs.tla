------------------------ MODULE PacketReader_proofs ------------------------
(***************************************************************************)
(* Proofs about PacketReader, for any base, any chunks and any stream.     *)
(***************************************************************************)
EXTENDS PacketReader, SequenceTheorems, WellFoundedInduction, TLAPS

-----------------------------------------------------------------------------
(* Helpers.                                                                *)

\* The value of a byte's digit, times the multiplier, is added to the length.
LEMMA LengthType ==
    ASSUME NEW b \in Bytes, TypeOK PROVE LengthWith(b) \in Nat
<1>1. \A x, y \in Nat : x * y \in Nat
  OBVIOUS
<1>2. b % Base \in Nat
  BY ReaderAssumption DEF Bytes
<1>3. (b % Base) * multiplier \in Nat
  BY <1>1, <1>2 DEF TypeOK
<1> QED
  BY <1>3 DEF LengthWith, TypeOK

\* There is a byte to read, and one more is consumed.
LEMMA ByteType ==
    ASSUME TypeOK, More PROVE Byte \in Bytes /\ dataIdx + 1 \in 0..Len(data)
<1>1. data \in Seq(Bytes) /\ dataIdx \in 0..Len(data) /\ dataIdx < Len(data)
  BY DEF TypeOK, More
<1> QED
  BY <1>1 DEF Byte

\* What is copied is at least a byte, and neither more than what is needed nor more
\* than what is available.
LEMMA CopyBounds ==
    ASSUME TypeOK, More, bytesReadSoFar < remainingLengt
    PROVE  /\ BytesToCopy \in Nat \ {0}
           /\ bytesReadSoFar + BytesToCopy <= remainingLengt
           /\ dataIdx + BytesToCopy <= Len(data)
<1>1. /\ bytesReadSoFar \in Nat /\ remainingLengt \in Nat /\ dataIdx \in Nat
      /\ Len(data) \in Nat /\ dataIdx < Len(data)
  BY DEF TypeOK, More
<1> QED
  BY <1>1 DEF BytesToCopy

\* The copied bytes as a sequence.
LEMMA CopiedBytes ==
    ASSUME NEW S, NEW s \in Seq(S), NEW i \in Nat, NEW n \in Nat, i + n <= Len(s)
    PROVE  SubSeq(s, i + 1, i + n) \in Seq(S) /\ Len(SubSeq(s, i + 1, i + n)) = n
OBVIOUS

-----------------------------------------------------------------------------
(* The inductive invariant: outside the body the buffer is empty.          *)

ReaderInv ==
    /\ TypeOK /\ BufferRespected
    /\ state \in {"waitingFixedHeader", "waitingRemainingLength"} =>
           bytesReadSoFar = 0 /\ remainingPacket = <<>>

\* A parser that has read nothing satisfies it.
LEMMA ReaderInit == Init => ReaderInv
<1> SUFFICES ASSUME Init PROVE ReaderInv
  OBVIOUS
<1>1. 0 \in Bytes
  BY ReaderAssumption DEF Bytes
<1>2. \A S : <<>> \in Seq(S)
  OBVIOUS
<1> DEFINE Packets == [header : Bytes, body : Seq(Bytes)]
<1>3. remainingPacket \in Seq(Bytes) /\ data \in Seq(Bytes) /\ stream \in Seq(Bytes)
  BY <1>2 DEF Init
<1>4. packets \in Seq(Packets)
  <2> HIDE DEF Packets
  <2> QED
    BY <1>2 DEF Init
<1>5. Len(<<>>) = 0 /\ dataIdx \in 0..Len(data)
  BY DEF Init
<1>6. state \in States /\ fixedHeader \in Bytes /\ memoryShort \in BOOLEAN
  BY <1>1, Zenon DEF Init, States
<1>7. remainingLengt \in Nat /\ multiplier \in Nat \ {0} /\ bytesReadSoFar \in Nat
  BY DEF Init
<1>8. TypeOK
  BY <1>3, <1>4, <1>5, <1>6, <1>7 DEF TypeOK
<1> QED
  BY <1>8 DEF Init, ReaderInv, BufferRespected

\* After a reset the parser is as it was at the beginning.
LEMMA ResetInv ==
    ASSUME Reset PROVE /\ state' = "waitingFixedHeader" /\ fixedHeader' \in Bytes
                       /\ remainingLengt' = 0 /\ multiplier' = 1
                       /\ bytesReadSoFar' = 0 /\ remainingPacket' = <<>>
BY ReaderAssumption DEF Reset, Bytes

\* Every step of the parser keeps its type and its buffer.
LEMMA ReaderStep == ReaderInv /\ [Next]_vars => ReaderInv'
<1> SUFFICES ASSUME ReaderInv, [Next]_vars PROVE ReaderInv'
  OBVIOUS
<1> USE DEF ReaderInv, BufferRespected, parserVars
<1>1. ASSUME NEW chunk \in Chunks, AddData(chunk) PROVE ReaderInv'
  <2>1. chunk \in Seq(Bytes)
    BY ReaderAssumption DEF Chunks
  <2>2. data' \in Seq(Bytes) /\ dataIdx' \in 0..Len(data') /\ stream' \in Seq(Bytes)
    BY <1>1, <2>1 DEF AddData, TypeOK
  <2> QED
    BY <1>1, <2>2 DEF AddData, TypeOK
<1>2. CASE ReadFixedHeader
  <2>1. Byte \in Bytes /\ dataIdx + 1 \in 0..Len(data)
    BY <1>2, ByteType DEF ReadFixedHeader
  <2> QED
    BY <1>2, <2>1 DEF ReadFixedHeader, TypeOK, States
<1>3. CASE RejectLength
  <2>1. dataIdx + 1 \in 0..Len(data)
    BY <1>3, ByteType DEF RejectLength
  <2> QED
    BY <1>3, <2>1, ResetInv DEF RejectLength, TypeOK, States
<1>4. CASE ReadLengthByte
  <2>1. Byte \in Bytes /\ dataIdx + 1 \in 0..Len(data)
    BY <1>4, ByteType DEF ReadLengthByte
  <2>2. LengthWith(Byte) \in Nat
    BY <2>1, LengthType
  <2>3. multiplier * Base \in Nat \ {0}
    <3>1. \A x, y \in Nat \ {0} : x * y \in Nat \ {0}
      OBVIOUS
    <3> QED
      BY <3>1, ReaderAssumption DEF TypeOK
  <2>4. TypeOK'
    BY <1>4, <2>1, <2>2, <2>3 DEF ReadLengthByte, TypeOK, States
  <2>5. /\ bytesReadSoFar' = 0 /\ remainingPacket' = <<>>
        /\ remainingLengt' = LengthWith(Byte)
        /\ state' \in {"waitingRemainingLength", "packetReady", "waitingRemainingPacket"}
        /\ state' = "packetReady" => LengthWith(Byte) = 0
        /\ state' = "waitingRemainingPacket" => LengthWith(Byte) # 0
    BY <1>4 DEF ReadLengthByte
  <2> QED
    BY <2>2, <2>4, <2>5
<1>5. CASE AllocationFails
  BY <1>5, ResetInv DEF AllocationFails, TypeOK, States
<1>6. CASE CopyBody
  <2>1. /\ BytesToCopy \in Nat \ {0} /\ dataIdx + BytesToCopy <= Len(data)
        /\ bytesReadSoFar + BytesToCopy <= remainingLengt
    BY <1>6, CopyBounds DEF CopyBody
  <2> DEFINE copied == SubSeq(data, dataIdx + 1, dataIdx + BytesToCopy)
             n == BytesToCopy
  <2>2. copied \in Seq(Bytes) /\ Len(copied) = BytesToCopy
    BY <2>1, CopiedBytes DEF TypeOK
  <2>3. remainingPacket' = remainingPacket \o copied
    BY <1>6 DEF CopyBody
  <2> HIDE DEF copied
  <2>4. /\ remainingPacket' \in Seq(Bytes)
        /\ Len(remainingPacket') = bytesReadSoFar + BytesToCopy
    <3>1. remainingPacket \in Seq(Bytes) /\ Len(remainingPacket) = bytesReadSoFar
      BY DEF TypeOK
    <3> HIDE DEF ReaderInv
    <3> QED
      BY <2>2, <2>3, <3>1, ConcatProperties
  <2>5. /\ bytesReadSoFar' = bytesReadSoFar + n /\ dataIdx' = dataIdx + n
        /\ n \in Nat \ {0} /\ dataIdx + n <= Len(data)
        /\ bytesReadSoFar + n <= remainingLengt
        /\ state' = (IF bytesReadSoFar' = remainingLengt THEN "packetReady" ELSE state)
        /\ state = "waitingRemainingPacket"
        /\ Len(remainingPacket') = bytesReadSoFar + n
    BY <1>6, <2>1, <2>4 DEF CopyBody
  <2> HIDE DEF n
  <2>6. dataIdx' \in 0..Len(data) /\ bytesReadSoFar' \in Nat
    BY <2>5 DEF TypeOK
  <2>7. TypeOK'
    BY <1>6, <2>4, <2>5, <2>6 DEF CopyBody, TypeOK, States
  <2>8. BufferRespected'
    <3>1. remainingLengt' = remainingLengt /\ remainingLengt \in Nat
      BY <1>6 DEF CopyBody, TypeOK
    <3> QED
      BY <2>5, <2>6, <3>1
  <2> QED
    BY <2>5, <2>7, <2>8
<1>7. CASE DeliverPacket
  <2>1. packets' \in Seq([header : Bytes, body : Seq(Bytes)])
    BY <1>7 DEF DeliverPacket, TypeOK
  <2> QED
    BY <1>7, <2>1, ResetInv DEF DeliverPacket, TypeOK, States
<1>8. CASE UNCHANGED vars
  BY <1>8 DEF vars, TypeOK
<1> QED
  BY <1>1, <1>2, <1>3, <1>4, <1>5, <1>6, <1>7, <1>8 DEF Next

\* The parser, the chunk in hand and the packets delivered are well typed.
THEOREM TypeCorrect == Spec => []TypeOK
<1>1. ReaderInv => TypeOK
  BY DEF ReaderInv
<1> QED
  BY <1>1, ReaderInit, ReaderStep, PTL DEF Spec

\* The body of a packet is never copied beyond its buffer, and is complete when the
\* callback gets it, however the stream is cut.
THEOREM BufferCorrect == Spec => []BufferRespected
<1>1. ReaderInv => BufferRespected
  BY DEF ReaderInv
<1> QED
  BY <1>1, ReaderInit, ReaderStep, PTL DEF Spec

-----------------------------------------------------------------------------
(* The packets of a stream, as a recursive definition has them: at every   *)
(* place the packet that begins there, and those that follow it.           *)

Packets == [header : Bytes, body : Seq(Bytes)]

Places(s) == 1..Len(s) + MaxDigits + 3

\* The packets from place p, if From has those from the later places.
Taken(s, From, p) ==
    IF \E n \in Digits(s, p) : TRUE
    THEN LET n   == CHOOSE n \in Digits(s, p) : TRUE
             end == p + n + LengthAt(s, p, n)
         IN  IF end > Len(s) THEN <<>>
             ELSE <<[header |-> s[p], body |-> SubSeq(s, p + n + 1, end)]>>
                      \o From[end + 1]
    ELSE IF p + MaxDigits + 1 <= Len(s) THEN From[p + MaxDigits + 2]
    ELSE <<>>

FramesFrom(s) == CHOOSE From : From = [p \in Places(s) |-> Taken(s, From, p)]

\* Frames starts at the first byte.
LEMMA FramesUnfolded == \A s : Frames(s) = FramesFrom(s)[1]
BY DEF Frames, FramesFrom, Places, Taken

\* A nonempty set of natural numbers has a least element.
LEMMA LeastNatural ==
    ASSUME NEW T, T \subseteq Nat, T # {} PROVE \E n \in T : \A m \in T : n <= m
<1> DEFINE Less == {pair \in Nat \X Nat : pair[1] < pair[2]}
<1>1. IsWellFoundedOn(Less, Nat)
  BY NatLessThanWellFounded DEF OpToRel
<1>2. PICK n \in T : \A m \in T : ~(<<m, n>> \in Less)
  <2> HIDE DEF Less
  <2> QED
    BY <1>1, WFMin
<1>3. \A m \in T : ~(m < n)
  BY <1>2
<1> QED
  BY <1>2, <1>3

\* The packet at a place has one length only.
LEMMA OneLength ==
    ASSUME NEW s \in Seq(Bytes), NEW p \in Nat, NEW n \in Digits(s, p)
    PROVE  /\ n \in 1..3 /\ p + n <= Len(s)
           /\ \A m \in Digits(s, p) : m = n
           /\ n = CHOOSE m \in Digits(s, p) : TRUE
<1>1. n \in 1..3 /\ p + n <= Len(s)
  BY DEF Digits, MaxDigits
<1>2. ASSUME NEW m \in Digits(s, p) PROVE m = n
  <2>1. m \in 1..3 /\ p + m <= Len(s) /\ s[p + n] < Base /\ s[p + m] < Base
    BY DEF Digits, MaxDigits
  <2>2. s[p + m] \in Nat /\ s[p + n] \in Nat
    <3>1. \A i \in 1..Len(s) : s[i] \in Nat
      BY ReaderAssumption DEF Bytes
    <3> QED
      BY <1>1, <2>1, <3>1
  <2>3. (n < m => s[p + n] >= Base) /\ (m < n => s[p + m] >= Base)
    <3>1. /\ \A i \in 1..m-1 : s[p + i] >= Base
          /\ \A i \in 1..n-1 : s[p + i] >= Base
      BY DEF Digits, MaxDigits
    <3> QED
      BY <1>1, <2>1, <3>1
  <2> QED
    BY <1>1, <2>1, <2>2, <2>3, ReaderAssumption
<1> QED
  BY <1>1, <1>2

\* A length is a number.
LEMMA LengthNatural ==
    ASSUME NEW s \in Seq(Bytes), NEW p \in Nat, NEW n \in 0..3, p + n <= Len(s)
    PROVE  LengthAt(s, p, n) \in Nat
<1>1. \A x, y \in Nat : x * y \in Nat
  OBVIOUS
<1>2. \A i \in 1..n : s[p + i] \in Nat /\ (s[p + i] % Base) \in Nat
  BY ReaderAssumption DEF Bytes
<1>3. Base \in Nat /\ Base * Base \in Nat
  BY <1>1, ReaderAssumption
<1>4. \A i \in 1..n : \A w \in Nat : (s[p + i] % Base) * w \in Nat
  BY <1>1, <1>2
<1> DEFINE Part(i, w) == IF i <= n THEN (s[p + i] % Base) * w ELSE 0
<1>5. Part(1, 1) \in Nat
  BY <1>4
<1>6. Part(2, Base) \in Nat
  BY <1>3, <1>4
<1>7. Part(3, Base * Base) \in Nat
  BY <1>3, <1>4
<1>8. LengthAt(s, p, n) = Part(1, 1) + Part(2, Base) + Part(3, Base * Base)
  BY DEF LengthAt
<1> HIDE DEF Part
<1> QED
  BY <1>5, <1>6, <1>7, <1>8

\* What begins at a place depends on the later places only, and is a sequence of packets
\* if what follows is one.
LEMMA TakenLater ==
    ASSUME NEW s \in Seq(Bytes), NEW p \in Places(s), NEW F, NEW G,
           \A q \in Places(s) : q > p => F[q] = G[q] /\ F[q] \in Seq(Packets)
    PROVE  Taken(s, F, p) = Taken(s, G, p) /\ Taken(s, F, p) \in Seq(Packets)
<1>1. p \in Nat \ {0} /\ Len(s) \in Nat /\ <<>> \in Seq(Packets)
  BY DEF Places, MaxDigits
<1>2. CASE \E n \in Digits(s, p) : TRUE
  <2>1. PICK n \in Digits(s, p) : TRUE
    BY <1>2
  <2>2. n \in 0..3 /\ n >= 1 /\ p + n <= Len(s)
    BY <1>1, OneLength
  <2>3. n = CHOOSE m \in Digits(s, p) : TRUE
    BY <1>1, OneLength
  <2> DEFINE length == LengthAt(s, p, n)
             packet == [header |-> s[p], body |-> SubSeq(s, p + n + 1, p + n + length)]
  <2>4. \A H : Taken(s, H, p) = IF p + n + length > Len(s) THEN <<>>
                                ELSE <<packet>> \o H[p + n + length + 1]
    BY <1>2, <2>3, Zenon DEF Taken
  <2>5. length \in Nat
    BY <1>1, <2>2, LengthNatural
  <2> HIDE DEF length
  <2>6. CASE p + n + length > Len(s)
    BY <1>1, <2>4, <2>6
  <2>7. CASE ~(p + n + length > Len(s))
    <3>1. packet \in Packets
      <4>1. s[p] \in Bytes
        BY <1>1, <2>2
      <4>2. SubSeq(s, p + n + 1, p + n + length) \in Seq(Bytes)
        BY <1>1, <2>2, <2>5, <2>7, CopiedBytes
      <4> QED
        BY <4>1, <4>2 DEF Packets
    <3>2. p + n + length + 1 \in Places(s) /\ p + n + length + 1 > p
      BY <1>1, <2>2, <2>5, <2>7 DEF Places, MaxDigits
    <3> HIDE DEF packet
    <3> DEFINE next == p + n + length + 1
    <3>3. F[next] = G[next] /\ F[next] \in Seq(Packets)
      BY <3>2
    <3>4. Taken(s, F, p) = <<packet>> \o F[next] /\ Taken(s, G, p) = <<packet>> \o G[next]
      BY <2>4, <2>7
    <3>5. <<packet>> \in Seq(Packets)
      BY <3>1
    <3> HIDE DEF next
    <3> QED
      BY <3>3, <3>4, <3>5, ConcatProperties
  <2> QED
    BY <2>6, <2>7
<1>3. CASE ~ \E n \in Digits(s, p) : TRUE
  <2>1. \A H : Taken(s, H, p) = IF p + 4 <= Len(s) THEN H[p + 5] ELSE <<>>
    BY <1>1, <1>3 DEF Taken, MaxDigits
  <2>2. p + 4 <= Len(s) => p + 5 \in Places(s) /\ p + 5 > p
    BY <1>1 DEF Places, MaxDigits
  <2> QED
    BY <1>1, <2>1, <2>2
<1> QED
  BY <1>2, <1>3

\* The recursive definition has a solution, found from the last place backwards.
LEMMA FramesDefined ==
    ASSUME NEW s \in Seq(Bytes)
    PROVE  /\ FramesFrom(s) \in [Places(s) -> Seq(Packets)]
           /\ \A p \in Places(s) : FramesFrom(s)[p] = Taken(s, FramesFrom(s), p)
<1> DEFINE top == Len(s) + MaxDigits + 3
           Solves(F, m) == \A p \in Places(s) :
                               p + m > top => F[p] = Taken(s, F, p) /\ F[p] \in Seq(Packets)
           Unsolved == {m \in Nat : ~ \E F : Solves(F, m)}
<1>1. top \in Nat /\ \A p \in Places(s) : p \in Nat \ {0} /\ p <= top
  BY DEF Places, MaxDigits
<1> HIDE DEF top
<1>2. ASSUME NEW m \in Nat, m # 0, NEW F, Solves(F, m - 1)
      PROVE  \E G : Solves(G, m)
  <2> DEFINE G == [p \in Places(s) |-> IF p + (m - 1) > top THEN F[p] ELSE Taken(s, F, p)]
  <2>1. ASSUME NEW p \in Places(s), p + m > top
        PROVE  G[p] = Taken(s, G, p) /\ G[p] \in Seq(Packets)
    <3>1. \A q \in Places(s) : q > p => q + (m - 1) > top
      BY <1>1, <2>1
    <3>2. \A q \in Places(s) : q > p => F[q] = G[q] /\ F[q] \in Seq(Packets)
      BY <1>2, <3>1
    <3>3. G[p] = IF p + (m - 1) > top THEN F[p] ELSE Taken(s, F, p)
      OBVIOUS
    <3>4. G[p] = Taken(s, F, p)
      BY <1>2, <3>3
    <3> HIDE DEF G
    <3>5. Taken(s, F, p) = Taken(s, G, p) /\ Taken(s, F, p) \in Seq(Packets)
      BY <3>2, TakenLater
    <3> QED
      BY <3>4, <3>5
  <2> HIDE DEF G
  <2> QED
    BY <2>1
<1>3. Unsolved = {}
  <2> SUFFICES ASSUME Unsolved # {} PROVE FALSE
    OBVIOUS
  <2>1. PICK m \in Unsolved : \A k \in Unsolved : m <= k
    <3>1. Unsolved \subseteq Nat
      OBVIOUS
    <3> HIDE DEF Unsolved
    <3> QED
      BY <3>1, LeastNatural
  <2>2. m # 0
    BY <1>1
  <2>3. m \in Nat /\ m - 1 \in Nat /\ m - 1 < m
    BY <2>2
  <2>4. m - 1 \notin Unsolved
    <3> HIDE DEF Unsolved
    <3> QED
      BY <2>1, <2>3
  <2>5. \E F : Solves(F, m - 1)
    BY <2>3, <2>4
  <2> QED
    BY <1>2, <2>2, <2>3, <2>5
<1>4. PICK F : Solves(F, top)
  BY <1>1, <1>3
<1>5. \A p \in Places(s) : F[p] = Taken(s, F, p) /\ F[p] \in Seq(Packets)
  BY <1>1, <1>4
<1> DEFINE G == [p \in Places(s) |-> F[p]]
<1>6. ASSUME NEW p \in Places(s) PROVE G[p] = Taken(s, G, p) /\ G[p] \in Seq(Packets)
  <2>1. \A q \in Places(s) : q > p => F[q] = G[q] /\ F[q] \in Seq(Packets)
    BY <1>5
  <2>2. G[p] = F[p]
    OBVIOUS
  <2> HIDE DEF G
  <2>3. Taken(s, F, p) = Taken(s, G, p)
    BY <2>1, TakenLater
  <2> QED
    BY <1>5, <2>2, <2>3
<1>7. G = [p \in Places(s) |-> Taken(s, G, p)]
  <2>1. G = [p \in Places(s) |-> G[p]]
    OBVIOUS
  <2> HIDE DEF G
  <2> QED
    BY <1>6, <2>1
<1> HIDE DEF G
<1>8. FramesFrom(s) = [p \in Places(s) |-> Taken(s, FramesFrom(s), p)]
  BY <1>7 DEF FramesFrom
<1> DEFINE H == FramesFrom(s)
           Bad == {m \in Nat : \E p \in Places(s) : p + m = top /\ H[p] \notin Seq(Packets)}
<1>9. \A p \in Places(s) : H[p] = Taken(s, H, p)
  BY <1>8
<1> HIDE DEF H
<1>10. Bad = {}
  <2> SUFFICES ASSUME Bad # {} PROVE FALSE
    OBVIOUS
  <2>1. PICK m \in Bad : \A k \in Bad : m <= k
    <3>1. Bad \subseteq Nat
      OBVIOUS
    <3> HIDE DEF Bad
    <3> QED
      BY <3>1, LeastNatural
  <2>2. PICK p \in Places(s) : p + m = top /\ H[p] \notin Seq(Packets)
    OBVIOUS
  <2>3. ASSUME NEW q \in Places(s), q > p PROVE H[q] \in Seq(Packets)
    <3>1. m \in Nat
      OBVIOUS
    <3>2. top - q \in Nat /\ q + (top - q) = top /\ top - q < m
      BY <1>1, <2>2, <2>3, <3>1
    <3>3. top - q \notin Bad
      <4> HIDE DEF Bad
      <4> QED
        BY <2>1, <3>1, <3>2
    <3> QED
      BY <3>2, <3>3
  <2>4. Taken(s, H, p) \in Seq(Packets)
    BY <2>3, TakenLater
  <2> QED
    BY <1>9, <2>2, <2>4
<1>11. \A p \in Places(s) : H[p] \in Seq(Packets)
  <2> SUFFICES ASSUME NEW p \in Places(s) PROVE H[p] \in Seq(Packets)
    OBVIOUS
  <2>1. top - p \in Nat /\ p + (top - p) = top
    BY <1>1
  <2> QED
    BY <1>10, <2>1
<1>12. H \in [Places(s) -> Seq(Packets)]
  <2>1. H = [p \in Places(s) |-> H[p]]
    BY <1>8 DEF H
  <2> QED
    BY <1>11, <2>1
<1> QED
  BY <1>9, <1>12 DEF H

\* What is at a place: a whole packet and what follows it, the beginning of a packet, or
\* a packet with too long a length, which is skipped.
LEMMA WholePacket ==
    ASSUME NEW s \in Seq(Bytes), NEW p \in Places(s), NEW n \in Digits(s, p),
           NEW end \in Nat, end = p + n + LengthAt(s, p, n), end <= Len(s)
    PROVE  /\ FramesFrom(s)[p] = <<[header |-> s[p], body |-> SubSeq(s, p + n + 1, end)]>>
                                     \o FramesFrom(s)[end + 1]
           /\ FramesFrom(s)[end + 1] \in Seq(Packets)
<1>1. p \in Nat \ {0} /\ end + 1 \in Places(s)
  BY DEF Places, MaxDigits
<1>2. n = CHOOSE m \in Digits(s, p) : TRUE
  BY <1>1, OneLength
<1>3. FramesFrom(s)[p] = Taken(s, FramesFrom(s), p) /\ FramesFrom(s)[end + 1] \in Seq(Packets)
  BY <1>1, FramesDefined
<1>4. ~(end > Len(s))
  OBVIOUS
<1>5. Taken(s, FramesFrom(s), p)
      = <<[header |-> s[p], body |-> SubSeq(s, p + n + 1, end)]>> \o FramesFrom(s)[end + 1]
  BY <1>2, <1>4, Zenon DEF Taken
<1> QED
  BY <1>3, <1>5

\* A packet of which only the beginning is there is none yet ...
LEMMA BeginningOfPacket ==
    ASSUME NEW s \in Seq(Bytes), NEW p \in Places(s),
           \/ \E n \in Digits(s, p) : p + n + LengthAt(s, p, n) > Len(s)
           \/ Digits(s, p) = {} /\ p + 4 > Len(s)
    PROVE  FramesFrom(s)[p] = <<>>
<1>1. p \in Nat \ {0} /\ p + MaxDigits + 1 = p + 4
  BY DEF Places, MaxDigits
<1>2. FramesFrom(s)[p] = Taken(s, FramesFrom(s), p)
  BY FramesDefined
<1>3. ASSUME NEW n \in Digits(s, p), p + n + LengthAt(s, p, n) > Len(s)
      PROVE  Taken(s, FramesFrom(s), p) = <<>>
  <2>1. n = CHOOSE m \in Digits(s, p) : TRUE
    BY <1>1, OneLength
  <2> QED
    BY <1>3, <2>1, Zenon DEF Taken
<1>4. CASE Digits(s, p) = {} /\ p + 4 > Len(s)
  <2>1. ~(p + MaxDigits + 1 <= Len(s))
    BY <1>1, <1>4
  <2> QED
    BY <1>2, <1>4, <2>1, Zenon DEF Taken
<1> QED
  BY <1>2, <1>3, <1>4

\* ... and one with too many digits is skipped with four of them.
LEMMA SkippedPacket ==
    ASSUME NEW s \in Seq(Bytes), NEW p \in Places(s), Digits(s, p) = {}, p + 4 <= Len(s)
    PROVE  FramesFrom(s)[p] = FramesFrom(s)[p + 5]
<1>1. p + MaxDigits + 1 = p + 4 /\ p + MaxDigits + 2 = p + 5
  BY DEF Places, MaxDigits
<1>2. Taken(s, FramesFrom(s), p) = FramesFrom(s)[p + 5]
  BY <1>1, Zenon DEF Taken
<1> QED
  BY <1>2, FramesDefined

-----------------------------------------------------------------------------
(* The parser follows the packets of the stream: the one in hand begins at *)
(* a place before which every continuation of the stream has the packets   *)
(* delivered, and the parser's variables say what was read of it.          *)

\* t begins with the first n bytes of s.
Agree(s, t, n) == n <= Len(s) /\ n <= Len(t) /\ \A i \in 1..n : s[i] = t[i]

\* The bytes of the stream that the parser has seen.
Consumed == Len(stream) - (Len(data) - dataIdx)

ChunkInv ==
    /\ Len(data) <= Len(stream)
    /\ \A i \in 1..Len(data) : data[i] = stream[Len(stream) - Len(data) + i]

\* The length's digits so far, none of which was the last one.
InLength(p, k) ==
    /\ p + k = Consumed /\ fixedHeader = stream[p]
    /\ \A i \in 1..k : stream[p + i] >= Base
    /\ multiplier = (CASE k = 0 -> 1 [] k = 1 -> Base [] k = 2 -> Base * Base
                       [] k = 3 -> Base * Base * Base)
    /\ remainingLengt = LengthAt(stream, p, k)

\* The length, of n digits, and the body so far.
InBody(p, n) ==
    /\ p + n + bytesReadSoFar = Consumed /\ fixedHeader = stream[p]
    /\ remainingLengt = LengthAt(stream, p, n)
    /\ remainingPacket = SubSeq(stream, p + n + 1, Consumed)

\* The packet in hand begins at p.
ParsedTo(p) ==
    CASE state = "waitingFixedHeader"     -> p = Consumed + 1 /\ remainingLengt = 0
      [] state = "waitingRemainingLength" -> \E k \in 0..3 : InLength(p, k)
      [] OTHER                            -> \E n \in Digits(stream, p) : InBody(p, n)

\* The packets before p are those delivered.
DeliveredTo(p) ==
    \A t \in Seq(Bytes) : Agree(stream, t, p - 1) => Frames(t) = packets \o FramesFrom(t)[p]

StreamInv ==
    /\ ReaderInv /\ ChunkInv
    /\ memoryShort \/ \E p \in 1..Len(stream) + 1 : ParsedTo(p) /\ DeliveredTo(p)

\* The next byte of the chunk is the next one of the stream.
LEMMA NextByte ==
    ASSUME TypeOK, ChunkInv, More
    PROVE  /\ Consumed \in Nat /\ Consumed < Len(stream) /\ Byte = stream[Consumed + 1]
           /\ Byte \in Bytes /\ Consumed + 1 \in 1..Len(stream)
<1>1. /\ Len(data) \in Nat /\ Len(stream) \in Nat /\ dataIdx \in Nat /\ dataIdx < Len(data)
      /\ Len(data) <= Len(stream)
  BY DEF TypeOK, More, ChunkInv
<1>2. dataIdx + 1 \in 1..Len(data) /\ Len(stream) - Len(data) + (dataIdx + 1) = Consumed + 1
  BY <1>1 DEF Consumed
<1>3. Byte = stream[Consumed + 1]
  BY <1>2 DEF Byte, ChunkInv
<1> QED
  BY <1>1, <1>3, ByteType DEF Consumed

\* Streams that agree have the same length field.
LEMMA SameLength ==
    ASSUME NEW s \in Seq(Bytes), NEW t \in Seq(Bytes), NEW m \in Nat, Agree(s, t, m),
           NEW p \in Nat, NEW n \in Digits(s, p), p + n <= m
    PROVE  n \in Digits(t, p) /\ LengthAt(t, p, n) = LengthAt(s, p, n)
<1>1. n \in 1..3
  BY DEF Digits, MaxDigits
<1>2. \A i \in 1..n : p + i \in 1..m /\ s[p + i] = t[p + i]
  BY <1>1 DEF Agree
<1>3. n \in Digits(t, p)
  <2>1. p + n <= Len(t)
    BY <1>1 DEF Agree
  <2>2. s[p + n] < Base /\ \A i \in 1..n-1 : s[p + i] >= Base
    BY DEF Digits, MaxDigits
  <2>3. s[p + n] = t[p + n] /\ \A i \in 1..n-1 : s[p + i] = t[p + i]
    <3>1. n \in 1..n /\ \A i \in 1..n-1 : i \in 1..n
      BY <1>1
    <3> QED
      BY <1>2, <3>1
  <2>4. t[p + n] < Base /\ \A i \in 1..n-1 : t[p + i] >= Base
    BY <2>2, <2>3
  <2> QED
    BY <1>1, <2>1, <2>4 DEF Digits, MaxDigits
<1>4. /\ 1 <= n => s[p + 1] = t[p + 1]
      /\ 2 <= n => s[p + 2] = t[p + 2]
      /\ 3 <= n => s[p + 3] = t[p + 3]
  BY <1>1, <1>2
<1> QED
  BY <1>3, <1>4 DEF LengthAt

\* A step that leaves the stream and the packets alone leaves alone what is delivered.
LEMMA DeliveredKept ==
    ASSUME NEW p, DeliveredTo(p), UNCHANGED <<stream, packets>>
    PROVE  DeliveredTo(p)'
BY DEF DeliveredTo, Agree

\* Nothing has arrived, and nothing is delivered.
LEMMA StreamInit == Init => StreamInv
<1> SUFFICES ASSUME Init PROVE StreamInv
  OBVIOUS
<1>1. ReaderInv
  BY ReaderInit
<1>2. Len(<<>>) = 0 /\ Consumed = 0
  BY DEF Consumed, Init
<1>3. ChunkInv /\ ParsedTo(1)
  BY <1>2 DEF Init, ChunkInv, ParsedTo
<1>4. ASSUME NEW t \in Seq(Bytes) PROVE Frames(t) = packets \o FramesFrom(t)[1]
  <2>1. 1 \in Places(t)
    BY DEF Places, MaxDigits
  <2>2. FramesFrom(t)[1] \in Seq(Packets)
    BY <2>1, FramesDefined
  <2> QED
    BY <2>2, FramesUnfolded, ConcatEmptySeq DEF Init
<1>5. DeliveredTo(1)
  BY <1>4 DEF DeliveredTo
<1>6. 1 \in 1..Len(stream) + 1
  BY <1>2 DEF Init
<1> QED
  BY <1>1, <1>3, <1>5, <1>6 DEF StreamInv

\* A chunk is added behind what was seen.
LEMMA StreamAdd ==
    ASSUME StreamInv, NEW chunk \in Chunks, AddData(chunk)
    PROVE  /\ ChunkInv'
           /\ \A p \in 1..Len(stream) + 1 : /\ p \in 1..Len(stream') + 1
                                            /\ ParsedTo(p) => ParsedTo(p)'
                                            /\ DeliveredTo(p) => DeliveredTo(p)'
<1>1. chunk \in Seq(Bytes) /\ stream \in Seq(Bytes) /\ data \in Seq(Bytes)
  BY ReaderAssumption DEF Chunks, StreamInv, ReaderInv, TypeOK
<1>2. /\ data' = chunk /\ dataIdx' = 0 /\ stream' = stream \o chunk /\ dataIdx = Len(data)
      /\ state # "packetReady" /\ UNCHANGED <<parserVars, packets, memoryShort>>
  BY DEF AddData, Idle
<1>3. /\ Len(stream') = Len(stream) + Len(chunk) /\ stream' \in Seq(Bytes)
      /\ \A i \in 1..Len(stream) : stream'[i] = stream[i]
      /\ \A i \in 1..Len(chunk) : stream'[Len(stream) + i] = chunk[i]
  BY <1>1, <1>2, ConcatProperties
<1>4. Len(stream) \in Nat /\ Len(chunk) \in Nat
  BY <1>1
<1>5. ChunkInv'
  BY <1>2, <1>3, <1>4 DEF ChunkInv
<1>6. Consumed = Len(stream) /\ Consumed' = Len(stream)
  BY <1>1, <1>2, <1>3, <1>4 DEF Consumed
<1> SUFFICES ASSUME NEW p \in 1..Len(stream) + 1
             PROVE  /\ p \in 1..Len(stream') + 1
                    /\ ParsedTo(p) => ParsedTo(p)'
                    /\ DeliveredTo(p) => DeliveredTo(p)'
  BY <1>5
<1>7. p \in 1..Len(stream') + 1
  BY <1>3, <1>4
<1>8. ASSUME DeliveredTo(p) PROVE DeliveredTo(p)'
  <2>1. \A t : Agree(stream', t, p - 1) => Agree(stream, t, p - 1)
    BY <1>3, <1>4 DEF Agree
  <2> QED
    BY <1>2, <1>8, <2>1 DEF DeliveredTo
<1>9. ASSUME ParsedTo(p) PROVE ParsedTo(p)'
  <2>1. CASE state = "waitingFixedHeader"
    BY <1>2, <1>6, <1>9, <2>1 DEF ParsedTo, parserVars
  <2>2. CASE state = "waitingRemainingLength"
    <3>1. PICK k \in 0..3 : InLength(p, k)
      BY <1>9, <2>2 DEF ParsedTo
    <3>2. p + k = Len(stream) /\ p \in 1..Len(stream)
      BY <1>4, <1>6, <3>1 DEF InLength
    <3>3. \A i \in 0..k : stream'[p + i] = stream[p + i]
      BY <1>3, <1>4, <3>2
    <3>4. LengthAt(stream', p, k) = LengthAt(stream, p, k)
      BY <3>3 DEF LengthAt
    <3>5. stream'[p] = stream[p]
      BY <1>3, <3>2
    <3>6. InLength(p, k)'
      BY <1>2, <1>6, <3>1, <3>3, <3>4, <3>5 DEF InLength, parserVars
    <3> QED
      BY <1>2, <2>2, <3>6 DEF ParsedTo, parserVars
  <2>3. CASE state \notin {"waitingFixedHeader", "waitingRemainingLength"}
    <3>1. PICK n \in Digits(stream, p) : InBody(p, n)
      BY <1>9, <2>3 DEF ParsedTo
    <3>2. n \in 1..3 /\ p + n <= Len(stream)
      BY <1>1, OneLength
    <3>3. Agree(stream, stream', Len(stream))
      BY <1>3, <1>4 DEF Agree
    <3>4. n \in Digits(stream', p) /\ LengthAt(stream', p, n) = LengthAt(stream, p, n)
      BY <1>1, <1>3, <3>2, <3>3, SameLength
    <3>5. SubSeq(stream', p + n + 1, Len(stream)) = SubSeq(stream, p + n + 1, Len(stream))
      BY <1>1, <1>3, <1>4, <3>2
    <3>6. stream'[p] = stream[p]
      BY <1>3, <3>2
    <3>7. InBody(p, n)'
      BY <1>2, <1>6, <3>1, <3>4, <3>5, <3>6 DEF InBody, parserVars
    <3> QED
      BY <1>2, <2>3, <3>4, <3>7 DEF ParsedTo, parserVars
  <2> QED
    BY <2>1, <2>2, <2>3
<1> QED
  BY <1>7, <1>8, <1>9

\* Inside a packet nothing is delivered, and the chunk is consumed byte by byte.
LEMMA ChunkKept ==
    ASSUME ChunkInv, UNCHANGED <<data, stream>> PROVE ChunkInv'
BY DEF ChunkInv

\* The header.
LEMMA StreamHeader ==
    ASSUME StreamInv, ReadFixedHeader, NEW p \in 1..Len(stream) + 1, ParsedTo(p)
    PROVE  ParsedTo(p)'
<1>1. p = Consumed + 1 /\ remainingLengt = 0 /\ Byte = stream[p] /\ Consumed \in Nat
  BY NextByte DEF ReadFixedHeader, ParsedTo, StreamInv, ReaderInv
<1>2. /\ Consumed' = Consumed + 1 /\ fixedHeader' = stream'[p] /\ multiplier' = 1
      /\ remainingLengt' = 0 /\ state' = "waitingRemainingLength" /\ stream' = stream
  <2>1. dataIdx \in Nat /\ Len(data) \in Nat /\ Len(stream) \in Nat
    BY DEF StreamInv, ReaderInv, TypeOK
  <2> QED
    BY <1>1, <2>1 DEF ReadFixedHeader, Consumed
<1>3. LengthAt(stream, p, 0) = 0
  BY DEF LengthAt
<1>4. InLength(p, 0)'
  BY <1>1, <1>2, <1>3 DEF InLength
<1> QED
  BY <1>2, <1>4 DEF ParsedTo

\* With three digits, none of them the last one, the limit is reached, and not before.
LEMMA Limit ==
    ASSUME Base > 1, NEW p, NEW k \in 0..3, InLength(p, k)
    PROVE  TooLong <=> k = 3
<1>1. Base \in Nat /\ Base > 1
  BY ReaderAssumption
<1>2. \A x, y \in Nat : x * y \in Nat /\ (x > 0 /\ y > 1 => x * y > x)
  OBVIOUS
<1>3. /\ Base * Base \in Nat /\ Base * Base > Base
      /\ Base * Base * Base \in Nat /\ Base * Base * Base > Base * Base
      /\ Base * Base * Base * Base > Base * Base * Base
  BY <1>1, <1>2
<1>4. CASE k = 0
  BY <1>1, <1>3, <1>4 DEF InLength, TooLong
<1>5. CASE k = 1
  BY <1>1, <1>3, <1>5 DEF InLength, TooLong
<1>6. CASE k = 2
  BY <1>1, <1>3, <1>6 DEF InLength, TooLong
<1>7. CASE k = 3
  BY <1>1, <1>3, <1>7 DEF InLength, TooLong
<1> QED
  BY <1>4, <1>5, <1>6, <1>7

\* Another digit of the length.
LEMMA StreamLength ==
    ASSUME StreamInv, Base > 1, ReadLengthByte, NEW p \in 1..Len(stream) + 1, ParsedTo(p)
    PROVE  ParsedTo(p)'
<1>1. PICK k \in 0..3 : InLength(p, k)
  BY DEF ParsedTo, ReadLengthByte
<1>2. k \in 0..2 /\ p + k = Consumed
  BY <1>1, Limit DEF ReadLengthByte, InLength
<1>3. /\ Consumed + 1 \in 1..Len(stream) /\ Byte = stream[p + (k + 1)] /\ Byte \in Bytes
      /\ Consumed \in Nat
  BY <1>2, NextByte DEF ReadLengthByte, StreamInv, ReaderInv
<1>4. Consumed' = Consumed + 1 /\ stream' = stream
  <2>1. dataIdx \in Nat /\ Len(data) \in Nat /\ Len(stream) \in Nat
    BY DEF StreamInv, ReaderInv, TypeOK
  <2> QED
    BY <2>1 DEF ReadLengthByte, Consumed
<1>5. LengthWith(Byte) = LengthAt(stream, p, k + 1)
  <2>1. Base \in Nat /\ Base * Base \in Nat
    <3>1. \A x, y \in Nat : x * y \in Nat
      OBVIOUS
    <3> QED
      BY <3>1, ReaderAssumption
  <2>2. \A i \in 1..k+1 : stream[p + i] \in Nat /\ (stream[p + i] % Base) \in Nat
    <3>1. \A i \in 1..Len(stream) : stream[i] \in Nat
      BY ReaderAssumption DEF StreamInv, ReaderInv, TypeOK, Bytes
    <3> QED
      BY <1>2, <1>3, <3>1, ReaderAssumption
  <2> DEFINE Digit(i) == stream[p + i] % Base
  <2>3. LengthWith(Byte) = LengthAt(stream, p, k) + Digit(k + 1) * multiplier
    BY <1>1, <1>3 DEF LengthWith, InLength
  <2>4. CASE k = 0
    <3>1. multiplier = 1 /\ LengthAt(stream, p, 0) = 0
      BY <1>1, <2>4 DEF InLength, LengthAt
    <3>2. LengthAt(stream, p, 1) = Digit(1) * 1
      BY <2>2, <2>4 DEF LengthAt
    <3> QED
      BY <2>2, <2>3, <2>4, <3>1, <3>2
  <2>5. CASE k = 1
    <3>1. multiplier = Base
      BY <1>1, <2>5 DEF InLength
    <3>2. Digit(1) * 1 \in Nat /\ Digit(2) * Base \in Nat
      <4>1. \A x, y \in Nat : x * y \in Nat
        OBVIOUS
      <4> QED
        BY <2>1, <2>2, <2>5, <4>1
    <3>3. LengthAt(stream, p, 1) = Digit(1) * 1
      BY <3>2 DEF LengthAt
    <3>4. LengthAt(stream, p, 2) = Digit(1) * 1 + Digit(2) * Base
      BY <3>2 DEF LengthAt
    <3> QED
      BY <2>3, <2>5, <3>1, <3>3, <3>4
  <2>6. CASE k = 2
    <3>1. multiplier = Base * Base
      BY <1>1, <2>6 DEF InLength
    <3>2. Digit(1) * 1 \in Nat /\ Digit(2) * Base \in Nat /\ Digit(3) * (Base * Base) \in Nat
      <4>1. \A x, y \in Nat : x * y \in Nat
        OBVIOUS
      <4>2. Digit(1) \in Nat /\ Digit(2) \in Nat /\ Digit(3) \in Nat
        BY <2>2, <2>6
      <4> HIDE DEF Digit
      <4> QED
        BY <2>1, <4>1, <4>2
    <3>3. LengthAt(stream, p, 2) = Digit(1) * 1 + Digit(2) * Base
      BY <3>2 DEF LengthAt
    <3>4. LengthAt(stream, p, 3) = Digit(1) * 1 + Digit(2) * Base + Digit(3) * (Base * Base)
      BY <3>2 DEF LengthAt
    <3> QED
      BY <2>3, <2>6, <3>1, <3>3, <3>4
  <2> QED
    BY <1>2, <2>4, <2>5, <2>6
<1>6. CASE Byte >= Base
  <2>1. state' = "waitingRemainingLength" /\ remainingLengt' = LengthAt(stream, p, k + 1)
    BY <1>5, <1>6 DEF ReadLengthByte
  <2>2. \A i \in 1..k+1 : stream[p + i] >= Base
    BY <1>1, <1>2, <1>3, <1>6 DEF InLength
  <2>3. multiplier' = (CASE k + 1 = 0 -> 1 [] k + 1 = 1 -> Base [] k + 1 = 2 -> Base * Base
                         [] k + 1 = 3 -> Base * Base * Base)
    BY <1>1, <1>2, ReaderAssumption DEF InLength, ReadLengthByte
  <2>4. p + (k + 1) = Consumed' /\ fixedHeader' = stream'[p]
    BY <1>1, <1>2, <1>3, <1>4 DEF InLength, ReadLengthByte
  <2>5. InLength(p, k + 1)'
    BY <1>4, <2>1, <2>2, <2>3, <2>4 DEF InLength
  <2> QED
    BY <1>2, <2>1, <2>5 DEF ParsedTo
<1>7. CASE ~(Byte >= Base)
  <2>1. /\ state' \in {"packetReady", "waitingRemainingPacket"}
        /\ remainingLengt' = LengthAt(stream, p, k + 1)
    BY <1>5, <1>7 DEF ReadLengthByte
  <2>2. k + 1 \in Digits(stream, p)
    <3>1. Byte < Base
      BY <1>3, <1>7, ReaderAssumption DEF Bytes
    <3>2. \A i \in 1..k : stream[p + i] >= Base
      BY <1>1 DEF InLength
    <3>3. k + 1 \in 1..3 /\ p + (k + 1) <= Len(stream) /\ (k + 1) - 1 = k
      BY <1>2, <1>3
    <3> QED
      BY <1>3, <3>1, <3>2, <3>3 DEF Digits, MaxDigits
  <2>3. /\ bytesReadSoFar' = 0 /\ remainingPacket' = <<>> /\ fixedHeader' = stream[p]
    BY <1>1 DEF StreamInv, ReaderInv, ReadLengthByte, InLength
  <2>4. SubSeq(stream, p + (k + 1) + 1, Consumed + 1) = <<>>
    BY <1>2, <1>3 DEF StreamInv, ReaderInv, TypeOK
  <2>5. p + (k + 1) + 0 = Consumed + 1
    BY <1>2, <1>3
  <2>6. InBody(p, k + 1)'
    BY <1>4, <2>1, <2>3, <2>4, <2>5 DEF InBody
  <2> QED
    BY <1>4, <2>1, <2>2, <2>6 DEF ParsedTo
<1> QED
  BY <1>6, <1>7

\* What the bytes of a stream between two places are.
LEMMA BytesBetween ==
    ASSUME NEW s \in Seq(Bytes), NEW a \in Nat, NEW b \in Nat, a <= b, b <= Len(s)
    PROVE  /\ SubSeq(s, a + 1, b) \in Seq(Bytes) /\ Len(SubSeq(s, a + 1, b)) = b - a
           /\ \A i \in 1..b - a : SubSeq(s, a + 1, b)[i] = s[a + i]
OBVIOUS

\* A part of the body.
LEMMA StreamBody ==
    ASSUME StreamInv, CopyBody, NEW p \in 1..Len(stream) + 1, ParsedTo(p)
    PROVE  ParsedTo(p)'
<1>1. PICK n \in Digits(stream, p) : InBody(p, n)
  BY DEF ParsedTo, CopyBody
<1>2. TypeOK /\ ChunkInv /\ More /\ bytesReadSoFar < remainingLengt
  BY DEF StreamInv, ReaderInv, BufferRespected, CopyBody
<1>3. n \in 1..3 /\ p \in Nat \ {0}
  BY <1>2, OneLength DEF TypeOK
<1> DEFINE m == BytesToCopy
<1>4. m \in Nat \ {0} /\ dataIdx + m <= Len(data)
  BY <1>2, CopyBounds
<1>5. /\ bytesReadSoFar' = bytesReadSoFar + m /\ dataIdx' = dataIdx + m
      /\ remainingPacket' = remainingPacket \o SubSeq(data, dataIdx + 1, dataIdx + m)
      /\ UNCHANGED <<fixedHeader, remainingLengt, data, stream>>
      /\ state' \in {"packetReady", "waitingRemainingPacket"}
  BY DEF CopyBody
<1> HIDE DEF m
<1>6. /\ dataIdx \in Nat /\ Len(data) \in Nat /\ Len(stream) \in Nat /\ bytesReadSoFar \in Nat
      /\ Len(data) <= Len(stream) /\ data \in Seq(Bytes) /\ stream \in Seq(Bytes)
  BY <1>2 DEF TypeOK, ChunkInv
<1>7. /\ Consumed' = Consumed + m /\ Consumed \in Nat /\ Consumed + m <= Len(stream)
      /\ \A i \in 1..m : data[dataIdx + i] = stream[Consumed + i]
  <2>1. Consumed' = Consumed + m /\ Consumed \in Nat /\ Consumed + m <= Len(stream)
    BY <1>4, <1>5, <1>6 DEF Consumed
  <2>2. ASSUME NEW i \in 1..m PROVE data[dataIdx + i] = stream[Consumed + i]
    <3>1. dataIdx + i \in 1..Len(data)
      BY <1>4, <1>6
    <3>2. data[dataIdx + i] = stream[Len(stream) - Len(data) + (dataIdx + i)]
      BY <1>2, <3>1 DEF ChunkInv
    <3>3. Len(stream) - Len(data) + (dataIdx + i) = Consumed + i
      BY <1>4, <1>6 DEF Consumed
    <3> QED
      BY <3>2, <3>3
  <2> QED
    BY <2>1, <2>2
<1>8. p + n + bytesReadSoFar = Consumed /\ remainingPacket = SubSeq(stream, p + n + 1, Consumed)
  BY <1>1 DEF InBody
<1>9. SubSeq(data, dataIdx + 1, dataIdx + m) = SubSeq(stream, Consumed + 1, Consumed + m)
  <2> DEFINE u == SubSeq(data, dataIdx + 1, dataIdx + m)
             v == SubSeq(stream, Consumed + 1, Consumed + m)
  <2>1. u \in Seq(Bytes) /\ v \in Seq(Bytes) /\ Len(u) = m /\ Len(v) = m
    BY <1>4, <1>6, <1>7
  <2>2. \A i \in 1..m : u[i] = data[dataIdx + i] /\ v[i] = stream[Consumed + i]
    BY <1>4, <1>6, <1>7
  <2> HIDE DEF u, v
  <2>3. u = v
    BY <1>7, <2>1, <2>2, SeqEqual
  <2> QED
    BY <2>3 DEF u, v
<1>10. remainingPacket' = SubSeq(stream, p + n + 1, Consumed + m)
  <2>1. SubSeq(stream, p + n + 1, Consumed) \o SubSeq(stream, Consumed + 1, Consumed + m)
        = SubSeq(stream, p + n + 1, Consumed + m)
    BY <1>3, <1>4, <1>6, <1>7, <1>8
  <2> QED
    BY <1>5, <1>8, <1>9, <2>1
<1>11. p + n + (bytesReadSoFar + m) = Consumed + m
  BY <1>3, <1>4, <1>6, <1>8
<1>12. InBody(p, n)'
  BY <1>1, <1>5, <1>7, <1>10, <1>11 DEF InBody
<1> QED
  BY <1>1, <1>5, <1>12 DEF ParsedTo

\* A packet with too long a length: the next one begins behind its fourth digit.
LEMMA StreamReject ==
    ASSUME StreamInv, Base > 1, RejectLength,
           NEW p \in 1..Len(stream) + 1, ParsedTo(p), DeliveredTo(p)
    PROVE  p + 5 \in 1..Len(stream) + 1 /\ ParsedTo(p + 5)' /\ DeliveredTo(p + 5)'
<1>1. PICK k \in 0..3 : InLength(p, k)
  BY DEF ParsedTo, RejectLength
<1>2. k = 3 /\ p + 3 = Consumed /\ \A i \in 1..3 : stream[p + i] >= Base
  BY <1>1, Limit DEF RejectLength, InLength
<1>3. Consumed + 1 \in 1..Len(stream) /\ p + 5 \in 1..Len(stream) + 1 /\ Len(stream) \in Nat
  BY <1>2, NextByte DEF RejectLength, StreamInv, ReaderInv
<1>4. /\ Consumed' = Consumed + 1 /\ UNCHANGED <<stream, packets>>
      /\ state' = "waitingFixedHeader" /\ remainingLengt' = 0
  <2>1. dataIdx \in Nat /\ Len(data) \in Nat /\ Len(stream) \in Nat
    BY DEF StreamInv, ReaderInv, TypeOK
  <2> QED
    BY <2>1 DEF RejectLength, Reset, Consumed
<1>5. ParsedTo(p + 5)'
  BY <1>2, <1>3, <1>4 DEF ParsedTo
<1>6. ASSUME NEW t \in Seq(Bytes), Agree(stream, t, p + 4)
      PROVE  Frames(t) = packets \o FramesFrom(t)[p + 5]
  <2>1. Agree(stream, t, p - 1) /\ p + 4 <= Len(t) /\ p \in Places(t)
    BY <1>3, <1>6 DEF Agree, Places, MaxDigits
  <2>2. \A i \in 1..3 : t[p + i] >= Base
    <3>1. \A i \in 1..3 : p + i \in 1..p+4
      OBVIOUS
    <3> QED
      BY <1>2, <1>6, <3>1 DEF Agree
  <2>3. Digits(t, p) = {}
    <3> SUFFICES ASSUME NEW n \in Digits(t, p) PROVE FALSE
      OBVIOUS
    <3>1. n \in 1..3 /\ t[p + n] < Base
      BY DEF Digits, MaxDigits
    <3>2. t[p + n] \in Nat
      <4>1. p + n \in 1..Len(t)
        BY <2>1, <3>1
      <4> QED
        BY <4>1, ReaderAssumption DEF Bytes
    <3> QED
      BY <2>2, <3>1, <3>2, ReaderAssumption
  <2>4. FramesFrom(t)[p] = FramesFrom(t)[p + 5]
    BY <2>1, <2>3, SkippedPacket
  <2> QED
    BY <2>1, <2>4 DEF DeliveredTo
<1>7. DeliveredTo(p + 5)'
  <2>1. (p + 5) - 1 = p + 4
    OBVIOUS
  <2>2. \A t \in Seq(Bytes) : Agree(stream, t, (p + 5) - 1)
                                 => Frames(t) = packets \o FramesFrom(t)[p + 5]
    BY <1>6, <2>1
  <2> QED
    BY <1>4, <2>2 DEF DeliveredTo
<1> QED
  BY <1>3, <1>5, <1>7

\* The packet is delivered: it is the one at p, and the next one begins behind it.
LEMMA StreamDeliver ==
    ASSUME StreamInv, DeliverPacket, NEW p \in 1..Len(stream) + 1, ParsedTo(p), DeliveredTo(p)
    PROVE  \E q \in 1..Len(stream) + 1 : ParsedTo(q)' /\ DeliveredTo(q)'
<1>1. PICK n \in Digits(stream, p) : InBody(p, n)
  BY DEF ParsedTo, DeliverPacket
<1>2. /\ TypeOK /\ Len(data) <= Len(stream) /\ bytesReadSoFar = remainingLengt
  BY DEF StreamInv, ChunkInv, ReaderInv, BufferRespected, DeliverPacket
<1>3. /\ dataIdx \in 0..Len(data) /\ Len(data) \in Nat /\ Len(stream) \in Nat
      /\ stream \in Seq(Bytes) /\ remainingLengt \in Nat
  BY <1>2 DEF TypeOK
<1>4. n \in 1..3 /\ p + n <= Len(stream) /\ p \in Nat \ {0}
  BY <1>3, OneLength
<1>5. /\ Consumed \in Nat /\ Consumed <= Len(stream) /\ Consumed >= p + n
      /\ Consumed = p + n + LengthAt(stream, p, n)
      /\ remainingPacket = SubSeq(stream, p + n + 1, Consumed) /\ fixedHeader = stream[p]
  BY <1>1, <1>2, <1>3, <1>4 DEF Consumed, InBody
<1>6. /\ Consumed' = Consumed /\ UNCHANGED stream
      /\ state' = "waitingFixedHeader" /\ remainingLengt' = 0
      /\ packets' = Append(packets, [header |-> fixedHeader, body |-> remainingPacket])
  BY DEF DeliverPacket, Reset, Consumed
<1>7. PICK q \in 1..Len(stream) + 1 : q = Consumed + 1
  BY <1>3, <1>5
<1>8. ParsedTo(q)'
  BY <1>6, <1>7 DEF ParsedTo
<1>9. ASSUME NEW t \in Seq(Bytes), Agree(stream, t, Consumed)
      PROVE  Frames(t) = packets' \o FramesFrom(t)[Consumed + 1]
  <2>0. Consumed <= Len(t) /\ \A i \in 1..Consumed : stream[i] = t[i]
    BY <1>9 DEF Agree
  <2>1. Agree(stream, t, p - 1) /\ p \in Places(t) /\ Len(t) \in Nat
    <3>1. Len(t) \in Nat /\ p - 1 \in Nat /\ p - 1 < Consumed /\ p <= Consumed
      BY <1>4, <1>5
    <3>2. \A i \in 1..p-1 : i \in 1..Consumed
      BY <1>5, <3>1
    <3>3. Agree(stream, t, p - 1)
      BY <1>3, <1>5, <2>0, <3>1, <3>2 DEF Agree
    <3> QED
      BY <1>4, <1>5, <2>0, <3>1, <3>3 DEF Places, MaxDigits
  <2>2. n \in Digits(t, p) /\ LengthAt(t, p, n) = LengthAt(stream, p, n)
    BY <1>3, <1>4, <1>5, <1>9, SameLength
  <2> DEFINE packet == [header |-> t[p], body |-> SubSeq(t, p + n + 1, Consumed)]
             rest == FramesFrom(t)[Consumed + 1]
  <2>3. FramesFrom(t)[p] = <<packet>> \o rest /\ rest \in Seq(Packets)
    BY <1>5, <2>0, <2>1, <2>2, WholePacket
  <2>4. packet = [header |-> fixedHeader, body |-> remainingPacket]
    <3>1. t[p] = stream[p]
      <4>1. p \in 1..Consumed
        BY <1>4, <1>5
      <4> QED
        BY <2>0, <4>1
    <3>2. SubSeq(t, p + n + 1, Consumed) = SubSeq(stream, p + n + 1, Consumed)
      <4> DEFINE a == p + n
                 u == SubSeq(t, a + 1, Consumed)
                 v == SubSeq(stream, a + 1, Consumed)
      <4>1. a \in Nat /\ a <= Consumed /\ Consumed \in Nat
        BY <1>4, <1>5
      <4> HIDE DEF a
      <4>2. /\ u \in Seq(Bytes) /\ Len(u) = Consumed - a
            /\ \A i \in 1..Consumed - a : u[i] = t[a + i]
        BY <2>0, <4>1, BytesBetween
      <4>3. /\ v \in Seq(Bytes) /\ Len(v) = Consumed - a
            /\ \A i \in 1..Consumed - a : v[i] = stream[a + i]
        BY <1>3, <1>5, <4>1, BytesBetween
      <4>4. \A i \in 1..Consumed - a : t[a + i] = stream[a + i]
        <5>1. \A i \in 1..Consumed - a : a + i \in 1..Consumed
          BY <4>1
        <5> QED
          BY <2>0, <5>1
      <4> HIDE DEF u, v
      <4>5. u = v
        BY <4>2, <4>3, <4>4, SeqEqual
      <4> QED
        BY <4>5 DEF a, u, v
    <3> QED
      BY <1>5, <3>1, <3>2
  <2>5. packet \in Packets /\ packets \in Seq(Packets)
    BY <1>2, <2>4 DEF TypeOK, Packets
  <2>6. Frames(t) = packets \o FramesFrom(t)[p] /\ packets' = Append(packets, packet)
    BY <1>6, <2>1, <2>4 DEF DeliveredTo
  <2> HIDE DEF packet, rest
  <2>7. packets \o (<<packet>> \o rest) = Append(packets, packet) \o rest
    <3>1. Append(packets, packet) = packets \o <<packet>> /\ <<packet>> \in Seq(Packets)
      BY <2>5, AppendIsConcat
    <3> DEFINE one == <<packet>>
    <3> HIDE DEF one
    <3>2. (packets \o one) \o rest = packets \o (one \o rest)
      BY <2>3, <2>5, <3>1, ConcatAssociative DEF one
    <3> QED
      BY <3>1, <3>2 DEF one
  <2> QED
    BY <2>3, <2>6, <2>7 DEF rest
<1>10. DeliveredTo(q)'
  <2>1. q - 1 = Consumed
    BY <1>5, <1>7
  <2> QED
    BY <1>6, <1>7, <1>9, <2>1 DEF DeliveredTo
<1> QED
  BY <1>8, <1>10

\* Every step of the parser keeps its place in the stream.
LEMMA StreamStep == Base > 1 => (StreamInv /\ [Next]_vars => StreamInv')
<1> SUFFICES ASSUME Base > 1, StreamInv, [Next]_vars PROVE StreamInv'
  OBVIOUS
<1> DEFINE At(p) == ParsedTo(p) /\ DeliveredTo(p)
<1>1. ReaderInv'
  BY ReaderStep DEF StreamInv
<1>2. CASE \E chunk \in Chunks : AddData(chunk)
  <2>1. PICK chunk \in Chunks : AddData(chunk)
    BY <1>2
  <2>2. /\ ChunkInv' /\ memoryShort' = memoryShort
        /\ \A p \in 1..Len(stream) + 1 : p \in 1..Len(stream') + 1 /\ (At(p) => At(p)')
    BY <2>1, StreamAdd DEF AddData
  <2> HIDE DEF At
  <2>3. memoryShort' \/ \E p \in 1..Len(stream') + 1 : At(p)'
    BY <2>2 DEF StreamInv, At
  <2> QED
    BY <1>1, <2>2, <2>3 DEF StreamInv, At
<1>3. ASSUME ~memoryShort, ReadFixedHeader \/ RejectLength \/ ReadLengthByte \/ CopyBody
                           \/ DeliverPacket
      PROVE  \E p \in 1..Len(stream) + 1 : At(p)'
  <2>1. PICK p \in 1..Len(stream) + 1 : ParsedTo(p) /\ DeliveredTo(p)
    BY <1>3 DEF StreamInv
  <2>2. CASE ReadFixedHeader \/ ReadLengthByte \/ CopyBody
    <3>1. UNCHANGED <<stream, packets>>
      BY <2>2 DEF ReadFixedHeader, ReadLengthByte, CopyBody
    <3>2. DeliveredTo(p)'
      BY <2>1, <3>1, DeliveredKept
    <3>3. ParsedTo(p)'
      BY <2>1, <2>2, StreamHeader, StreamLength, StreamBody
    <3> QED
      BY <3>2, <3>3
  <2>3. CASE RejectLength
    BY <2>1, <2>3, StreamReject
  <2>4. CASE DeliverPacket
    BY <2>1, <2>4, StreamDeliver
  <2> QED
    BY <1>3, <2>2, <2>3, <2>4
<1>4. CASE ReadFixedHeader \/ RejectLength \/ ReadLengthByte \/ CopyBody \/ DeliverPacket
  <2>1. UNCHANGED <<data, stream, memoryShort>>
    BY <1>4 DEF ReadFixedHeader, RejectLength, ReadLengthByte, CopyBody, DeliverPacket
  <2>2. ChunkInv'
    BY <2>1, ChunkKept DEF StreamInv
  <2>3. memoryShort' \/ \E p \in 1..Len(stream') + 1 : At(p)'
    BY <1>3, <1>4, <2>1
  <2> QED
    BY <1>1, <2>2, <2>3 DEF StreamInv
<1>5. CASE AllocationFails
  <2>1. UNCHANGED <<data, stream>> /\ memoryShort' = TRUE
    BY <1>5 DEF AllocationFails
  <2> QED
    BY <1>1, <2>1, ChunkKept DEF StreamInv
<1>6. CASE UNCHANGED vars
  <2>1. UNCHANGED <<data, dataIdx, stream, packets, memoryShort>> /\ UNCHANGED parserVars
    BY <1>6 DEF vars
  <2>2. ASSUME NEW p, ParsedTo(p) PROVE ParsedTo(p)'
    <3>1. Consumed' = Consumed
      BY <2>1 DEF Consumed
    <3>2. \A k : InLength(p, k)' <=> InLength(p, k)
      BY <2>1, <3>1 DEF InLength, parserVars
    <3>3. \A n : InBody(p, n)' <=> InBody(p, n)
      BY <2>1, <3>1 DEF InBody, parserVars
    <3> QED
      BY <2>1, <2>2, <3>1, <3>2, <3>3 DEF ParsedTo, parserVars
  <2>3. ChunkInv'
    BY <2>1, ChunkKept DEF StreamInv
  <2> QED
    BY <1>1, <2>1, <2>2, <2>3, DeliveredKept DEF StreamInv
<1> QED
  BY <1>2, <1>4, <1>5, <1>6 DEF Next

\* When a chunk is consumed, no packet is complete from the place of the one in hand.
LEMMA StreamEnd == Base > 1 /\ StreamInv => ChunksDoNotMatter
<1> SUFFICES ASSUME Base > 1, StreamInv, Idle, ~memoryShort PROVE packets = Frames(stream)
  BY DEF ChunksDoNotMatter
<1>1. PICK p \in 1..Len(stream) + 1 : ParsedTo(p) /\ DeliveredTo(p)
  BY DEF StreamInv
<1>2. /\ TypeOK /\ BufferRespected /\ stream \in Seq(Bytes) /\ Len(stream) \in Nat
      /\ packets \in Seq(Packets)
  BY DEF StreamInv, ReaderInv, TypeOK, Packets
<1>3. Consumed = Len(stream) /\ p \in Places(stream) /\ state # "packetReady"
  <2>1. dataIdx \in Nat /\ Len(data) \in Nat
    BY <1>2 DEF TypeOK
  <2> QED
    BY <1>2, <2>1 DEF Idle, Consumed, Places, MaxDigits
<1>4. Frames(stream) = packets \o FramesFrom(stream)[p]
  <2>1. Agree(stream, stream, p - 1)
    BY <1>2 DEF Agree
  <2> QED
    BY <1>1, <1>2, <2>1 DEF DeliveredTo
<1>5. FramesFrom(stream)[p] = <<>>
  <2>1. CASE state = "waitingFixedHeader"
    <3>1. p = Len(stream) + 1
      BY <1>1, <1>3, <2>1 DEF ParsedTo
    <3>2. Digits(stream, p) = {} /\ p + 4 > Len(stream)
      BY <1>2, <3>1 DEF Digits, MaxDigits
    <3> QED
      BY <1>2, <1>3, <3>2, BeginningOfPacket
  <2>2. CASE state = "waitingRemainingLength"
    <3>1. PICK k \in 0..3 : InLength(p, k)
      BY <1>1, <2>2 DEF ParsedTo
    <3>2. p + k = Len(stream) /\ \A i \in 1..k : stream[p + i] >= Base
      BY <1>3, <3>1 DEF InLength
    <3>3. Digits(stream, p) = {}
      <4> SUFFICES ASSUME NEW n \in Digits(stream, p) PROVE FALSE
        OBVIOUS
      <4>1. n \in 1..3 /\ p + n <= Len(stream) /\ stream[p + n] < Base
        BY DEF Digits, MaxDigits
      <4>2. n \in 1..k /\ p + n \in 1..Len(stream)
        BY <3>2, <4>1
      <4>3. stream[p + n] \in Nat
        BY <1>2, <4>2, ReaderAssumption DEF Bytes
      <4>4. stream[p + n] >= Base
        BY <3>2, <4>2
      <4> QED
        BY <4>1, <4>3, <4>4, ReaderAssumption
    <3>4. p + 4 > Len(stream)
      BY <3>2
    <3> QED
      BY <1>2, <1>3, <3>3, <3>4, BeginningOfPacket
  <2>3. CASE state \notin {"waitingFixedHeader", "waitingRemainingLength"}
    <3>1. PICK n \in Digits(stream, p) : InBody(p, n)
      BY <1>1, <2>3 DEF ParsedTo
    <3>2. bytesReadSoFar < remainingLengt /\ bytesReadSoFar \in Nat /\ remainingLengt \in Nat
      BY <1>2, <1>3, <2>3 DEF TypeOK, States, BufferRespected
    <3>3. n \in 1..3
      BY DEF Digits, MaxDigits
    <3>4. p + n + LengthAt(stream, p, n) > Len(stream)
      BY <1>3, <3>1, <3>2, <3>3 DEF InBody
    <3> QED
      BY <1>2, <1>3, <3>4, BeginningOfPacket
  <2> QED
    BY <2>1, <2>2, <2>3
<1> QED
  BY <1>2, <1>4, <1>5, ConcatEmptySeq

\* However a stream is cut into chunks, and whenever they are parsed: when a chunk is
\* consumed, the packets the callback got are those complete in the stream, in order
\* (property ChunksDoNotMatter; while no buffer failed to be allocated).
THEOREM ChunksCorrect == ASSUME Base > 1 PROVE Spec => []ChunksDoNotMatter
<1>1. Init => StreamInv
  BY StreamInit
<1>2. StreamInv /\ [Next]_vars => StreamInv'
  BY StreamStep
<1>3. StreamInv => ChunksDoNotMatter
  BY StreamEnd
<1> QED
  BY <1>1, <1>2, <1>3, PTL DEF Spec

-----------------------------------------------------------------------------
(* Arithmetic of digits, for the modules that encode lengths.              *)

\* A number is its quotient and its remainder.
LEMMA DivisionExact ==
    ASSUME NEW a \in Nat, NEW b \in Nat \ {0} PROVE a = b * (a \div b) + (a % b)
OBVIOUS

\* The quotient is natural, and the remainder a digit.
LEMMA Division ==
    ASSUME NEW a \in Nat, NEW b \in Nat \ {0}
    PROVE  a \div b \in Nat /\ a % b \in 0..b - 1 /\ a = b * (a \div b) + (a % b)
<1>1. a \div b \in Nat
  OBVIOUS
<1>2. a % b \in 0..b - 1
  OBVIOUS
<1> QED
  BY <1>1, <1>2, DivisionExact

\* A number below a product has a quotient below the other factor.
LEMMA Quotient ==
    ASSUME NEW a \in Nat, NEW b \in Nat \ {0}, NEW c \in Nat, a < b * c
    PROVE  a \div b < c
<1>1. a \div b \in Nat /\ a >= b * (a \div b)
  BY Division
<1>2. \A x, y \in Nat : x >= y => b * x >= b * y
  OBVIOUS
<1> QED
  BY <1>1, <1>2

\* A digit is the remainder of what it is put behind, and the quotient what it is put
\* behind.
LEMMA DigitBehind ==
    ASSUME NEW b \in Nat \ {0}, NEW q \in Nat, NEW d \in 0..b - 1
    PROVE  /\ (q * b + d) \div b = q /\ (q * b + d) % b = d
           /\ q * b + d \in Nat
<1>1. q * b \in Nat /\ q * b = b * q
  OBVIOUS
<1> DEFINE a == q * b + d
<1>2. a \in Nat
  BY <1>1
<1> HIDE DEF a
<1>3. a \div b \in Nat /\ a % b \in 0..b - 1 /\ a = b * (a \div b) + (a % b)
  BY <1>2, Division
<1>4. a = b * q + d
  BY <1>1 DEF a
<1>5. \A x, y \in Nat : \A u, v \in 0..b - 1 : b * x + u = b * y + v => x = y
  <2> SUFFICES ASSUME NEW x \in Nat, NEW y \in Nat, NEW u \in 0..b - 1, NEW v \in 0..b - 1,
                      b * x + u = b * y + v, x < y
               PROVE  FALSE
    OBVIOUS
  <2>1. b * x + b <= b * y
    <3>1. y = x + 1 + (y - x - 1) /\ y - x - 1 \in Nat
      OBVIOUS
    <3>2. \A z \in Nat : b * (x + 1 + z) = b * x + b + b * z /\ b * z \in Nat
      OBVIOUS
    <3> QED
      BY <3>1, <3>2
  <2>2. b * x \in Nat /\ b * y \in Nat
    OBVIOUS
  <2> QED
    BY <2>1, <2>2
<1>6. a \div b = q
  BY <1>3, <1>4, <1>5
<1>7. a % b = d
  <2>1. b * q \in Nat
    BY <1>1
  <2> QED
    BY <1>3, <1>4, <1>6, <2>1
<1> QED
  BY <1>2, <1>6, <1>7 DEF a

=============================================================================
