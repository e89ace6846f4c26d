--------------------------- MODULE PacketReader ---------------------------
(***************************************************************************)
(* ReaderMqttPacket: the parser that turns the chunks of bytes a transport *)
(* delivers into MQTT packets.  addData runs in the network task; each     *)
(* step below is one iteration of its loop, or the callback at its end.    *)
(*                                                                         *)
(* A byte is a number below 2 * Base; its remainder by Base is a digit of  *)
(* the remaining length, and a byte of Base or more says that another      *)
(* digit follows.  Base is 128 in the code.                                *)
(***************************************************************************)
EXTENDS Naturals, Sequences, SequencesExt

CONSTANTS
    Base,
    MaxChunk,       \* bound: bytes in a chunk
    MaxStream       \* bound: bytes in a behaviour

Bytes == 0..2 * Base - 1

ASSUME ReaderAssumption == Base \in Nat \ {0} /\ MaxChunk \in Nat /\ MaxStream \in Nat

VARIABLES
    state, fixedHeader, remainingLengt, multiplier, bytesReadSoFar,
    remainingPacket,    \* what is in the buffer
    data, dataIdx,      \* the chunk, and how much of it was consumed
    stream,             \* history: all bytes received
    packets,            \* history: what the callback was given
    memoryShort         \* history: a buffer could not be allocated

parserVars == <<state, fixedHeader, remainingLengt, multiplier, bytesReadSoFar,
                remainingPacket>>
vars == <<parserVars, data, dataIdx, stream, packets, memoryShort>>

States == {"waitingFixedHeader", "waitingRemainingLength", "waitingRemainingPacket",
           "packetReady"}

Init ==
    /\ state = "waitingFixedHeader" /\ fixedHeader = 0
    /\ remainingLengt = 0 /\ multiplier = 1
    /\ bytesReadSoFar = 0 /\ remainingPacket = <<>>
    /\ data = <<>> /\ dataIdx = 0
    /\ stream = <<>> /\ packets = <<>> /\ memoryShort = FALSE

\* Mutant: the multiplier is reset like the other counters.
ResetToZero ==
    /\ state' = "waitingFixedHeader" /\ fixedHeader' = 0
    /\ remainingLengt' = 0 /\ multiplier' = 0
    /\ bytesReadSoFar' = 0 /\ remainingPacket' = <<>>

\* Mutant: the value accumulator is left to the header of the next packet.
ResetKeepingLength ==
    /\ state' = "waitingFixedHeader" /\ fixedHeader' = 0
    /\ UNCHANGED remainingLengt /\ multiplier' = 1
    /\ bytesReadSoFar' = 0 /\ remainingPacket' = <<>>

Reset ==
    /\ state' = "waitingFixedHeader" /\ fixedHeader' = 0
    /\ remainingLengt' = 0 /\ multiplier' = 1
    /\ bytesReadSoFar' = 0 /\ remainingPacket' = <<>>

-----------------------------------------------------------------------------
(* addData.                                                                *)

Idle == dataIdx = Len(data) /\ state # "packetReady"

More == dataIdx < Len(data)

Byte == data[dataIdx + 1]

\* The transport delivers a chunk.
AddData(chunk) ==
    /\ Idle /\ Len(stream) + Len(chunk) <= MaxStream
    /\ data' = chunk /\ dataIdx' = 0 /\ stream' = stream \o chunk
    /\ UNCHANGED <<parserVars, packets, memoryShort>>

ReadFixedHeader ==
    /\ state = "waitingFixedHeader" /\ More
    /\ fixedHeader' = Byte /\ dataIdx' = dataIdx + 1
    /\ state' = "waitingRemainingLength" /\ multiplier' = 1
    /\ UNCHANGED <<remainingLengt, bytesReadSoFar, remainingPacket, data, stream, packets,
                   memoryShort>>

\* The limit is tested after the multiplication: three digits are accepted.
TooLong == multiplier * Base > Base * Base * Base

LengthWith(byte) == remainingLengt + (byte % Base) * multiplier

\* A fourth digit: the packet is given up, and the loop goes on behind the digit.
RejectLength ==
    /\ state = "waitingRemainingLength" /\ More /\ TooLong
    /\ Reset
    /\ dataIdx' = dataIdx + 1
    /\ UNCHANGED <<data, stream, packets, memoryShort>>

\* A digit that is not the last one, or the last one of a length that is zero or for
\* which a buffer is allocated.
ReadLengthByte ==
    /\ state = "waitingRemainingLength" /\ More /\ ~TooLong
    /\ remainingLengt' = LengthWith(Byte) /\ multiplier' = multiplier * Base
    /\ state' = IF Byte >= Base THEN "waitingRemainingLength"
                ELSE IF LengthWith(Byte) = 0 THEN "packetReady"
                ELSE "waitingRemainingPacket"
    /\ dataIdx' = dataIdx + 1
    /\ UNCHANGED <<fixedHeader, bytesReadSoFar, remainingPacket, data, stream, packets,
                   memoryShort>>

\* malloc fails: addData returns at once, and the rest of the chunk is lost.
AllocationFails ==
    /\ state = "waitingRemainingLength" /\ More /\ ~TooLong
    /\ Byte < Base /\ LengthWith(Byte) > 0
    /\ Reset
    /\ dataIdx' = Len(data) /\ memoryShort' = TRUE
    /\ UNCHANGED <<data, stream, packets>>

\* Mutant: what was read before is not taken off what is needed.
BytesToCopyAfresh ==
    LET available == Len(data) - dataIdx IN
    IF remainingLengt < available THEN remainingLengt ELSE available

\* The minimum of what is needed and what is available.
BytesToCopy ==
    LET needed    == remainingLengt - bytesReadSoFar
        available == Len(data) - dataIdx
    IN  IF needed < available THEN needed ELSE available

CopyBody ==
    /\ state = "waitingRemainingPacket" /\ More
    /\ remainingPacket' =
           remainingPacket \o SubSeq(data, dataIdx + 1, dataIdx + BytesToCopy)
    /\ bytesReadSoFar' = bytesReadSoFar + BytesToCopy
    /\ dataIdx' = dataIdx + BytesToCopy
    /\ state' = IF bytesReadSoFar' = remainingLengt THEN "packetReady" ELSE state
    /\ UNCHANGED <<fixedHeader, remainingLengt, multiplier, data, stream, packets,
                   memoryShort>>

\* The callback, and the reset for the next packet of the chunk.
DeliverPacket ==
    /\ state = "packetReady"
    /\ packets' = Append(packets, [header |-> fixedHeader, body |-> remainingPacket])
    /\ Reset
    /\ UNCHANGED <<data, dataIdx, stream, memoryShort>>

Chunks == UNION {[1..n -> Bytes] : n \in 1..MaxChunk}

Next ==
    \/ \E chunk \in Chunks : AddData(chunk)
    \/ ReadFixedHeader \/ RejectLength \/ ReadLengthByte \/ AllocationFails
    \/ CopyBody \/ DeliverPacket

Spec == Init /\ [][Next]_vars

-----------------------------------------------------------------------------
(* Properties.                                                             *)

TypeOK ==
    /\ state \in States /\ fixedHeader \in Bytes
    /\ remainingLengt \in Nat /\ multiplier \in Nat \ {0}
    /\ bytesReadSoFar \in Nat /\ remainingPacket \in Seq(Bytes)
    /\ data \in Seq(Bytes) /\ dataIdx \in 0..Len(data)
    /\ stream \in Seq(Bytes)
    /\ packets \in Seq([header : Bytes, body : Seq(Bytes)])
    /\ memoryShort \in BOOLEAN

\* memcpy stays inside the buffer, however a packet is cut into chunks: the buffer
\* holds what was counted, never more than was allocated.  The callback gets as many
\* bytes as the length said, and no complete packet waits for further data.
BufferRespected ==
    /\ Len(remainingPacket) = bytesReadSoFar
    /\ bytesReadSoFar <= remainingLengt
    /\ state = "packetReady" => bytesReadSoFar = remainingLengt
    /\ state = "waitingRemainingPacket" => bytesReadSoFar < remainingLengt

\* The packets of a stream, independent of any chunk: a header, a length, and as many
\* bytes as the length says.  That a length has at most three digits, and that a packet
\* whose third digit promises another one is skipped with four digits, is the code's own
\* rule (README.md:331 gives a length four bytes).
MaxDigits == 3

Digits(s, p) ==
    {n \in 1..MaxDigits : /\ p + n <= Len(s) /\ s[p + n] < Base
                          /\ \A i \in 1..n-1 : s[p + i] >= Base}

\* The first n digits, the least significant first.
LengthAt(s, p, n) ==
    LET Digit(i, weight) == IF i <= n THEN (s[p + i] % Base) * weight ELSE 0
    IN  Digit(1, 1) + Digit(2, Base) + Digit(3, Base * Base)

Frames(s) ==
    LET From[p \in 1..Len(s) + MaxDigits + 3] ==
          IF \E n \in Digits(s, p) : TRUE
          THEN LET n   == CHOOSE n \in Digits(s, p) : TRUE
                   end == p + n + LengthAt(s, p, n)
               IN  IF end > Len(s) THEN <<>>
                   ELSE <<[header |-> s[p], body |-> SubSeq(s, p + n + 1, end)]>>
                            \o From[end + 1]
          ELSE IF p + MaxDigits + 1 <= Len(s) THEN From[p + MaxDigits + 2]
          ELSE <<>>
    IN  From[1]

\* What the callback gets does not depend on how the stream was cut: whenever a chunk
\* is consumed, the packets delivered are those complete in the stream so far, in
\* order and without a trace of their predecessors in them.
ChunksDoNotMatter == Idle /\ ~memoryShort => packets = Frames(stream)

=============================================================================
