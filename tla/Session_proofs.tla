--------------------------- MODULE Session_proofs ---------------------------
(***************************************************************************)
(* Proofs about Session: it runs the reader of PacketReader, so what is    *)
(* proved there holds for every session; nothing is done for a client      *)
(* before its CONNECT; and what it sends is read, kept and answered as the *)
(* standard has it.                                                        *)
(***************************************************************************)
EXTENDS Session, PacketReader_proofs, FiniteSetTheorems

-----------------------------------------------------------------------------
(* Sequences: their beginnings, and one behind the other.                  *)

\* The first elements of a sequence.
LEMMA FirstElements ==
    ASSUME NEW S, NEW s \in Seq(S), NEW n \in Nat, n <= Len(s)
    PROVE  SubSeq(s, 1, n) \in [1..n -> S] /\ SubSeq(s, n + 1, Len(s)) \in Seq(S)
<1> DEFINE t == SubSeq(s, 1, n)
<1>1. t \in Seq(S) /\ Len(t) = n
  <2>1. SubSeq(s, 0 + 1, 0 + n) \in Seq(S) /\ Len(SubSeq(s, 0 + 1, 0 + n)) = n
    BY CopiedBytes, 0 \in Nat, 0 + n <= Len(s)
  <2> QED BY <2>1, 0 + 1 = 1, 0 + n = n
<1>2. t \in [1..n -> S]
  <2> HIDE DEF t
  <2> QED BY <1>1, LenProperties
<1>3. SubSeq(s, n + 1, Len(s)) \in Seq(S)
  OBVIOUS
<1> QED BY <1>2, <1>3

\* Two sequences, one behind the other.
LEMMA Joined ==
    ASSUME NEW S, NEW u \in Seq(S), NEW v \in Seq(S)
    PROVE  /\ u \o v \in Seq(S) /\ Len(u \o v) = Len(u) + Len(v)
           /\ \A i \in 1..Len(u) : (u \o v)[i] = u[i]
           /\ \A i \in 1..Len(v) : (u \o v)[Len(u) + i] = v[i]
<1>1. Len(u) \in Nat /\ Len(v) \in Nat
  OBVIOUS
<1>2. /\ u \o v \in Seq(S) /\ Len(u \o v) = Len(u) + Len(v)
      /\ \A i \in 1 .. Len(u) + Len(v) : (u \o v)[i] = IF i <= Len(u) THEN u[i] ELSE v[i - Len(u)]
  BY ConcatProperties, Zenon
<1>3. ASSUME NEW i \in 1..Len(u) PROVE (u \o v)[i] = u[i]
  BY <1>1, <1>2
<1>4. ASSUME NEW i \in 1..Len(v) PROVE (u \o v)[Len(u) + i] = v[i]
  <2>1. Len(u) + i \in 1..Len(u) + Len(v) /\ ~(Len(u) + i <= Len(u)) /\ (Len(u) + i) - Len(u) = i
    BY <1>1
  <2> QED
    BY <1>2, <2>1
<1> QED
  BY <1>2, <1>3, <1>4, Zenon

\* The solution of FlattenSeq.
Flattening(q) ==
    CHOOSE f : f = [i \in 1..Len(q) |-> IF i = 1 THEN q[i] ELSE f[i - 1] \o q[i]]

\* The first j sequences of q, one behind the other.
FlatTo(q, j) == IF j = 0 THEN <<>> ELSE Flattening(q)[j]

\* A statement that holds of 0, and of a number if it does of the one before, holds of all.
LEMMA Climb ==
    ASSUME NEW n \in Nat, NEW T \in SUBSET (0..n), 0 \in T,
           \A j \in 0..n - 1 : j \in T => j + 1 \in T
    PROVE  T = 0..n
<1> DEFINE Missing == (0..n) \ T
<1> SUFFICES ASSUME Missing # {} PROVE FALSE
  OBVIOUS
<1>1. PICK m \in Missing : \A k \in Missing : m <= k
  <2>1. Missing \subseteq Nat
    OBVIOUS
  <2> HIDE DEF Missing
  <2> QED
    BY <2>1, LeastNatural
<1>2. m - 1 \in 0..n - 1 /\ m - 1 < m
  OBVIOUS
<1>3. m - 1 \in T
  BY <1>1, <1>2
<1> QED
  BY <1>2, <1>3

\* The recursive function of FlattenSeq has a solution.
LEMMA FlatteningDefined ==
    ASSUME NEW S, NEW q \in Seq(Seq(S))
    PROVE  \A i \in 1..Len(q) :
               Flattening(q)[i] = IF i = 1 THEN q[i] ELSE Flattening(q)[i - 1] \o q[i]
<1> DEFINE Solves(f, m) == \A i \in 1..m : f[i] = IF i = 1 THEN q[i] ELSE f[i - 1] \o q[i]
           T == {m \in 0..Len(q) : \E f : Solves(f, m)}
<1>1. 0 \in T
  OBVIOUS
<1>2. ASSUME NEW m \in 0..Len(q) - 1, m \in T PROVE m + 1 \in T
  <2>1. PICK f : Solves(f, m)
    BY <1>2
  <2> DEFINE g == [i \in 1..m + 1 |-> IF i <= m THEN f[i]
                                      ELSE IF i = 1 THEN q[i] ELSE f[i - 1] \o q[i]]
  <2>2. ASSUME NEW i \in 1..m + 1 PROVE g[i] = IF i = 1 THEN q[i] ELSE g[i - 1] \o q[i]
    <3>1. i # 1 => g[i - 1] = f[i - 1]
      OBVIOUS
    <3>2. g[i] = IF i = 1 THEN q[i] ELSE f[i - 1] \o q[i]
      BY <2>1
    <3> QED
      BY <3>1, <3>2
  <2> HIDE DEF g
  <2>3. Solves(g, m + 1)
    BY <2>2
  <2> QED
    BY <2>3
<1>3. T = 0..Len(q)
  <2>1. Len(q) \in Nat /\ T \in SUBSET (0..Len(q))
    OBVIOUS
  <2> HIDE DEF T
  <2> QED
    BY <1>1, <1>2, <2>1, Climb
<1>4. PICK f : Solves(f, Len(q))
  <2>1. Len(q) \in 0..Len(q)
    OBVIOUS
  <2>2. Len(q) \in T
    <3> HIDE DEF T
    <3> QED
      BY <1>3, <2>1
  <2> QED
    BY <2>2
<1> DEFINE g == [i \in 1..Len(q) |-> f[i]]
<1>5. g = [i \in 1..Len(q) |-> IF i = 1 THEN q[i] ELSE g[i - 1] \o q[i]]
  <2>1. ASSUME NEW i \in 1..Len(q) PROVE g[i] = IF i = 1 THEN q[i] ELSE g[i - 1] \o q[i]
    <3>1. g[i] = f[i] /\ (i # 1 => g[i - 1] = f[i - 1])
      OBVIOUS
    <3> QED
      BY <1>4, <3>1
  <2>2. g = [i \in 1..Len(q) |-> g[i]]
    OBVIOUS
  <2> HIDE DEF g
  <2> QED
    BY <2>1, <2>2
<1> HIDE DEF g
<1>6. Flattening(q)
      = [i \in 1..Len(q) |-> IF i = 1 THEN q[i] ELSE Flattening(q)[i - 1] \o q[i]]
  BY <1>5 DEF Flattening
<1> DEFINE h == Flattening(q)
<1>7. h = [i \in 1..Len(q) |-> IF i = 1 THEN q[i] ELSE h[i - 1] \o q[i]]
  BY <1>6
<1> HIDE DEF h
<1>8. \A i \in 1..Len(q) : h[i] = IF i = 1 THEN q[i] ELSE h[i - 1] \o q[i]
  BY <1>7
<1> QED
  BY <1>8 DEF h

\* A prefix of the sequences makes a prefix of the whole, and grows by one of them.
LEMMA FlatGrows ==
    ASSUME NEW S, NEW q \in Seq(Seq(S)), NEW j \in 0..Len(q) - 1
    PROVE  FlatTo(q, 0) = <<>> /\ FlatTo(q, j + 1) = FlatTo(q, j) \o q[j + 1]
<1>1. j + 1 \in 1..Len(q) /\ (j + 1) - 1 = j /\ (j + 1 = 1 <=> j = 0) /\ j + 1 # 0
  OBVIOUS
<1>2. Flattening(q)[j + 1] = IF j = 0 THEN q[j + 1] ELSE Flattening(q)[j] \o q[j + 1]
  BY <1>1, FlatteningDefined
<1>3. CASE j = 0
  <2>1. q[j + 1] \in Seq(S)
    BY <1>1
  <2>2. <<>> \o q[j + 1] = q[j + 1]
    BY <2>1, ConcatEmptySeq
  <2> QED
    BY <1>1, <1>2, <1>3, <2>2 DEF FlatTo
<1>4. CASE j # 0
  BY <1>1, <1>2, <1>4 DEF FlatTo
<1> QED
  BY <1>3, <1>4 DEF FlatTo

\* Every prefix of the sequences makes a sequence of the same elements.
LEMMA FlatIsSequence ==
    ASSUME NEW S, NEW q \in Seq(Seq(S)) PROVE \A j \in 0..Len(q) : FlatTo(q, j) \in Seq(S)
<1> DEFINE T == {j \in 0..Len(q) : FlatTo(q, j) \in Seq(S)}
<1>1. 0 \in T
  BY DEF FlatTo
<1>2. ASSUME NEW j \in 0..Len(q) - 1, j \in T PROVE j + 1 \in T
  <2>1. FlatTo(q, j + 1) = FlatTo(q, j) \o q[j + 1]
    BY FlatGrows
  <2>2. FlatTo(q, j) \in Seq(S) /\ q[j + 1] \in Seq(S) /\ j + 1 \in 0..Len(q)
    BY <1>2
  <2>3. FlatTo(q, j + 1) \in Seq(S)
    BY <2>1, <2>2, ConcatProperties
  <2> QED
    BY <2>2, <2>3
<1>3. Len(q) \in Nat /\ T \in SUBSET (0..Len(q))
  OBVIOUS
<1>4. T = 0..Len(q)
  <2> HIDE DEF T
  <2> QED
    BY <1>1, <1>2, <1>3, Climb
<1> QED
  BY <1>4

\* FlattenSeq is the prefix that holds them all.
LEMMA FlatIsFlattened ==
    ASSUME NEW S, NEW q \in Seq(Seq(S)) PROVE FlattenSeq(q) = FlatTo(q, Len(q))
<1>1. CASE Len(q) = 0
  <2>1. q = <<>>
    BY <1>1
  <2> QED
    BY <1>1, <2>1 DEF FlattenSeq, FlatTo
<1>2. CASE Len(q) # 0
  BY <1>2 DEF FlattenSeq, FlatTo, Flattening
<1> QED
  BY <1>1, <1>2

\* Every prefix is the beginning of the whole.
LEMMA FlatInWhole ==
    ASSUME NEW S, NEW q \in Seq(Seq(S)), NEW j \in 0..Len(q)
    PROVE  /\ FlatTo(q, j) \in Seq(S) /\ FlattenSeq(q) \in Seq(S)
           /\ Len(FlatTo(q, j)) <= Len(FlattenSeq(q))
           /\ \A i \in 1..Len(FlatTo(q, j)) : FlattenSeq(q)[i] = FlatTo(q, j)[i]
<1> DEFINE f == FlatTo(q, j)
           Begins(t) == Len(f) <= Len(t) /\ \A i \in 1..Len(f) : t[i] = f[i]
           T == {k \in 0..Len(q) - j : Begins(FlatTo(q, j + k))}
<1>1. f \in Seq(S) /\ Len(f) \in Nat
  BY FlatIsSequence
<1>2. 0 \in T
  <2>1. Begins(f) /\ j + 0 = j /\ 0 \in 0..Len(q) - j
    BY <1>1
  <2> QED
    BY <2>1
<1>3. ASSUME NEW k \in 0..(Len(q) - j) - 1, k \in T PROVE k + 1 \in T
  <2>1. j + k \in 0..Len(q) - 1 /\ (j + k) + 1 = j + (k + 1) /\ k + 1 \in 0..Len(q) - j
    OBVIOUS
  <2> DEFINE g == FlatTo(q, j + k)
             r == q[(j + k) + 1]
  <2>2. FlatTo(q, j + (k + 1)) = g \o r
    BY <2>1, FlatGrows
  <2>3. g \in Seq(S) /\ r \in Seq(S)
    BY <2>1, FlatIsSequence
  <2>4. Begins(g)
    BY <1>3
  <2> HIDE DEF f, g, r
  <2>5. Begins(g \o r)
    <3>1. /\ Len(g \o r) = Len(g) + Len(r) /\ Len(g) \in Nat /\ Len(r) \in Nat
          /\ \A i \in 1..Len(g) : (g \o r)[i] = g[i]
      BY <2>3, ConcatProperties
    <3>2. \A i \in 1..Len(f) : i \in 1..Len(g)
      BY <1>1, <2>4, <3>1
    <3> QED
      BY <1>1, <2>4, <3>1, <3>2
  <2> QED
    BY <2>1, <2>2, <2>5
<1>4. T = 0..Len(q) - j
  <2>1. Len(q) - j \in Nat /\ T \in SUBSET (0..Len(q) - j)
    OBVIOUS
  <2> HIDE DEF T
  <2> QED
    BY <1>2, <1>3, <2>1, Climb
<1>5. Begins(FlatTo(q, Len(q)))
  <2>1. Len(q) - j \in 0..Len(q) - j /\ j + (Len(q) - j) = Len(q)
    OBVIOUS
  <2> QED
    BY <1>4, <2>1
<1> QED
  BY <1>1, <1>5, FlatIsFlattened, FlatIsSequence, Len(q) \in 0..Len(q)

-----------------------------------------------------------------------------
(* The length field codes every length of up to three digits.              *)

\* A byte with the flag has the digit it had without it.
LEMMA Flagged ==
    ASSUME NEW d \in 0..Base - 1
    PROVE  d \in Bytes /\ d % Base = d /\ d + Base \in Bytes /\ (d + Base) % Base = d
<1>1. Base \in Nat \ {0}
  BY ReaderAssumption
<1>2. d % Base = d
  BY <1>1
<1>3. (d + Base) % Base = d
  BY <1>1
<1> QED
  BY <1>1, <1>2, <1>3 DEF Bytes

\* The digits of a number below the cube of the base are the bytes of its length field.
LEMMA LengthCoded ==
    ASSUME NEW n \in Nat, n < Base * Base * Base
    PROVE  /\ LengthField(n) \in Seq(Bytes) /\ Len(LengthField(n)) \in 1..3
           /\ Digits(LengthField(n), 0) = {Len(LengthField(n))}
           /\ LengthAt(LengthField(n), 0, Len(LengthField(n))) = n
           /\ Len(LengthField(n)) > 1 => LengthField(n)[Len(LengthField(n))] # 0
<1> DEFINE Codes(s) == /\ Digits(s, 0) = {Len(s)} /\ LengthAt(s, 0, Len(s)) = n
                       /\ Len(s) > 1 => s[Len(s)] # 0
           Fields == UNION {[1..k -> Bytes] : k \in 1..MaxDigits}
           d1 == n % Base
           m == n \div Base
           d2 == m % Base
           d3 == m \div Base
<1>1. Base \in Nat \ {0}
  BY ReaderAssumption
<1>2. /\ m \in Nat /\ d1 \in 0..Base - 1 /\ n = Base * m + d1
      /\ d3 \in Nat /\ d2 \in 0..Base - 1 /\ m = Base * d3 + d2
  BY <1>1, Division
<1>3. m < Base * Base /\ d3 < Base
  <2>1. \A x, y \in Nat : x * y \in Nat
    OBVIOUS
  <2>2. Base * Base \in Nat /\ n < Base * (Base * Base)
    BY <1>1, <2>1
  <2>3. m < Base * Base
    BY <1>1, <2>2, Quotient
  <2> QED
    BY <1>1, <1>2, <2>3, Quotient
<1> HIDE DEF d1, m, d2, d3
<1>4. d1 \in 0..Base - 1 /\ d2 \in 0..Base - 1 /\ d3 \in 0..Base - 1
  BY <1>1, <1>2, <1>3
<1>5. /\ d1 \in Bytes /\ d1 % Base = d1 /\ d1 + Base \in Bytes /\ (d1 + Base) % Base = d1
      /\ d2 \in Bytes /\ d2 % Base = d2 /\ d2 + Base \in Bytes /\ (d2 + Base) % Base = d2
      /\ d3 \in Bytes /\ d3 % Base = d3
  BY <1>4, Flagged
<1>6. \E s \in Fields : Codes(s)
  <2>1. CASE m = 0
    <3> DEFINE s == <<d1>>
    <3>1. s \in [1..1 -> Bytes] /\ Len(s) = 1 /\ s[1] = d1
      BY <1>5
    <3>2. s \in Fields
      BY <3>1 DEF MaxDigits
    <3>3. n = d1
      BY <1>1, <1>2, <2>1
    <3> HIDE DEF s
    <3>4. Digits(s, 0) = {1}
      BY <1>1, <1>4, <3>1 DEF Digits, MaxDigits
    <3>5. LengthAt(s, 0, 1) = n
      BY <1>4, <1>5, <3>1, <3>3 DEF LengthAt
    <3>6. Codes(s)
      BY <3>1, <3>4, <3>5
    <3> QED
      BY <3>2, <3>6
  <2>2. CASE m # 0 /\ d3 = 0
    <3> DEFINE s == <<d1 + Base, d2>>
    <3>1. s \in [1..2 -> Bytes] /\ Len(s) = 2 /\ s[1] = d1 + Base /\ s[2] = d2
      BY <1>5
    <3>2. s \in Fields
      BY <3>1 DEF MaxDigits
    <3>3. m = d2 /\ d2 # 0 /\ n = d1 + d2 * Base
      BY <1>1, <1>2, <2>2
    <3> HIDE DEF s
    <3>4. Digits(s, 0) = {2}
      BY <1>1, <1>4, <3>1 DEF Digits, MaxDigits
    <3>5. LengthAt(s, 0, 2) = d1 * 1 + d2 * Base + 0
      <4>1. s[0 + 1] % Base = d1 /\ s[0 + 2] % Base = d2
        BY <1>5, <3>1
      <4>2. LengthAt(s, 0, 2) = (s[0 + 1] % Base) * 1 + (s[0 + 2] % Base) * Base + 0
        BY 1 <= 2, 2 <= 2, ~(3 <= 2), Zenon DEF LengthAt
      <4> QED
        BY <4>1, <4>2, Zenon
    <3>6. LengthAt(s, 0, 2) = n
      <4>1. d2 * Base \in Nat /\ d1 \in Nat
        BY <1>1, <1>4
      <4> QED
        BY <3>3, <3>5, <4>1
    <3>7. Codes(s)
      BY <3>1, <3>3, <3>4, <3>6
    <3> QED
      BY <3>2, <3>7
  <2>3. CASE d3 # 0
    <3> DEFINE s == <<d1 + Base, d2 + Base, d3>>
    <3>1. /\ s \in [1..3 -> Bytes] /\ Len(s) = 3
          /\ s[1] = d1 + Base /\ s[2] = d2 + Base /\ s[3] = d3
      BY <1>5
    <3>2. s \in Fields
      BY <3>1 DEF MaxDigits
    <3>3. n = d1 + (d2 * Base + d3 * (Base * Base))
      <4>1. \A x, y, z \in Nat : x * (x * y + z) = z * x + y * (x * x)
        OBVIOUS
      <4>2. n = Base * (Base * d3 + d2) + d1
        BY <1>2
      <4>3. Base * (Base * d3 + d2) = d2 * Base + d3 * (Base * Base)
        BY <1>1, <1>2, <4>1
      <4>4. d2 * Base + d3 * (Base * Base) \in Nat
        BY <1>1, <1>2, <4>3
      <4>5. d1 \in Nat
        BY <1>1, <1>2
      <4> DEFINE y == d2 * Base + d3 * (Base * Base)
      <4>6. n = y + d1 /\ y \in Nat
        BY <4>2, <4>3, <4>4
      <4> HIDE DEF y
      <4>7. n = d1 + y
        BY <4>5, <4>6
      <4> QED
        BY <4>7 DEF y
    <3> HIDE DEF s
    <3>4. Digits(s, 0) = {3}
      BY <1>1, <1>4, <3>1 DEF Digits, MaxDigits
    <3>5. LengthAt(s, 0, 3) = d1 * 1 + d2 * Base + d3 * (Base * Base)
      <4>1. s[0 + 1] % Base = d1 /\ s[0 + 2] % Base = d2 /\ s[0 + 3] % Base = d3
        BY <1>5, <3>1
      <4>2. LengthAt(s, 0, 3)
            = (s[0 + 1] % Base) * 1 + (s[0 + 2] % Base) * Base + (s[0 + 3] % Base) * (Base * Base)
        BY 1 <= 3, 2 <= 3, 3 <= 3, Zenon DEF LengthAt
      <4> QED
        BY <4>1, <4>2, Zenon
    <3>6. LengthAt(s, 0, 3) = n
      <4>1. d2 * Base \in Nat /\ d3 * (Base * Base) \in Nat /\ d1 \in Nat
        <5>1. \A x, y \in Nat : x * y \in Nat
          OBVIOUS
        <5> QED
          BY <1>1, <1>2, <1>4, <5>1
      <4> QED
        BY <3>3, <3>5, <4>1
    <3>7. Codes(s)
      BY <2>3, <3>1, <3>4, <3>6
    <3> QED
      BY <3>2, <3>7
  <2> QED
    BY <2>1, <2>2, <2>3
<1>7. LengthField(n) \in Fields /\ Codes(LengthField(n))
  <2>1. LengthField(n) = CHOOSE s \in Fields : Codes(s)
    BY DEF LengthField
  <2> HIDE DEF Fields, Codes
  <2> QED
    BY <1>6, <2>1
<1>8. PICK k \in 1..3 : LengthField(n) \in [1..k -> Bytes]
  BY <1>7 DEF MaxDigits
<1>9. LengthField(n) \in Seq(Bytes) /\ Len(LengthField(n)) = k
  BY <1>8
<1> QED
  BY <1>7, <1>8, <1>9

-----------------------------------------------------------------------------
(* What the client sends: frames of bytes.                                 *)

\* A number below the square of the byte's range is two bytes, which give it back.
LEMMA TwoBytesCode ==
    ASSUME NEW n \in 0..Word - 1
    PROVE  /\ TwoBytes(n) \in Seq(Bytes) /\ Len(TwoBytes(n)) = 2
           /\ TwoBytes(n)[1] * (2 * Base) + TwoBytes(n)[2] = n
           /\ ConcatenateTwoBytes(TwoBytes(n)[1], TwoBytes(n)[2]) = n
<1> DEFINE b == 2 * Base
           h == n \div b
           l == n % b
<1>1. b \in Nat \ {0} /\ Word = b * b /\ Word \in Nat
  <2>1. Base \in Nat /\ Base > 4
    BY ReaderAssumption, SessionAssumption
  <2>2. \A x \in Nat : 4 * x * x = (2 * x) * (2 * x) /\ 4 * x * x \in Nat
    OBVIOUS
  <2> QED
    BY <2>1, <2>2 DEF Word
<1>2. TwoBytes(n) = <<h, l>>
  BY DEF TwoBytes
<1>3. Bytes = 0..b - 1
  BY DEF Bytes
<1> HIDE DEF b
<1>4. n \in Nat /\ n < b * b /\ n < Word
  BY <1>1
<1>5. h \in Nat /\ l \in 0..b - 1 /\ n = b * h + l /\ h < b
  BY <1>1, <1>4, Division, Quotient
<1> HIDE DEF h, l
<1>6. h * b + l = n
  <2>1. \A x, y \in Nat : x * y = y * x
    OBVIOUS
  <2>2. h * b = b * h
    BY <1>1, <1>5, <2>1
  <2> QED
    BY <1>5, <2>2
<1>7. h \in Bytes /\ l \in Bytes
  BY <1>1, <1>3, <1>5
<1>8. n % Word = n
  BY <1>1, <1>4
<1>9. TwoBytes(n)[1] = h /\ TwoBytes(n)[2] = l /\ TwoBytes(n) \in Seq(Bytes) /\ Len(TwoBytes(n)) = 2
  BY <1>2, <1>7
<1> QED
  BY <1>6, <1>8, <1>9, Zenon DEF ConcatenateTwoBytes, b

\* A text is bytes, with two for its length.
LEMMA TextTyped ==
    ASSUME NEW text \in Texts
    PROVE  /\ Text(text) \in Seq(Bytes) /\ Len(Text(text)) = 2 + Len(text)
           /\ Len(text) \in 0..Word - 1 /\ text \in Seq(Bytes)
<1>1. text \in Seq(Bytes) /\ Len(text) < Word
  BY DEF Texts
<1>2. Word \in Nat
  <2>1. \A x \in Nat : 4 * x * x \in Nat
    OBVIOUS
  <2> QED
    BY <2>1, ReaderAssumption DEF Word
<1>3. Len(text) \in 0..Word - 1
  BY <1>1, <1>2
<1> DEFINE t == TwoBytes(Len(text))
<1>4. t \in Seq(Bytes) /\ Len(t) = 2
  BY <1>3, TwoBytesCode
<1>5. Text(text) = t \o text
  BY DEF Text
<1> HIDE DEF t
<1>6. t \o text \in Seq(Bytes) /\ Len(t \o text) = 2 + Len(text)
  <2>1. t \o text \in Seq(Bytes) /\ Len(t \o text) = Len(t) + Len(text)
    BY <1>1, <1>4, ConcatProperties, Zenon
  <2> QED
    BY <1>4, <2>1
<1> QED
  BY <1>1, <1>3, <1>5, <1>6, Zenon

\* A frame with a body of bytes, not too long.
Sendable(frame) == frame \in Packets /\ Len(frame.body) < Base * Base * Base

\* One byte or two of a fixed value.
LEMMA FixedBytes ==
    /\ ProtocolName \in Texts /\ <<4, 2>> \in Seq(Bytes) /\ <<0>> \in Seq(Bytes)
    /\ Len(ProtocolName) = 2
<1>1. Base \in Nat /\ Base > 4
  BY ReaderAssumption, SessionAssumption
<1>2. \A n \in 0..4 : n \in Bytes
  BY <1>1 DEF Bytes
<1>3. Word > 2
  <2>1. \A x \in Nat : x > 4 => 4 * x * x > 2
    OBVIOUS
  <2> QED
    BY <1>1, <2>1 DEF Word
<1>4. ProtocolName \in Seq(Bytes) /\ Len(ProtocolName) = 2
  BY <1>2 DEF ProtocolName
<1>5. ProtocolName \in Texts
  BY <1>3, <1>4 DEF Texts
<1> QED
  BY <1>2, <1>4, <1>5

\* Headers are bytes other than zero, and none is another.
LEMMA HeaderBytes ==
    /\ {CONNECT, CONNECTACK, PUBLISH, PUBLISHACKED, SUBSCRIBE, SUBACK, UNSUBSCRIBE, PINGREQ,
        PINGRESP} \subseteq Bytes \ {0}
    /\ CONNECT \notin {PUBLISH, PUBLISHACKED, SUBSCRIBE, UNSUBSCRIBE, PINGREQ}
    /\ PINGREQ \notin {PUBLISH, PUBLISHACKED, SUBSCRIBE, UNSUBSCRIBE}
    /\ SUBSCRIBE \notin {PUBLISH, PUBLISHACKED, UNSUBSCRIBE}
    /\ UNSUBSCRIBE \notin {PUBLISH, PUBLISHACKED} /\ PUBLISH # PUBLISHACKED
<1>1. /\ DOMAIN Headers = 1..9
      /\ Headers[1] = CONNECT /\ Headers[2] = CONNECTACK /\ Headers[3] = PUBLISH
      /\ Headers[4] = PUBLISHACKED /\ Headers[5] = SUBSCRIBE /\ Headers[6] = SUBACK
      /\ Headers[7] = UNSUBSCRIBE /\ Headers[8] = PINGREQ /\ Headers[9] = PINGRESP
  BY DEF Headers
<1>2. /\ \A i \in 1..9 : Headers[i] \in Bytes \ {0}
      /\ \A i, j \in 1..9 : Headers[i] = Headers[j] => i = j
  BY <1>1, SessionAssumption DEF Range, IsInjective
<1> HIDE DEF Headers
<1> QED
  BY <1>1, <1>2

\* The bytes of the filters of a request.
FilterBytes(r) ==
    [i \in DOMAIN r.filters |-> IF r.type = "subscribe" THEN Text(r.filters[i]) \o <<0>>
                                                        ELSE Text(r.filters[i])]

\* They are bytes, filter by filter.
LEMMA FiltersTyped ==
    ASSUME NEW r, r.filters \in Seq(Texts)
    PROVE  /\ FilterBytes(r) \in Seq(Seq(Bytes)) /\ Len(FilterBytes(r)) = Len(r.filters)
           /\ FlattenSeq(FilterBytes(r)) \in Seq(Bytes)
           /\ \A i \in 1..Len(r.filters) :
                 r.type = "subscribe" => FilterBytes(r)[i] = Text(r.filters[i]) \o <<0>>
<1> DEFINE n == Len(r.filters)
           f == FilterBytes(r)
<1>1. n \in Nat /\ DOMAIN r.filters = 1..n
  OBVIOUS
<1>2. ASSUME NEW i \in 1..n
      PROVE  Text(r.filters[i]) \in Seq(Bytes) /\ Text(r.filters[i]) \o <<0>> \in Seq(Bytes)
  <2>1. r.filters[i] \in Texts
    OBVIOUS
  <2> DEFINE t == Text(r.filters[i])
  <2>2. t \in Seq(Bytes) /\ <<0>> \in Seq(Bytes)
    BY <2>1, TextTyped, FixedBytes
  <2> HIDE DEF t
  <2>3. t \o <<0>> \in Seq(Bytes)
    BY <2>2, Joined
  <2> QED
    BY <2>2, <2>3 DEF t
<1>3. f = [i \in 1..n |-> IF r.type = "subscribe" THEN Text(r.filters[i]) \o <<0>>
                                                  ELSE Text(r.filters[i])]
  BY <1>1 DEF FilterBytes
<1>4. f \in [1..n -> Seq(Bytes)]
  BY <1>2, <1>3
<1> HIDE DEF f
<1>5. f \in Seq(Seq(Bytes)) /\ Len(f) = n
  BY <1>1, <1>4
<1>6. FlattenSeq(f) \in Seq(Bytes)
  BY <1>5, FlatInWhole, 0 \in 0..Len(f)
<1>7. \A i \in 1..n : r.type = "subscribe" => f[i] = Text(r.filters[i]) \o <<0>>
  BY <1>3
<1> QED
  BY <1>5, <1>6, <1>7 DEF f

\* A request is a frame that the reader's rule has.
LEMMA FrameTyped ==
    ASSUME NEW r, WellFormed(r), r.type # "overlong" PROVE Sendable(FrameOf(r))
<1>1. /\ CONNECT \in Bytes /\ PINGREQ \in Bytes /\ PUBLISH \in Bytes /\ PUBLISHACKED \in Bytes
      /\ SUBSCRIBE \in Bytes /\ UNSUBSCRIBE \in Bytes
  BY HeaderBytes
<1>2. Len(FrameOf(r).body) < Base * Base * Base
  BY DEF WellFormed
<1> SUFFICES FrameOf(r) \in Packets
  BY <1>2 DEF Sendable
<1>3. \A h \in Bytes : \A b \in Seq(Bytes) : Frame(h, b) \in Packets
  BY DEF Frame, Packets
<1>4. \A u, v \in Seq(Bytes) : u \o v \in Seq(Bytes)
  BY Joined
<1>5. CASE r.type = "connect"
  <2> DEFINE b == Text(ProtocolName) \o <<4, 2>> \o TwoBytes(r.keepAlive) \o Text(r.clientId)
  <2>1. /\ Text(ProtocolName) \in Seq(Bytes) /\ TwoBytes(r.keepAlive) \in Seq(Bytes)
        /\ Text(r.clientId) \in Seq(Bytes) /\ <<4, 2>> \in Seq(Bytes)
    BY <1>5, FixedBytes, TextTyped, TwoBytesCode DEF WellFormed
  <2>2. b \in Seq(Bytes)
    BY <1>4, <2>1
  <2>3. FrameOf(r) = Frame(CONNECT, b)
    BY <1>5 DEF FrameOf
  <2> HIDE DEF b
  <2> QED
    BY <1>1, <1>3, <2>2, <2>3
<1>6. CASE r.type = "pingreq"
  <2>1. FrameOf(r) = Frame(PINGREQ, <<>>) /\ <<>> \in Seq(Bytes)
    BY <1>6 DEF FrameOf
  <2> QED
    BY <1>1, <1>3, <2>1
<1>7. CASE r.type = "publish"
  <2> DEFINE b == Text(r.topic) \o r.payload
  <2>1. Text(r.topic) \in Seq(Bytes) /\ r.payload \in Seq(Bytes)
    BY <1>7, TextTyped DEF WellFormed
  <2>2. b \in Seq(Bytes)
    BY <1>4, <2>1
  <2>3. FrameOf(r) = Frame(PUBLISH, b)
    BY <1>7 DEF FrameOf
  <2> HIDE DEF b
  <2> QED
    BY <1>1, <1>3, <2>2, <2>3
<1>8. CASE r.type = "publishAcked"
  <2> DEFINE b == Text(r.topic) \o TwoBytes(r.id) \o r.payload
  <2>1. /\ Text(r.topic) \in Seq(Bytes) /\ r.payload \in Seq(Bytes)
        /\ TwoBytes(r.id) \in Seq(Bytes)
    BY <1>8, TextTyped, TwoBytesCode DEF WellFormed
  <2>2. b \in Seq(Bytes)
    BY <1>4, <2>1
  <2>3. FrameOf(r) = Frame(PUBLISHACKED, b)
    BY <1>8 DEF FrameOf
  <2> HIDE DEF b
  <2> QED
    BY <1>1, <1>3, <2>2, <2>3
<1>9. CASE r.type \in {"subscribe", "unsubscribe"}
  <2> DEFINE q == FlattenSeq(FilterBytes(r))
             b == TwoBytes(r.id) \o q
             h == IF r.type = "subscribe" THEN SUBSCRIBE ELSE UNSUBSCRIBE
  <2>1. TwoBytes(r.id) \in Seq(Bytes) /\ q \in Seq(Bytes)
    BY <1>9, FiltersTyped, TwoBytesCode DEF WellFormed
  <2>2. FrameOf(r) = Frame(h, b)
    BY <1>9 DEF FrameOf, FilterBytes
  <2> HIDE DEF q
  <2>3. b \in Seq(Bytes) /\ h \in Bytes
    BY <1>1, <1>4, <2>1
  <2> HIDE DEF b, h
  <2> QED
    BY <1>3, <2>2, <2>3
<1> QED
  BY <1>5, <1>6, <1>7, <1>8, <1>9 DEF WellFormed

\* A frame on the wire is bytes: the header, the length, and the body.
LEMMA WireTyped ==
    ASSUME NEW f, Sendable(f)
    PROVE  LET field == LengthField(Len(f.body)) IN
           /\ f.body \in Seq(Bytes) /\ Len(f.body) \in Nat /\ field \in Seq(Bytes)
           /\ OnWire(f) \in Seq(Bytes) /\ Len(OnWire(f)) = 1 + Len(field) + Len(f.body)
           /\ OnWire(f)[1] = f.header
           /\ \A i \in 1..Len(field) : OnWire(f)[1 + i] = field[i]
           /\ \A i \in 1..Len(f.body) : OnWire(f)[1 + Len(field) + i] = f.body[i]
<1> DEFINE body == f.body
           field == LengthField(Len(body))
           h == <<f.header>>
<1>1. body \in Seq(Bytes) /\ Len(body) \in Nat /\ Len(body) < Base * Base * Base
      /\ h \in Seq(Bytes) /\ Len(h) = 1 /\ h[1] = f.header
  BY DEF Sendable, Packets
<1>2. field \in Seq(Bytes) /\ Len(field) \in 1..3
  BY <1>1, LengthCoded
<1>3. OnWire(f) = (h \o field) \o body
  BY DEF OnWire
<1> HIDE DEF body, field, h
<1> DEFINE u == h \o field
<1>4. /\ u \in Seq(Bytes) /\ Len(u) = 1 + Len(field) /\ u[1] = f.header
      /\ \A i \in 1..Len(field) : u[1 + i] = field[i]
  BY <1>1, <1>2, Joined
<1> HIDE DEF u
<1> DEFINE w == u \o body
<1>5. /\ w \in Seq(Bytes) /\ Len(w) = Len(u) + Len(body)
      /\ \A i \in 1..Len(u) : w[i] = u[i]
      /\ \A i \in 1..Len(body) : w[Len(u) + i] = body[i]
  <2>1. w \in Seq(Bytes) /\ Len(w) = Len(u) + Len(body) /\ \A i \in 1..Len(u) : w[i] = u[i]
    BY <1>1, <1>4, Joined, Zenon
  <2>2. \A i \in 1..Len(body) : w[Len(u) + i] = body[i]
    BY <1>1, <1>4, Joined
  <2> QED
    BY <2>1, <2>2, Zenon
<1>6. OnWire(f) = w
  BY <1>3 DEF u
<1> HIDE DEF w
<1>7. w[1] = f.header /\ \A i \in 1..Len(field) : w[1 + i] = field[i]
  <2>1. 1 \in 1..Len(u) /\ \A i \in 1..Len(field) : 1 + i \in 1..Len(u)
    BY <1>2, <1>4
  <2> QED
    BY <1>4, <1>5, <2>1
<1>8. /\ Len(w) = 1 + Len(field) + Len(body)
      /\ \A i \in 1..Len(body) : w[1 + Len(field) + i] = body[i]
  BY <1>2, <1>4, <1>5
<1> QED
  BY <1>1, <1>2, <1>5, <1>6, <1>7, <1>8, Zenon DEF body, field

\* The packet that is too long, byte by byte.
LEMMA OverlongTyped ==
    /\ Overlong \in Seq(Bytes) /\ Len(Overlong) = 9
    /\ \A i \in 1..3 : Overlong[1 + i] = Base
    /\ \A i \in 6..9 : Overlong[i] = 0
<1> DEFINE h == <<PINGREQ>>
           d == [i \in 1..MaxDigits |-> Base]
           e == <<1>>
           z == [i \in 1..4 |-> 0]
<1>1. Base \in Nat /\ Base > 4
  BY ReaderAssumption, SessionAssumption
<1>2. PINGREQ \in Bytes /\ Base \in Bytes /\ 1 \in Bytes /\ 0 \in Bytes
  BY <1>1, HeaderBytes DEF Bytes
<1>3. /\ h \in Seq(Bytes) /\ Len(h) = 1 /\ e \in Seq(Bytes) /\ Len(e) = 1
      /\ d \in Seq(Bytes) /\ Len(d) = 3 /\ (\A i \in 1..3 : d[i] = Base)
      /\ z \in Seq(Bytes) /\ Len(z) = 4 /\ (\A i \in 1..4 : z[i] = 0)
  BY <1>2 DEF MaxDigits
<1>4. Overlong = ((h \o d) \o e) \o z
  BY DEF Overlong
<1> HIDE DEF h, d, e, z
<1> DEFINE u == h \o d
<1>5. u \in Seq(Bytes) /\ Len(u) = 4 /\ \A i \in 1..3 : u[1 + i] = Base
  <2>1. u \in Seq(Bytes) /\ Len(u) = Len(h) + Len(d)
    BY <1>3, Joined, Zenon
  <2>2. \A i \in 1..Len(d) : u[Len(h) + i] = d[i]
    BY <1>3, Joined
  <2> HIDE DEF u
  <2> QED
    BY <1>3, <2>1, <2>2
<1> HIDE DEF u
<1> DEFINE v == u \o e
<1>6. v \in Seq(Bytes) /\ Len(v) = 5 /\ \A i \in 1..4 : v[i] = u[i]
  <2>1. /\ v \in Seq(Bytes) /\ Len(v) = Len(u) + Len(e) /\ \A i \in 1..Len(u) : v[i] = u[i]
    BY <1>3, <1>5, Joined, Zenon
  <2> HIDE DEF v
  <2> QED
    BY <1>3, <1>5, <2>1
<1> HIDE DEF v
<1> DEFINE w == v \o z
<1>7. /\ w \in Seq(Bytes) /\ Len(w) = 9
      /\ (\A i \in 1..5 : w[i] = v[i]) /\ (\A i \in 1..4 : w[5 + i] = z[i])
  <2>0. v \in Seq(Bytes) /\ z \in Seq(Bytes)
    BY <1>3, <1>6
  <2>1. /\ w \in Seq(Bytes) /\ Len(w) = Len(v) + Len(z)
        /\ \A i \in 1..Len(v) : w[i] = v[i]
    BY <2>0, Joined, Zenon
  <2>2. \A i \in 1..Len(z) : w[Len(v) + i] = z[i]
    BY <2>0, Joined
  <2> HIDE DEF w
  <2> QED
    BY <1>3, <1>6, <2>1, <2>2
<1>8. Overlong = w
  BY <1>4 DEF u, v
<1> HIDE DEF w
<1>9. \A i \in 1..3 : w[1 + i] = Base
  <2>1. \A i \in 1..3 : 1 + i \in 1..4 /\ 1 + i \in 1..5
    OBVIOUS
  <2> QED
    BY <1>5, <1>6, <1>7, <2>1
<1>10. \A i \in 6..9 : w[i] = 0
  <2> TAKE i \in 6..9
  <2>1. i - 5 \in 1..4 /\ i = 5 + (i - 5)
    OBVIOUS
  <2>2. w[5 + (i - 5)] = 0
    BY <1>3, <1>7, <2>1
  <2> QED
    BY <2>1, <2>2
<1> QED
  BY <1>7, <1>8, <1>9, <1>10, Zenon

\* The bytes of every request of a script.
BytesIn(s) == [i \in DOMAIN s |-> BytesOf(s[i])]

\* A request is bytes, and so is what the client has to say.
LEMMA ScriptTyped ==
    ASSUME NEW s \in Scripts
    PROVE  /\ Len(s) \in Nat /\ DOMAIN s = 1..Len(s)
           /\ \A i \in 1..Len(s) : WellFormed(s[i])
           /\ BytesIn(s) \in Seq(Seq(Bytes)) /\ Len(BytesIn(s)) = Len(s)
           /\ \A i \in 1..Len(s) : BytesIn(s)[i] = BytesOf(s[i])
           /\ BytesOfScript(s) = FlattenSeq(BytesIn(s)) /\ BytesOfScript(s) \in Seq(Bytes)
<1>1. Len(s) \in Nat /\ DOMAIN s = 1..Len(s)
  BY ScriptsAssumption
<1>2. \A i \in 1..Len(s) : WellFormed(s[i])
  BY <1>1, ScriptsAssumption DEF Range
<1>3. ASSUME NEW r, WellFormed(r) PROVE BytesOf(r) \in Seq(Bytes)
  <2>1. CASE r.type = "overlong"
    BY <2>1, OverlongTyped DEF BytesOf
  <2>2. CASE r.type # "overlong"
    <3>1. Sendable(FrameOf(r))
      BY <1>3, <2>2, FrameTyped
    <3>2. OnWire(FrameOf(r)) \in Seq(Bytes)
      BY <3>1, WireTyped, Zenon
    <3> QED
      BY <2>2, <3>2 DEF BytesOf
  <2> QED
    BY <2>1, <2>2
<1> DEFINE q == BytesIn(s)
<1>4. q = [i \in 1..Len(s) |-> BytesOf(s[i])]
  BY <1>1 DEF BytesIn
<1>5. q \in [1..Len(s) -> Seq(Bytes)] /\ \A i \in 1..Len(s) : q[i] = BytesOf(s[i])
  BY <1>2, <1>3, <1>4
<1>6. BytesOfScript(s) = FlattenSeq(q)
  BY DEF BytesOfScript, BytesIn
<1> HIDE DEF q
<1>7. q \in Seq(Seq(Bytes)) /\ Len(q) = Len(s)
  BY <1>1, <1>5
<1>8. FlattenSeq(q) \in Seq(Bytes)
  BY <1>7, FlatInWhole, 0 \in 0..Len(q)
<1> QED
  BY <1>1, <1>2, <1>5, <1>6, <1>7, <1>8, Zenon DEF q

-----------------------------------------------------------------------------
(* The session implements the reader.                                      *)

UnsentInv == unsent \in Seq(Bytes)

\* A chunk of what is unsent is one that the transport may deliver.
LEMMA ChunkDelivered ==
    ASSUME UnsentInv, NEW n \in ChunkSizes, n <= Len(unsent)
    PROVE  /\ SubSeq(unsent, 1, n) \in Chunks
           /\ SubSeq(unsent, n + 1, Len(unsent)) \in Seq(Bytes)
<1>1. n \in 1..MaxChunk /\ n \in Nat
  BY SessionAssumption, ReaderAssumption
<1>2. SubSeq(unsent, 1, n) \in [1..n -> Bytes] /\ SubSeq(unsent, n + 1, Len(unsent)) \in Seq(Bytes)
  BY <1>1, FirstElements DEF UnsentInv
<1> QED BY <1>1, <1>2 DEF Chunks

\* What is unsent stays a sequence of bytes.
LEMMA UnsentStep == UnsentInv /\ [SessionNext]_<<vars, sessionVars>> => UnsentInv'
<1> SUFFICES ASSUME UnsentInv, [SessionNext]_<<vars, sessionVars>> PROVE UnsentInv'
  OBVIOUS
<1>1. ASSUME NEW n \in ChunkSizes, Arrive(n) PROVE UnsentInv'
  BY <1>1, ChunkDelivered DEF Arrive, UnsentInv
<1>2. ASSUME ~ \E n \in ChunkSizes : Arrive(n) PROVE unsent' = unsent
  BY <1>2 DEF SessionNext, ReadOn, HandleConnect, HandleBadHandshake, HandlePing, HandlePublish,
              HandleSubscribe, HandleOther, Handle, ProcessSubscribe, ProcessPublish, TakeEvent,
              sessionVars
<1> QED BY <1>1, <1>2 DEF UnsentInv

\* Every step of the session is a step of the reader or leaves it alone.
LEMMA ReaderStepOfSession ==
    UnsentInv /\ [SessionNext]_<<vars, sessionVars>> => [Next]_vars
<1> SUFFICES ASSUME UnsentInv, [SessionNext]_<<vars, sessionVars>> PROVE [Next]_vars
  OBVIOUS
<1>1. ASSUME NEW n \in ChunkSizes, Arrive(n) PROVE Next
  BY <1>1, ChunkDelivered DEF Arrive, Next
<1>2. CASE ReadOn
  BY <1>2 DEF ReadOn, Next
<1>3. CASE HandleConnect \/ HandleBadHandshake \/ HandlePing \/ HandlePublish
              \/ HandleSubscribe \/ HandleOther
  BY <1>3 DEF HandleConnect, HandleBadHandshake, HandlePing, HandlePublish, HandleSubscribe,
              HandleOther, Handle, Next
<1>4. CASE ProcessSubscribe \/ ProcessPublish
  BY <1>4 DEF ProcessSubscribe, ProcessPublish, TakeEvent
<1>5. CASE UNCHANGED <<vars, sessionVars>>
  BY <1>5
<1> QED BY <1>1, <1>2, <1>3, <1>4, <1>5 DEF SessionNext

\* A session is a behaviour of the reader, whatever the client sends, in whatever
\* chunks it arrives and however the worker keeps up.
THEOREM SessionRunsReader == SessionSpec => Spec
<1>1. SessionInit => Init /\ UnsentInv
  BY ScriptTyped DEF SessionInit, UnsentInv
<1> QED BY <1>1, UnsentStep, ReaderStepOfSession, PTL DEF SessionSpec, Spec

\* In every session the reader's state is well typed ...
THEOREM SessionReaderTyped == SessionSpec => []TypeOK
  BY SessionRunsReader, TypeCorrect, PTL

\* ... and the buffer of the packet is respected.
THEOREM SessionBufferCorrect == SessionSpec => []BufferRespected
  BY SessionRunsReader, BufferCorrect, PTL

-----------------------------------------------------------------------------
(* CONNECT comes first.                                                    *)

\* A client that has not sent its CONNECT has been answered nothing, has subscribed to
\* nothing and has no event in the queue.  A client that was thrown out is answered
\* nothing either, although the reader goes on with the rest of its last chunk.
HandshakeFirst ==
    /\ clientState \in {"pending", "connected"}
    /\ clientState = "pending" =>
          /\ outgoing = <<>> /\ brokerEventQueue = <<>> /\ subscribed = {}
          /\ keepAlive = 60 /\ attempts = 0
    /\ ~connected => outgoing = <<>>

\* A packet is sent to a client that is connected, if at all.
LEMMA NothingToTheGone ==
    ASSUME HandshakeFirst, NEW bytes, SendPacket(bytes) \/ UNCHANGED outgoing,
           UNCHANGED connected
    PROVE  ~connected' => outgoing' = <<>>
<1> SUFFICES ASSUME ~connected' PROVE outgoing' = <<>>
  OBVIOUS
<1>1. ~connected
  BY Zenon
<1>2. outgoing = <<>>
  BY <1>1, Zenon DEF HandshakeFirst
<1>3. outgoing' = outgoing
  BY <1>1, Zenon DEF SendPacket
<1> QED BY <1>2, <1>3

\* Every step keeps the handshake first.
LEMMA HandshakeStep ==
    HandshakeFirst /\ [SessionNext]_<<vars, sessionVars>> => HandshakeFirst'
<1> SUFFICES ASSUME HandshakeFirst, [SessionNext]_<<vars, sessionVars>> PROVE HandshakeFirst'
  OBVIOUS
<1> USE DEF HandshakeFirst
<1>1. ASSUME NEW n \in ChunkSizes, Arrive(n) PROVE HandshakeFirst'
  BY <1>1 DEF Arrive
<1>2. CASE ReadOn
  BY <1>2 DEF ReadOn, sessionVars
<1>3. CASE HandleConnect
  <2>1. ~connected' => outgoing' = <<>>
    BY <1>3, NothingToTheGone DEF HandleConnect
  <2> QED BY <1>3, <2>1 DEF HandleConnect, Handle
<1>4. CASE HandleBadHandshake
  BY <1>4 DEF HandleBadHandshake, Handle
<1>5. CASE HandlePing
  <2>1. ~connected' => outgoing' = <<>>
    BY <1>5, NothingToTheGone DEF HandlePing
  <2> QED BY <1>5, <2>1 DEF HandlePing, Handle
<1>6. CASE HandlePublish
  BY <1>6 DEF HandlePublish, Handle
<1>7. CASE HandleSubscribe
  BY <1>7 DEF HandleSubscribe, Handle
<1>8. CASE HandleOther
  BY <1>8 DEF HandleOther, Handle
<1>9. CASE ProcessSubscribe
  <2>1. ~connected' => outgoing' = <<>>
    BY <1>9, NothingToTheGone DEF ProcessSubscribe, TakeEvent
  <2> QED BY <1>9, <2>1 DEF ProcessSubscribe, TakeEvent
<1>10. CASE ProcessPublish
  <2>1. ~connected' => outgoing' = <<>>
    BY <1>10, NothingToTheGone DEF ProcessPublish, TakeEvent
  <2> QED BY <1>10, <2>1 DEF ProcessPublish, TakeEvent
<1>11. CASE UNCHANGED <<vars, sessionVars>>
  BY <1>11 DEF sessionVars
<1> QED BY <1>1, <1>2, <1>3, <1>4, <1>5, <1>6, <1>7, <1>8, <1>9, <1>10, <1>11
        DEF SessionNext

\* Nothing is done for a client before its CONNECT.
THEOREM NothingBeforeConnect == SessionSpec => []HandshakeFirst
<1>1. SessionInit => HandshakeFirst
  BY DEF SessionInit, HandshakeFirst
<1> QED BY <1>1, HandshakeStep, PTL DEF SessionSpec

-----------------------------------------------------------------------------
(* What is on the wire is what the reader's rule takes it for.             *)

\* Behind its first p bytes the stream s has the bytes b.
Carries(s, p, b) == p + Len(b) <= Len(s) /\ \A i \in 1..Len(b) : s[p + i] = b[i]

\* Where a frame is on the wire, the rule finds it, and goes on behind it.
LEMMA FrameThere ==
    ASSUME NEW f, Sendable(f), NEW s \in Seq(Bytes), NEW p \in Nat, Carries(s, p, OnWire(f))
    PROVE  /\ FramesFrom(s)[p + 1] = <<f>> \o FramesFrom(s)[p + Len(OnWire(f)) + 1]
           /\ FramesFrom(s)[p + Len(OnWire(f)) + 1] \in Seq(Packets)
<1> DEFINE body == f.body
           size == Len(body)
           field == LengthField(size)
           n == Len(field)
           q == p + 1
           end == q + n + size
<1>1. /\ body \in Seq(Bytes) /\ size \in Nat /\ field \in Seq(Bytes)
      /\ Len(OnWire(f)) = 1 + n + size /\ OnWire(f)[1] = f.header
      /\ \A i \in 1..n : OnWire(f)[1 + i] = field[i]
      /\ \A i \in 1..size : OnWire(f)[1 + n + i] = body[i]
  BY WireTyped, Zenon
<1>2. n \in 1..3 /\ Digits(field, 0) = {n} /\ LengthAt(field, 0, n) = size
  <2>1. size < Base * Base * Base
    BY DEF Sendable
  <2> QED
    BY <1>1, <2>1, LengthCoded, Zenon
<1>3. f = [header |-> f.header, body |-> body]
  BY DEF Sendable, Packets
<1> HIDE DEF body, size, field, n
<1>a. Len(OnWire(f)) = 1 + n + size /\ n \in 1..3 /\ size \in Nat
  BY <1>1, <1>2
<1>4. /\ end <= Len(s) /\ s[q] = f.header /\ Len(s) \in Nat /\ p + Len(OnWire(f)) = end
      /\ \A i \in 1..n : s[q + i] = field[i]
      /\ \A i \in 1..size : s[q + n + i] = body[i]
  <2>1. /\ p + Len(OnWire(f)) = end /\ Len(s) \in Nat /\ p + Len(OnWire(f)) <= Len(s)
        /\ \A i \in 1..Len(OnWire(f)) : s[p + i] = OnWire(f)[i]
    BY <1>1, <1>2 DEF Carries
  <2>2. s[q] = f.header
    BY <1>1, <1>2, <2>1, 1 \in 1..Len(OnWire(f))
  <2>3. ASSUME NEW i \in 1..n PROVE s[q + i] = field[i]
    <3>1. 1 + i \in 1..Len(OnWire(f)) /\ p + (1 + i) = q + i
      BY <1>a
    <3> QED
      BY <1>1, <2>1, <3>1
  <2>4. ASSUME NEW i \in 1..size PROVE s[q + n + i] = body[i]
    <3>1. 1 + n + i \in 1..Len(OnWire(f)) /\ p + (1 + n + i) = q + n + i
      BY <1>a
    <3>2. OnWire(f)[1 + n + i] = body[i]
      BY <1>1
    <3>3. s[p + (1 + n + i)] = OnWire(f)[1 + n + i]
      BY <2>1, <3>1
    <3> QED
      BY <3>1, <3>2, <3>3, Zenon
  <2> QED
    BY <2>1, <2>2, <2>3, <2>4
<1>5. n \in Digits(s, q)
  <2>1. field[0 + n] < Base /\ \A i \in 1..n - 1 : field[0 + i] >= Base
    BY <1>2 DEF Digits
  <2>2. field[n] < Base /\ \A i \in 1..n - 1 : field[i] >= Base
    BY <1>2, <2>1
  <2>3. s[q + n] < Base
    BY <1>2, <1>4, <2>2
  <2>4. \A i \in 1..n - 1 : s[q + i] >= Base
    <3>1. \A i \in 1..n - 1 : i \in 1..n
      BY <1>2
    <3> QED
      BY <1>4, <2>2, <3>1
  <2> QED
    BY <1>1, <1>2, <1>4, <2>3, <2>4 DEF Digits, MaxDigits
<1>6. LengthAt(s, q, n) = size
  <2>1. \A i \in 1..n : s[q + i] = field[0 + i]
    BY <1>2, <1>4
  <2>2. LengthAt(s, q, n) = LengthAt(field, 0, n)
    <3>1. /\ 1 <= n => s[q + 1] = field[0 + 1]
          /\ 2 <= n => s[q + 2] = field[0 + 2]
          /\ 3 <= n => s[q + 3] = field[0 + 3]
      BY <1>2, <2>1
    <3> QED
      BY <1>2, <3>1 DEF LengthAt
  <2> QED
    BY <1>2, <2>2
<1>7. SubSeq(s, q + n + 1, end) = body
  <2> DEFINE u == SubSeq(s, q + n + 1, end)
  <2>1. q + n \in Nat /\ end \in Nat /\ q + n <= end /\ end - (q + n) = size
    BY <1>1, <1>2
  <2>2. /\ u \in Seq(Bytes) /\ Len(u) = size
        /\ \A i \in 1..size : u[i] = s[q + n + i]
    <3> HIDE DEF end, q
    <3> QED
      BY <1>4, <2>1, BytesBetween
  <2> HIDE DEF u
  <2>3. \A i \in 1..Len(u) : u[i] = body[i]
    BY <1>4, <2>2
  <2>4. Len(body) = size
    BY DEF size
  <2>5. u = body
    BY <1>1, <2>2, <2>3, <2>4, SeqEqual
  <2> QED
    BY <2>5 DEF u
<1>8. q \in Places(s) /\ end \in Nat /\ end = q + n + LengthAt(s, q, n)
  BY <1>1, <1>2, <1>4, <1>6 DEF Places, MaxDigits
<1>9. /\ FramesFrom(s)[q] = <<[header |-> s[q], body |-> SubSeq(s, q + n + 1, end)]>>
                                \o FramesFrom(s)[end + 1]
      /\ FramesFrom(s)[end + 1] \in Seq(Packets)
  <2> HIDE DEF q, end
  <2> QED
    BY <1>4, <1>5, <1>8, WholePacket
<1> QED
  BY <1>3, <1>4, <1>7, <1>9, Zenon

\* What the reader makes of a request: a frame, or of one that is too long, which it
\* gives up at the fourth digit, the zeros behind it as two empty frames.
Zero == Frame(0, <<>>)

Expected(r) == IF r.type = "overlong" THEN <<Zero, Zero>> ELSE <<FrameOf(r)>>

\* Two zeros are an empty frame.
LEMMA ZerosThere ==
    ASSUME NEW s \in Seq(Bytes), NEW p \in Nat \ {0}, p + 1 <= Len(s), s[p] = 0, s[p + 1] = 0
    PROVE  /\ FramesFrom(s)[p] = <<Zero>> \o FramesFrom(s)[p + 2]
           /\ FramesFrom(s)[p + 2] \in Seq(Packets)
<1>1. Base \in Nat /\ Base > 4
  BY ReaderAssumption, SessionAssumption
<1>2. 1 \in Digits(s, p)
  BY <1>1 DEF Digits, MaxDigits
<1>3. LengthAt(s, p, 1) = 0
  <2>1. 0 % Base = 0
    BY <1>1
  <2> QED
    BY <2>1 DEF LengthAt
<1>4. p \in Places(s) /\ p + 1 \in Nat /\ p + 1 = p + 1 + LengthAt(s, p, 1)
  BY <1>3 DEF Places, MaxDigits
<1>5. /\ FramesFrom(s)[p] = <<[header |-> s[p], body |-> SubSeq(s, p + 1 + 1, p + 1)]>>
                                \o FramesFrom(s)[p + 1 + 1]
      /\ FramesFrom(s)[p + 1 + 1] \in Seq(Packets)
  BY <1>2, <1>4, WholePacket
<1>6. SubSeq(s, p + 1 + 1, p + 1) = <<>> /\ p + 1 + 1 = p + 2
  OBVIOUS
<1> QED
  BY <1>5, <1>6, Zenon DEF Zero, Frame

\* What follows a packet that is too long: the rule skips five bytes of it.
LEMMA OverlongThere ==
    ASSUME NEW s \in Seq(Bytes), NEW p \in Nat, Carries(s, p, Overlong)
    PROVE  /\ FramesFrom(s)[p + 1] = <<Zero, Zero>> \o FramesFrom(s)[p + 10]
           /\ FramesFrom(s)[p + 10] \in Seq(Packets)
<1>1. Base \in Nat /\ Base > 4
  BY ReaderAssumption, SessionAssumption
<1>2. \A i \in 1..9 : s[p + i] = Overlong[i]
  BY OverlongTyped DEF Carries
<1>a. p + 9 <= Len(s) /\ Len(s) \in Nat
  BY OverlongTyped DEF Carries
<1>3. \A i \in 1..3 : s[(p + 1) + i] = Base
  <2> TAKE i \in 1..3
  <2>1. 1 + i \in 1..9 /\ p + (1 + i) = (p + 1) + i /\ Overlong[1 + i] = Base
    BY OverlongTyped
  <2> QED
    BY <1>2, <2>1
<1>4. s[p + 6] = 0 /\ s[p + 7] = 0 /\ s[p + 8] = 0 /\ s[p + 9] = 0
  BY <1>2, OverlongTyped
<1>5. Digits(s, p + 1) = {}
  BY <1>1, <1>3 DEF Digits, MaxDigits
<1>6. FramesFrom(s)[p + 1] = FramesFrom(s)[p + 6]
  <2>1. p + 1 \in Places(s) /\ (p + 1) + 4 <= Len(s) /\ (p + 1) + 5 = p + 6
    BY <1>a DEF Places, MaxDigits
  <2> QED
    BY <1>5, <2>1, SkippedPacket
<1>7. FramesFrom(s)[p + 6] = <<Zero>> \o FramesFrom(s)[p + 8]
  <2>1. /\ p + 6 \in Nat \ {0} /\ (p + 6) + 1 = p + 7 /\ (p + 6) + 1 <= Len(s)
        /\ (p + 6) + 2 = p + 8
    BY <1>a
  <2>2. s[p + 6] = 0 /\ s[(p + 6) + 1] = 0
    BY <1>4, <2>1
  <2>3. /\ FramesFrom(s)[p + 6] = <<Zero>> \o FramesFrom(s)[(p + 6) + 2]
        /\ FramesFrom(s)[(p + 6) + 2] \in Seq(Packets)
    BY <2>1, <2>2, ZerosThere
  <2> QED
    BY <2>1, <2>3, Zenon
<1>8. /\ FramesFrom(s)[p + 8] = <<Zero>> \o FramesFrom(s)[p + 10]
      /\ FramesFrom(s)[p + 10] \in Seq(Packets)
  <2>1. /\ p + 8 \in Nat \ {0} /\ (p + 8) + 1 = p + 9 /\ (p + 8) + 1 <= Len(s)
        /\ (p + 8) + 2 = p + 10
    BY <1>a
  <2>2. s[p + 8] = 0 /\ s[(p + 8) + 1] = 0
    BY <1>4, <2>1
  <2>3. /\ FramesFrom(s)[p + 8] = <<Zero>> \o FramesFrom(s)[(p + 8) + 2]
        /\ FramesFrom(s)[(p + 8) + 2] \in Seq(Packets)
    BY <2>1, <2>2, ZerosThere
  <2> QED
    BY <2>1, <2>3, Zenon
<1> DEFINE rest == FramesFrom(s)[p + 10]
<1>9. /\ rest \in Seq(Packets) /\ FramesFrom(s)[p + 1] = <<Zero>> \o (<<Zero>> \o rest)
  BY <1>6, <1>7, <1>8
<1> HIDE DEF rest
<1>10. Zero \in Packets /\ <<Zero>> \in Seq(Packets)
  BY <1>1 DEF Zero, Frame, Packets, Bytes
<1>11. <<Zero>> \o (<<Zero>> \o rest) = (<<Zero>> \o <<Zero>>) \o rest
  BY <1>9, <1>10, ConcatAssociative
<1>12. <<Zero>> \o <<Zero>> = <<Zero, Zero>>
  <2> DEFINE u == <<Zero>>
             w == u \o u
             t == <<Zero, Zero>>
  <2>1. u \in Seq(Packets) /\ Len(u) = 1 /\ u[1] = Zero
    BY <1>10
  <2>2. t \in Seq(Packets) /\ Len(t) = 2 /\ t[1] = Zero /\ t[2] = Zero
    BY <1>10
  <2> HIDE DEF u, t
  <2>3. w \in Seq(Packets) /\ Len(w) = 2 /\ w[1] = u[1] /\ w[1 + 1] = u[1]
    BY <2>1, Joined
  <2> HIDE DEF w
  <2>4. \A i \in 1..Len(w) : w[i] = t[i]
    BY <2>1, <2>2, <2>3
  <2>5. w = t
    BY <2>2, <2>3, <2>4, SeqEqual
  <2> QED
    BY <2>5 DEF u, t, w
<1> QED
  BY <1>9, <1>11, <1>12, Zenon DEF rest

\* What is expected is frames.
LEMMA ExpectedTyped == ASSUME NEW r, WellFormed(r) PROVE Expected(r) \in Seq(Packets)
<1>1. Zero \in Packets
  BY ReaderAssumption DEF Zero, Frame, Packets, Bytes
<1>2. r.type # "overlong" => FrameOf(r) \in Packets
  BY FrameTyped DEF Sendable
<1> QED
  BY <1>1, <1>2 DEF Expected

\* Where a request is on the wire, the rule finds what is expected of it.
LEMMA RequestThere ==
    ASSUME NEW r, WellFormed(r), NEW s \in Seq(Bytes), NEW p \in Nat, Carries(s, p, BytesOf(r))
    PROVE  /\ FramesFrom(s)[p + 1] = Expected(r) \o FramesFrom(s)[p + Len(BytesOf(r)) + 1]
           /\ FramesFrom(s)[p + Len(BytesOf(r)) + 1] \in Seq(Packets)
<1>1. CASE r.type = "overlong"
  <2>1. BytesOf(r) = Overlong /\ Len(BytesOf(r)) = 9 /\ Expected(r) = <<Zero, Zero>>
    BY <1>1, OverlongTyped DEF BytesOf, Expected
  <2>2. p + Len(BytesOf(r)) + 1 = p + 10
    BY <2>1
  <2>3. Carries(s, p, Overlong)
    BY <2>1
  <2> QED
    BY <2>1, <2>2, <2>3, OverlongThere, Zenon
<1>2. CASE r.type # "overlong"
  <2>1. BytesOf(r) = OnWire(FrameOf(r)) /\ Expected(r) = <<FrameOf(r)>>
    BY <1>2 DEF BytesOf, Expected
  <2>2. Sendable(FrameOf(r)) /\ Carries(s, p, OnWire(FrameOf(r)))
    BY <1>2, <2>1, FrameTyped
  <2> QED
    BY <2>1, <2>2, FrameThere, Zenon
<1> QED
  BY <1>1, <1>2

\* The frames of every request of a script, and all of them.
FramesIn(s) == [i \in DOMAIN s |-> Expected(s[i])]

Asked(s) == FlattenSeq(FramesIn(s))

\* Parts that are read as packets wherever they stand are so read one behind the other.
LEMMA PartsThere ==
    ASSUME NEW b \in Seq(Seq(Bytes)), NEW e \in Seq(Seq(Packets)), Len(b) = Len(e),
           \A i \in 1..Len(b) : \A s \in Seq(Bytes) : \A p \in Nat : Carries(s, p, b[i]) =>
               /\ FramesFrom(s)[p + 1] = e[i] \o FramesFrom(s)[p + Len(b[i]) + 1]
               /\ FramesFrom(s)[p + Len(b[i]) + 1] \in Seq(Packets)
    PROVE  FlattenSeq(e) \in Seq(Packets) /\ Frames(FlattenSeq(b)) = FlattenSeq(e)
<1> DEFINE B == FlattenSeq(b)
           n == Len(b)
<1>1. n \in Nat /\ B \in Seq(Bytes)
  <2>1. Len(b) \in Nat /\ 0 \in 0..Len(b)
    OBVIOUS
  <2>2. FlattenSeq(b) \in Seq(Bytes)
    BY <2>1, FlatInWhole, Zenon
  <2> QED
    BY <2>1, <2>2
<1>2. Len(e) = n
  OBVIOUS
<1> HIDE DEF B, n
<1>5. FlattenSeq(e) \in Seq(Packets) /\ FlattenSeq(e) = FlatTo(e, n)
  BY <1>2, FlatInWhole, FlatIsFlattened, 0 \in 0..Len(e)
<1> DEFINE Place(j) == Len(FlatTo(b, j)) + 1
           T == {j \in 0..n : /\ Frames(B) = FlatTo(e, j) \o FramesFrom(B)[Place(j)]
                              /\ FramesFrom(B)[Place(j)] \in Seq(Packets)}
<1>6. 0 \in T
  <2>1. FlatTo(e, 0) = <<>> /\ FlatTo(b, 0) = <<>> /\ Place(0) = 1
    BY DEF FlatTo
  <2>2. 1 \in Places(B)
    BY <1>1 DEF Places, MaxDigits
  <2>3. FramesFrom(B)[1] \in Seq(Packets) /\ Frames(B) = FramesFrom(B)[1]
    BY <1>1, <2>2, FramesDefined, FramesUnfolded
  <2>4. Frames(B) = <<>> \o FramesFrom(B)[1]
    BY <2>3, ConcatEmptySeq
  <2>5. 0 \in 0..n
    BY <1>1
  <2> QED
    BY <2>1, <2>3, <2>4, <2>5
<1>7. ASSUME NEW j \in 0..n - 1, j \in T PROVE j + 1 \in T
  <2> DEFINE g == FlatTo(b, j)
             c == b[j + 1]
             f == FlatTo(e, j)
             x == e[j + 1]
             rest == FramesFrom(B)[Len(g) + Len(c) + 1]
  <2>1. /\ j \in 0..n /\ j + 1 \in 0..n /\ j + 1 \in 1..n /\ j \in 0..Len(b) - 1
        /\ j \in 0..Len(e) - 1 /\ j \in 0..Len(b) /\ j + 1 \in 0..Len(b)
        /\ j + 1 \in 1..Len(b) /\ j + 1 \in 1..Len(e)
    BY <1>1, <1>2 DEF n
  <2>2. FlatTo(b, j + 1) = g \o c /\ FlatTo(e, j + 1) = f \o x
    BY <2>1, FlatGrows
  <2>3. g \in Seq(Bytes) /\ c \in Seq(Bytes) /\ f \in Seq(Packets) /\ x \in Seq(Packets)
    BY <2>1, FlatIsSequence
  <2>5. /\ Len(FlatTo(b, j + 1)) <= Len(B)
        /\ \A i \in 1..Len(FlatTo(b, j + 1)) : B[i] = FlatTo(b, j + 1)[i]
    BY <2>1, FlatInWhole DEF B, n
  <2>6. Frames(B) = f \o FramesFrom(B)[Len(g) + 1]
    BY <1>7
  <2> HIDE DEF T, g, c, f, x
  <2>7. /\ Len(g \o c) = Len(g) + Len(c) /\ Len(g) \in Nat /\ Len(c) \in Nat
        /\ \A i \in 1..Len(c) : (g \o c)[Len(g) + i] = c[i]
    BY <2>3, Joined
  <2>8. Carries(B, Len(g), c)
    <3>1. Len(g) + Len(c) <= Len(B)
      BY <2>2, <2>5, <2>7
    <3>2. ASSUME NEW i \in 1..Len(c) PROVE B[Len(g) + i] = c[i]
      <4>1. Len(g) + i \in 1..Len(g \o c)
        BY <2>7
      <4>2. B[Len(g) + i] = (g \o c)[Len(g) + i]
        BY <2>2, <2>5, <4>1
      <4> QED
        BY <2>7, <4>2
    <3> QED
      BY <3>1, <3>2 DEF Carries
  <2>9. FramesFrom(B)[Len(g) + 1] = x \o rest /\ rest \in Seq(Packets)
    <3>1. /\ FramesFrom(B)[Len(g) + 1] = e[j + 1] \o FramesFrom(B)[Len(g) + Len(b[j + 1]) + 1]
          /\ FramesFrom(B)[Len(g) + Len(b[j + 1]) + 1] \in Seq(Packets)
      BY <1>1, <2>1, <2>7, <2>8 DEF c
    <3> QED
      BY <3>1 DEF c, x
  <2> HIDE DEF rest
  <2>10. (f \o x) \o rest = f \o (x \o rest)
    <3>1. f \in Seq(Packets)
      BY <2>3
    <3>2. x \in Seq(Packets)
      BY <2>3
    <3>3. rest \in Seq(Packets)
      BY <2>9
    <3> QED
      BY <3>1, <3>2, <3>3, ConcatAssociative
  <2>11. Frames(B) = FlatTo(e, j + 1) \o rest
    BY <2>2, <2>6, <2>9, <2>10
  <2>12. FramesFrom(B)[Place(j + 1)] = rest
    BY <2>2, <2>7 DEF rest
  <2>13. /\ Frames(B) = FlatTo(e, j + 1) \o FramesFrom(B)[Place(j + 1)]
         /\ FramesFrom(B)[Place(j + 1)] \in Seq(Packets)
    BY <2>9, <2>11, <2>12
  <2> QED
    BY <2>1, <2>13 DEF T
<1>8. T = 0..n
  <2>1. T \in SUBSET (0..n)
    OBVIOUS
  <2> HIDE DEF T
  <2> QED
    BY <1>1, <1>6, <1>7, <2>1, Climb
<1>9. Frames(B) = FlatTo(e, n) \o FramesFrom(B)[Place(n)]
  BY <1>1, <1>8, n \in 0..n
<1>10. FramesFrom(B)[Place(n)] = <<>>
  <2>1. FlatTo(b, n) = B /\ Len(B) \in Nat
    BY <1>1, FlatIsFlattened DEF B, n
  <2>2. Len(B) + 1 \in Places(B) /\ (Len(B) + 1) + 4 > Len(B)
    BY <2>1 DEF Places, MaxDigits
  <2>3. Digits(B, Len(B) + 1) = {}
    BY <2>1 DEF Digits, MaxDigits
  <2>4. FramesFrom(B)[Len(B) + 1] = <<>>
    BY <1>1, <2>2, <2>3, BeginningOfPacket
  <2> QED
    BY <2>1, <2>4
<1>11. FlatTo(e, n) \o <<>> = FlatTo(e, n)
  BY <1>5, ConcatEmptySeq
<1> QED
  BY <1>5, <1>9, <1>10, <1>11, Zenon DEF B

\* The rule takes the bytes of a script for the frames of its requests.
LEMMA ScriptThere ==
    ASSUME NEW s \in Scripts
    PROVE  /\ FramesIn(s) \in Seq(Seq(Packets)) /\ Len(FramesIn(s)) = Len(s)
           /\ Asked(s) \in Seq(Packets) /\ Frames(BytesOfScript(s)) = Asked(s)
<1> DEFINE B == BytesOfScript(s)
           b == BytesIn(s)
           e == FramesIn(s)
           n == Len(s)
<1>1. /\ n \in Nat /\ DOMAIN s = 1..n /\ (\A i \in 1..n : WellFormed(s[i]))
      /\ b \in Seq(Seq(Bytes)) /\ Len(b) = n /\ (\A i \in 1..n : b[i] = BytesOf(s[i]))
      /\ B = FlattenSeq(b) /\ B \in Seq(Bytes)
  BY ScriptTyped, Zenon
<1>2. e = [i \in 1..n |-> Expected(s[i])]
  BY <1>1 DEF FramesIn
<1>3. e \in [1..n -> Seq(Packets)] /\ \A i \in 1..n : e[i] = Expected(s[i])
  BY <1>1, <1>2, ExpectedTyped
<1> HIDE DEF B, b, e, n
<1>4. e \in Seq(Seq(Packets)) /\ Len(e) = n
  BY <1>1, <1>3
<1>5. ASSUME NEW i \in 1..Len(b)
      PROVE  \A t \in Seq(Bytes) : \A p \in Nat : Carries(t, p, b[i]) =>
               /\ FramesFrom(t)[p + 1] = e[i] \o FramesFrom(t)[p + Len(b[i]) + 1]
               /\ FramesFrom(t)[p + Len(b[i]) + 1] \in Seq(Packets)
  <2>1. b[i] = BytesOf(s[i]) /\ e[i] = Expected(s[i]) /\ WellFormed(s[i])
    BY <1>1, <1>3
  <2> QED
    BY <2>1, RequestThere
<1>6. Len(b) = Len(e)
  BY <1>1, <1>4
<1>7. FlattenSeq(e) \in Seq(Packets) /\ Frames(FlattenSeq(b)) = FlattenSeq(e)
  BY <1>1, <1>4, <1>5, <1>6, PartsThere
<1> QED
  BY <1>1, <1>4, <1>7, Zenon DEF B, e, n, Asked

-----------------------------------------------------------------------------
(* The callback gets the client's requests.                                *)

\* What has arrived and what has not are what the client has to say.
WireInv ==
    /\ script \in Scripts /\ stream \in Seq(Bytes) /\ unsent \in Seq(Bytes)
    /\ stream \o unsent = BytesOfScript(script)

\* Once a buffer could not be allocated, nothing more is read.
ShortInv == memoryShort => state = "waitingFixedHeader" /\ dataIdx = Len(data)

\* The callback has got the first of the frames asked for, and no others.
PacketsAsked == \E rest \in Seq(Packets) : Asked(script) = packets \o rest

\* All of them, when everything has arrived and is read.
AllPacketsAsked == Idle /\ unsent = <<>> /\ ~memoryShort => packets = Asked(script)

RequestInv == StreamInv /\ WireInv /\ ShortInv /\ PacketsAsked

\* A sequence is its first elements and the others behind them.
LEMMA CutInTwo ==
    ASSUME NEW S, NEW s \in Seq(S), NEW n \in Nat, n <= Len(s)
    PROVE  SubSeq(s, 1, n) \o SubSeq(s, n + 1, Len(s)) = s
<1> DEFINE u == SubSeq(s, 1, n)
           v == SubSeq(s, n + 1, Len(s))
<1>1. u \in Seq(S) /\ Len(u) = n /\ \A i \in 1..n : u[i] = s[i]
  OBVIOUS
<1>2. v \in Seq(S) /\ Len(v) = Len(s) - n /\ \A i \in 1..Len(s) - n : v[i] = s[n + i]
  OBVIOUS
<1> HIDE DEF u, v
<1> DEFINE w == u \o v
<1>3. /\ w \in Seq(S) /\ Len(w) = Len(u) + Len(v)
      /\ \A i \in 1..Len(u) : w[i] = u[i]
      /\ \A i \in 1..Len(v) : w[Len(u) + i] = v[i]
  <2>0. u \in Seq(S) /\ v \in Seq(S)
    BY <1>1, <1>2
  <2>1. w \in Seq(S) /\ Len(w) = Len(u) + Len(v) /\ \A i \in 1..Len(u) : w[i] = u[i]
    BY <2>0, Joined, Zenon
  <2>2. \A i \in 1..Len(v) : w[Len(u) + i] = v[i]
    BY <2>0, Joined
  <2> QED
    BY <2>1, <2>2, Zenon
<1> HIDE DEF w
<1>4. Len(w) = Len(s) /\ Len(s) \in Nat
  BY <1>1, <1>2, <1>3
<1>5. ASSUME NEW i \in 1..Len(w) PROVE w[i] = s[i]
  <2>1. CASE i <= n
    <3>1. i \in 1..n
      BY <2>1
    <3> QED
      BY <1>1, <1>3, <3>1
  <2>2. CASE ~(i <= n)
    <3>1. i - n \in 1..Len(s) - n /\ n + (i - n) = i
      BY <1>4, <2>2
    <3>2. v[i - n] = s[n + (i - n)]
      BY <1>2, <3>1
    <3>3. w[n + (i - n)] = v[i - n]
      BY <1>1, <1>2, <1>3, <3>1
    <3> QED
      BY <3>1, <3>2, <3>3
  <2> QED
    BY <2>1, <2>2
<1>6. w = s
  BY <1>3, <1>4, <1>5, SeqEqual
<1> QED
  BY <1>6 DEF u, v, w

\* Every step keeps what is on the wire.
LEMMA WireStep == WireInv /\ [SessionNext]_<<vars, sessionVars>> => WireInv'
<1> SUFFICES ASSUME WireInv, [SessionNext]_<<vars, sessionVars>> PROVE WireInv'
  OBVIOUS
<1>1. ASSUME NEW n \in ChunkSizes, Arrive(n) PROVE WireInv'
  <2> DEFINE chunk == SubSeq(unsent, 1, n)
             rest == SubSeq(unsent, n + 1, Len(unsent))
  <2>1. n \in Nat /\ n <= Len(unsent) /\ unsent \in Seq(Bytes)
    BY <1>1, SessionAssumption, ReaderAssumption DEF Arrive, WireInv
  <2>2. chunk \in Seq(Bytes) /\ rest \in Seq(Bytes)
    BY <2>1
  <2>3. chunk \o rest = unsent
    BY <2>1, CutInTwo
  <2>4. stream' = stream \o chunk /\ unsent' = rest /\ script' = script
    BY <1>1 DEF Arrive, AddData
  <2> HIDE DEF chunk, rest
  <2>5. (stream \o chunk) \o rest = stream \o (chunk \o rest)
    <3>1. stream \in Seq(Bytes)
      BY DEF WireInv
    <3> QED
      BY <2>2, <3>1, ConcatAssociative
  <2>6. stream' \in Seq(Bytes)
    BY <2>2, <2>4, ConcatProperties DEF WireInv
  <2> QED
    BY <2>2, <2>3, <2>4, <2>5, <2>6 DEF WireInv
<1>2. ASSUME ~ \E n \in ChunkSizes : Arrive(n) PROVE UNCHANGED <<script, unsent, stream>>
  BY <1>2 DEF SessionNext, ReadOn, ReadFixedHeader, RejectLength, ReadLengthByte,
              AllocationFails, CopyBody, DeliverPacket, HandleConnect, HandleBadHandshake,
              HandlePing, HandlePublish, HandleSubscribe, HandleOther, Handle,
              ProcessSubscribe, ProcessPublish, TakeEvent, sessionVars, vars
<1>3. CASE UNCHANGED <<script, unsent, stream>>
  BY <1>3 DEF WireInv
<1> QED
  BY <1>1, <1>2, <1>3

\* After a failed allocation only the worker goes on.
LEMMA ShortStep ==
    ASSUME ShortInv, [SessionNext]_<<vars, sessionVars>>
    PROVE  ShortInv' /\ (memoryShort => UNCHANGED packets)
           /\ (memoryShort' /\ ~memoryShort => UNCHANGED packets)
<1>1. ASSUME NEW n \in ChunkSizes, Arrive(n)
      PROVE  ~memoryShort /\ ~memoryShort' /\ UNCHANGED packets
  BY <1>1 DEF Arrive, AddData
<1>2. CASE AllocationFails
  BY <1>2 DEF AllocationFails, Reset, ShortInv
<1>3. CASE ReadFixedHeader \/ RejectLength \/ ReadLengthByte \/ CopyBody \/ DeliverPacket
  <2>1. ~memoryShort
    <3>1. CASE memoryShort
      <4>1. state = "waitingFixedHeader" /\ ~More
        BY <3>1 DEF ShortInv, More
      <4> QED
        BY <1>3, <4>1 DEF ReadFixedHeader, RejectLength, ReadLengthByte, CopyBody, DeliverPacket
    <3> QED
      BY <3>1
  <2>2. UNCHANGED memoryShort
    BY <1>3 DEF ReadFixedHeader, RejectLength, ReadLengthByte, CopyBody, DeliverPacket
  <2> QED
    BY <2>1, <2>2 DEF ShortInv
<1>4. CASE UNCHANGED vars
  BY <1>4 DEF vars, parserVars, ShortInv
<1>5. \/ \E n \in ChunkSizes : Arrive(n)
      \/ AllocationFails
      \/ ReadFixedHeader \/ RejectLength \/ ReadLengthByte \/ CopyBody \/ DeliverPacket
      \/ UNCHANGED vars
  BY DEF SessionNext, ReadOn, HandleConnect, HandleBadHandshake, HandlePing, HandlePublish,
         HandleSubscribe, HandleOther, Handle, ProcessSubscribe, ProcessPublish, TakeEvent
<1> QED
  BY <1>1, <1>2, <1>3, <1>4, <1>5 DEF ShortInv

\* What the reader has delivered is the beginning of what was asked for.
LEMMA DeliveredAsked == StreamInv /\ WireInv /\ ~memoryShort => PacketsAsked /\ AllPacketsAsked
<1> SUFFICES ASSUME StreamInv, WireInv, ~memoryShort PROVE PacketsAsked /\ AllPacketsAsked
  OBVIOUS
<1> DEFINE B == BytesOfScript(script)
<1>1. PICK p \in 1..Len(stream) + 1 : ParsedTo(p) /\ DeliveredTo(p)
  BY DEF StreamInv
<1>2. /\ script \in Scripts /\ stream \in Seq(Bytes) /\ unsent \in Seq(Bytes)
      /\ stream \o unsent = B
  BY DEF WireInv
<1>3. B \in Seq(Bytes) /\ Frames(B) = Asked(script) /\ Asked(script) \in Seq(Packets)
  BY <1>2, ScriptTyped, ScriptThere, Zenon
<1> HIDE DEF B
<1>4. Len(B) = Len(stream) + Len(unsent) /\ \A i \in 1..Len(stream) : B[i] = stream[i]
  BY <1>2, Joined
<1>5. Len(stream) \in Nat /\ Len(unsent) \in Nat
  BY <1>2
<1>6. Agree(stream, B, p - 1) /\ p \in Places(B)
  BY <1>4, <1>5 DEF Agree, Places, MaxDigits
<1>7. Frames(B) = packets \o FramesFrom(B)[p]
  BY <1>1, <1>3, <1>6 DEF DeliveredTo
<1>8. FramesFrom(B)[p] \in Seq(Packets)
  BY <1>3, <1>6, FramesDefined
<1>9. PacketsAsked
  BY <1>3, <1>7, <1>8 DEF PacketsAsked
<1>10. ASSUME Idle, unsent = <<>> PROVE packets = Asked(script)
  <2>1. packets = Frames(stream)
    BY <1>10, StreamEnd, SessionAssumption, ReaderAssumption DEF ChunksDoNotMatter
  <2>2. stream = B
    BY <1>2, <1>10, ConcatEmptySeq
  <2> QED
    BY <1>3, <2>1, <2>2
<1> QED
  BY <1>9, <1>10 DEF AllPacketsAsked

\* Every step keeps the requests.
LEMMA RequestStep == RequestInv /\ [SessionNext]_<<vars, sessionVars>> => RequestInv'
<1> SUFFICES ASSUME RequestInv, [SessionNext]_<<vars, sessionVars>> PROVE RequestInv'
  OBVIOUS
<1>1. StreamInv'
  <2>1. [Next]_vars
    <3>1. UnsentInv
      BY DEF RequestInv, WireInv, UnsentInv
    <3> QED
      BY <3>1, ReaderStepOfSession
  <2>2. Base > 1
    BY SessionAssumption, ReaderAssumption
  <2> QED
    BY <2>1, <2>2, StreamStep DEF RequestInv
<1>2. WireInv'
  BY WireStep DEF RequestInv
<1>3. /\ ShortInv' /\ (memoryShort => UNCHANGED packets)
      /\ (memoryShort' /\ ~memoryShort => UNCHANGED packets)
  <2>1. ShortInv
    BY DEF RequestInv
  <2> QED
    BY <2>1, ShortStep
<1>4. PacketsAsked'
  <2>1. CASE ~memoryShort'
    <3>1. (StreamInv /\ WireInv /\ ~memoryShort => PacketsAsked /\ AllPacketsAsked)'
      BY DeliveredAsked, PTL
    <3> QED
      BY <1>1, <1>2, <2>1, <3>1
  <2>2. CASE memoryShort'
    <3>1. UNCHANGED packets
      BY <1>3, <2>2
    <3>2. UNCHANGED script
      BY DEF SessionNext, Arrive, ReadOn, HandleConnect, HandleBadHandshake, HandlePing,
             HandlePublish, HandleSubscribe, HandleOther, Handle, ProcessSubscribe,
             ProcessPublish, TakeEvent, sessionVars
    <3> QED
      BY <3>1, <3>2 DEF RequestInv, PacketsAsked
  <2> QED
    BY <2>1, <2>2
<1> QED
  BY <1>1, <1>2, <1>3, <1>4 DEF RequestInv

\* Nothing has arrived.
LEMMA RequestInit == SessionInit => RequestInv
<1> SUFFICES ASSUME SessionInit PROVE RequestInv
  OBVIOUS
<1>1. StreamInv
  BY StreamInit DEF SessionInit
<1>2. /\ script \in Scripts /\ unsent = BytesOfScript(script)
      /\ stream = <<>> /\ ~memoryShort /\ stream \in Seq(Bytes)
  BY DEF SessionInit, Init
<1>3. unsent \in Seq(Bytes)
  BY <1>2, ScriptTyped
<1>4. <<>> \o unsent = unsent
  BY <1>3, ConcatEmptySeq
<1>5. WireInv
  BY <1>2, <1>3, <1>4 DEF WireInv
<1>6. ShortInv
  BY <1>2 DEF ShortInv
<1> QED
  BY <1>1, <1>2, <1>5, <1>6, DeliveredAsked DEF RequestInv

\* The callback gets what the client sent: the frames of its requests, in order, none
\* missing, none twice and none changed, whatever the requests and the chunks are; all
\* of them, when the last byte has arrived and is read (while memory is not short).
THEOREM RequestsArrive == SessionSpec => [](PacketsAsked /\ AllPacketsAsked)
<1>1. RequestInv => PacketsAsked /\ AllPacketsAsked
  BY DeliveredAsked DEF RequestInv, AllPacketsAsked
<1> QED
  BY <1>1, RequestInit, RequestStep, PTL DEF SessionSpec

\* However its requests were cut into chunks, the session gets the packets of the
\* stream (property ChunksDoNotMatter).
THEOREM SessionChunksCorrect == SessionSpec => []ChunksDoNotMatter
<1>1. Base > 1
  BY SessionAssumption, ReaderAssumption
<1>2. RequestInv => ChunksDoNotMatter
  BY <1>1, StreamEnd DEF RequestInv
<1> QED
  BY <1>2, RequestInit, RequestStep, PTL DEF SessionSpec

-----------------------------------------------------------------------------
(* Fields are read where they were written.                                *)

\* The bytes are carried part by part.
LEMMA CarriesParts ==
    ASSUME NEW s \in Seq(Bytes), NEW p \in Nat, NEW u \in Seq(Bytes), NEW v \in Seq(Bytes),
           Carries(s, p, u \o v)
    PROVE  Carries(s, p, u) /\ Carries(s, p + Len(u), v)
<1> DEFINE w == u \o v
<1>1. /\ Len(w) = Len(u) + Len(v)
      /\ \A i \in 1..Len(u) : w[i] = u[i]
  BY Joined, Zenon
<1>2. \A i \in 1..Len(v) : w[Len(u) + i] = v[i]
  BY Joined
<1>3. p + Len(w) <= Len(s) /\ \A i \in 1..Len(w) : s[p + i] = w[i]
  BY DEF Carries
<1>4. Len(u) \in Nat /\ Len(v) \in Nat /\ Len(s) \in Nat
  OBVIOUS
<1> HIDE DEF w
<1>5. Carries(s, p, u)
  <2>1. p + Len(u) <= Len(s)
    BY <1>1, <1>3, <1>4
  <2>2. ASSUME NEW i \in 1..Len(u) PROVE s[p + i] = u[i]
    <3>1. i \in 1..Len(w)
      BY <1>1, <1>4
    <3> QED
      BY <1>1, <1>3, <3>1
  <2> QED
    BY <2>1, <2>2 DEF Carries
<1>6. Carries(s, p + Len(u), v)
  <2>1. (p + Len(u)) + Len(v) <= Len(s)
    BY <1>1, <1>3, <1>4
  <2>2. ASSUME NEW i \in 1..Len(v) PROVE s[(p + Len(u)) + i] = v[i]
    <3>1. Len(u) + i \in 1..Len(w) /\ p + (Len(u) + i) = (p + Len(u)) + i
      BY <1>1, <1>4
    <3>2. s[p + (Len(u) + i)] = w[Len(u) + i]
      BY <1>3, <3>1
    <3> QED
      BY <1>2, <3>1, <3>2
  <2> QED
    BY <2>1, <2>2 DEF Carries
<1> QED
  BY <1>5, <1>6

\* Two bytes are decoded to the number they code.
LEMMA WordAt ==
    ASSUME NEW i \in Nat, NEW n \in 0..Word - 1, Carries(remainingPacket, i, TwoBytes(n))
    PROVE  DecodeTwoBytes(i) = n
<1>1. TwoBytes(n) \in Seq(Bytes) /\ Len(TwoBytes(n)) = 2
      /\ ConcatenateTwoBytes(TwoBytes(n)[1], TwoBytes(n)[2]) = n
  BY TwoBytesCode
<1>2. 1 \in 1..Len(TwoBytes(n)) /\ 2 \in 1..Len(TwoBytes(n))
  BY <1>1
<1>3. remainingPacket[i + 1] = TwoBytes(n)[1] /\ remainingPacket[i + 2] = TwoBytes(n)[2]
  BY <1>2 DEF Carries
<1> QED
  BY <1>1, <1>3, Zenon DEF DecodeTwoBytes

\* Bytes are copied as they are.
LEMMA BytesAt ==
    ASSUME remainingPacket \in Seq(Bytes), NEW i \in Nat, NEW b \in Seq(Bytes),
           Carries(remainingPacket, i, b)
    PROVE  BytesToString(i, Len(b)) = b
<1> DEFINE u == SubSeq(remainingPacket, i + 1, i + Len(b))
<1>1. /\ i + Len(b) <= Len(remainingPacket) /\ Len(b) \in Nat
      /\ \A k \in 1..Len(b) : remainingPacket[i + k] = b[k]
  BY DEF Carries
<1>2. u \in Seq(Bytes) /\ Len(u) = Len(b) /\ \A k \in 1..Len(b) : u[k] = remainingPacket[i + k]
  <2>1. i + Len(b) \in Nat /\ i <= i + Len(b) /\ (i + Len(b)) - i = Len(b)
    BY <1>1
  <2> QED
    BY <1>1, <2>1, BytesBetween
<1> HIDE DEF u
<1>3. \A k \in 1..Len(u) : u[k] = b[k]
  BY <1>1, <1>2
<1>4. u = b
  BY <1>2, <1>3, SeqEqual
<1> QED
  BY <1>4 DEF u, BytesToString

\* A text is decoded to what was coded, and the next field is behind it.
LEMMA TextAt ==
    ASSUME remainingPacket \in Seq(Bytes), NEW i \in Nat, NEW text \in Texts,
           Carries(remainingPacket, i, Text(text))
    PROVE  DecodeTextField(i) = text /\ BehindTextField(i) = i + Len(Text(text))
<1> DEFINE n == Len(text)
           b == TwoBytes(n)
<1>1. /\ text \in Seq(Bytes) /\ n \in 0..Word - 1 /\ Len(Text(text)) = 2 + n
  BY TextTyped
<1>2. b \in Seq(Bytes) /\ Len(b) = 2
  BY <1>1, TwoBytesCode
<1>3. Carries(remainingPacket, i, b \o text)
  BY DEF Text
<1>4. Carries(remainingPacket, i, b) /\ Carries(remainingPacket, i + 2, text)
  <2> HIDE DEF b
  <2> QED
    BY <1>1, <1>2, <1>3, CarriesParts
<1>5. DecodeTwoBytes(i) = n
  BY <1>1, <1>4, WordAt
<1>6. BytesToString(i + 2, n) = text
  BY <1>1, <1>4, BytesAt
<1> HIDE DEF n, b
<1>7. BehindTextField(i) = i + Len(Text(text))
  BY <1>1, <1>5 DEF BehindTextField
<1> QED
  BY <1>5, <1>6, <1>7 DEF DecodeTextField

\* What is carried from the beginning to the end.
LEMMA CarriesWhole == ASSUME NEW s \in Seq(Bytes) PROVE Carries(s, 0, s)
BY DEF Carries

\* The keep-alive of a CONNECT is decoded as it was coded.
LEMMA ConnectDecoded ==
    ASSUME NEW r, WellFormed(r), r.type = "connect", remainingPacket = FrameOf(r).body
    PROVE  DecodeKeepAlive = r.keepAlive
<1> DEFINE a == Text(ProtocolName)
           b == <<4, 2>>
           c == TwoBytes(r.keepAlive)
           d == Text(r.clientId)
<1>1. /\ r.keepAlive \in 0..Word - 1 /\ r.clientId \in Texts
      /\ ProtocolName \in Texts /\ Len(ProtocolName) = 2
  BY FixedBytes DEF WellFormed
<1>2. /\ a \in Seq(Bytes) /\ b \in Seq(Bytes) /\ c \in Seq(Bytes) /\ d \in Seq(Bytes)
      /\ Len(a) = 4 /\ Len(b) = 2
  <2>1. a \in Seq(Bytes) /\ Len(a) = 4 /\ d \in Seq(Bytes)
    <3>1. Text(ProtocolName) \in Seq(Bytes) /\ Len(Text(ProtocolName)) = 2 + 2
      BY <1>1, TextTyped
    <3>2. Text(r.clientId) \in Seq(Bytes)
      BY <1>1, TextTyped
    <3> QED
      BY <3>1, <3>2
  <2>2. b \in Seq(Bytes) /\ Len(b) = 2
    BY FixedBytes
  <2>3. c \in Seq(Bytes)
    BY <1>1, TwoBytesCode
  <2> QED
    BY <2>1, <2>2, <2>3
<1>3. remainingPacket = a \o b \o c \o d
  BY DEF FrameOf, Frame
<1> DEFINE x == a \o b
           y == x \o c
           z == y \o d
<1>4. remainingPacket = z
  BY <1>3
<1> HIDE DEF a, b, c, d
<1>5. x \in Seq(Bytes) /\ Len(x) = 6
  <2>1. x \in Seq(Bytes) /\ Len(x) = Len(a) + Len(b)
    BY <1>2, Joined, Zenon
  <2> HIDE DEF x
  <2> QED
    BY <1>2, <2>1
<1> HIDE DEF x
<1>6. y \in Seq(Bytes)
  BY <1>2, <1>5, Joined, Zenon
<1> HIDE DEF y
<1>7. z \in Seq(Bytes)
  BY <1>2, <1>6, Joined, Zenon
<1>8. Carries(remainingPacket, 0, a) /\ Carries(remainingPacket, 6, c)
  <2>1. remainingPacket \in Seq(Bytes) /\ Carries(remainingPacket, 0, z)
    <3> HIDE DEF z
    <3> QED
      BY <1>4, <1>7, CarriesWhole
  <2>2. Carries(remainingPacket, 0, y)
    BY <1>2, <1>6, <2>1, CarriesParts
  <2>3. Carries(remainingPacket, 0, x \o c)
    BY <2>2 DEF y
  <2>4. Carries(remainingPacket, 0, x) /\ Carries(remainingPacket, 0 + Len(x), c)
    BY <1>2, <1>5, <2>1, <2>3, CarriesParts
  <2>5. Carries(remainingPacket, 0, a \o b)
    BY <2>4 DEF x
  <2>6. Carries(remainingPacket, 0, a)
    BY <1>2, <2>1, <2>5, CarriesParts
  <2> QED
    BY <1>5, <2>4, <2>6
<1>9. BehindTextField(0) = 4
  <2>1. BehindTextField(0) = 0 + Len(a)
    <3>1. remainingPacket \in Seq(Bytes)
      BY <1>4, <1>7
    <3> QED
      BY <1>1, <1>8, <3>1, TextAt, 0 \in Nat DEF a
  <2> QED
    BY <1>2, <2>1
<1>10. DecodeTwoBytes(6) = r.keepAlive
  BY <1>1, <1>8, WordAt DEF c
<1> QED
  BY <1>9, <1>10 DEF DecodeKeepAlive

\* Topic and payload of a PUBLISH are decoded as they were coded, with or without an id.
LEMMA PublishDecoded ==
    ASSUME NEW r, WellFormed(r), r.type \in {"publish", "publishAcked"},
           remainingPacket = FrameOf(r).body, remainingLengt = Len(remainingPacket),
           fixedHeader = FrameOf(r).header
    PROVE  DecodePublish = [topic |-> r.topic, payload |-> r.payload]
<1> DEFINE a == Text(r.topic)
           c == TwoBytes(r.id)
           d == r.payload
<1>1. /\ r.topic \in Texts /\ d \in Seq(Bytes) /\ a \in Seq(Bytes)
      /\ r.type = "publishAcked" => c \in Seq(Bytes) /\ Len(c) = 2
  BY TextTyped, TwoBytesCode DEF WellFormed
<1>2. /\ r.type = "publish" => remainingPacket = a \o d /\ fixedHeader = PUBLISH
      /\ r.type = "publishAcked" => remainingPacket = a \o c \o d /\ fixedHeader = PUBLISHACKED
  BY DEF FrameOf, Frame
<1>3. PUBLISH # PUBLISHACKED
  BY HeaderBytes
<1> DEFINE index == BehindTextField(0) + IF fixedHeader = PUBLISHACKED THEN 2 ELSE 0
<1> HIDE DEF c, d
<1>4. /\ remainingPacket \in Seq(Bytes) /\ Carries(remainingPacket, 0, a)
      /\ index \in Nat /\ Carries(remainingPacket, index, d)
      /\ Len(remainingPacket) = index + Len(d)
  <2>1. CASE r.type = "publish"
    <3> HIDE DEF a
    <3>1. /\ remainingPacket \in Seq(Bytes) /\ Len(remainingPacket) = Len(a) + Len(d)
          /\ Len(a) \in Nat
      <4>1. a \in Seq(Bytes) /\ d \in Seq(Bytes)
        BY <1>1
      <4> DEFINE w == a \o d
      <4>2. w \in Seq(Bytes) /\ Len(w) = Len(a) + Len(d)
        BY <4>1, Joined, Zenon
      <4>3. remainingPacket = w
        BY <1>2, <2>1
      <4>4. Len(a) \in Nat
        BY <4>1
      <4> HIDE DEF w
      <4> QED
        BY <4>2, <4>3, <4>4
    <3>2. Carries(remainingPacket, 0, a \o d)
      <4>1. remainingPacket = a \o d
        BY <1>2, <2>1
      <4>2. Carries(remainingPacket, 0, remainingPacket)
        BY <3>1, CarriesWhole
      <4> QED
        BY <4>1, <4>2
    <3>3. Carries(remainingPacket, 0, a) /\ Carries(remainingPacket, 0 + Len(a), d)
      BY <1>1, <3>1, <3>2, CarriesParts
    <3>4. BehindTextField(0) = 0 + Len(a)
      BY <1>1, <3>1, <3>3, TextAt, 0 \in Nat DEF a
    <3>5. index = Len(a) /\ 0 + Len(a) = Len(a)
      BY <1>2, <1>3, <2>1, <3>1, <3>4
    <3> QED
      BY <3>1, <3>3, <3>5
  <2>2. CASE r.type = "publishAcked"
    <3> HIDE DEF a
    <3> DEFINE x == a \o c
    <3>1. x \in Seq(Bytes) /\ Len(x) = Len(a) + 2 /\ Len(a) \in Nat
      <4>1. a \in Seq(Bytes) /\ c \in Seq(Bytes) /\ Len(c) = 2
        BY <1>1, <2>2
      <4>2. x \in Seq(Bytes) /\ Len(x) = Len(a) + Len(c)
        BY <4>1, Joined, Zenon
      <4> HIDE DEF x
      <4> QED
        BY <4>1, <4>2
    <3>2. remainingPacket \in Seq(Bytes) /\ Len(remainingPacket) = Len(x) + Len(d)
      <4>1. remainingPacket = x \o d
        BY <1>2, <2>2
      <4>2. d \in Seq(Bytes)
        BY <1>1
      <4> HIDE DEF x
      <4>3. x \o d \in Seq(Bytes) /\ Len(x \o d) = Len(x) + Len(d)
        BY <3>1, <4>2, Joined, Zenon
      <4> QED
        BY <4>1, <4>3
    <3>3. Carries(remainingPacket, 0, (a \o c) \o d)
      BY <1>2, <2>2, <3>2, CarriesWhole
    <3>4. /\ Carries(remainingPacket, 0, a \o c)
          /\ Carries(remainingPacket, 0 + Len(a \o c), d)
      BY <1>1, <3>1, <3>2, <3>3, CarriesParts
    <3>5. Carries(remainingPacket, 0, a)
      BY <1>1, <2>2, <3>2, <3>4, CarriesParts
    <3>6. BehindTextField(0) = 0 + Len(a)
      BY <1>1, <3>2, <3>5, TextAt, 0 \in Nat DEF a
    <3>7. index = Len(a \o c) /\ 0 + Len(a \o c) = Len(a \o c)
      BY <1>2, <2>2, <3>1, <3>6
    <3>8. index \in Nat
      BY <3>1, <3>7
    <3> QED
      BY <3>2, <3>4, <3>5, <3>7, <3>8
  <2> QED
    BY <2>1, <2>2
<1>5. DecodeTextField(0) = r.topic
  BY <1>1, <1>4, TextAt, 0 \in Nat
<1>6. BytesToString(index, remainingLengt - index) = d
  <2> HIDE DEF index
  <2>1. remainingLengt - index = Len(d)
    BY <1>1, <1>4
  <2> QED
    BY <1>1, <1>4, <2>1, BytesAt
<1> QED
  BY <1>5, <1>6 DEF DecodePublish, d

\* Of sequences one behind the other, each is where those before it end.
LEMMA FlatCarries ==
    ASSUME NEW q \in Seq(Seq(Bytes)), NEW j \in 0..Len(q) - 1
    PROVE  /\ Carries(FlattenSeq(q), Len(FlatTo(q, j)), q[j + 1])
           /\ Len(FlatTo(q, j + 1)) = Len(FlatTo(q, j)) + Len(q[j + 1])
           /\ Len(FlatTo(q, j)) \in Nat /\ Len(q[j + 1]) \in Nat
<1> DEFINE B == FlattenSeq(q)
           g == FlatTo(q, j)
           c == q[j + 1]
           w == g \o c
<1>1. j \in 0..Len(q) /\ j + 1 \in 0..Len(q) /\ j + 1 \in 1..Len(q)
  OBVIOUS
<1>2. g \in Seq(Bytes) /\ c \in Seq(Bytes)
  BY <1>1, FlatIsSequence
<1>3. FlatTo(q, j + 1) = w
  BY FlatGrows
<1>4. /\ Len(FlatTo(q, j + 1)) <= Len(B)
      /\ \A i \in 1..Len(FlatTo(q, j + 1)) : B[i] = FlatTo(q, j + 1)[i]
  BY <1>1, FlatInWhole
<1> HIDE DEF B, g, c
<1>5. Len(w) = Len(g) + Len(c)
  BY <1>2, Joined, Zenon
<1>6. \A i \in 1..Len(c) : w[Len(g) + i] = c[i]
  BY <1>2, Joined
<1>7. Len(g) \in Nat /\ Len(c) \in Nat
  BY <1>2
<1> HIDE DEF w
<1>8. Carries(B, Len(g), c)
  <2>1. Len(g) + Len(c) <= Len(B)
    BY <1>3, <1>4, <1>5
  <2>2. ASSUME NEW i \in 1..Len(c) PROVE B[Len(g) + i] = c[i]
    <3>1. Len(g) + i \in 1..Len(w)
      BY <1>5, <1>7
    <3>2. B[Len(g) + i] = w[Len(g) + i]
      BY <1>3, <1>4, <3>1
    <3> QED
      BY <1>6, <3>2
  <2> QED
    BY <2>1, <2>2 DEF Carries
<1> QED
  BY <1>3, <1>5, <1>7, <1>8 DEF B, g, c

\* What is in a part is in the whole.
LEMMA CarriesWithin ==
    ASSUME NEW s \in Seq(Bytes), NEW p \in Nat, NEW u \in Seq(Bytes), Carries(s, p, u),
           NEW k \in Nat, NEW v \in Seq(Bytes), Carries(u, k, v)
    PROVE  Carries(s, p + k, v)
<1>1. /\ p + Len(u) <= Len(s) /\ k + Len(v) <= Len(u)
      /\ Len(s) \in Nat /\ Len(u) \in Nat /\ Len(v) \in Nat
  BY DEF Carries
<1>2. (p + k) + Len(v) <= Len(s)
  BY <1>1
<1>3. ASSUME NEW i \in 1..Len(v) PROVE s[(p + k) + i] = v[i]
  <2>1. k + i \in 1..Len(u) /\ p + (k + i) = (p + k) + i
    BY <1>1
  <2>2. s[p + (k + i)] = u[k + i]
    BY <2>1 DEF Carries
  <2>3. u[k + i] = v[i]
    BY DEF Carries
  <2> QED
    BY <2>1, <2>2, <2>3
<1> QED
  BY <1>2, <1>3 DEF Carries

\* A turn of the loop in decodeTopics, and what the loop has after each.
NextTurn(last) ==
    IF last.index < remainingLengt
    THEN [index  |-> BehindTextField(last.index) + 1,
          topics |-> Append(last.topics, DecodeTextField(last.index))]
    ELSE last

Turns ==
    CHOOSE f : f = [n \in 0..remainingLengt |->
                       IF n = 0 THEN [index |-> 2, topics |-> <<>>] ELSE NextTurn(f[n - 1])]

\* The recursive function of DecodeTopics has a solution.
LEMMA TurnsDefined ==
    ASSUME remainingLengt \in Nat
    PROVE  /\ DecodeTopics = Turns[remainingLengt].topics
           /\ Turns[0] = [index |-> 2, topics |-> <<>>]
           /\ \A n \in 1..remainingLengt : Turns[n] = NextTurn(Turns[n - 1])
<1> DEFINE N == remainingLengt
           First == [index |-> 2, topics |-> <<>>]
           Solves(f, m) == \A i \in 0..m : f[i] = IF i = 0 THEN First ELSE NextTurn(f[i - 1])
           T == {m \in 0..N : \E f : Solves(f, m)}
<1>1. DecodeTopics = Turns[N].topics
  BY DEF DecodeTopics, Turns, NextTurn
<1> HIDE DEF First
<1>2. 0 \in T
  <2> DEFINE g == [i \in 0..0 |-> First]
  <2>1. Solves(g, 0)
    OBVIOUS
  <2> HIDE DEF g
  <2> QED
    BY <2>1
<1>3. ASSUME NEW m \in 0..N - 1, m \in T PROVE m + 1 \in T
  <2>1. PICK f : Solves(f, m)
    BY <1>3
  <2> DEFINE g == [i \in 0..m + 1 |-> IF i <= m THEN f[i] ELSE NextTurn(f[i - 1])]
  <2>2. ASSUME NEW i \in 0..m + 1 PROVE g[i] = IF i = 0 THEN First ELSE NextTurn(g[i - 1])
    <3>1. i # 0 => g[i - 1] = f[i - 1]
      OBVIOUS
    <3>2. g[i] = IF i = 0 THEN First ELSE NextTurn(f[i - 1])
      BY <2>1
    <3> QED
      BY <3>1, <3>2
  <2> HIDE DEF g
  <2>3. Solves(g, m + 1)
    BY <2>2
  <2> QED
    BY <2>3
<1>4. T = 0..N
  <2>1. N \in Nat /\ T \in SUBSET (0..N)
    OBVIOUS
  <2> HIDE DEF T, N
  <2> QED
    BY <1>2, <1>3, <2>1, Climb
<1>5. PICK f : Solves(f, N)
  <2>1. N \in 0..N
    OBVIOUS
  <2>2. N \in T
    <3> HIDE DEF T, N
    <3> QED
      BY <1>4, <2>1
  <2> QED
    BY <2>2
<1> DEFINE g == [i \in 0..N |-> f[i]]
<1>6. g = [i \in 0..N |-> IF i = 0 THEN First ELSE NextTurn(g[i - 1])]
  <2>1. ASSUME NEW i \in 0..N PROVE g[i] = IF i = 0 THEN First ELSE NextTurn(g[i - 1])
    <3>1. g[i] = f[i] /\ (i # 0 => g[i - 1] = f[i - 1])
      OBVIOUS
    <3> QED
      BY <1>5, <3>1
  <2>2. g = [i \in 0..N |-> g[i]]
    OBVIOUS
  <2> HIDE DEF g
  <2> QED
    BY <2>1, <2>2
<1> HIDE DEF g
<1>7. Turns = [i \in 0..N |-> IF i = 0 THEN First ELSE NextTurn(Turns[i - 1])]
  BY <1>6 DEF Turns, First
<1> DEFINE h == Turns
<1>8. h = [i \in 0..N |-> IF i = 0 THEN First ELSE NextTurn(h[i - 1])]
  BY <1>7
<1> HIDE DEF h
<1>9. h[0] = First /\ \A i \in 1..N : h[i] = NextTurn(h[i - 1])
  BY <1>8
<1> QED
  BY <1>1, <1>9 DEF h, First

\* Id and filters of a SUBSCRIBE are decoded as they were coded.
LEMMA SubscribeDecoded ==
    ASSUME NEW r, WellFormed(r), r.type = "subscribe",
           remainingPacket = FrameOf(r).body, remainingLengt = Len(remainingPacket)
    PROVE  DecodeSubscribe = [messageId |-> r.id, topics |-> r.filters]
<1> DEFINE N == remainingLengt
           q == FilterBytes(r)
           n == Len(r.filters)
           B == FlattenSeq(q)
           i2 == TwoBytes(r.id)
<1>1. r.id \in 0..Word - 1 /\ r.filters \in Seq(Texts) /\ n \in Nat
  BY DEF WellFormed
<1>2. /\ q \in Seq(Seq(Bytes)) /\ Len(q) = n /\ B \in Seq(Bytes)
      /\ \A i \in 1..n : q[i] = Text(r.filters[i]) \o <<0>>
  BY <1>1, FiltersTyped
<1>3. i2 \in Seq(Bytes) /\ Len(i2) = 2
  BY <1>1, TwoBytesCode
<1>4. remainingPacket = i2 \o B
  BY DEF FrameOf, Frame, FilterBytes
<1> HIDE DEF q, B, i2
<1>5. remainingPacket \in Seq(Bytes) /\ N = 2 + Len(B) /\ Len(B) \in Nat
  <2> DEFINE w == i2 \o B
  <2>1. w \in Seq(Bytes) /\ Len(w) = Len(i2) + Len(B)
    BY <1>2, <1>3, Joined, Zenon
  <2>2. Len(B) \in Nat
    BY <1>2
  <2> HIDE DEF w
  <2> QED
    BY <1>3, <1>4, <2>1, <2>2 DEF w
<1>6. Carries(remainingPacket, 0, i2) /\ Carries(remainingPacket, 2, B)
  <2>1. Carries(remainingPacket, 0, remainingPacket)
    BY <1>5, CarriesWhole
  <2>2. Carries(remainingPacket, 0, i2 \o B)
    BY <1>4, <2>1
  <2>3. Carries(remainingPacket, 0, i2) /\ Carries(remainingPacket, 0 + Len(i2), B)
    BY <1>2, <1>3, <1>5, <2>2, CarriesParts
  <2> QED
    BY <1>3, <2>3
<1>7. DecodeTwoBytes(0) = r.id
  BY <1>1, <1>6, WordAt, 0 \in Nat DEF i2
<1>8. /\ DecodeTopics = Turns[N].topics /\ Turns[0] = [index |-> 2, topics |-> <<>>]
      /\ \A i \in 1..N : Turns[i] = NextTurn(Turns[i - 1])
  <2>1. N \in Nat
    BY <1>5
  <2> QED
    BY <2>1, TurnsDefined
<1> HIDE DEF N, n
<1>9. B = FlatTo(q, n)
  BY <1>2, FlatIsFlattened DEF B
\* After j turns the first j filters are decoded.
<1> DEFINE Reads(j) ==
               /\ j <= Len(FlatTo(q, j))
               /\ Turns[j].index = 2 + Len(FlatTo(q, j))
               /\ Turns[j].topics \in Seq(Texts) /\ Len(Turns[j].topics) = j
               /\ \A i \in 1..j : Turns[j].topics[i] = r.filters[i]
           T == {j \in 0..n : Reads(j)}
<1>10. 0 \in T
  <2>1. FlatTo(q, 0) = <<>> /\ Len(<<>>) = 0
    BY DEF FlatTo
  <2>2. Turns[0].index = 2 /\ Turns[0].topics = <<>>
    BY <1>8
  <2>3. Turns[0].index = 2 + Len(FlatTo(q, 0)) /\ 0 <= Len(FlatTo(q, 0))
    BY <2>1, <2>2
  <2>4. Turns[0].topics \in Seq(Texts) /\ Len(Turns[0].topics) = 0
    BY <2>2
  <2> QED
    BY <1>1, <2>3, <2>4
<1>11. ASSUME NEW j \in 0..n - 1, j \in T PROVE j + 1 \in T
  <2> DEFINE g == FlatTo(q, j)
             c == q[j + 1]
             t == r.filters[j + 1]
             a == 2 + Len(g)
             old == Turns[j].topics
             new == Append(old, t)
  <2>1. j \in 0..Len(q) - 1 /\ j + 1 \in 1..n /\ j + 1 \in 0..n /\ (j + 1) - 1 = j /\ j \in Nat
    BY <1>1, <1>2
  <2>2. t \in Texts /\ c = Text(t) \o <<0>>
    BY <1>1, <1>2, <2>1 DEF n
  <2>3. Text(t) \in Seq(Bytes) /\ Len(Text(t)) \in Nat /\ Len(Text(t)) >= 2 /\ <<0>> \in Seq(Bytes)
    BY <2>2, TextTyped, FixedBytes
  <2>4. c \in Seq(Bytes) /\ Len(c) = Len(Text(t)) + 1
    <3> DEFINE x == Text(t)
               z == <<0>>
    <3>1. x \in Seq(Bytes) /\ z \in Seq(Bytes) /\ Len(z) = 1
      BY <2>3
    <3> HIDE DEF x, z
    <3>2. x \o z \in Seq(Bytes) /\ Len(x \o z) = Len(x) + Len(z)
      BY <3>1, Joined, Zenon
    <3> QED
      BY <2>2, <3>1, <3>2 DEF x, z
  <2>5. /\ Carries(B, Len(g), c) /\ Len(FlatTo(q, j + 1)) = Len(g) + Len(c)
        /\ Len(g) \in Nat /\ Len(c) \in Nat
    BY <1>2, <2>1, FlatCarries DEF B
  <2>6. /\ j <= Len(g) /\ Turns[j].index = a /\ old \in Seq(Texts) /\ Len(old) = j
        /\ \A i \in 1..j : old[i] = r.filters[i]
    BY <1>11
  <2> HIDE DEF g, c, t, old, T
  <2>7. Len(g) + Len(c) <= Len(B)
    BY <2>5 DEF Carries
  <2>8. a \in Nat /\ a < N /\ j + 1 \in 1..N /\ j + 1 <= Len(FlatTo(q, j + 1))
    BY <1>5, <2>1, <2>3, <2>4, <2>5, <2>6, <2>7
  <2>9. Carries(remainingPacket, a, Text(t))
    <3>1. Carries(remainingPacket, a, c)
      BY <1>2, <1>5, <1>6, <2>4, <2>5, CarriesWithin
    <3>2. Carries(remainingPacket, a, Text(t) \o <<0>>)
      BY <2>2, <3>1
    <3> QED
      BY <1>5, <2>3, <2>8, <3>2, CarriesParts
  <2>10. DecodeTextField(a) = t /\ BehindTextField(a) + 1 = 2 + Len(FlatTo(q, j + 1))
    <3>1. DecodeTextField(a) = t /\ BehindTextField(a) = a + Len(Text(t))
      BY <1>5, <2>2, <2>8, <2>9, TextAt
    <3>2. (a + Len(Text(t))) + 1 = 2 + Len(FlatTo(q, j + 1))
      <4> DEFINE x == Len(Text(t))
                 y == Len(FlatTo(q, j + 1))
                 z == Len(g)
      <4>1. x \in Nat /\ Len(c) = x + 1
        BY <2>3, <2>4
      <4>2. z \in Nat /\ y = z + Len(c)
        BY <2>5
      <4> HIDE DEF x, y, z
      <4>3. (2 + z + x) + 1 = 2 + y
        BY <4>1, <4>2
      <4> QED
        BY <4>3 DEF x, y, z
    <3> QED
      BY <3>1, <3>2
  <2>11. Turns[j + 1] = [index |-> BehindTextField(a) + 1, topics |-> new]
    <3>1. Turns[j + 1] = NextTurn(Turns[j])
      BY <1>8, <2>1, <2>8
    <3>2. Turns[j].topics = old
      BY DEF old
    <3> HIDE DEF a
    <3> QED
      BY <2>6, <2>8, <2>10, <3>1, <3>2 DEF NextTurn, N
  <2>12. /\ new \in Seq(Texts) /\ Len(new) = j + 1 /\ new[j + 1] = t
         /\ \A i \in 1..j : new[i] = old[i]
    BY <2>2, <2>6, AppendProperties
  <2> HIDE DEF new
  <2>13. /\ Turns[j + 1].index = 2 + Len(FlatTo(q, j + 1)) /\ Turns[j + 1].topics = new
    BY <2>10, <2>11
  <2>14. \A i \in 1..j + 1 : new[i] = r.filters[i]
    <3> TAKE i \in 1..j + 1
    <3>1. i \in 1..j \/ i = j + 1
      BY <2>1
    <3> QED
      BY <2>6, <2>12, <3>1 DEF t
  <2>15. Reads(j + 1)
    BY <2>8, <2>12, <2>13, <2>14
  <2> HIDE DEF Reads
  <2> QED
    BY <2>1, <2>15 DEF T
<1>12. T = 0..n
  <2>1. T \in SUBSET (0..n)
    OBVIOUS
  <2> HIDE DEF T
  <2> QED
    BY <1>1, <1>10, <1>11, <2>1, Climb
<1>13. Reads(n)
  BY <1>1, <1>12, n \in 0..n
<1>14. n <= N /\ Turns[n].index = N /\ N \in Nat
  BY <1>1, <1>5, <1>9, <1>13
\* The turns behind the last filter change nothing.
<1> DEFINE Rest == {k \in 0..N - n : Turns[n + k] = Turns[n]}
<1>15. 0 \in Rest
  BY <1>1, <1>14
<1>16. ASSUME NEW k \in 0..(N - n) - 1, k \in Rest PROVE k + 1 \in Rest
  <2>1. n + (k + 1) \in 1..N /\ (n + (k + 1)) - 1 = n + k /\ k + 1 \in 0..N - n
    BY <1>1, <1>14
  <2>2. Turns[n + (k + 1)] = NextTurn(Turns[n + k])
    BY <1>8, <2>1
  <2>3. Turns[n + (k + 1)] = NextTurn(Turns[n])
    BY <1>16, <2>2
  <2>4. NextTurn(Turns[n]) = Turns[n]
    <3>1. ~(Turns[n].index < remainingLengt)
      BY <1>14 DEF N
    <3> QED
      BY <3>1 DEF NextTurn
  <2> QED
    BY <2>1, <2>3, <2>4
<1>17. Rest = 0..N - n
  <2>1. N - n \in Nat /\ Rest \in SUBSET (0..N - n)
    BY <1>1, <1>14
  <2> HIDE DEF Rest
  <2> QED
    BY <1>15, <1>16, <2>1, Climb
<1>18. Turns[N] = Turns[n]
  <2>1. N - n \in 0..N - n /\ n + (N - n) = N
    BY <1>1, <1>14
  <2> QED
    BY <1>17, <2>1
<1>19. Turns[n].topics = r.filters
  <2> DEFINE u == Turns[n].topics
  <2>1. u \in Seq(Texts) /\ Len(u) = n /\ \A i \in 1..n : u[i] = r.filters[i]
    BY <1>13
  <2> HIDE DEF u
  <2>2. r.filters \in Seq(Texts) /\ Len(r.filters) = n
    BY <1>1 DEF n
  <2>3. u = r.filters
    BY <2>1, <2>2, SeqEqual
  <2> QED
    BY <2>3 DEF u
<1> QED
  BY <1>7, <1>8, <1>18, <1>19 DEF DecodeSubscribe

-----------------------------------------------------------------------------
(* What is done for a client is what it asked for.                         *)

\* A frame asked for is the one of a request, and where those before it end; or it is
\* the empty frame that is left of a packet that is too long.
LEMMA AskedFrames ==
    ASSUME NEW s \in Scripts, NEW k \in 1..Len(Asked(s))
    PROVE  \/ Asked(s)[k] = Zero
           \/ \E i \in 1..Len(s) : /\ s[i].type # "overlong" /\ Asked(s)[k] = FrameOf(s[i])
                                   /\ Len(FlatTo(FramesIn(s), i - 1)) = k - 1
<1> DEFINE e == FramesIn(s)
           n == Len(s)
           Is(x, m) == \/ x = Zero
                       \/ \E i \in 1..n : /\ s[i].type # "overlong" /\ x = FrameOf(s[i])
                                          /\ Len(FlatTo(e, i - 1)) = m - 1
           T == {j \in 0..n : \A m \in 1..Len(FlatTo(e, j)) : Is(FlatTo(e, j)[m], m)}
<1>1. /\ n \in Nat /\ DOMAIN s = 1..n /\ \A i \in 1..n : WellFormed(s[i])
  BY ScriptTyped
<1>2. e \in Seq(Seq(Packets)) /\ Len(e) = n
  BY ScriptThere
<1>3. \A i \in 1..n : e[i] = Expected(s[i])
  BY <1>1 DEF FramesIn
<1> HIDE DEF e, n
<1>4. 0 \in T
  <2>1. FlatTo(e, 0) = <<>> /\ 0 \in 0..n
    BY <1>1 DEF FlatTo
  <2> QED
    BY <2>1
<1>5. ASSUME NEW j \in 0..n - 1, j \in T PROVE j + 1 \in T
  <2> DEFINE f == FlatTo(e, j)
             x == e[j + 1]
             w == f \o x
  <2>1. j \in 0..Len(e) - 1 /\ j \in 0..n /\ j + 1 \in 0..n /\ j + 1 \in 1..n /\ (j + 1) - 1 = j
    BY <1>1, <1>2
  <2>2. FlatTo(e, j + 1) = w /\ f \in Seq(Packets) /\ x \in Seq(Packets)
    <3>1. FlatTo(e, j + 1) = w
      BY <1>2, <2>1, FlatGrows
    <3>2. j \in 0..Len(e) /\ j + 1 \in 1..Len(e)
      BY <1>2, <2>1
    <3>3. f \in Seq(Packets)
      BY <1>2, <3>2, FlatIsSequence
    <3>4. x \in Seq(Packets)
      BY <1>2, <3>2
    <3> QED
      BY <3>1, <3>3, <3>4
  <2>3. x = Expected(s[j + 1])
    BY <1>3, <2>1
  <2>4. \A m \in 1..Len(f) : Is(f[m], m)
    <3> HIDE DEF Is
    <3> QED
      BY <1>5
  <2>5. \A m \in 1..Len(x) : Is(x[m], Len(f) + m)
    <3>1. CASE s[j + 1].type = "overlong"
      BY <2>3, <3>1 DEF Expected
    <3>2. CASE s[j + 1].type # "overlong"
      <4>1. Len(x) = 1 /\ x[1] = FrameOf(s[j + 1])
        BY <2>3, <3>2 DEF Expected
      <4>2. Len(FlatTo(e, (j + 1) - 1)) = (Len(f) + 1) - 1
        BY <2>1, <2>2
      <4> HIDE DEF x, f
      <4>3. Is(x[1], Len(f) + 1)
        BY <2>1, <3>2, <4>1, <4>2
      <4> QED
        BY <4>1, <4>3
    <3> QED
      BY <3>1, <3>2
  <2>6. Len(w) = Len(f) + Len(x) /\ \A m \in 1..Len(f) : w[m] = f[m]
    <3> HIDE DEF f, x
    <3> QED
      BY <2>2, Joined, Zenon
  <2>7. \A m \in 1..Len(x) : w[Len(f) + m] = x[m]
    BY <2>2, Joined
  <2>8. Len(f) \in Nat /\ Len(x) \in Nat
    BY <2>2
  <2> HIDE DEF f, x, w, Is
  <2>9. ASSUME NEW m \in 1..Len(w) PROVE Is(w[m], m)
    <3>1. CASE m <= Len(f)
      <4>1. m \in 1..Len(f)
        BY <3>1, <2>8
      <4> QED
        BY <2>4, <2>6, <4>1
    <3>2. CASE ~(m <= Len(f))
      <4>1. m - Len(f) \in 1..Len(x) /\ Len(f) + (m - Len(f)) = m
        BY <2>6, <2>8, <3>2
      <4> QED
        BY <2>5, <2>7, <4>1
    <3> QED
      BY <3>1, <3>2
  <2> QED
    BY <2>1, <2>2, <2>9
<1>6. T = 0..n
  <2>1. T \in SUBSET (0..n)
    OBVIOUS
  <2> HIDE DEF T
  <2> QED
    BY <1>1, <1>4, <1>5, <2>1, Climb
<1>7. FlatTo(e, n) = Asked(s)
  BY <1>2, FlatIsFlattened DEF Asked, e
<1>8. Is(FlatTo(e, n)[k], k)
  <2>1. n \in T /\ k \in 1..Len(FlatTo(e, n))
    BY <1>1, <1>6, <1>7
  <2> HIDE DEF Is
  <2> QED
    BY <2>1
<1> QED
  BY <1>7, <1>8 DEF e, n

\* The first frame asked for is the one of the first request.
LEMMA FirstAsked ==
    ASSUME NEW s \in Scripts, Len(Asked(s)) >= 1
    PROVE  /\ 1 \in 1..Len(s) /\ WellFormed(s[1])
           /\ Asked(s)[1] = Zero \/ (s[1].type # "overlong" /\ Asked(s)[1] = FrameOf(s[1]))
<1> DEFINE e == FramesIn(s)
<1>1. /\ Len(s) \in Nat /\ DOMAIN s = 1..Len(s) /\ \A i \in 1..Len(s) : WellFormed(s[i])
  BY ScriptTyped
<1>2. e \in Seq(Seq(Packets)) /\ Len(e) = Len(s)
  BY ScriptThere
<1>3. Len(s) # 0
  <2> SUFFICES ASSUME Len(s) = 0 PROVE FALSE
    OBVIOUS
  <2>1. Asked(s) = FlatTo(e, 0)
    BY <1>2, FlatIsFlattened DEF Asked
  <2>2. Asked(s) = <<>>
    BY <2>1 DEF FlatTo
  <2> QED
    BY <2>2
<1>4. 1 \in 1..Len(s)
  BY <1>1, <1>3
<1>5. e[1] = Expected(s[1])
  BY <1>1, <1>4 DEF FramesIn
<1> HIDE DEF e
<1>6. FlatTo(e, 1) = e[1]
  <2>1. 0 \in 0..Len(e) - 1 /\ 0 + 1 = 1 /\ 1 \in 1..Len(e)
    BY <1>2, <1>4
  <2>2. FlatTo(e, 0) = <<>> /\ FlatTo(e, 0 + 1) = FlatTo(e, 0) \o e[0 + 1]
    BY <1>2, <2>1, FlatGrows
  <2>3. e[1] \in Seq(Packets)
    BY <1>2, <2>1
  <2>4. <<>> \o e[1] = e[1]
    BY <2>3, ConcatEmptySeq
  <2> QED
    BY <2>1, <2>2, <2>4
<1>7. \A i \in 1..Len(e[1]) : Asked(s)[i] = e[1][i]
  <2>1. 1 \in 0..Len(e)
    BY <1>2, <1>4
  <2> QED
    BY <1>2, <1>6, <2>1, FlatInWhole DEF Asked, e
<1>8. 1 \in 1..Len(e[1]) /\ (e[1][1] = Zero \/ (s[1].type # "overlong" /\ e[1][1] = FrameOf(s[1])))
  BY <1>5 DEF Expected
<1> QED
  BY <1>1, <1>4, <1>7, <1>8

\* A frame with a header that the broker serves is the one of a request of that type,
\* and no other is.
LEMMA RequestOfHeader ==
    ASSUME NEW r, WellFormed(r), r.type # "overlong"
    PROVE  /\ FrameOf(r).header = CONNECT => r.type = "connect"
           /\ FrameOf(r).header = PINGREQ <=> r.type = "pingreq"
           /\ FrameOf(r).header = PUBLISH <=> r.type = "publish"
           /\ FrameOf(r).header = PUBLISHACKED <=> r.type = "publishAcked"
           /\ FrameOf(r).header = SUBSCRIBE <=> r.type = "subscribe"
<1>1. /\ CONNECT \notin {PUBLISH, PUBLISHACKED, SUBSCRIBE, UNSUBSCRIBE, PINGREQ}
      /\ PINGREQ \notin {PUBLISH, PUBLISHACKED, SUBSCRIBE, UNSUBSCRIBE}
      /\ SUBSCRIBE \notin {PUBLISH, PUBLISHACKED, UNSUBSCRIBE}
      /\ UNSUBSCRIBE \notin {PUBLISH, PUBLISHACKED} /\ PUBLISH # PUBLISHACKED
  BY HeaderBytes
<1>2. r.type \in {"connect", "pingreq", "publish", "publishAcked", "subscribe", "unsubscribe"}
  BY DEF WellFormed
<1>3. /\ r.type = "connect" => FrameOf(r).header = CONNECT
      /\ r.type = "pingreq" => FrameOf(r).header = PINGREQ
      /\ r.type = "publish" => FrameOf(r).header = PUBLISH
      /\ r.type = "publishAcked" => FrameOf(r).header = PUBLISHACKED
      /\ r.type = "subscribe" => FrameOf(r).header = SUBSCRIBE
      /\ r.type = "unsubscribe" => FrameOf(r).header = UNSUBSCRIBE
  BY DEF FrameOf, Frame
<1> QED
  BY <1>1, <1>2, <1>3

\* The packet that the callback is given is the next frame asked for.
LEMMA NextPacket ==
    ASSUME RequestInv, RequestInv', DeliverPacket, UNCHANGED script
    PROVE  /\ script \in Scripts /\ packets \in Seq(Packets)
           /\ Len(packets) + 1 \in 1..Len(Asked(script)) /\ Len(packets') = Len(packets) + 1
           /\ Asked(script)[Len(packets) + 1]
              = [header |-> fixedHeader, body |-> remainingPacket]
           /\ remainingLengt = Len(remainingPacket) /\ remainingPacket \in Seq(Bytes)
<1> DEFINE f == [header |-> fixedHeader, body |-> remainingPacket]
           a == Asked(script)
           after == Append(packets, f)
<1>1. /\ script \in Scripts /\ packets \in Seq(Packets) /\ f \in Packets
      /\ remainingPacket \in Seq(Bytes) /\ Len(remainingPacket) = bytesReadSoFar
      /\ state = "packetReady" => bytesReadSoFar = remainingLengt
  BY DEF RequestInv, WireInv, StreamInv, ReaderInv, TypeOK, BufferRespected, Packets
<1>2. state = "packetReady" /\ packets' = after
  BY DEF DeliverPacket
<1>3. PICK rest \in Seq(Packets) : a = packets' \o rest
  BY DEF RequestInv, PacketsAsked
<1> HIDE DEF f, a
<1>4. /\ after \in Seq(Packets) /\ Len(after) = Len(packets) + 1
      /\ after[Len(packets) + 1] = f
  BY <1>1, AppendProperties
<1> HIDE DEF after
<1>5. Len(a) = Len(after) + Len(rest) /\ \A i \in 1..Len(after) : a[i] = after[i]
  BY <1>2, <1>3, <1>4, Joined
<1>6. Len(packets) \in Nat /\ Len(rest) \in Nat
  BY <1>1
<1>7. Len(packets) + 1 \in 1..Len(a) /\ Len(packets) + 1 \in 1..Len(after)
  BY <1>4, <1>5, <1>6
<1> QED
  BY <1>1, <1>2, <1>4, <1>5, <1>7 DEF f, a

\* A client that waits for its CONNECT has sent no complete packet, and the keep-alive
\* is the one of its CONNECT from then on.
ConnectInv == (connected /\ clientState = "pending" => packets = <<>>) /\ KeepAliveAgreed

\* Every step keeps the keep-alive.
LEMMA ConnectStep ==
    ASSUME RequestInv, RequestInv', ConnectInv, [SessionNext]_<<vars, sessionVars>>
    PROVE  ConnectInv'
<1>1. CASE HandleConnect
  <2> SUFFICES ASSUME connected PROVE keepAlive' = script[1].keepAlive
    BY <1>1 DEF HandleConnect, Handle, ConnectInv, KeepAliveAgreed
  <2> DEFINE f == [header |-> fixedHeader, body |-> remainingPacket]
  <2>1. /\ fixedHeader = CONNECT /\ clientState = "pending" /\ DeliverPacket
        /\ keepAlive' = DecodeKeepAlive /\ UNCHANGED script
    BY <1>1 DEF HandleConnect, Handle
  <2>2. packets = <<>> /\ Len(packets) + 1 = 1
    BY <2>1 DEF ConnectInv
  <2>3. /\ script \in Scripts /\ Len(packets) + 1 \in 1..Len(Asked(script))
        /\ Asked(script)[Len(packets) + 1] = f
    BY <2>1, NextPacket
  <2>4. Len(Asked(script)) >= 1 /\ Asked(script)[1] = f
    BY <2>2, <2>3
  <2>5. Asked(script)[1] # Zero
    <3>1. CONNECT # 0
      BY HeaderBytes
    <3> QED
      BY <2>1, <2>4, <3>1 DEF Zero, Frame
  <2>6. WellFormed(script[1]) /\ script[1].type # "overlong" /\ f = FrameOf(script[1])
    BY <2>3, <2>4, <2>5, FirstAsked
  <2>7. script[1].type = "connect"
    <3>1. FrameOf(script[1]).header = CONNECT
      BY <2>1, <2>6
    <3> QED
      BY <2>6, <3>1, RequestOfHeader
  <2>8. remainingPacket = FrameOf(script[1]).body
    BY <2>6
  <2> QED
    BY <2>1, <2>6, <2>7, <2>8, ConnectDecoded
<1>2. CASE HandleBadHandshake
  BY <1>2 DEF HandleBadHandshake, ConnectInv, KeepAliveAgreed
<1>3. CASE HandlePing \/ HandlePublish \/ HandleSubscribe \/ HandleOther
  BY <1>3 DEF HandlePing, HandlePublish, HandleSubscribe, HandleOther, Handle, ConnectInv,
              KeepAliveAgreed
<1>4. ASSUME NEW n \in ChunkSizes, Arrive(n) PROVE ConnectInv'
  BY <1>4 DEF Arrive, AddData, ConnectInv, KeepAliveAgreed
<1>5. CASE ReadOn
  BY <1>5 DEF ReadOn, ReadFixedHeader, RejectLength, ReadLengthByte, AllocationFails, CopyBody,
              sessionVars, ConnectInv, KeepAliveAgreed
<1>6. CASE ProcessSubscribe \/ ProcessPublish
  BY <1>6 DEF ProcessSubscribe, ProcessPublish, TakeEvent, vars, ConnectInv, KeepAliveAgreed
<1>7. CASE UNCHANGED <<vars, sessionVars>>
  BY <1>7 DEF vars, sessionVars, ConnectInv, KeepAliveAgreed
<1> QED
  BY <1>1, <1>2, <1>3, <1>4, <1>5, <1>6, <1>7 DEF SessionNext

\* The client's keep-alive is the one that it wrote into its CONNECT, whatever name and
\* whatever chunks the CONNECT comes in (property KeepAliveAgreed).
THEOREM KeepAliveCorrect == SessionSpec => []KeepAliveAgreed
<1>1. SessionInit => ConnectInv
  BY DEF SessionInit, Init, ConnectInv, KeepAliveAgreed
<1>2. ConnectInv => KeepAliveAgreed
  BY DEF ConnectInv
<1> QED
  BY <1>1, <1>2, ConnectStep, RequestInit, RequestStep, PTL DEF SessionSpec

\* The event that a request for the worker should become, and all of those of a script.
EventFor(r) ==
    IF r.type = "subscribe"
    THEN [type |-> "subscribe", message |-> [messageId |-> r.id, topics |-> r.filters]]
    ELSE [type |-> "publish", message |-> [topic |-> r.topic, payload |-> r.payload]]

EventsOf(s) == {EventFor(s[i]) : i \in {k \in DOMAIN s : s[k].type \in WorkerTypes}}

\* The i-th event in the queue is the one for the request at[i].
Origins(at) ==
    /\ at \in [1..Len(brokerEventQueue) -> 1..Len(script)]
    /\ \A i, j \in 1..Len(brokerEventQueue) : i < j => at[i] < at[j]
    /\ \A i \in 1..Len(brokerEventQueue) :
          script[at[i]].type \in WorkerTypes /\ brokerEventQueue[i] = EventFor(script[at[i]])

\* The events in the queue are requests of the client, in order, none of them twice.
EventsAsked == \E at : Origins(at)

\* The client is subscribed to filters that it has asked for.
FiltersAsked ==
    \A f \in subscribed :
        \E i \in 1..Len(script) : script[i].type = "subscribe" /\ f \in Range(script[i].filters)

\* The callback has got the frame of every request in the queue.
Delivered(at) ==
    \A i \in 1..Len(brokerEventQueue) : Len(FlatTo(FramesIn(script), at[i])) <= Len(packets)

EventsInv ==
    /\ brokerEventQueue \in Seq(EventsOf(script))
    /\ \E at : Origins(at) /\ Delivered(at)

\* A longer prefix of sequences makes no shorter sequence.
LEMMA FlatLonger ==
    ASSUME NEW S, NEW q \in Seq(Seq(S)), NEW i \in 0..Len(q), NEW j \in 0..Len(q), i <= j
    PROVE  Len(FlatTo(q, i)) <= Len(FlatTo(q, j)) /\ Len(FlatTo(q, i)) \in Nat
<1> DEFINE T == {k \in 0..Len(q) - i : Len(FlatTo(q, i)) <= Len(FlatTo(q, i + k))}
<1>1. Len(FlatTo(q, i)) \in Nat
  BY FlatIsSequence
<1>2. 0 \in T
  BY <1>1, i + 0 = i
<1>3. ASSUME NEW k \in 0..(Len(q) - i) - 1, k \in T PROVE k + 1 \in T
  <2> DEFINE g == FlatTo(q, i + k)
             c == q[(i + k) + 1]
             w == g \o c
  <2>1. i + k \in 0..Len(q) - 1 /\ (i + k) + 1 = i + (k + 1) /\ k + 1 \in 0..Len(q) - i
    OBVIOUS
  <2>2. FlatTo(q, i + (k + 1)) = w
    BY <2>1, FlatGrows
  <2>3. g \in Seq(S) /\ c \in Seq(S)
    BY <2>1, FlatIsSequence
  <2>4. Len(FlatTo(q, i)) <= Len(g)
    BY <1>3
  <2> HIDE DEF g, c
  <2>5. Len(w) = Len(g) + Len(c)
    BY <2>3, Joined, Zenon
  <2>6. Len(g) \in Nat /\ Len(c) \in Nat
    BY <2>3
  <2> HIDE DEF w
  <2>7. Len(FlatTo(q, i)) <= Len(w)
    BY <1>1, <2>4, <2>5, <2>6
  <2> QED
    BY <2>1, <2>2, <2>7
<1>4. T = 0..Len(q) - i
  <2>1. Len(q) - i \in Nat /\ T \in SUBSET (0..Len(q) - i)
    OBVIOUS
  <2> HIDE DEF T
  <2> QED
    BY <1>2, <1>3, <2>1, Climb
<1>5. j - i \in 0..Len(q) - i /\ i + (j - i) = j
  OBVIOUS
<1> QED
  BY <1>1, <1>4, <1>5

\* Events that stay in the queue stay what they are.
LEMMA EventsKept ==
    ASSUME EventsInv, RequestInv, UNCHANGED <<brokerEventQueue, script>>,
           Len(packets') \in Nat, Len(packets) \in Nat, Len(packets) <= Len(packets')
    PROVE  EventsInv'
<1>1. PICK at : Origins(at) /\ Delivered(at)
  BY DEF EventsInv
<1>2. FramesIn(script) \in Seq(Seq(Packets)) /\ Len(FramesIn(script)) = Len(script)
      /\ Len(script) \in Nat
  BY ScriptThere, ScriptTyped DEF RequestInv, WireInv
<1>3. (Origins(at))'
  BY <1>1 DEF Origins
<1>4. ASSUME NEW i \in 1..Len(brokerEventQueue)
      PROVE  Len(FlatTo(FramesIn(script), at[i])) <= Len(packets')
  <2>1. at[i] \in 0..Len(FramesIn(script))
    <3>1. at[i] \in 1..Len(script)
      BY <1>1 DEF Origins
    <3> QED
      BY <1>2, <3>1
  <2>2. Len(FlatTo(FramesIn(script), at[i])) \in Nat
    BY <1>2, <2>1, FlatIsSequence
  <2>3. Len(FlatTo(FramesIn(script), at[i])) <= Len(packets)
    BY <1>1 DEF Delivered
  <2> QED
    BY <2>2, <2>3
<1>5. (Delivered(at))'
  BY <1>4 DEF Delivered
<1> QED
  BY <1>3, <1>5 DEF EventsInv

\* The worker takes the oldest event.
LEMMA EventTaken ==
    ASSUME EventsInv, NEW type, TakeEvent(type)
    PROVE  EventsInv'
<1> DEFINE q == brokerEventQueue
           t == Tail(q)
<1>1. PICK at : Origins(at) /\ Delivered(at)
  BY DEF EventsInv
<1>2. /\ q # <<>> /\ q' = t /\ UNCHANGED <<script, packets>>
  BY DEF TakeEvent, vars
<1>3. q \in Seq(EventsOf(script))
  BY DEF EventsInv
<1>4. /\ t \in Seq(EventsOf(script)) /\ Len(t) = Len(q) - 1 /\ Len(q) \in Nat \ {0}
      /\ \A i \in 1..Len(t) : t[i] = q[i + 1]
  BY <1>2, <1>3
<1>5. /\ at \in [1..Len(q) -> 1..Len(script)]
      /\ \A i, j \in 1..Len(q) : i < j => at[i] < at[j]
      /\ \A i \in 1..Len(q) :
            /\ script[at[i]].type \in WorkerTypes /\ q[i] = EventFor(script[at[i]])
            /\ Len(FlatTo(FramesIn(script), at[i])) <= Len(packets)
  BY <1>1 DEF Origins, Delivered
<1> HIDE DEF q, t
<1>6. \A i \in 1..Len(t) : i + 1 \in 1..Len(q)
  BY <1>4
<1>7. PICK new \in [1..Len(t) -> 1..Len(script)] : \A i \in 1..Len(t) : new[i] = at[i + 1]
  <2> DEFINE w == [i \in 1..Len(t) |-> at[i + 1]]
  <2>1. w \in [1..Len(t) -> 1..Len(script)] /\ \A i \in 1..Len(t) : w[i] = at[i + 1]
    BY <1>5, <1>6
  <2> HIDE DEF w
  <2> QED
    BY <2>1
<1>8. \A i, j \in 1..Len(t) : i < j => new[i] < new[j]
  <2> TAKE i, j \in 1..Len(t)
  <2> HAVE i < j
  <2>1. i + 1 \in 1..Len(q) /\ j + 1 \in 1..Len(q) /\ i + 1 < j + 1
    BY <1>6
  <2> QED
    BY <1>5, <1>7, <2>1
<1>9. ASSUME NEW i \in 1..Len(t)
      PROVE  /\ script[new[i]].type \in WorkerTypes /\ t[i] = EventFor(script[new[i]])
             /\ Len(FlatTo(FramesIn(script), new[i])) <= Len(packets)
  <2>1. i + 1 \in 1..Len(q) /\ new[i] = at[i + 1] /\ t[i] = q[i + 1]
    BY <1>4, <1>6, <1>7
  <2> QED
    BY <1>5, <2>1
<1>10. Origins(new)' /\ Delivered(new)'
  BY <1>2, <1>7, <1>8, <1>9 DEF Origins, Delivered, q
<1> QED
  BY <1>2, <1>4, <1>10 DEF EventsInv, q

\* The event of the next request comes behind the others, or is dropped.
LEMMA EventQueued ==
    ASSUME EventsInv, RequestInv, UNCHANGED script, NEW k \in 1..Len(script),
           script[k].type \in WorkerTypes, QueueEvent(EventFor(script[k])),
           Len(FlatTo(FramesIn(script), k - 1)) = Len(packets),
           Len(packets) \in Nat, Len(packets') = Len(packets) + 1
    PROVE  EventsInv'
<1> DEFINE e == FramesIn(script)
           q == brokerEventQueue
           v == EventFor(script[k])
           t == Append(q, v)
<1>1. PICK at : Origins(at) /\ Delivered(at)
  BY DEF EventsInv
<1>2. /\ script \in Scripts /\ e \in Seq(Seq(Packets)) /\ Len(e) = Len(script)
      /\ Len(script) \in Nat /\ DOMAIN script = 1..Len(script)
  BY ScriptThere, ScriptTyped DEF RequestInv, WireInv
<1>3. e[k] = Expected(script[k])
  BY <1>2 DEF FramesIn
<1> HIDE DEF e
<1>4. Len(FlatTo(e, k)) = Len(packets')
  <2>1. Len(e[k]) = 1
    BY <1>3 DEF Expected, WorkerTypes
  <2>2. k - 1 \in 0..Len(e) - 1 /\ (k - 1) + 1 = k /\ k - 1 \in 0..Len(e) /\ k \in 1..Len(e)
    BY <1>2
  <2> DEFINE g == FlatTo(e, k - 1)
             w == g \o e[k]
  <2>3. FlatTo(e, k) = w
    BY <1>2, <2>2, FlatGrows
  <2>4. g \in Seq(Packets) /\ e[k] \in Seq(Packets)
    BY <1>2, <2>2, FlatIsSequence
  <2>5. Len(g) = Len(packets)
    BY DEF e
  <2> HIDE DEF g
  <2>6. Len(w) = Len(g) + Len(e[k])
    BY <2>4, Joined, Zenon
  <2> QED
    BY <2>1, <2>3, <2>5, <2>6
<1>5. ASSUME NEW i \in 1..Len(q) PROVE at[i] < k
  <2> SUFFICES ASSUME ~(at[i] < k) PROVE FALSE
    OBVIOUS
  <2>1. at[i] \in 1..Len(script) /\ Len(FlatTo(e, at[i])) <= Len(packets)
    BY <1>1 DEF Origins, Delivered, e
  <2>2. k <= at[i] /\ k \in 0..Len(e) /\ at[i] \in 0..Len(e)
    BY <1>2, <2>1
  <2>3. Len(FlatTo(e, k)) <= Len(FlatTo(e, at[i])) /\ Len(FlatTo(e, at[i])) \in Nat
    BY <1>2, <2>2, FlatLonger
  <2> QED
    BY <1>4, <2>1, <2>3
<1>6. CASE UNCHANGED q
  BY <1>6, EventsKept
<1>7. CASE q' = t
  <2>1. v \in EventsOf(script) /\ q \in Seq(EventsOf(script))
    BY <1>2 DEF EventsOf, EventsInv
  <2> HIDE DEF v
  <2>2. /\ t \in Seq(EventsOf(script)) /\ Len(t) = Len(q) + 1 /\ t[Len(q) + 1] = v
        /\ \A i \in 1..Len(q) : t[i] = q[i]
    BY <2>1, AppendProperties
  <2>3. Len(q) \in Nat
    BY <2>1
  <2> HIDE DEF t
  <2>4. /\ at \in [1..Len(q) -> 1..Len(script)]
        /\ \A i, j \in 1..Len(q) : i < j => at[i] < at[j]
        /\ \A i \in 1..Len(q) :
              /\ script[at[i]].type \in WorkerTypes /\ q[i] = EventFor(script[at[i]])
              /\ Len(FlatTo(e, at[i])) <= Len(packets)
    BY <1>1 DEF Origins, Delivered, e
  <2> HIDE DEF q
  <2>5. \A i \in 1..Len(t) : i = Len(t) \/ i \in 1..Len(q)
    BY <2>2, <2>3
  <2>6. PICK new \in [1..Len(t) -> 1..Len(script)] :
             new[Len(t)] = k /\ \A i \in 1..Len(q) : new[i] = at[i]
    <3> DEFINE w == [i \in 1..Len(t) |-> IF i = Len(t) THEN k ELSE at[i]]
    <3>1. /\ w \in [1..Len(t) -> 1..Len(script)] /\ w[Len(t)] = k
          /\ \A i \in 1..Len(q) : w[i] = at[i]
      BY <2>2, <2>3, <2>4, <2>5
    <3> HIDE DEF w
    <3> QED
      BY <3>1
  <2>7. \A i, j \in 1..Len(t) : i < j => new[i] < new[j]
    <3> TAKE i, j \in 1..Len(t)
    <3> HAVE i < j
    <3>1. i \in 1..Len(q) /\ (j = Len(t) \/ j \in 1..Len(q))
      <4>1. Len(t) = Len(q) + 1
        BY <2>2
      <4> QED
        BY <2>3, <4>1
    <3>2. CASE j = Len(t)
      BY <1>5, <2>6, <3>1, <3>2 DEF q
    <3>3. CASE j \in 1..Len(q)
      BY <2>4, <2>6, <3>1, <3>3
    <3> QED
      BY <3>1, <3>2, <3>3
  <2>8. ASSUME NEW i \in 1..Len(t)
        PROVE  /\ script[new[i]].type \in WorkerTypes /\ t[i] = EventFor(script[new[i]])
               /\ Len(FlatTo(e, new[i])) <= Len(packets')
    <3>1. CASE i \in 1..Len(q)
      <4>1. at[i] \in 0..Len(e)
        <5>1. at[i] \in 1..Len(script)
          BY <2>4, <3>1
        <5> QED
          BY <1>2, <5>1
      <4>2. Len(FlatTo(e, at[i])) \in Nat
        BY <1>2, <4>1, FlatIsSequence
      <4>3. Len(FlatTo(e, at[i])) <= Len(packets')
        BY <2>4, <3>1, <4>2
      <4> QED
        BY <2>2, <2>4, <2>6, <3>1, <4>3
    <3>2. CASE i = Len(t)
      <4>1. new[i] = k /\ t[i] = v
        BY <2>2, <2>6, <3>2
      <4>2. Len(FlatTo(e, k)) <= Len(packets')
        BY <1>4
      <4> QED
        BY <4>1, <4>2 DEF v
    <3> QED
      BY <2>5, <3>1, <3>2
  <2>9. Origins(new)'
    BY <1>7, <2>6, <2>7, <2>8 DEF Origins, q
  <2>10. Delivered(new)'
    BY <1>7, <2>8 DEF Delivered, q, e
  <2> QED
    BY <1>7, <2>2, <2>9, <2>10 DEF EventsInv, q
<1> QED
  BY <1>6, <1>7 DEF QueueEvent

\* What goes to the queue for a packet is the event of the request that it was made of.
LEMMA EventDecoded ==
    ASSUME NEW r, WellFormed(r), r.type # "overlong",
           [header |-> fixedHeader, body |-> remainingPacket] = FrameOf(r),
           remainingLengt = Len(remainingPacket), remainingPacket \in Seq(Bytes),
           fixedHeader \in {PUBLISH, PUBLISHACKED, SUBSCRIBE},
           fixedHeader = SUBSCRIBE =>
               QueueEvent([type |-> "subscribe", message |-> DecodeSubscribe]),
           fixedHeader # SUBSCRIBE =>
               QueueEvent([type |-> "publish", message |-> DecodePublish])
    PROVE  r.type \in WorkerTypes /\ QueueEvent(EventFor(r))
<1> DEFINE f == [header |-> fixedHeader, body |-> remainingPacket]
<1>1. FrameOf(r).header = fixedHeader /\ FrameOf(r).body = remainingPacket
  <2>1. f.header = fixedHeader /\ f.body = remainingPacket
    OBVIOUS
  <2> HIDE DEF f
  <2> QED
    BY <2>1 DEF f
<1>2. CASE fixedHeader = SUBSCRIBE
  <2>1. r.type = "subscribe"
    BY <1>1, <1>2, RequestOfHeader
  <2>2. DecodeSubscribe = [messageId |-> r.id, topics |-> r.filters]
    BY <1>1, <2>1, SubscribeDecoded
  <2>3. EventFor(r) = [type |-> "subscribe", message |-> DecodeSubscribe]
    BY <2>1, <2>2 DEF EventFor
  <2> QED
    BY <1>2, <2>1, <2>3 DEF WorkerTypes
<1>3. CASE fixedHeader # SUBSCRIBE
  <2>1. r.type \in {"publish", "publishAcked"}
    BY <1>1, <1>3, RequestOfHeader
  <2>2. DecodePublish = [topic |-> r.topic, payload |-> r.payload]
    BY <1>1, <2>1, PublishDecoded
  <2>3. EventFor(r) = [type |-> "publish", message |-> DecodePublish]
    BY <2>1, <2>2 DEF EventFor
  <2> QED
    BY <1>3, <2>1, <2>3 DEF WorkerTypes
<1> QED
  BY <1>2, <1>3

\* Every step keeps the events and the subscriptions to what was asked for.
LEMMA EventsStep ==
    ASSUME RequestInv, RequestInv', EventsInv, FiltersAsked,
           [SessionNext]_<<vars, sessionVars>>
    PROVE  EventsInv' /\ FiltersAsked'
<1>1. packets \in Seq(Packets) /\ packets' \in Seq(Packets)
  BY DEF RequestInv, StreamInv, ReaderInv, TypeOK, Packets
<1>2. Len(packets) \in Nat /\ Len(packets') \in Nat
  BY <1>1
<1>3. CASE UNCHANGED <<brokerEventQueue, script, subscribed>> /\ Len(packets) <= Len(packets')
  BY <1>2, <1>3, EventsKept DEF FiltersAsked
\* A packet for the worker is one of the script, with the header of its type.
<1>4. ASSUME DeliverPacket, UNCHANGED <<script, subscribed>>,
             fixedHeader \in {PUBLISH, PUBLISHACKED, SUBSCRIBE},
             fixedHeader = SUBSCRIBE =>
                 QueueEvent([type |-> "subscribe", message |-> DecodeSubscribe]),
             fixedHeader # SUBSCRIBE =>
                 QueueEvent([type |-> "publish", message |-> DecodePublish])
      PROVE  EventsInv'
  <2> DEFINE f == [header |-> fixedHeader, body |-> remainingPacket]
             a == Asked(script)
             m == Len(packets) + 1
  <2>1. /\ script \in Scripts /\ m \in 1..Len(a) /\ Len(packets') = m /\ a[m] = f
        /\ remainingLengt = Len(remainingPacket) /\ remainingPacket \in Seq(Bytes)
    BY <1>4, NextPacket
  <2>2. f # Zero
    <3>1. PUBLISH # 0 /\ PUBLISHACKED # 0 /\ SUBSCRIBE # 0
      BY HeaderBytes
    <3> QED
      BY <1>4, <3>1 DEF Zero, Frame
  <2>3. PICK k \in 1..Len(script) :
             /\ script[k].type # "overlong" /\ f = FrameOf(script[k])
             /\ Len(FlatTo(FramesIn(script), k - 1)) = m - 1
    BY <2>1, <2>2, AskedFrames
  <2> DEFINE r == script[k]
  <2>4. WellFormed(r)
    BY <2>1, ScriptTyped
  <2>5. r.type # "overlong" /\ f = FrameOf(r)
    BY <2>3
  <2>6. r.type \in WorkerTypes /\ QueueEvent(EventFor(r))
    <3> HIDE DEF r
    <3> QED
      BY <1>4, <2>1, <2>4, <2>5, EventDecoded
  <2> HIDE DEF f, a, r
  <2>7. m - 1 = Len(packets)
    BY <1>2
  <2> HIDE DEF m
  <2>8. /\ UNCHANGED script /\ script[k].type \in WorkerTypes
        /\ QueueEvent(EventFor(script[k]))
        /\ Len(FlatTo(FramesIn(script), k - 1)) = Len(packets)
        /\ Len(packets') = Len(packets) + 1
    BY <1>4, <2>1, <2>3, <2>6, <2>7 DEF m, r
  <2> QED
    BY <1>2, <2>8, EventQueued
<1>5. CASE HandlePublish
  <2>1. fixedHeader # SUBSCRIBE
    BY <1>5, HeaderBytes DEF HandlePublish
  <2> QED
    BY <1>4, <1>5, <2>1 DEF HandlePublish, Handle, FiltersAsked
<1>6. CASE HandleSubscribe
  BY <1>4, <1>6 DEF HandleSubscribe, Handle, FiltersAsked
<1>7. CASE HandleConnect \/ HandleBadHandshake \/ HandlePing \/ HandleOther
  <2>1. /\ DeliverPacket /\ UNCHANGED <<brokerEventQueue, script, subscribed>>
    BY <1>7 DEF HandleConnect, HandleBadHandshake, HandlePing, HandleOther, Handle
  <2>2. Len(packets) <= Len(packets')
    <3>1. Len(packets') = Len(packets) + 1
      BY <2>1, NextPacket
    <3> QED
      BY <1>2, <3>1
  <2> QED
    BY <1>3, <2>1, <2>2
<1>8. CASE (\E n \in ChunkSizes : Arrive(n)) \/ ReadOn \/ UNCHANGED <<vars, sessionVars>>
  <2>1. UNCHANGED <<brokerEventQueue, script, subscribed, packets>>
    BY <1>8 DEF Arrive, AddData, ReadOn, ReadFixedHeader, RejectLength, ReadLengthByte,
                AllocationFails, CopyBody, sessionVars, vars
  <2> QED
    BY <1>2, <1>3, <2>1
<1>9. CASE ProcessPublish
  <2>1. EventsInv'
    BY <1>9, EventTaken DEF ProcessPublish
  <2>2. UNCHANGED <<script, subscribed>>
    BY <1>9 DEF ProcessPublish, TakeEvent
  <2> QED
    BY <2>1, <2>2 DEF FiltersAsked
<1>10. CASE ProcessSubscribe
  <2>1. EventsInv'
    BY <1>10, EventTaken DEF ProcessSubscribe
  <2>2. /\ brokerEventQueue # <<>> /\ Head(brokerEventQueue).type = "subscribe"
        /\ subscribed' = subscribed \cup Range(HeadMessage.topics) /\ UNCHANGED script
    BY <1>10 DEF ProcessSubscribe, TakeEvent
  <2>3. PICK at : Origins(at)
    BY DEF EventsInv
  <2>4. 1 \in 1..Len(brokerEventQueue) /\ Head(brokerEventQueue) = brokerEventQueue[1]
    BY <2>2 DEF EventsInv
  <2> DEFINE i == at[1]
             r == script[i]
  <2>5. /\ i \in 1..Len(script) /\ r.type \in WorkerTypes
        /\ Head(brokerEventQueue) = EventFor(r)
    BY <2>3, <2>4 DEF Origins
  <2>6. r.type = "subscribe" /\ HeadMessage.topics = r.filters
    BY <2>2, <2>5 DEF EventFor, HeadMessage
  <2>7. \A f \in Range(HeadMessage.topics) : f \in Range(script[i].filters)
    BY <2>6
  <2>8. FiltersAsked'
    BY <2>2, <2>5, <2>6, <2>7 DEF FiltersAsked
  <2> QED
    BY <2>1, <2>8
<1> QED
  BY <1>3, <1>5, <1>6, <1>7, <1>8, <1>9, <1>10 DEF SessionNext

\* No event waits at first.
LEMMA EventsStart == SessionInit => EventsInv /\ FiltersAsked
<1> SUFFICES ASSUME SessionInit PROVE EventsInv /\ FiltersAsked
  OBVIOUS
<1>1. brokerEventQueue = <<>> /\ subscribed = {} /\ Len(<<>>) = 0
  BY DEF SessionInit
<1> DEFINE at == [i \in 1..0 |-> 1]
<1>2. at \in [1..0 -> 1..Len(script)]
  OBVIOUS
<1> HIDE DEF at
<1>3. Origins(at) /\ Delivered(at)
  BY <1>1, <1>2 DEF Origins, Delivered
<1> QED
  BY <1>1, <1>3 DEF EventsInv, FiltersAsked

\* What waits for the worker is what the client wrote: every event in the queue is a
\* PUBLISH or a SUBSCRIBE of its script with the topic, payload, id and filters that are
\* in it, in order and none twice; and the client gets what it has asked for only: its
\* subscriptions are filters of its SUBSCRIBEs.
THEOREM EventsCorrect == SessionSpec => [](EventsAsked /\ FiltersAsked)
<1>1. EventsInv => EventsAsked
  BY DEF EventsInv, EventsAsked
<1> QED
  BY <1>1, EventsStart, EventsStep, RequestInit, RequestStep, PTL DEF SessionSpec

-----------------------------------------------------------------------------
(* The broker's packets are frames.                                        *)

\* Two and three elements, one behind the other.
LEMMA ElementsJoined ==
    ASSUME NEW S, NEW x \in S, NEW y \in S, NEW z \in S
    PROVE  /\ <<x>> \o <<y>> = <<x, y>> /\ <<x>> \o <<y, z>> = <<x, y, z>>
           /\ <<x, y>> \o <<z>> = <<x, y, z>>
<1>1. <<x>> \in Seq(S) /\ Len(<<x>>) = 1 /\ <<x>>[1] = x
  OBVIOUS
<1>2. <<y>> \in Seq(S) /\ Len(<<y>>) = 1 /\ <<y>>[1] = y
  OBVIOUS
<1>3. <<y, z>> \in Seq(S) /\ Len(<<y, z>>) = 2 /\ <<y, z>>[1] = y /\ <<y, z>>[2] = z
  OBVIOUS
<1>4. <<x, y>> \in Seq(S) /\ Len(<<x, y>>) = 2 /\ <<x, y>>[1] = x /\ <<x, y>>[2] = y
  OBVIOUS
<1>5. /\ <<x, y, z>> \in Seq(S) /\ Len(<<x, y, z>>) = 3
      /\ <<x, y, z>>[1] = x /\ <<x, y, z>>[2] = y /\ <<x, y, z>>[3] = z
  OBVIOUS
<1> DEFINE u == <<x>>
           v == <<y>>
           w == <<y, z>>
           xy == <<x, y>>
           xyz == <<x, y, z>>
           a == u \o v
           b == u \o w
           t == <<z>>
           c == xy \o t
<1>0. t \in Seq(S) /\ Len(t) = 1 /\ t[1] = z
  OBVIOUS
<1> HIDE DEF u, v, w, xy, xyz, t
<1>6. a \in Seq(S) /\ Len(a) = 2 /\ a[1] = x /\ a[1 + 1] = y
  <2>0. u \in Seq(S) /\ v \in Seq(S) /\ Len(u) = 1 /\ Len(v) = 1 /\ u[1] = x /\ v[1] = y
    BY <1>1, <1>2 DEF u, v
  <2>1. a \in Seq(S) /\ Len(a) = Len(u) + Len(v) /\ \A i \in 1..Len(u) : a[i] = u[i]
    BY <2>0, Joined, Zenon
  <2>2. \A i \in 1..Len(v) : a[Len(u) + i] = v[i]
    BY <2>0, Joined
  <2> HIDE DEF a
  <2> QED
    BY <2>0, <2>1, <2>2
<1>7. b \in Seq(S) /\ Len(b) = 3 /\ b[1] = x /\ b[1 + 1] = y /\ b[1 + 2] = z
  <2>0. /\ u \in Seq(S) /\ w \in Seq(S) /\ Len(u) = 1 /\ Len(w) = 2
        /\ u[1] = x /\ w[1] = y /\ w[2] = z
    BY <1>1, <1>3 DEF u, w
  <2>3. u \in Seq(S) /\ w \in Seq(S)
    BY <2>0
  <2>1. b \in Seq(S) /\ Len(b) = Len(u) + Len(w) /\ \A i \in 1..Len(u) : b[i] = u[i]
    BY <2>3, Joined, Zenon
  <2>2. \A i \in 1..Len(w) : b[Len(u) + i] = w[i]
    BY <2>3, Joined
  <2> HIDE DEF b
  <2> QED
    BY <2>0, <2>1, <2>2
<1>10. c \in Seq(S) /\ Len(c) = 3 /\ c[1] = x /\ c[2] = y /\ c[2 + 1] = z
  <2>0. /\ xy \in Seq(S) /\ t \in Seq(S) /\ Len(xy) = 2 /\ Len(t) = 1
        /\ xy[1] = x /\ xy[2] = y /\ t[1] = z
    BY <1>0, <1>4 DEF xy
  <2>3. xy \in Seq(S) /\ t \in Seq(S)
    BY <2>0
  <2>1. c \in Seq(S) /\ Len(c) = Len(xy) + Len(t) /\ \A i \in 1..Len(xy) : c[i] = xy[i]
    BY <2>3, Joined, Zenon
  <2>2. \A i \in 1..Len(t) : c[Len(xy) + i] = t[i]
    BY <2>3, Joined
  <2> HIDE DEF c
  <2> QED
    BY <2>0, <2>1, <2>2
<1> HIDE DEF a, b, c
<1>8. a = xy
  <2>1. xy \in Seq(S) /\ Len(xy) = 2 /\ xy[1] = x /\ xy[2] = y
    BY <1>4 DEF xy
  <2>2. Len(a) = Len(xy) /\ \A i \in 1..Len(a) : a[i] = xy[i]
    BY <1>6, <2>1
  <2> QED
    BY <1>6, <2>1, <2>2, SeqEqual
<1>9. b = xyz
  <2>1. xyz \in Seq(S) /\ Len(xyz) = 3 /\ xyz[1] = x /\ xyz[2] = y /\ xyz[3] = z
    BY <1>5 DEF xyz
  <2>2. Len(b) = Len(xyz) /\ \A i \in 1..Len(b) : b[i] = xyz[i]
    BY <1>7, <2>1
  <2> QED
    BY <1>7, <2>1, <2>2, SeqEqual
<1>11. c = xyz
  <2>1. xyz \in Seq(S) /\ Len(xyz) = 3 /\ xyz[1] = x /\ xyz[2] = y /\ xyz[3] = z
    BY <1>5 DEF xyz
  <2>2. Len(c) = Len(xyz) /\ \A i \in 1..Len(c) : c[i] = xyz[i]
    BY <1>10, <2>1
  <2> QED
    BY <1>10, <2>1, <2>2, SeqEqual
<1> QED
  BY <1>8, <1>9, <1>11 DEF a, b, c, t, u, v, w, xy, xyz

\* The digits of a length, written out.
Coded(n) ==
    LET m == n \div Base IN
    IF n < Base THEN <<n>>
    ELSE IF m < Base THEN <<(n % Base) + Base, m>>
    ELSE <<(n % Base) + Base, (m % Base) + Base, m \div Base>>

\* A digit with the flag is that much more.
LEMMA FlagTaken ==
    ASSUME NEW b \in Bytes
    PROVE  /\ b < Base => b % Base = b
           /\ b >= Base => b % Base = b - Base /\ b % Base \in 0..Base - 1
<1>1. Base \in Nat \ {0} /\ b \in 0..2 * Base - 1
  BY ReaderAssumption DEF Bytes
<1>2. ASSUME b >= Base PROVE b % Base = b - Base
  <2>1. b - Base \in 0..Base - 1 /\ b = (b - Base) + Base
    BY <1>1, <1>2
  <2> DEFINE d == b - Base
  <2> HIDE DEF d
  <2>2. (d + Base) % Base = d
    BY <2>1, Flagged DEF d
  <2> QED
    BY <2>1, <2>2 DEF d
<1>3. ASSUME b < Base PROVE b % Base = b
  BY <1>1, <1>3
<1> QED
  BY <1>1, <1>2, <1>3

\* The length field of the standard has these digits.
LEMMA LengthIsCoded ==
    ASSUME NEW n \in Nat, n < Base * Base * Base PROVE LengthField(n) = Coded(n)
<1> DEFINE s == LengthField(n)
           k == Len(s)
           d(i) == s[i] % Base
<1>1. /\ s \in Seq(Bytes) /\ k \in 1..3 /\ Digits(s, 0) = {k} /\ LengthAt(s, 0, k) = n
      /\ k > 1 => s[k] # 0
  BY LengthCoded
<1>2. Base \in Nat \ {0}
  BY ReaderAssumption
<1> HIDE DEF s
<1>3. s[k] < Base /\ \A i \in 1..k - 1 : s[i] >= Base
  <2>1. s[0 + k] < Base /\ \A i \in 1..k - 1 : s[0 + i] >= Base
    BY <1>1 DEF Digits
  <2> QED
    BY <1>1, <2>1
<1>4. \A i \in 1..k : s[i] \in Bytes
  BY <1>1
<1>5. n = (IF 1 <= k THEN d(1) * 1 ELSE 0) + (IF 2 <= k THEN d(2) * Base ELSE 0)
          + (IF 3 <= k THEN d(3) * (Base * Base) ELSE 0)
  <2>1. 0 + 1 = 1 /\ 0 + 2 = 2 /\ 0 + 3 = 3
    OBVIOUS
  <2>2. LengthAt(s, 0, k) = (IF 1 <= k THEN (s[0 + 1] % Base) * 1 ELSE 0)
                            + (IF 2 <= k THEN (s[0 + 2] % Base) * Base ELSE 0)
                            + (IF 3 <= k THEN (s[0 + 3] % Base) * (Base * Base) ELSE 0)
    BY Zenon DEF LengthAt
  <2>3. LengthAt(s, 0, k) = (IF 1 <= k THEN d(1) * 1 ELSE 0)
          + (IF 2 <= k THEN d(2) * Base ELSE 0)
          + (IF 3 <= k THEN d(3) * (Base * Base) ELSE 0)
    BY <2>1, <2>2, Zenon
  <2>4. LengthAt(s, 0, k) = n
    BY <1>1
  <2> QED
    BY <2>3, <2>4, Zenon
<1>6. s[k] \in 0..Base - 1 /\ d(k) = s[k]
  <2>4. k \in 1..3
    BY <1>1, Zenon
  <2>3. k \in 1..k
    BY <2>4
  <2>1. s[k] \in Bytes
    BY <2>3, <1>4
  <2>2. d(k) = s[k]
    BY <1>3, <2>1, FlagTaken
  <2> QED
    BY <1>2, <1>3, <2>1, <2>2 DEF Bytes
<1>7. \A i \in 1..k - 1 : d(i) \in 0..Base - 1 /\ s[i] = d(i) + Base
  <2> TAKE i \in 1..k - 1
  <2>1. s[i] \in Bytes /\ s[i] >= Base
    BY <1>1, <1>3, <1>4
  <2>2. d(i) = s[i] - Base /\ d(i) \in 0..Base - 1
    BY <2>1, FlagTaken
  <2> QED
    BY <1>2, <2>1, <2>2 DEF Bytes
<1>8. CASE k = 1
  <2>1. n = s[1] /\ n < Base
    <3>1. n = d(1) * 1 + 0 + 0
      BY <1>5, <1>8
    <3> QED
      BY <1>2, <1>6, <1>8, <3>1
  <2>2. s = <<n>>
    BY <1>1, <1>8, <2>1
  <2> QED
    BY <2>1, <2>2 DEF Coded, s
<1>9. CASE k = 2
  <2> DEFINE a == d(1)
             b == s[2]
  <2>1. a \in 0..Base - 1 /\ s[1] = a + Base /\ b \in 0..Base - 1 /\ b # 0 /\ d(2) = b
    BY <1>1, <1>6, <1>7, <1>9
  <2>2. n = a * 1 + b * Base + 0
    BY <1>5, <1>9, <2>1
  <2>3. s = <<s[1], s[2]>>
    BY <1>1, <1>9
  <2> HIDE DEF a, b
  <2>4. n = b * Base + a /\ b * Base \in Nat /\ b * Base >= Base
    <3>1. \A x \in Nat : \A y \in Nat : y # 0 => y * x \in Nat /\ y * x >= x
      OBVIOUS
    <3>2. b * Base \in Nat /\ b * Base >= Base
      BY <1>2, <2>1, <3>1
    <3> QED
      BY <2>1, <2>2, <3>2
  <2>5. n \div Base = b /\ n % Base = a
    BY <1>2, <2>1, <2>4, DigitBehind
  <2>6. ~(n < Base) /\ b < Base
    BY <1>2, <2>1, <2>4
  <2>7. Coded(n) = <<a + Base, b>>
    BY <2>5, <2>6 DEF Coded
  <2>8. s = <<a + Base, b>>
    BY <2>1, <2>3 DEF b
  <2> QED
    BY <2>7, <2>8 DEF s
<1>10. CASE k = 3
  <2> DEFINE a == d(1)
             b == d(2)
             c == s[3]
             m == c * Base + b
  <2>1. /\ a \in 0..Base - 1 /\ s[1] = a + Base /\ b \in 0..Base - 1 /\ s[2] = b + Base
        /\ c \in 0..Base - 1 /\ c # 0 /\ d(3) = c
    BY <1>1, <1>6, <1>7, <1>10
  <2>2. n = a * 1 + b * Base + c * (Base * Base)
    BY <1>5, <1>10, <2>1
  <2>3. s = <<s[1], s[2], s[3]>>
    BY <1>1, <1>10
  <2> HIDE DEF a, b, c
  <2>4. m \in Nat /\ m >= Base /\ n = m * Base + a
    <3>1. \A x \in Nat : \A y \in Nat : y # 0 => y * x \in Nat /\ y * x >= x
      OBVIOUS
    <3>2. c * Base \in Nat /\ c * Base >= Base
      BY <1>2, <2>1, <3>1
    <3>3. \A x, y, z \in Nat : (z * x + y) * x = y * x + z * (x * x)
      OBVIOUS
    <3>4. m * Base = b * Base + c * (Base * Base)
      BY <1>2, <2>1, <3>3
    <3> DEFINE upper == c * Base
    <3>8. upper \in Nat /\ upper >= Base
      BY <3>2
    <3> HIDE DEF upper
    <3>9. upper + b \in Nat /\ upper + b >= Base
      BY <1>2, <2>1, <3>8
    <3>5. m \in Nat /\ m >= Base
      BY <3>9 DEF upper
    <3>6. m * Base \in Nat /\ b * Base \in Nat /\ c * (Base * Base) \in Nat
      <4>1. \A x, y \in Nat : x * y \in Nat
        OBVIOUS
      <4> QED
        BY <1>2, <2>1, <3>5, <4>1
    <3> HIDE DEF m
    <3>7. n = m * Base + a
      BY <2>1, <2>2, <3>4, <3>6
    <3> QED
      BY <3>5, <3>7
  <2>5. m \div Base = c /\ m % Base = b
    <3>1. c \in Nat /\ b \in 0..Base - 1
      BY <1>2, <2>1
    <3> QED
      BY <1>2, <3>1, DigitBehind
  <2> HIDE DEF m
  <2>6. n \div Base = m /\ n % Base = a
    BY <1>2, <2>1, <2>4, DigitBehind
  <2>7. ~(n < Base) /\ ~(m < Base)
    <3>1. \A x \in Nat \ {0} : \A y \in Nat : y >= x => y * x >= x /\ y * x \in Nat
      OBVIOUS
    <3>2. m * Base >= Base /\ m * Base \in Nat
      BY <1>2, <2>4, <3>1
    <3> QED
      BY <1>2, <2>1, <2>4, <3>2
  <2>8. Coded(n) = <<a + Base, b + Base, c>>
    BY <2>5, <2>6, <2>7 DEF Coded
  <2>9. s = <<a + Base, b + Base, c>>
    BY <2>1, <2>3 DEF c
  <2> QED
    BY <2>8, <2>9 DEF s
<1> QED
  BY <1>1, <1>8, <1>9, <1>10

\* The first digit of a length, and the rest of them.
LEMMA CodedNext ==
    ASSUME NEW n \in Nat, n < Base * Base * Base, n >= Base
    PROVE  /\ n \div Base \in 0..n /\ n \div Base < Base * Base
           /\ Coded(n) = <<(n % Base) + Base>> \o Coded(n \div Base)
<1> DEFINE m == n \div Base
           x == (n % Base) + Base
           y == (m % Base) + Base
           z == m \div Base
<1>1. Base \in Nat \ {0} /\ Base * Base \in Nat
  <2>1. \A i \in Nat : i * i \in Nat
    OBVIOUS
  <2> QED
    BY <2>1, ReaderAssumption
<1>2. m \in Nat /\ n % Base \in 0..Base - 1 /\ n = Base * m + (n % Base)
  BY <1>1, Division
<1>3. m < Base * Base
  <2>1. \A i \in Nat : i * i * i = i * (i * i)
    OBVIOUS
  <2>2. n < Base * (Base * Base)
    BY <1>1, <2>1
  <2> QED
    BY <1>1, <2>2, Quotient
<1>4. m <= n
  <2>1. \A i \in Nat \ {0} : \A j \in Nat : i * j \in Nat /\ i * j >= j
    OBVIOUS
  <2>2. Base * m \in Nat /\ Base * m >= m
    BY <1>1, <1>2, <2>1
  <2> HIDE DEF m
  <2> QED
    BY <1>1, <1>2, <2>2
<1>5. z \in Nat /\ m % Base \in 0..Base - 1
  BY <1>1, <1>2, Division
<1>6. z < Base
  BY <1>1, <1>2, <1>3, Quotient
<1>7. m \in Nat /\ m \in 0..n
  <2> HIDE DEF m
  <2> QED
    BY <1>2, <1>4
<1>8. x \in Nat /\ y \in Nat
  BY <1>1, <1>2, <1>5
<1>9. Coded(n) = IF m < Base THEN <<x, m>> ELSE <<x, y, z>>
  <2>1. ~(n < Base)
    BY <1>1
  <2> QED
    BY <2>1, Zenon DEF Coded
<1>10. Coded(m) = IF m < Base THEN <<m>> ELSE <<y, z>>
  BY <1>6, Zenon DEF Coded
<1>11. Coded(n) = <<x>> \o Coded(m)
  <2> HIDE DEF x, y, z, m
  <2>1. <<x>> \o <<m>> = <<x, m>> /\ <<x>> \o <<y, z>> = <<x, y, z>>
    BY <1>5, <1>7, <1>8, ElementsJoined
  <2> QED
    BY <1>9, <1>10, <2>1, Zenon
<1> QED
  BY <1>3, <1>7, <1>11

\* codeSize's loop writes these digits.
CodeOf(size) ==
    CHOOSE Code : Code = [n \in 0..size |->
        IF n < Base THEN <<n>> ELSE <<(n % Base) + Base>> \o Code[n \div Base]]

\* The loop of codeSize ends, with the digits of the size.
LEMMA LoopCodes ==
    ASSUME NEW size \in Nat, size < Base * Base * Base
    PROVE  CodeOf(size)[size] = Coded(size)
<1> DEFINE Loop(F) == [n \in 0..size |-> IF n < Base THEN <<n>>
                                          ELSE <<(n % Base) + Base>> \o F[n \div Base]]
           G == [n \in 0..size |-> Coded(n)]
           C == CodeOf(size)
<1>1. Base \in Nat \ {0} /\ Base * Base \in Nat /\ Base * Base * Base \in Nat
  <2>1. \A i \in Nat : i * i \in Nat /\ i * i * i \in Nat
    OBVIOUS
  <2> QED
    BY <2>1, ReaderAssumption
<1>2. ASSUME NEW n \in 0..size, n >= Base
      PROVE  /\ n \div Base \in 0..size /\ n \div Base < Base * Base
             /\ Coded(n) = <<(n % Base) + Base>> \o Coded(n \div Base)
  <2>1. n \in Nat /\ n < Base * Base * Base
    BY <1>1
  <2>2. /\ n \div Base \in 0..n /\ n \div Base < Base * Base
        /\ Coded(n) = <<(n % Base) + Base>> \o Coded(n \div Base)
    BY <1>2, <2>1, CodedNext
  <2> QED
    BY <2>2
<1>3. ASSUME NEW n \in 0..size, n < Base PROVE Coded(n) = <<n>>
  BY <1>3 DEF Coded
<1>4. G = Loop(G)
  <2>1. ASSUME NEW n \in 0..size
        PROVE  Coded(n) = IF n < Base THEN <<n>> ELSE <<(n % Base) + Base>> \o G[n \div Base]
    <3>1. CASE n < Base
      BY <1>3, <3>1
    <3>2. CASE ~(n < Base)
      <4>1. n >= Base
        BY <1>1, <3>2
      <4>2. n \div Base \in 0..size /\ Coded(n) = <<(n % Base) + Base>> \o Coded(n \div Base)
        BY <1>2, <4>1
      <4>3. G[n \div Base] = Coded(n \div Base)
        BY <4>2
      <4> QED
        BY <3>2, <4>2, <4>3
    <3> QED
      BY <3>1, <3>2
  <2> QED
    BY <2>1
<1>5. C = Loop(C)
  <2>1. \E F : F = Loop(F)
    BY <1>4
  <2> QED
    BY <2>1 DEF CodeOf
<1> HIDE DEF C, G
<1>6. ASSUME NEW n \in 0..size
      PROVE  C[n] = IF n < Base THEN <<n>> ELSE <<(n % Base) + Base>> \o C[n \div Base]
  BY <1>5
<1> HIDE DEF Loop
<1>7. ASSUME NEW n \in 0..size, n < Base PROVE C[n] = Coded(n)
  BY <1>3, <1>6, <1>7
<1>8. ASSUME NEW n \in 0..size, n < Base * Base PROVE C[n] = Coded(n)
  <2>1. CASE n < Base
    BY <1>7, <2>1
  <2>2. CASE ~(n < Base)
    <3>1. n >= Base
      BY <1>1, <2>2
    <3>2. n \div Base \in 0..size /\ Coded(n) = <<(n % Base) + Base>> \o Coded(n \div Base)
      BY <1>2, <3>1
    <3>3. n \div Base < Base
      BY <1>1, <1>8, Quotient
    <3>4. C[n \div Base] = Coded(n \div Base)
      BY <1>7, <3>2, <3>3
    <3> QED
      BY <1>6, <2>2, <3>2, <3>4
  <2> QED
    BY <2>1, <2>2
<1>9. size \in 0..size
  OBVIOUS
<1>10. CASE size < Base
  BY <1>7, <1>9, <1>10 DEF C
<1>11. CASE ~(size < Base)
  <2>1. size >= Base
    BY <1>1, <1>11
  <2>2. /\ size \div Base \in 0..size /\ size \div Base < Base * Base
        /\ Coded(size) = <<(size % Base) + Base>> \o Coded(size \div Base)
    BY <1>2, <1>9, <2>1
  <2>3. C[size \div Base] = Coded(size \div Base)
    BY <1>8, <2>2
  <2> QED
    BY <1>6, <1>9, <1>11, <2>2, <2>3 DEF C
<1> QED
  BY <1>10, <1>11

\* A short sequence, written out.
LEMMA Written ==
    ASSUME NEW S, NEW s \in Seq(S)
    PROVE  /\ Len(s) = 1 => s = <<s[1]>>
           /\ Len(s) = 2 => s = <<s[1], s[2]>>
           /\ Len(s) = 3 => s = <<s[1], s[2], s[3]>>
<1>1. ASSUME Len(s) = 1 PROVE s = <<s[1]>>
  BY <1>1
<1>2. ASSUME Len(s) = 2 PROVE s = <<s[1], s[2]>>
  BY <1>2
<1>3. ASSUME Len(s) = 3 PROVE s = <<s[1], s[2], s[3]>>
  BY <1>3
<1> QED
  BY <1>1, <1>2, <1>3

\* What concatEncodedSize takes from the register are the digits that were shifted into it.
LEMMA RegisterRead ==
    ASSUME NEW s \in Seq(Bytes), NEW k \in 1..3, k = Len(s), s[k] < Base,
           \A i \in 1..k - 1 : s[i] >= Base
    PROVE  ConcatEncodedSize(SubSeq(<<0, 0, 0>> \o s, Len(<<0, 0, 0>> \o s) - 3,
                                    Len(<<0, 0, 0>> \o s))) = s
<1> DEFINE zeros == <<0, 0, 0>>
           all == zeros \o s
           r == SubSeq(all, Len(all) - 3, Len(all))
           Upper(i) == IF r[i] >= Base THEN <<r[i]>> ELSE <<>>
<1>1. Base \in Nat \ {0} /\ 0 \in Bytes
  BY ReaderAssumption DEF Bytes
<1>2. zeros \in Seq(Bytes) /\ Len(zeros) = 3 /\ \A i \in 1..3 : zeros[i] = 0
  BY <1>1
<1> HIDE DEF zeros
<1>3. all \in Seq(Bytes) /\ Len(all) = 3 + k /\ (\A i \in 1..3 : all[i] = 0)
      /\ \A i \in 1..k : all[3 + i] = s[i]
  <2>0. zeros \in Seq(Bytes)
    BY <1>2
  <2>1. all \in Seq(Bytes) /\ Len(all) = Len(zeros) + Len(s)
        /\ \A i \in 1..Len(zeros) : all[i] = zeros[i]
    BY <2>0, Joined, Zenon
  <2>2. \A i \in 1..Len(s) : all[Len(zeros) + i] = s[i]
    BY <2>0, Joined
  <2> HIDE DEF all
  <2> QED
    BY <1>2, <2>1, <2>2
<1> HIDE DEF all
<1>4. \A i \in 1..4 : r[i] = all[(k - 1) + i]
  <2>1. k - 1 \in Nat /\ (k - 1) + 4 <= Len(all) /\ Len(all) - 3 = (k - 1) + 1
        /\ Len(all) = (k - 1) + 4
    BY <1>3
  <2>2. r = SubSeq(all, (k - 1) + 1, (k - 1) + 4)
    BY <2>1
  <2> QED
    BY <1>3, <2>1, <2>2, CopiedBytes
<1> HIDE DEF r
<1>5. ConcatEncodedSize(r) = Upper(1) \o Upper(2) \o Upper(3) \o <<r[4]>>
  BY DEF ConcatEncodedSize
<1>6. \A i \in 1..k : s[i] \in Bytes
  OBVIOUS
<1>7. CASE k = 1
  <2>1. r[1] = 0 /\ r[2] = 0 /\ r[3] = 0 /\ r[4] = s[1]
    BY <1>3, <1>4, <1>7
  <2>2. Upper(1) = <<>> /\ Upper(2) = <<>> /\ Upper(3) = <<>>
    BY <1>1, <2>1
  <2>3. <<>> \o <<>> \o <<>> \o <<r[4]>> = <<s[1]>>
    BY <1>6, <1>7, <2>1
  <2>4. s = <<s[1]>>
    BY <1>7, Written
  <2> QED
    BY <1>5, <2>2, <2>3, <2>4 DEF r, all, zeros
<1>8. CASE k = 2
  <2>1. r[1] = 0 /\ r[2] = 0 /\ r[3] = s[1] /\ r[4] = s[2] /\ s[1] \in Bytes /\ s[2] \in Bytes
        /\ s[1] >= Base
    BY <1>3, <1>4, <1>6, <1>8
  <2>2. Upper(1) = <<>> /\ Upper(2) = <<>> /\ Upper(3) = <<s[1]>>
    BY <1>1, <2>1
  <2>3. <<>> \o <<>> \o <<s[1]>> \o <<s[2]>> = <<s[1], s[2]>>
    <3>1. <<s[1]>> \o <<s[2]>> = <<s[1], s[2]>>
      BY <2>1, ElementsJoined
    <3>2. <<>> \o <<>> \o <<s[1]>> = <<s[1]>>
      BY <2>1
    <3> QED
      BY <3>1, <3>2
  <2>4. s = <<s[1], s[2]>>
    BY <1>8, Written
  <2> QED
    BY <1>5, <2>1, <2>2, <2>3, <2>4 DEF r, all, zeros
<1>9. CASE k = 3
  <2>1. /\ r[1] = 0 /\ r[2] = s[1] /\ r[3] = s[2] /\ r[4] = s[3] /\ s[1] \in Bytes
        /\ s[2] \in Bytes /\ s[3] \in Bytes /\ s[1] >= Base /\ s[2] >= Base
    BY <1>3, <1>4, <1>6, <1>9
  <2>2. Upper(1) = <<>> /\ Upper(2) = <<s[1]>> /\ Upper(3) = <<s[2]>>
    BY <1>1, <2>1
  <2>3. <<>> \o <<s[1]>> \o <<s[2]>> \o <<s[3]>> = <<s[1], s[2], s[3]>>
    <3>1. <<>> \o <<s[1]>> = <<s[1]>>
      BY <2>1
    <3>2. <<s[1]>> \o <<s[2]>> = <<s[1], s[2]>>
      BY <2>1, ElementsJoined
    <3> DEFINE x == s[1]
               y == s[2]
               z == s[3]
    <3>3. <<x, y>> \o <<z>> = <<x, y, z>>
      <4>1. x \in Bytes /\ y \in Bytes /\ z \in Bytes
        BY <2>1
      <4> HIDE DEF x, y, z
      <4> QED
        BY <4>1, ElementsJoined, Zenon
    <3> QED
      BY <3>1, <3>2, <3>3
  <2>4. s = <<s[1], s[2], s[3]>>
    BY <1>9, Written
  <2> QED
    BY <1>5, <2>1, <2>2, <2>3, <2>4 DEF r, all, zeros
<1> QED
  BY <1>7, <1>8, <1>9

\* A size that the broker codes is the length field of the standard: one, two and three
\* digits pass through the 32-bit register unharmed.
LEMMA SizeIsCoded ==
    ASSUME NEW n \in Nat, n < Base * Base * Base
    PROVE  ConcatEncodedSize(CodeSize(n)) = LengthField(n)
<1> DEFINE s == LengthField(n)
           k == Len(s)
<1>1. s \in Seq(Bytes) /\ k \in 1..3 /\ Digits(s, 0) = {k}
  BY LengthCoded
<1>2. CodeOf(n)[n] = s
  BY LoopCodes, LengthIsCoded
<1>3. CodeSize(n) = SubSeq(<<0, 0, 0>> \o CodeOf(n)[n], Len(<<0, 0, 0>> \o CodeOf(n)[n]) - 3,
                           Len(<<0, 0, 0>> \o CodeOf(n)[n]))
  BY DEF CodeSize, CodeOf
<1> HIDE DEF s
<1>4. s[k] < Base /\ \A i \in 1..k - 1 : s[i] >= Base
  <2>1. s[0 + k] < Base /\ \A i \in 1..k - 1 : s[0 + i] >= Base
    BY <1>1 DEF Digits
  <2> QED
    BY <1>1, <2>1
<1>5. k \in 1..3
  BY <1>1, Zenon
<1>6. ConcatEncodedSize(SubSeq(<<0, 0, 0>> \o s, Len(<<0, 0, 0>> \o s) - 3,
                               Len(<<0, 0, 0>> \o s))) = s
  BY <1>1, <1>4, <1>5, RegisterRead
<1> QED
  BY <1>2, <1>3, <1>6 DEF s

\* The cube of the base leaves room for what 16 bits count, and for the bytes around it.
LEMMA CubeAboveWord == Word \in Nat /\ Word + 2 < Base * Base * Base /\ Base * Base * Base \in Nat
<1>1. Base \in Nat /\ Base >= 5
  BY ReaderAssumption, SessionAssumption
<1>2. \A x \in Nat : x >= 5 => /\ x * x \in Nat /\ x * x >= 25
                               /\ 4 * x * x = 4 * (x * x) /\ x * x * x = x * (x * x)
  OBVIOUS
<1> DEFINE q == Base * Base
<1>3. q \in Nat /\ q >= 25 /\ Word = 4 * q /\ Base * Base * Base = Base * q
  BY <1>1, <1>2 DEF Word
<1> HIDE DEF q
<1>4. \A x, y \in Nat : x >= 5 => x * y \in Nat /\ x * y >= 5 * y
  OBVIOUS
<1>5. Base * q \in Nat /\ Base * q >= 5 * q
  BY <1>1, <1>3, <1>4
<1> QED
  BY <1>3, <1>5

\* publishTo's packet is the frame of the standard, whatever digits its length has.
LEMMA PublishEncoded ==
    ASSUME NEW m, m.topic \in Texts, m.payload \in Seq(Bytes),
           Len(m.topic) + Len(m.payload) < Word
    PROVE  /\ BuildPublish(m) = OnWire(Frame(PUBLISH, Text(m.topic) \o m.payload))
           /\ Sendable(Frame(PUBLISH, Text(m.topic) \o m.payload))
<1> DEFINE topic == m.topic
           payload == m.payload
           n == Len(topic)
           body == Text(topic) \o payload
           size == TopicAndPayloadLength(m) + 2
           two == <<(n \div (2 * Base)) % (2 * Base), n % (2 * Base)>>
           front == <<PUBLISH>> \o ConcatEncodedSize(CodeSize(size))
<1>1. /\ Text(topic) \in Seq(Bytes) /\ Len(Text(topic)) = 2 + n /\ n \in 0..Word - 1
      /\ topic \in Seq(Bytes)
  BY TextTyped
<1>2. payload \in Seq(Bytes) /\ Len(payload) \in Nat /\ n \in Nat /\ n + Len(payload) < Word
  <2>1. \A s \in Seq(Bytes) : Len(s) \in Nat
    OBVIOUS
  <2> QED
    BY <1>1, <2>1, Zenon
<1>3. body \in Seq(Bytes) /\ Len(body) = 2 + n + Len(payload)
  <2> DEFINE t == Text(topic)
  <2>1. t \in Seq(Bytes) /\ Len(t) = 2 + n
    BY <1>1
  <2> HIDE DEF t, payload
  <2>2. t \o payload \in Seq(Bytes) /\ Len(t \o payload) = Len(t) + Len(payload)
    BY <1>2, <2>1, ConcatProperties, Zenon
  <2>3. Len(t \o payload) = 2 + n + Len(payload)
    BY <1>2, <2>1, <2>2
  <2> QED
    BY <2>2, <2>3 DEF t
<1>4. Len(body) < Base * Base * Base /\ Len(body) \in Nat
  <2> DEFINE l == Len(payload)
  <2>1. Len(body) = 2 + n + l /\ l \in Nat /\ n \in Nat /\ n + l < Word
    BY <1>2, <1>3, Zenon
  <2> HIDE DEF l, n, body
  <2> QED
    BY <2>1, CubeAboveWord
<1>5. size = Len(body)
  <2> DEFINE l == Len(payload)
  <2>1. Len(body) = 2 + n + l /\ l \in Nat /\ n \in Nat /\ n + l < Word
    BY <1>2, <1>3, Zenon
  <2>2. TopicAndPayloadLength(m) = (n + l) % Word
    BY Zenon DEF TopicAndPayloadLength
  <2> HIDE DEF l, n, body
  <2>3. (n + l) % Word = n + l
    <3>1. \A w \in Nat : \A x \in Nat : x < w => x % w = x
      OBVIOUS
    <3>2. n + l \in Nat /\ n + l < Word /\ Word \in Nat
      BY <2>1, CubeAboveWord
    <3> QED
      BY <3>1, <3>2, Zenon
  <2> QED
    BY <2>1, <2>2, <2>3
<1>6. ConcatEncodedSize(CodeSize(size)) = LengthField(Len(body))
  <2> HIDE DEF size, body
  <2> QED
    BY <1>4, <1>5, SizeIsCoded
<1>7. two = TwoBytes(n)
  <2>1. n \div (2 * Base) \in 0..2 * Base - 1
    <3>1. 2 * Base \in Nat \ {0} /\ n < (2 * Base) * (2 * Base)
      <4>1. \A x \in Nat : (2 * x) * (2 * x) = 4 * x * x
        OBVIOUS
      <4>2. (2 * Base) * (2 * Base) = Word
        BY <4>1, ReaderAssumption DEF Word
      <4> QED
        BY <1>1, <4>2, ReaderAssumption, CubeAboveWord
    <3>2. n \div (2 * Base) \in Nat /\ n \div (2 * Base) < 2 * Base
      <4> DEFINE b == 2 * Base
      <4>1. b \in Nat \ {0} /\ n < b * b
        BY <3>1
      <4> HIDE DEF b
      <4>2. n \div b \in Nat /\ n \div b < b
        BY <1>2, <4>1, Division, Quotient
      <4> QED
        BY <4>2 DEF b
    <3> QED
      BY <3>1, <3>2
  <2>2. (n \div (2 * Base)) % (2 * Base) = n \div (2 * Base)
    <3>1. \A b \in Nat : \A x \in 0..b - 1 : x % b = x
      OBVIOUS
    <3>2. 2 * Base \in Nat
      BY ReaderAssumption
    <3> QED
      BY <2>1, <3>1, <3>2
  <2> QED
    BY <2>2 DEF TwoBytes
<1>8. TwoBytes(n) \in Seq(Bytes)
  BY <1>1, TwoBytesCode
<1>9. front \in Seq(Bytes)
  <2>1. <<PUBLISH>> \in Seq(Bytes)
    BY HeaderBytes
  <2>2. LengthField(Len(body)) \in Seq(Bytes)
    BY <1>4, LengthCoded
  <2> HIDE DEF body, size
  <2> QED
    BY <1>6, <2>1, <2>2, ConcatProperties, Zenon
<1>10. ((front \o TwoBytes(n)) \o topic) \o payload
         = front \o ((TwoBytes(n) \o topic) \o payload)
  <2> DEFINE w == TwoBytes(n)
  <2>1. w \in Seq(Bytes) /\ topic \in Seq(Bytes)
    BY <1>1, <1>8
  <2> HIDE DEF w, front, topic, payload
  <2>2. (front \o w) \o topic = front \o (w \o topic)
    BY <1>9, <2>1, ConcatAssociative
  <2>3. w \o topic \in Seq(Bytes)
    BY <2>1, ConcatProperties, Zenon
  <2> DEFINE wt == w \o topic
  <2>4. wt \in Seq(Bytes)
    BY <2>3
  <2> HIDE DEF wt
  <2>5. (front \o wt) \o payload = front \o (wt \o payload)
    BY <1>2, <1>9, <2>4, ConcatAssociative
  <2> QED
    BY <2>2, <2>5 DEF wt, w
<1>11. BuildPublish(m) = ((front \o two) \o topic) \o payload
  BY Zenon DEF BuildPublish
<1>12. OnWire(Frame(PUBLISH, body)) = (<<PUBLISH>> \o LengthField(Len(body))) \o body
  BY DEF OnWire, Frame
<1>13. body = (TwoBytes(n) \o topic) \o payload
  BY Zenon DEF Text
<1>14. BuildPublish(m) = OnWire(Frame(PUBLISH, body))
  <2>1. front = <<PUBLISH>> \o LengthField(Len(body))
    BY <1>6
  <2> HIDE DEF front, two, topic, payload, body, n
  <2> QED
    BY <1>7, <1>10, <1>11, <1>12, <1>13, <2>1, Zenon
<1>15. Sendable(Frame(PUBLISH, body))
  <2> HIDE DEF body
  <2>1. PUBLISH \in Bytes
    BY HeaderBytes
  <2> QED
    BY <1>3, <1>4, <2>1 DEF Sendable, Frame, Packets
<1> QED
  BY <1>14, <1>15

\* A frame with a short body has its length in one byte.
LEMMA ShortFrame ==
    ASSUME NEW h \in Bytes, NEW body \in Seq(Bytes), NEW k \in 0..3, Len(body) = k
    PROVE  OnWire(Frame(h, body)) = <<h, k>> \o body /\ Sendable(Frame(h, body))
<1>1. Base \in Nat /\ Base > 4 /\ Len(body) \in Nat
  BY ReaderAssumption, SessionAssumption
<1>2. Base * Base * Base > 4
  <2>1. \A x \in Nat : x > 4 => x * x * x > 4
    OBVIOUS
  <2> QED
    BY <1>1, <2>1
<1>3. LengthField(Len(body)) = <<Len(body)>>
  <2> DEFINE n == Len(body)
  <2>1. n \in Nat /\ n < 4
    BY <1>1
  <2> HIDE DEF n
  <2>2. n < Base /\ n < Base * Base * Base
    <3>1. \A x \in Nat : x * x * x \in Nat
      OBVIOUS
    <3>2. Base * Base * Base \in Nat
      BY <1>1, <3>1
    <3> QED
      BY <1>1, <1>2, <2>1, <3>2
  <2>3. Coded(n) = <<n>>
    BY <2>2, Zenon DEF Coded
  <2> QED
    BY <2>1, <2>2, <2>3, LengthIsCoded DEF n
<1>4. Len(body) \in Bytes
  BY <1>1 DEF Bytes
<1>5. <<h>> \o <<Len(body)>> = <<h, Len(body)>>
  <2> DEFINE n == Len(body)
  <2>1. n \in Bytes
    BY <1>4
  <2> HIDE DEF n
  <2>2. <<h>> \o <<n>> = <<h, n>>
    BY <2>1, ElementsJoined
  <2> QED
    BY <2>2 DEF n
<1>6. OnWire(Frame(h, body)) = (<<h>> \o LengthField(Len(body))) \o body
  BY DEF OnWire, Frame
<1>7. Sendable(Frame(h, body))
  BY <1>1, <1>2 DEF Sendable, Frame, Packets
<1> QED
  BY <1>3, <1>5, <1>6, <1>7, Zenon

\* A header and a length before two bytes.
LEMMA BeforeTwo ==
    ASSUME NEW S, NEW h \in S, NEW n \in S, NEW x \in S, NEW y \in S
    PROVE  <<h, n>> \o <<x, y>> = <<h, n, x, y>>
<1> DEFINE u == <<h, n>>
           v == <<x, y>>
           a == u \o v
           written == <<h, n, x, y>>
<1>1. u \in Seq(S) /\ Len(u) = 2 /\ u[1] = h /\ u[2] = n
  OBVIOUS
<1>2. v \in Seq(S) /\ Len(v) = 2 /\ v[1] = x /\ v[2] = y
  OBVIOUS
<1>3. /\ written \in Seq(S) /\ Len(written) = 4
      /\ written[1] = h /\ written[2] = n /\ written[3] = x /\ written[4] = y
  OBVIOUS
<1> HIDE DEF u, v, written
<1>4. a \in Seq(S) /\ Len(a) = 4 /\ a[1] = h /\ a[2] = n /\ a[2 + 1] = x /\ a[2 + 2] = y
  <2>1. u \in Seq(S) /\ v \in Seq(S)
    BY <1>1, <1>2
  <2>2. a \in Seq(S) /\ Len(a) = Len(u) + Len(v) /\ \A i \in 1..Len(u) : a[i] = u[i]
    BY <2>1, Joined, Zenon
  <2>3. \A i \in 1..Len(v) : a[Len(u) + i] = v[i]
    BY <2>1, Joined
  <2> HIDE DEF a
  <2> QED
    BY <1>1, <1>2, <2>2, <2>3
<1> HIDE DEF a
<1>5. Len(a) = Len(written) /\ \A i \in 1..Len(a) : a[i] = written[i]
  BY <1>3, <1>4
<1>6. a = written
  BY <1>3, <1>4, <1>5, SeqEqual
<1> QED
  BY <1>6 DEF a, u, v, written

\* A header and a length before three.
LEMMA BeforeThree ==
    ASSUME NEW S, NEW h \in S, NEW n \in S, NEW x \in S, NEW y \in S, NEW z \in S
    PROVE  <<h, n>> \o <<x, y, z>> = <<h, n, x, y, z>>
<1> DEFINE u == <<h, n>>
           v == <<x, y, z>>
           a == u \o v
           written == <<h, n, x, y, z>>
<1>1. u \in Seq(S) /\ Len(u) = 2 /\ u[1] = h /\ u[2] = n
  OBVIOUS
<1>2. v \in Seq(S) /\ Len(v) = 3 /\ v[1] = x /\ v[2] = y /\ v[3] = z
  OBVIOUS
<1>3. /\ written \in Seq(S) /\ Len(written) = 5
      /\ written[1] = h /\ written[2] = n /\ written[3] = x /\ written[4] = y
      /\ written[5] = z
  OBVIOUS
<1> HIDE DEF u, v, written
<1>4. /\ a \in Seq(S) /\ Len(a) = 5 /\ a[1] = h /\ a[2] = n
      /\ a[2 + 1] = x /\ a[2 + 2] = y /\ a[2 + 3] = z
  <2>1. u \in Seq(S) /\ v \in Seq(S)
    BY <1>1, <1>2
  <2>2. a \in Seq(S) /\ Len(a) = Len(u) + Len(v) /\ \A i \in 1..Len(u) : a[i] = u[i]
    BY <2>1, Joined, Zenon
  <2>3. \A i \in 1..Len(v) : a[Len(u) + i] = v[i]
    BY <2>1, Joined
  <2> HIDE DEF a
  <2> QED
    BY <1>1, <1>2, <2>2, <2>3
<1> HIDE DEF a
<1>5. Len(a) = Len(written) /\ \A i \in 1..Len(a) : a[i] = written[i]
  BY <1>3, <1>4
<1>6. a = written
  BY <1>3, <1>4, <1>5, SeqEqual
<1> QED
  BY <1>6 DEF a, u, v, written

\* The packets that the broker writes byte by byte are frames of the standard too.
LEMMA FixedAnswers ==
    /\ BuildAckConnect = OnWire(Frame(CONNECTACK, <<0, 0>>))
    /\ Sendable(Frame(CONNECTACK, <<0, 0>>))
    /\ BuildPingRes = OnWire(Frame(PINGRESP, <<>>)) /\ Sendable(Frame(PINGRESP, <<>>))
    /\ \A id \in 0..Word - 1 :
         /\ BuildSubAck(id) = OnWire(Frame(SUBACK, TwoBytes(id) \o <<0>>))
         /\ Sendable(Frame(SUBACK, TwoBytes(id) \o <<0>>))
<1>1. CONNECTACK \in Bytes /\ PINGRESP \in Bytes /\ SUBACK \in Bytes
  BY HeaderBytes
<1>2. 0 \in Bytes /\ 2 \in Bytes /\ 3 \in Bytes
  BY ReaderAssumption, SessionAssumption DEF Bytes
<1>3. /\ BuildAckConnect = OnWire(Frame(CONNECTACK, <<0, 0>>))
      /\ Sendable(Frame(CONNECTACK, <<0, 0>>))
  <2>1. <<0, 0>> \in Seq(Bytes) /\ Len(<<0, 0>>) = 2 /\ 2 \in 0..3
    BY <1>2
  <2>2. /\ OnWire(Frame(CONNECTACK, <<0, 0>>)) = <<CONNECTACK, 2>> \o <<0, 0>>
        /\ Sendable(Frame(CONNECTACK, <<0, 0>>))
    BY <1>1, <2>1, ShortFrame, Zenon
  <2>3. <<CONNECTACK, 2>> \o <<0, 0>> = <<CONNECTACK, 2, 0, 0>>
    <3> DEFINE h == CONNECTACK
               n == 2
               z == 0
    <3>1. h \in Bytes /\ n \in Bytes /\ z \in Bytes
      BY <1>1, <1>2
    <3> HIDE DEF h, n, z
    <3>2. <<h, n>> \o <<z, z>> = <<h, n, z, z>>
      BY <3>1, BeforeTwo, Zenon
    <3> QED
      BY <3>2 DEF h, n, z
  <2> QED
    BY <2>2, <2>3 DEF BuildAckConnect
<1>4. BuildPingRes = OnWire(Frame(PINGRESP, <<>>)) /\ Sendable(Frame(PINGRESP, <<>>))
  <2>1. <<>> \in Seq(Bytes) /\ Len(<<>>) = 0 /\ 0 \in 0..3
    OBVIOUS
  <2>2. /\ OnWire(Frame(PINGRESP, <<>>)) = <<PINGRESP, 0>> \o <<>>
        /\ Sendable(Frame(PINGRESP, <<>>))
    BY <1>1, <2>1, ShortFrame, Zenon
  <2>3. <<PINGRESP, 0>> \o <<>> = <<PINGRESP, 0>>
    <3>1. <<PINGRESP, 0>> \in Seq(Bytes)
      BY <1>1, <1>2
    <3> QED
      BY <3>1, ConcatEmptySeq
  <2> QED
    BY <2>2, <2>3 DEF BuildPingRes
<1>5. ASSUME NEW id \in 0..Word - 1
      PROVE  /\ BuildSubAck(id) = OnWire(Frame(SUBACK, TwoBytes(id) \o <<0>>))
             /\ Sendable(Frame(SUBACK, TwoBytes(id) \o <<0>>))
  <2> DEFINE x == id \div (2 * Base)
             y == id % (2 * Base)
  <2>1. TwoBytes(id) = <<x, y>> /\ <<x, y>> \in Seq(Bytes)
    <3>1. TwoBytes(id) = <<x, y>>
      BY DEF TwoBytes
    <3> QED
      BY <3>1, TwoBytesCode
  <2>2. BuildSubAck(id) = <<SUBACK, 3, x, y, 0>>
    BY DEF BuildSubAck
  <2> HIDE DEF x, y
  <2>3. x \in Bytes /\ y \in Bytes
    <3>1. Len(<<x, y>>) = 2 /\ <<x, y>>[1] = x /\ <<x, y>>[2] = y
      OBVIOUS
    <3>2. \A s \in Seq(Bytes) : \A i \in 1..Len(s) : s[i] \in Bytes
      OBVIOUS
    <3> QED
      BY <2>1, <3>1, <3>2
  <2>4. <<x, y>> \o <<0>> = <<x, y, 0>>
    BY <1>2, <2>3, ElementsJoined
  <2>5. <<x, y, 0>> \in Seq(Bytes) /\ Len(<<x, y, 0>>) = 3 /\ 3 \in 0..3
    BY <1>2, <2>3
  <2>6. /\ OnWire(Frame(SUBACK, <<x, y, 0>>)) = <<SUBACK, 3>> \o <<x, y, 0>>
        /\ Sendable(Frame(SUBACK, <<x, y, 0>>))
    BY <1>1, <2>5, ShortFrame, Zenon
  <2>7. <<SUBACK, 3>> \o <<x, y, 0>> = <<SUBACK, 3, x, y, 0>>
    <3> DEFINE h == SUBACK
               n == 3
               z == 0
    <3>1. h \in Bytes /\ n \in Bytes /\ z \in Bytes
      BY <1>1, <1>2
    <3> HIDE DEF h, n, z
    <3>2. <<h, n>> \o <<x, y, z>> = <<h, n, x, y, z>>
      BY <2>3, <3>1, BeforeThree
    <3> QED
      BY <3>2 DEF h, n, z
  <2> QED
    BY <2>1, <2>2, <2>4, <2>6, <2>7
<1> QED
  BY <1>3, <1>4, <1>5

-----------------------------------------------------------------------------
(* What the client is sent are the answers to its requests, packet by packet. *)

\* Frames in the client's encoding, one behind the other.
WiresOf(q) == [i \in DOMAIN q |-> OnWire(q[i])]
Wire(q) == FlattenSeq(WiresOf(q))

\* Sequences of one element each are the sequence of these.
LEMMA SingletonsFlat ==
    ASSUME NEW S, NEW q \in Seq(S), NEW e \in Seq(Seq(S)), Len(e) = Len(q),
           \A i \in 1..Len(q) : e[i] = <<q[i]>>
    PROVE  FlattenSeq(e) = q
<1> DEFINE n == Len(q)
           f(j) == FlatTo(e, j)
           T == {j \in 0..n : Len(f(j)) = j /\ \A i \in 1..j : f(j)[i] = q[i]}
<1>1. n \in Nat /\ Len(e) = n /\ \A i \in 1..n : q[i] \in S
  OBVIOUS
<1> HIDE DEF n
<1>2. 0 \in T
  <2>1. f(0) = <<>> /\ 0 \in 0..n
    BY <1>1 DEF FlatTo
  <2> QED
    BY <2>1
<1>3. ASSUME NEW j \in 0..n - 1, j \in T PROVE j + 1 \in T
  <2> DEFINE g == f(j)
             x == q[j + 1]
             one == <<x>>
             w == g \o one
  <2>1. j \in 0..Len(e) - 1 /\ j \in 0..Len(e) /\ j + 1 \in 0..n /\ j + 1 \in 1..n
    BY <1>1
  <2>2. f(j + 1) = g \o e[j + 1] /\ e[j + 1] = one
    BY <1>1, <2>1, FlatGrows DEF n
  <2>3. g \in Seq(S) /\ x \in S
    BY <1>1, <2>1, FlatIsSequence
  <2>4. Len(g) = j /\ \A i \in 1..j : g[i] = q[i]
    BY <1>3
  <2> HIDE DEF g, x
  <2>5. one \in Seq(S) /\ Len(one) = 1 /\ one[1] = x
    BY <2>3
  <2> HIDE DEF one
  <2>11. g \in Seq(S) /\ one \in Seq(S)
    BY <2>3, <2>5
  <2>6. w \in Seq(S) /\ Len(w) = Len(g) + Len(one) /\ \A i \in 1..Len(g) : w[i] = g[i]
    BY <2>11, Joined, Zenon
  <2>7. \A i \in 1..Len(one) : w[Len(g) + i] = one[i]
    BY <2>11, Joined
  <2> HIDE DEF w
  <2>8. Len(w) = j + 1 /\ (\A i \in 1..j : w[i] = q[i]) /\ w[j + 1] = x
    BY <1>1, <2>4, <2>5, <2>6, <2>7
  <2>9. \A i \in 1..j + 1 : w[i] = q[i]
    BY <2>8 DEF x
  <2>10. f(j + 1) = w
    BY <2>2 DEF w, one
  <2> QED
    BY <2>1, <2>8, <2>9, <2>10
<1>4. T = 0..n
  <2>1. T \in SUBSET (0..n)
    OBVIOUS
  <2> HIDE DEF T
  <2> QED
    BY <1>1, <1>2, <1>3, <2>1, Climb
<1>5. Len(f(n)) = n /\ \A i \in 1..n : f(n)[i] = q[i]
  <2>1. n \in 0..n
    BY <1>1
  <2> QED
    BY <1>4, <2>1
<1>6. FlattenSeq(e) = f(n) /\ f(n) \in Seq(S)
  <2>1. n \in 0..Len(e)
    BY <1>1
  <2>2. FlattenSeq(e) = FlatTo(e, Len(e))
    BY FlatIsFlattened, Zenon
  <2> QED
    BY <1>1, <2>1, <2>2, FlatIsSequence
<1> HIDE DEF f
<1>7. f(n) = q
  BY <1>1, <1>5, <1>6, SeqEqual DEF n
<1> QED
  BY <1>6, <1>7

\* The rule takes frames on the wire for these frames.
LEMMA WireThere ==
    ASSUME NEW q \in Seq(Packets), \A i \in 1..Len(q) : Sendable(q[i])
    PROVE  Frames(Wire(q)) = q /\ Wire(q) \in Seq(Bytes)
<1> DEFINE n == Len(q)
           b == [i \in 1..n |-> OnWire(q[i])]
           e == [i \in 1..n |-> <<q[i]>>]
<1>1. n \in Nat /\ WiresOf(q) = b
  BY DEF WiresOf
<1>2. ASSUME NEW i \in 1..n PROVE OnWire(q[i]) \in Seq(Bytes) /\ q[i] \in Packets
  <2> DEFINE f == q[i]
  <2>1. Sendable(f) /\ f \in Packets
    BY DEF Sendable
  <2> HIDE DEF f
  <2>2. OnWire(f) \in Seq(Bytes)
    BY <2>1, WireTyped
  <2> QED
    BY <2>1, <2>2 DEF f
<1> HIDE DEF n
<1>3. b \in Seq(Seq(Bytes)) /\ Len(b) = n /\ \A i \in 1..n : b[i] = OnWire(q[i])
  BY <1>1, <1>2
<1>4. e \in Seq(Seq(Packets)) /\ Len(e) = n /\ \A i \in 1..n : e[i] = <<q[i]>>
  <2>1. \A i \in 1..n : <<q[i]>> \in Seq(Packets)
    BY <1>2
  <2> QED
    BY <1>1, <2>1
<1> HIDE DEF b, e
<1>5. ASSUME NEW i \in 1..Len(b)
      PROVE  \A s \in Seq(Bytes) : \A p \in Nat : Carries(s, p, b[i]) =>
               /\ FramesFrom(s)[p + 1] = e[i] \o FramesFrom(s)[p + Len(b[i]) + 1]
               /\ FramesFrom(s)[p + Len(b[i]) + 1] \in Seq(Packets)
  <2>1. b[i] = OnWire(q[i]) /\ e[i] = <<q[i]>> /\ Sendable(q[i])
    BY <1>3, <1>4 DEF n
  <2> QED
    BY <2>1, FrameThere
<1>6. Len(b) = Len(e)
  BY <1>3, <1>4
<1>7. Frames(FlattenSeq(b)) = FlattenSeq(e)
  BY <1>3, <1>4, <1>5, <1>6, PartsThere
<1>8. FlattenSeq(e) = q
  BY <1>4, SingletonsFlat DEF n
<1>9. FlattenSeq(b) \in Seq(Bytes)
  <2>1. 0 \in 0..Len(b)
    BY <1>1, <1>3
  <2> QED
    BY <1>3, <2>1, FlatInWhole, Zenon
<1> QED
  BY <1>1, <1>7, <1>8, <1>9 DEF Wire

\* A prefix of the sequences looks at no others.
LEMMA FlatSame ==
    ASSUME NEW S, NEW q \in Seq(Seq(S)), NEW r \in Seq(Seq(S)), NEW n \in Nat,
           n <= Len(q), n <= Len(r), \A i \in 1..n : q[i] = r[i]
    PROVE  FlatTo(q, n) = FlatTo(r, n)
<1> DEFINE T == {j \in 0..n : FlatTo(q, j) = FlatTo(r, j)}
<1>1. 0 \in T
  BY DEF FlatTo
<1>2. ASSUME NEW j \in 0..n - 1, j \in T PROVE j + 1 \in T
  <2>1. j \in 0..Len(q) - 1 /\ j \in 0..Len(r) - 1 /\ j + 1 \in 1..n /\ j + 1 \in 0..n
    OBVIOUS
  <2>2. FlatTo(q, j + 1) = FlatTo(q, j) \o q[j + 1] /\ FlatTo(r, j + 1) = FlatTo(r, j) \o r[j + 1]
    BY <2>1, FlatGrows
  <2> QED
    BY <1>2, <2>1, <2>2
<1>3. T = 0..n
  <2>1. T \in SUBSET (0..n)
    OBVIOUS
  <2> HIDE DEF T
  <2> QED
    BY <1>1, <1>2, <2>1, Climb
<1> QED
  BY <1>3, n \in 0..n

\* One more frame is sent behind the others.
LEMMA WireAppended ==
    ASSUME NEW q \in Seq(Packets), NEW f, Sendable(f), \A i \in 1..Len(q) : Sendable(q[i])
    PROVE  /\ Append(q, f) \in Seq(Packets)
           /\ \A i \in 1..Len(q) + 1 : Sendable(Append(q, f)[i])
           /\ Wire(Append(q, f)) = Wire(q) \o OnWire(f) /\ Wire(<<>>) = <<>>
<1> DEFINE n == Len(q)
           r == Append(q, f)
           b == [i \in 1..n |-> OnWire(q[i])]
           c == [i \in 1..n + 1 |-> OnWire(r[i])]
<1>1. f \in Packets /\ n \in Nat
  BY DEF Sendable
<1>2. /\ r \in Seq(Packets) /\ Len(r) = n + 1 /\ r[n + 1] = f
      /\ \A i \in 1..n : r[i] = q[i]
  BY <1>1, AppendProperties
<1>3. WiresOf(q) = b
  BY DEF WiresOf
<1>4. WiresOf(r) = c
  <2> HIDE DEF r
  <2>1. DOMAIN r = 1..n + 1
    BY <1>2
  <2> QED
    BY <2>1 DEF WiresOf
<1> HIDE DEF r, n
<1>5. \A i \in 1..n + 1 : Sendable(r[i])
  BY <1>1, <1>2 DEF n
<1>6. \A i \in 1..n + 1 : OnWire(r[i]) \in Seq(Bytes)
  BY <1>5, WireTyped
<1>7. c \in Seq(Seq(Bytes)) /\ Len(c) = n + 1 /\ \A i \in 1..n + 1 : c[i] = OnWire(r[i])
  BY <1>1, <1>6
<1>8. b \in Seq(Seq(Bytes)) /\ Len(b) = n /\ \A i \in 1..n : b[i] = c[i]
  BY <1>1, <1>2, <1>6
<1> HIDE DEF b, c
<1>9. FlattenSeq(b) = FlatTo(b, n)
  BY <1>8, FlatIsFlattened
<1>10. FlattenSeq(c) = FlatTo(c, n + 1)
  BY <1>7, FlatIsFlattened
<1>11. FlatTo(c, n + 1) = FlatTo(c, n) \o c[n + 1]
  <2>1. n \in 0..Len(c) - 1
    BY <1>1, <1>7
  <2> QED
    BY <1>7, <2>1, FlatGrows
<1>12. FlatTo(b, n) = FlatTo(c, n)
  <2>1. n <= Len(b) /\ n <= Len(c)
    BY <1>1, <1>7, <1>8
  <2> QED
    BY <1>1, <1>7, <1>8, <2>1, FlatSame
<1>13. c[n + 1] = OnWire(f)
  BY <1>1, <1>2, <1>7
<1>14. Wire(r) = Wire(q) \o OnWire(f)
  BY <1>3, <1>4, <1>9, <1>10, <1>11, <1>12, <1>13 DEF Wire
<1>15. Wire(<<>>) = <<>>
  <2>1. WiresOf(<<>>) = <<>>
    BY DEF WiresOf
  <2> QED
    BY <2>1 DEF Wire, FlattenSeq
<1> QED
  BY <1>2, <1>5, <1>14, <1>15 DEF r, n

\* What the broker sends for these requests: AnswersTo with one code in every SUBACK.
SentAnswers(requests) ==
    LET Of(types)    == {r \in Range(requests) : r.type \in types}
        AskedFor(t)  == \E r \in Of({"subscribe"}) : t \in Range(r.filters)
    IN  {Frame(CONNECTACK, <<0, 0>>), Frame(PINGRESP, <<>>)}
        \cup {Frame(SUBACK, TwoBytes(r.id) \o <<0>>) : r \in Of({"subscribe"})}
        \cup {Frame(PUBLISH, Text(r.topic) \o r.payload) :
                  r \in {q \in Of({"publish", "publishAcked"}) : AskedFor(q.topic)}}

\* It is one of the two things that a client may be sent.
LEMMA SentIsAnswer ==
    ASSUME NEW requests
    PROVE  \E perFilter \in BOOLEAN : SentAnswers(requests) = AnswersTo(requests, perFilter)
<1>1. SentAnswers(requests) = AnswersTo(requests, FALSE)
  BY DEF SentAnswers, AnswersTo, ReturnCodes
<1> QED
  BY <1>1, Zenon

\* The outgoing bytes are these frames on the wire; a client that is connected has been
\* sent one at least.
FramedAs(q) ==
    /\ q \in Seq(SentAnswers(script)) /\ outgoing = Wire(q)
    /\ \A i \in 1..Len(q) : q[i].header = CONNECTACK <=> i = 1
    /\ connected /\ clientState = "connected" => q # <<>>

AnswersInv == \E q : FramedAs(q)

\* A request that can be sent, in a script that can be.
LEMMA RequestTyped ==
    ASSUME NEW s \in Scripts, NEW r \in Range(s)
    PROVE  WellFormed(r) /\ \E i \in DOMAIN s : r = s[i]
BY ScriptsAssumption DEF Range

\* No other answer has the CONNACK's header.
LEMMA OtherAnswers == CONNECTACK \notin {PINGRESP, SUBACK, PUBLISH}
<1>1. /\ DOMAIN Headers = 1..9 /\ Headers[2] = CONNECTACK
      /\ Headers[3] = PUBLISH /\ Headers[6] = SUBACK /\ Headers[9] = PINGRESP
  BY DEF Headers
<1>2. \A i, j \in 1..9 : Headers[i] = Headers[j] => i = j
  BY <1>1, SessionAssumption DEF IsInjective
<1> HIDE DEF Headers
<1> QED
  BY <1>1, <1>2

\* An answer is a frame that can be sent, and only the CONNACK has its header.
LEMMA AnswersSendable ==
    ASSUME script \in Scripts, WithinWord, NEW f \in SentAnswers(script)
    PROVE  Sendable(f) /\ (f.header = CONNECTACK => f = Frame(CONNECTACK, <<0, 0>>))
<1>1. CONNECTACK \notin {PINGRESP, SUBACK, PUBLISH}
  BY OtherAnswers
<1>2. CASE f = Frame(CONNECTACK, <<0, 0>>)
  BY <1>2, FixedAnswers
<1>3. CASE f = Frame(PINGRESP, <<>>)
  <2>1. f.header = PINGRESP
    BY <1>3 DEF Frame
  <2> QED
    BY <1>1, <1>3, <2>1, FixedAnswers
<1>4. CASE \E r \in Range(script) : /\ r.type = "subscribe"
                                    /\ f = Frame(SUBACK, TwoBytes(r.id) \o <<0>>)
  <2>1. PICK r \in Range(script) : /\ r.type = "subscribe"
                                   /\ f = Frame(SUBACK, TwoBytes(r.id) \o <<0>>)
    BY <1>4, Zenon
  <2>2. r.id \in 0..Word - 1
    BY <2>1, RequestTyped DEF WellFormed
  <2>3. f.header = SUBACK
    BY <2>1 DEF Frame
  <2> QED
    BY <1>1, <2>1, <2>2, <2>3, FixedAnswers
<1>5. CASE \E r \in Range(script) : /\ r.type \in {"publish", "publishAcked"}
                                    /\ f = Frame(PUBLISH, Text(r.topic) \o r.payload)
  <2>1. PICK r \in Range(script) : /\ r.type \in {"publish", "publishAcked"}
                                   /\ f = Frame(PUBLISH, Text(r.topic) \o r.payload)
    BY <1>5
  <2>2. r.topic \in Texts /\ r.payload \in Seq(Bytes)
    BY <2>1, RequestTyped DEF WellFormed
  <2>3. Len(r.topic) + Len(r.payload) < Word
    BY <2>1, RequestTyped DEF WithinWord
  <2>4. f.header = PUBLISH
    BY <2>1 DEF Frame
  <2> QED
    BY <1>1, <2>1, <2>2, <2>3, <2>4, PublishEncoded
<1> QED
  BY <1>2, <1>3, <1>4, <1>5 DEF SentAnswers

\* The frames that have been sent, and one more.
LEMMA FrameSent ==
    ASSUME script \in Scripts, WithinWord, NEW q, FramedAs(q), NEW f \in SentAnswers(script),
           connected, clientState = "connected", f.header # CONNECTACK, SendPacket(OnWire(f)),
           UNCHANGED <<script, connected, clientState>>
    PROVE  FramedAs(Append(q, f))'
<1> DEFINE r == Append(q, f)
           A == SentAnswers(script)
<1>1. /\ q \in Seq(A) /\ outgoing = Wire(q) /\ q # <<>> /\ Len(q) \in Nat
      /\ \A i \in 1..Len(q) : q[i].header = CONNECTACK <=> i = 1
  BY DEF FramedAs
<1>2. Sendable(f) /\ \A i \in 1..Len(q) : Sendable(q[i])
  BY <1>1, AnswersSendable
<1>3. q \in Seq(Packets)
  BY <1>1, <1>2 DEF Sendable
<1>4. outgoing' = outgoing \o OnWire(f)
  BY DEF SendPacket
<1>5. Wire(r) = Wire(q) \o OnWire(f)
  BY <1>2, <1>3, WireAppended
<1>6. Len(q) + 1 # 1
  BY <1>1
<1> HIDE DEF A
<1>7. /\ r \in Seq(A) /\ Len(r) = Len(q) + 1 /\ r[Len(q) + 1] = f
      /\ \A i \in 1..Len(q) : r[i] = q[i]
  BY <1>1, AppendProperties DEF A
<1> HIDE DEF r
<1>8. \A i \in 1..Len(r) : r[i].header = CONNECTACK <=> i = 1
  <2> TAKE i \in 1..Len(r)
  <2>1. CASE i \in 1..Len(q)
    BY <1>1, <1>7, <2>1
  <2>2. CASE i = Len(q) + 1
    BY <1>6, <1>7, <2>2
  <2> QED
    BY <1>1, <1>7, <2>1, <2>2
<1>9. r # <<>>
  BY <1>1, <1>7
<1>10. outgoing' = Wire(r) /\ script' = script
  BY <1>1, <1>4, <1>5
<1>11. r \in Seq(SentAnswers(script))'
  BY <1>7, <1>10 DEF A, SentAnswers
<1>12. FramedAs(r)'
  BY <1>8, <1>9, <1>10, <1>11 DEF FramedAs
<1> QED
  BY <1>12 DEF r

\* One more answer goes behind the others.
LEMMA AnswerSent ==
    ASSUME script \in Scripts, WithinWord, AnswersInv, NEW f \in SentAnswers(script),
           clientState = "connected", f.header # CONNECTACK, SendPacket(OnWire(f)),
           UNCHANGED <<script, connected, clientState>>
    PROVE  AnswersInv'
<1>1. PICK q : FramedAs(q)
  BY DEF AnswersInv
<1>2. CASE ~connected
  <2>1. outgoing' = outgoing
    BY <1>2 DEF SendPacket
  <2>2. FramedAs(q)'
    BY <1>1, <1>2, <2>1 DEF FramedAs
  <2> QED
    BY <2>2 DEF AnswersInv
<1>3. CASE connected
  <2>1. FramedAs(Append(q, f))'
    BY <1>1, <1>3, FrameSent
  <2> QED
    BY <2>1 DEF AnswersInv
<1> QED
  BY <1>2, <1>3

\* What sends nothing, and connects nobody, keeps the answers.
LEMMA AnswersKept ==
    ASSUME AnswersInv, UNCHANGED <<script, outgoing, clientState>>, connected' => connected
    PROVE  AnswersInv'
<1>1. PICK q : FramedAs(q)
  BY DEF AnswersInv
<1>2. SentAnswers(script)' = SentAnswers(script)
  BY DEF SentAnswers
<1>3. FramedAs(q)'
  BY <1>1, <1>2, Zenon DEF FramedAs
<1> QED
  BY <1>3 DEF AnswersInv

\* The CONNACK is the first packet that the client is sent.
LEMMA FirstAnswer ==
    ASSUME script \in Scripts, WithinWord, HandshakeFirst, HandleConnect
    PROVE  AnswersInv' /\ (connected => FramedAs(Append(<<>>, Frame(CONNECTACK, <<0, 0>>)))')
<1> DEFINE f == Frame(CONNECTACK, <<0, 0>>)
           q == Append(<<>>, f)
<1>1. /\ outgoing = <<>> /\ UNCHANGED <<script, connected>> /\ SendPacket(BuildAckConnect)
      /\ clientState' = "connected"
  BY DEF HandleConnect, Handle, HandshakeFirst
<1>2. f \in SentAnswers(script)
  BY DEF SentAnswers
<1>3. SentAnswers(script)' = SentAnswers(script)
  BY <1>1 DEF SentAnswers
<1>4. Sendable(f) /\ BuildAckConnect = OnWire(f) /\ f.header = CONNECTACK
  BY FixedAnswers DEF Frame
<1>5. OnWire(f) \in Seq(Bytes)
  BY <1>4, WireTyped
<1> HIDE DEF f
<1>6. Wire(q) = OnWire(f) /\ Wire(<<>>) = <<>>
  <2> DEFINE none == <<>>
  <2>1. none \in Seq(Packets) /\ \A i \in 1..Len(none) : Sendable(none[i])
    OBVIOUS
  <2> HIDE DEF none
  <2>2. Wire(Append(none, f)) = Wire(none) \o OnWire(f) /\ Wire(<<>>) = <<>>
    BY <1>4, <2>1, WireAppended
  <2> QED
    BY <1>5, <2>2, ConcatEmptySeq DEF none
<1>7. q \in Seq(SentAnswers(script)) /\ Len(q) = 1 /\ q[1] = f /\ q # <<>>
  BY <1>2
<1>8. CASE connected
  <2>1. outgoing' = Wire(q)
    BY <1>1, <1>4, <1>5, <1>6, <1>8, ConcatEmptySeq DEF SendPacket
  <2> HIDE DEF q
  <2>2. \A i \in 1..Len(q) : q[i].header = CONNECTACK <=> i = 1
    BY <1>4, <1>7
  <2>3. FramedAs(q)'
    BY <1>3, <1>7, <2>1, <2>2 DEF FramedAs
  <2> QED
    BY <2>3 DEF AnswersInv, q, f
<1>9. CASE ~connected
  <2>1. outgoing' = <<>> /\ ~connected'
    BY <1>1, <1>9 DEF SendPacket
  <2>2. <<>> \in Seq(SentAnswers(script)) /\ Len(<<>>) = 0
    OBVIOUS
  <2>3. FramedAs(<<>>)'
    BY <1>3, <1>6, <2>1, <2>2 DEF FramedAs
  <2> QED
    BY <1>9, <2>3 DEF AnswersInv
<1> QED
  BY <1>8, <1>9

\* The request that the worker's next event was made of.
LEMMA HeadAsked ==
    ASSUME EventsInv, script \in Scripts, NEW type, TakeEvent(type)
    PROVE  \E r \in Range(script) : r.type \in WorkerTypes /\ Head(brokerEventQueue) = EventFor(r)
<1>1. brokerEventQueue # <<>>
  BY DEF TakeEvent
<1>2. PICK at : Origins(at)
  BY DEF EventsInv
<1>3. 1 \in 1..Len(brokerEventQueue) /\ Head(brokerEventQueue) = brokerEventQueue[1]
  BY <1>1 DEF EventsInv
<1> DEFINE i == at[1]
<1>4. /\ i \in 1..Len(script) /\ script[i].type \in WorkerTypes
      /\ Head(brokerEventQueue) = EventFor(script[i])
  BY <1>2, <1>3 DEF Origins
<1>5. script[i] \in Range(script)
  <2>1. DOMAIN script = 1..Len(script)
    BY ScriptTyped
  <2> HIDE DEF i
  <2> QED
    BY <1>4, <2>1 DEF Range
<1> QED
  BY <1>4, <1>5

\* Every step answers requests of the script, if at all.
LEMMA AnswersStep ==
    ASSUME script \in Scripts, WithinWord, HandshakeFirst, EventsInv, FiltersAsked, AnswersInv,
           [SessionNext]_<<vars, sessionVars>>
    PROVE  AnswersInv'
<1>1. CONNECTACK \notin {PINGRESP, SUBACK, PUBLISH}
  BY OtherAnswers
<1>2. brokerEventQueue # <<>> => clientState = "connected"
  BY DEF HandshakeFirst
<1>3. CASE HandleConnect
  BY <1>3, FirstAnswer
<1>4. CASE HandlePing
  <2> DEFINE f == Frame(PINGRESP, <<>>)
  <2>1. f \in SentAnswers(script) /\ f.header # CONNECTACK
    BY <1>1 DEF SentAnswers, Frame
  <2>2. BuildPingRes = OnWire(f)
    BY FixedAnswers
  <2> HIDE DEF f
  <2> QED
    BY <1>4, <2>1, <2>2, AnswerSent DEF HandlePing, Handle
<1>5. CASE ProcessSubscribe
  <2>1. PICK r \in Range(script) : r.type \in WorkerTypes /\ Head(brokerEventQueue) = EventFor(r)
    BY <1>5, HeadAsked DEF ProcessSubscribe
  <2> DEFINE f == Frame(SUBACK, TwoBytes(r.id) \o <<0>>)
  <2>2. /\ brokerEventQueue # <<>> /\ Head(brokerEventQueue).type = "subscribe"
        /\ UNCHANGED <<script, connected, clientState>>
        /\ SendPacket(BuildSubAck(HeadMessage.messageId))
    BY <1>5 DEF ProcessSubscribe, TakeEvent
  <2>3. r.type = "subscribe" /\ HeadMessage.messageId = r.id
    BY <2>1, <2>2 DEF EventFor, HeadMessage
  <2>4. r.id \in 0..Word - 1
    BY <2>3, RequestTyped DEF WellFormed
  <2>5. BuildSubAck(r.id) = OnWire(f)
    BY <2>4, FixedAnswers
  <2>6. f \in SentAnswers(script)
    BY <2>3 DEF SentAnswers
  <2>7. f.header # CONNECTACK
    BY <1>1 DEF Frame
  <2> HIDE DEF f
  <2> QED
    BY <1>2, <2>2, <2>3, <2>5, <2>6, <2>7, AnswerSent
<1>6. CASE ProcessPublish
  <2>1. PICK r \in Range(script) : r.type \in WorkerTypes /\ Head(brokerEventQueue) = EventFor(r)
    BY <1>6, HeadAsked DEF ProcessPublish
  <2> DEFINE f == Frame(PUBLISH, Text(r.topic) \o r.payload)
             m == HeadMessage
  <2>2. /\ brokerEventQueue # <<>> /\ Head(brokerEventQueue).type = "publish"
        /\ UNCHANGED <<script, connected, clientState>>
        /\ IF m.topic \in subscribed THEN SendPacket(BuildPublish(m)) ELSE UNCHANGED outgoing
    BY <1>6 DEF ProcessPublish, TakeEvent
  <2>3. /\ r.type \in {"publish", "publishAcked"}
        /\ m.topic = r.topic /\ m.payload = r.payload
    BY <2>1, <2>2 DEF EventFor, HeadMessage, WorkerTypes
  <2> HIDE DEF m
  <2>4. CASE m.topic \in subscribed
    <3>1. r.topic \in Texts /\ r.payload \in Seq(Bytes)
      BY <2>3, RequestTyped DEF WellFormed
    <3>2. Len(r.topic) + Len(r.payload) < Word
      BY <2>3, RequestTyped DEF WithinWord
    <3>3. BuildPublish(m) = OnWire(f)
      <4>1. /\ m.topic \in Texts /\ m.payload \in Seq(Bytes)
            /\ Len(m.topic) + Len(m.payload) < Word
        BY <2>3, <3>1, <3>2
      <4>2. BuildPublish(m) = OnWire(Frame(PUBLISH, Text(m.topic) \o m.payload))
        BY <4>1, PublishEncoded
      <4> QED
        BY <2>3, <4>2
    <3>4. PICK i \in 1..Len(script) : /\ script[i].type = "subscribe"
                                      /\ m.topic \in Range(script[i].filters)
      BY <2>4 DEF FiltersAsked
    <3>5. script[i] \in Range(script)
      BY ScriptTyped DEF Range
    <3>6. \E sub \in Range(script) : sub.type = "subscribe" /\ r.topic \in Range(sub.filters)
      BY <2>3, <3>4, <3>5
    <3>7. f \in SentAnswers(script)
      BY <2>3, <3>6 DEF SentAnswers
    <3>8. f.header # CONNECTACK
      BY <1>1 DEF Frame
    <3> HIDE DEF f
    <3> QED
      BY <1>2, <2>2, <2>4, <3>3, <3>7, <3>8, AnswerSent
  <2>5. CASE m.topic \notin subscribed
    BY <2>2, <2>5, AnswersKept
  <2> QED
    BY <2>4, <2>5
<1>7. CASE HandleBadHandshake
  <2>1. UNCHANGED <<script, outgoing, clientState>> /\ connected' = FALSE
    BY <1>7 DEF HandleBadHandshake, Handle
  <2> QED
    BY <2>1, AnswersKept
<1>8. CASE HandlePublish \/ HandleSubscribe \/ HandleOther
  <2>1. UNCHANGED <<script, outgoing, clientState, connected>>
    BY <1>8 DEF HandlePublish, HandleSubscribe, HandleOther, Handle
  <2> QED
    BY <2>1, AnswersKept
<1>9. CASE (\E n \in ChunkSizes : Arrive(n)) \/ ReadOn \/ UNCHANGED <<vars, sessionVars>>
  <2>1. UNCHANGED <<script, outgoing, clientState, connected>>
    BY <1>9 DEF Arrive, ReadOn, sessionVars
  <2> QED
    BY <2>1, AnswersKept
<1> QED
  BY <1>3, <1>4, <1>5, <1>6, <1>7, <1>8, <1>9 DEF SessionNext

\* The frames that the answers were written from are those that the client reads.
LEMMA AnswersRead ==
    ASSUME script \in Scripts, WithinWord, AnswersInv
    PROVE  AnswersFramed /\ outgoing \in Seq(Bytes)
<1>1. PICK q : FramedAs(q)
  BY DEF AnswersInv
<1>2. /\ q \in Seq(SentAnswers(script)) /\ outgoing = Wire(q)
      /\ \A i \in 1..Len(q) : q[i].header = CONNECTACK <=> i = 1
  BY <1>1 DEF FramedAs
<1>3. \A i \in 1..Len(q) : Sendable(q[i])
  BY <1>2, AnswersSendable
<1>4. q \in Seq(Packets)
  BY <1>2, <1>3 DEF Sendable
<1>5. Frames(outgoing) = q /\ outgoing \in Seq(Bytes)
  BY <1>2, <1>3, <1>4, WireThere
<1>6. Range(q) \subseteq SentAnswers(script) /\ DOMAIN q = 1..Len(q)
  BY <1>2 DEF Range
<1>7. outgoing = FlattenSeq([i \in DOMAIN q |-> OnWire(q[i])])
  BY <1>2 DEF Wire, WiresOf
<1>8. PICK perFilter \in BOOLEAN : SentAnswers(script) = AnswersTo(script, perFilter)
  BY SentIsAnswer
<1>9. \E b \in BOOLEAN : Range(q) \subseteq AnswersTo(script, b)
  BY <1>6, <1>8, Zenon
<1> QED
  BY <1>2, <1>5, <1>6, <1>7, <1>9 DEF AnswersFramed

\* At any moment of any session whose topics and payloads fit in 16 bits, for every base
\* and every script, the client can take what it has been sent for whole packets, encoded
\* like its own: each one answers a request of its own, a publication only where it has
\* asked for the topic, and the CONNACK is the first of them and no other (property
\* AnswersFramed).
THEOREM AnswersFramedCorrect == SessionSpec => []AnswersFramed
<1> DEFINE Inv == script \in Scripts /\ (WithinWord => AnswersInv)
<1>1. SessionInit => Inv
  <2> SUFFICES ASSUME SessionInit PROVE Inv
    OBVIOUS
  <2>1. script \in Scripts /\ outgoing = <<>> /\ clientState = "pending"
    BY DEF SessionInit
  <2>2. Wire(<<>>) = <<>>
    BY DEF Wire, WiresOf, FlattenSeq
  <2>3. FramedAs(<<>>)
    BY <2>1, <2>2 DEF FramedAs
  <2> QED
    BY <2>1, <2>3 DEF AnswersInv
<1>2. ASSUME Inv, HandshakeFirst, EventsInv, FiltersAsked, [SessionNext]_<<vars, sessionVars>>
      PROVE  Inv'
  <2>1. script' = script
    BY <1>2 DEF SessionNext, Arrive, ReadOn, HandleConnect, HandleBadHandshake, HandlePing,
                HandlePublish, HandleSubscribe, HandleOther, Handle, ProcessSubscribe,
                ProcessPublish, TakeEvent, sessionVars
  <2>2. WithinWord' => WithinWord
    BY <2>1 DEF WithinWord
  <2>3. WithinWord => AnswersInv'
    BY <1>2, AnswersStep
  <2> QED
    BY <1>2, <2>1, <2>2, <2>3
<1>3. Inv => AnswersFramed
  <2>1. CASE WithinWord
    BY <2>1, AnswersRead
  <2>2. CASE ~WithinWord
    BY <2>2 DEF AnswersFramed
  <2> QED
    BY <2>1, <2>2
<1>4. SessionInit => HandshakeFirst
  BY DEF SessionInit, HandshakeFirst
<1> HIDE DEF Inv
<1> QED
  BY <1>1, <1>2, <1>3, <1>4, HandshakeStep, EventsStart, EventsStep, RequestInit, RequestStep,
     PTL DEF SessionSpec

-----------------------------------------------------------------------------
(* Types.                                                                  *)

\* A publication is bytes, even one whose length does not fit in 16 bits.
LEMMA PublishTyped ==
    ASSUME NEW m, m.topic \in Texts, m.payload \in Seq(Bytes)
    PROVE  BuildPublish(m) \in Seq(Bytes)
<1> DEFINE topic == m.topic
           payload == m.payload
           n == Len(topic)
           size == TopicAndPayloadLength(m) + 2
           two == <<(n \div (2 * Base)) % (2 * Base), n % (2 * Base)>>
           field == ConcatEncodedSize(CodeSize(size))
           first == <<PUBLISH>>
<1>1. topic \in Seq(Bytes) /\ payload \in Seq(Bytes)
  BY DEF Texts
<1>2. n \in Nat /\ Len(payload) \in Nat
  BY <1>1
<1>3. field \in Seq(Bytes)
  <2> DEFINE l == Len(payload)
  <2>1. TopicAndPayloadLength(m) = (n + l) % Word
    BY Zenon DEF TopicAndPayloadLength
  <2>2. n \in Nat /\ l \in Nat
    BY <1>2
  <2> HIDE DEF n, l
  <2>3. Word \in Nat \ {0}
    <3>1. \A x \in Nat : x > 4 => 4 * x * x > 0
      OBVIOUS
    <3>2. Word > 0
      BY <3>1, ReaderAssumption, SessionAssumption DEF Word
    <3> QED
      BY <3>2, CubeAboveWord
  <2>4. (n + l) % Word \in 0..Word - 1
    <3>1. n + l \in Nat
      BY <2>2
    <3> QED
      BY <2>3, <3>1, Division
  <2>5. size \in Nat /\ size < Base * Base * Base
    BY <2>1, <2>3, <2>4, CubeAboveWord
  <2> HIDE DEF size
  <2> QED
    BY <2>5, SizeIsCoded, LengthCoded
<1>4. two \in Seq(Bytes)
  <2>1. 2 * Base \in Nat \ {0} /\ Bytes = 0..2 * Base - 1
    BY ReaderAssumption DEF Bytes
  <2> DEFINE b == 2 * Base
  <2> HIDE DEF n
  <2>2. n \div b \in Nat /\ n % b \in 0..b - 1
    BY <1>2, <2>1, Division
  <2>3. (n \div b) % b \in 0..b - 1
    BY <2>1, <2>2, Division
  <2> QED
    BY <2>1, <2>2, <2>3
<1>5. first \in Seq(Bytes)
  BY HeaderBytes
<1>6. BuildPublish(m) = (((first \o field) \o two) \o topic) \o payload
  BY Zenon DEF BuildPublish
<1> HIDE DEF first, field, two, topic, payload
<1>7. first \o field \in Seq(Bytes)
  BY <1>3, <1>5, ConcatProperties, Zenon
<1>8. (first \o field) \o two \in Seq(Bytes)
  BY <1>4, <1>7, ConcatProperties, Zenon
<1>9. ((first \o field) \o two) \o topic \in Seq(Bytes)
  BY <1>1, <1>8, ConcatProperties, Zenon
<1>10. (((first \o field) \o two) \o topic) \o payload \in Seq(Bytes)
  BY <1>1, <1>9, ConcatProperties, Zenon
<1> QED
  BY <1>6, <1>10

\* The other packets of the broker are bytes too.
LEMMA FixedTyped ==
    /\ BuildAckConnect \in Seq(Bytes) /\ BuildPingRes \in Seq(Bytes)
    /\ \A id \in 0..Word - 1 : BuildSubAck(id) \in Seq(Bytes)
<1>1. /\ OnWire(Frame(CONNECTACK, <<0, 0>>)) \in Seq(Bytes)
      /\ OnWire(Frame(PINGRESP, <<>>)) \in Seq(Bytes)
  BY FixedAnswers, WireTyped
<1>2. ASSUME NEW id \in 0..Word - 1 PROVE BuildSubAck(id) \in Seq(Bytes)
  <2> DEFINE f == Frame(SUBACK, TwoBytes(id) \o <<0>>)
  <2>1. Sendable(f) /\ BuildSubAck(id) = OnWire(f)
    BY FixedAnswers
  <2> HIDE DEF f
  <2> QED
    BY <2>1, WireTyped
<1> QED
  BY <1>1, <1>2, FixedAnswers

\* What is sent is bytes behind bytes.
LEMMA SentTyped ==
    ASSUME outgoing \in Seq(Bytes), NEW bytes \in Seq(Bytes),
           SendPacket(bytes) \/ UNCHANGED outgoing
    PROVE  outgoing' \in Seq(Bytes)
<1>1. outgoing \o bytes \in Seq(Bytes)
  BY ConcatProperties, Zenon
<1>2. outgoing' \in {outgoing, outgoing \o bytes}
  BY DEF SendPacket
<1> QED
  BY <1>1, <1>2

\* A keep-alive is read from a CONNECT of the script, even for a client that is gone.
LEMMA KeepAliveTyped ==
    ASSUME RequestInv, RequestInv', HandleConnect PROVE keepAlive' \in 0..Word
<1> DEFINE f == [header |-> fixedHeader, body |-> remainingPacket]
           m == Len(packets) + 1
<1>1. /\ fixedHeader = CONNECT /\ DeliverPacket /\ keepAlive' = DecodeKeepAlive
      /\ UNCHANGED script
  BY DEF HandleConnect, Handle
<1>2. /\ script \in Scripts /\ m \in 1..Len(Asked(script)) /\ Asked(script)[m] = f
  BY <1>1, NextPacket
<1>3. f # Zero
  <2>1. CONNECT # 0
    BY HeaderBytes
  <2> QED
    BY <1>1, <2>1 DEF Zero, Frame
<1>4. PICK k \in 1..Len(script) : script[k].type # "overlong" /\ f = FrameOf(script[k])
  BY <1>2, <1>3, AskedFrames
<1> DEFINE r == script[k]
<1>5. WellFormed(r)
  BY <1>2, ScriptTyped
<1>6. FrameOf(r).header = CONNECT /\ FrameOf(r).body = remainingPacket /\ r.type # "overlong"
  <2>1. f.header = fixedHeader /\ f.body = remainingPacket
    OBVIOUS
  <2> HIDE DEF f
  <2> QED
    BY <1>1, <1>4, <2>1
<1> HIDE DEF f, r
<1>7. r.type = "connect"
  BY <1>5, <1>6, RequestOfHeader
<1>8. DecodeKeepAlive = r.keepAlive /\ r.keepAlive \in 0..Word - 1
  BY <1>5, <1>6, <1>7, ConnectDecoded DEF WellFormed
<1> QED
  BY <1>1, <1>8, CubeAboveWord

\* An event fits, or is dropped.
LEMMA QueueTyped ==
    ASSUME SessionTypeOK, NEW event, QueueEvent(event)
    PROVE  Len(brokerEventQueue') <= EventQueueSize /\ attempts' \in Nat
           /\ dropped' \subseteq 1..attempts'
<1>1. attempts \in Nat /\ dropped \subseteq 1..attempts /\ attempts' = attempts + 1
  BY DEF SessionTypeOK, QueueEvent
<1>2. dropped \subseteq 1..attempts' /\ attempts' \in 1..attempts' /\ attempts' \in Nat
  BY <1>1
<1>3. CASE Len(brokerEventQueue) < EventQueueSize
  <2>1. brokerEventQueue' = Append(brokerEventQueue, event) /\ dropped' = dropped
    BY <1>3 DEF QueueEvent
  <2> QED
    BY <1>2, <1>3, <2>1, SessionAssumption
<1>4. CASE ~(Len(brokerEventQueue) < EventQueueSize)
  <2>1. brokerEventQueue' = brokerEventQueue /\ dropped' = dropped \cup {attempts'}
    BY <1>4 DEF QueueEvent
  <2> QED
    BY <1>2, <2>1 DEF SessionTypeOK
<1> QED
  BY <1>3, <1>4

\* Every step keeps the types.
LEMMA TypesStep ==
    ASSUME RequestInv, RequestInv', EventsInv, HandshakeFirst', SessionTypeOK,
           [SessionNext]_<<vars, sessionVars>>
    PROVE  SessionTypeOK'
<1> USE DEF SessionTypeOK
<1>1. script' \in Scripts /\ unsent' \in Seq(Bytes) /\ clientState' \in {"pending", "connected"}
  BY DEF RequestInv, WireInv, HandshakeFirst
<1>2. script \in Scripts
  BY DEF RequestInv, WireInv
<1>3. CASE HandleConnect
  <2>1. outgoing' \in Seq(Bytes)
    BY <1>3, FixedTyped, SentTyped DEF HandleConnect
  <2>2. keepAlive' \in 0..Word
    BY <1>3, KeepAliveTyped
  <2> QED
    BY <1>1, <1>3, <2>1, <2>2 DEF HandleConnect
<1>4. CASE HandleBadHandshake
  BY <1>1, <1>4 DEF HandleBadHandshake
<1>5. CASE HandlePing
  <2>1. outgoing' \in Seq(Bytes)
    BY <1>5, FixedTyped, SentTyped DEF HandlePing
  <2> QED
    BY <1>1, <1>5, <2>1 DEF HandlePing
<1>6. CASE HandlePublish \/ HandleSubscribe
  <2>1. \E event : QueueEvent(event)
    BY <1>6 DEF HandlePublish, HandleSubscribe
  <2>2. Len(brokerEventQueue') <= EventQueueSize /\ attempts' \in Nat
        /\ dropped' \subseteq 1..attempts'
    BY <2>1, QueueTyped
  <2> QED
    BY <1>1, <1>6, <2>2 DEF HandlePublish, HandleSubscribe
<1>7. CASE HandleOther
  BY <1>1, <1>7 DEF HandleOther
<1>8. CASE (\E n \in ChunkSizes : Arrive(n)) \/ ReadOn \/ UNCHANGED <<vars, sessionVars>>
  BY <1>1, <1>8 DEF Arrive, ReadOn, sessionVars
<1>9. ASSUME NEW type, TakeEvent(type)
      PROVE  /\ Len(brokerEventQueue') <= EventQueueSize
             /\ UNCHANGED <<connected, keepAlive, attempts, dropped>>
  <2>1. brokerEventQueue # <<>> /\ brokerEventQueue' = Tail(brokerEventQueue)
        /\ UNCHANGED <<connected, keepAlive, attempts, dropped>>
    BY <1>9 DEF TakeEvent
  <2>2. Len(Tail(brokerEventQueue)) = Len(brokerEventQueue) - 1 /\ Len(brokerEventQueue) \in Nat
    BY <2>1 DEF EventsInv
  <2> QED
    BY <2>1, <2>2, SessionAssumption
<1>10. CASE ProcessSubscribe
  <2>1. PICK r \in Range(script) : r.type \in WorkerTypes /\ Head(brokerEventQueue) = EventFor(r)
    BY <1>2, <1>10, HeadAsked DEF ProcessSubscribe
  <2>2. /\ Head(brokerEventQueue).type = "subscribe"
        /\ SendPacket(BuildSubAck(HeadMessage.messageId))
    BY <1>10 DEF ProcessSubscribe, TakeEvent
  <2>3. r.type = "subscribe" /\ HeadMessage.messageId = r.id
    BY <2>1, <2>2 DEF EventFor, HeadMessage
  <2>4. r.id \in 0..Word - 1
    BY <1>2, <2>3, RequestTyped DEF WellFormed
  <2>5. BuildSubAck(HeadMessage.messageId) \in Seq(Bytes)
    BY <2>3, <2>4, FixedTyped
  <2>6. outgoing' \in Seq(Bytes)
    BY <2>2, <2>5, SentTyped
  <2> QED
    BY <1>1, <1>9, <1>10, <2>6 DEF ProcessSubscribe
<1>11. CASE ProcessPublish
  <2>1. PICK r \in Range(script) : r.type \in WorkerTypes /\ Head(brokerEventQueue) = EventFor(r)
    BY <1>2, <1>11, HeadAsked DEF ProcessPublish
  <2>2. /\ Head(brokerEventQueue).type = "publish"
        /\ SendPacket(BuildPublish(HeadMessage)) \/ UNCHANGED outgoing
    BY <1>11 DEF ProcessPublish, TakeEvent
  <2>3. /\ r.type \in {"publish", "publishAcked"}
        /\ HeadMessage.topic = r.topic /\ HeadMessage.payload = r.payload
    BY <2>1, <2>2 DEF EventFor, HeadMessage, WorkerTypes
  <2>4. HeadMessage.topic \in Texts /\ HeadMessage.payload \in Seq(Bytes)
    BY <1>2, <2>3, RequestTyped DEF WellFormed
  <2>5. BuildPublish(HeadMessage) \in Seq(Bytes)
    BY <2>4, PublishTyped
  <2>6. outgoing' \in Seq(Bytes)
    BY <2>2, <2>5, SentTyped
  <2> QED
    BY <1>1, <1>9, <1>11, <2>6 DEF ProcessPublish
<1> QED
  BY <1>3, <1>4, <1>5, <1>6, <1>7, <1>8, <1>10, <1>11 DEF SessionNext

\* Every variable of the session keeps its type: the event queue stays within its size, and
\* whatever the client sends, and however it is cut, the broker's keep-alive is one of 16
\* bits and its answers are bytes (property SessionTypeOK).
THEOREM SessionTypeCorrect == SessionSpec => []SessionTypeOK
<1>1. SessionInit => SessionTypeOK
  <2> SUFFICES ASSUME SessionInit PROVE SessionTypeOK
    OBVIOUS
  <2>1. unsent \in Seq(Bytes) /\ script \in Scripts
    BY RequestInit DEF RequestInv, WireInv
  <2>2. 60 <= Word
    <3>1. \A x \in Nat : x > 4 => x * x >= 25 /\ 4 * x * x = 4 * (x * x) /\ x * x \in Nat
      OBVIOUS
    <3>2. Base * Base >= 25 /\ Base * Base \in Nat /\ Word = 4 * (Base * Base)
      BY <3>1, ReaderAssumption, SessionAssumption DEF Word
    <3> QED
      BY <3>2
  <2>3. 60 \in 0..Word
    BY <2>2, CubeAboveWord
  <2>4. Len(<<>>) <= EventQueueSize
    BY SessionAssumption
  <2> QED
    BY <2>1, <2>3, <2>4 DEF SessionInit, SessionTypeOK
<1>2. SessionInit => HandshakeFirst
  BY DEF SessionInit, HandshakeFirst
<1> QED
  BY <1>1, <1>2, HandshakeStep, EventsStart, EventsStep, RequestInit, RequestStep, TypesStep,
     PTL DEF SessionSpec

-----------------------------------------------------------------------------
(* All of the answers, in their order.                                     *)

\* Parts of at most one element each.
Single(e, n) ==
    /\ n \in Nat /\ e = [i \in 1..n |-> e[i]]
    /\ \A i \in 1..n : e[i] = <<>> \/ e[i] = <<e[i][1]>>

\* They are sequences of something.
LEMMA SingleTyped ==
    ASSUME NEW e, NEW n, Single(e, n)
    PROVE  \E S : e \in Seq(Seq(S)) /\ Len(e) = n /\ \A i \in 1..n : e[i][1] \in S
<1>1. n \in Nat /\ e = [i \in 1..n |-> e[i]]
  BY DEF Single
<1> DEFINE S == {e[i][1] : i \in 1..n}
<1>2. \A i \in 1..n : e[i][1] \in S
  OBVIOUS
<1> HIDE DEF S
<1>3. \A i \in 1..n : e[i] \in Seq(S)
  <2> TAKE i \in 1..n
  <2> DEFINE y == e[i][1]
             one == <<y>>
  <2>1. e[i] = <<>> \/ e[i] = one
    BY Zenon DEF Single
  <2>2. y \in S
    BY <1>2
  <2> HIDE DEF y
  <2>3. one \in Seq(S) /\ <<>> \in Seq(S)
    BY <2>2
  <2> HIDE DEF one
  <2> QED
    BY <2>1, <2>3
<1>4. e \in Seq(Seq(S)) /\ Len(e) = n
  <2> DEFINE d == [i \in 1..n |-> e[i]]
  <2>1. d \in Seq(Seq(S)) /\ Len(d) = n
    <3>1. n \in Nat
      BY <1>1
    <3> QED
      BY <1>3, <3>1
  <2> HIDE DEF d
  <2>2. d = e
    BY <1>1, Zenon DEF d
  <2> QED
    BY <2>1, <2>2
<1> QED
  BY <1>2, <1>4

\* Such parts grow by the element of the next part, if it has one.
LEMMA SingleGrows ==
    ASSUME NEW e, NEW n, Single(e, n), NEW j \in 0..n - 1
    PROVE  /\ e[j + 1] = <<>> => FlatTo(e, j + 1) = FlatTo(e, j)
           /\ e[j + 1] # <<>> => FlatTo(e, j + 1) = Append(FlatTo(e, j), e[j + 1][1])
<1> DEFINE f == FlatTo(e, j)
           x == e[j + 1][1]
           one == <<x>>
<1>1. PICK S : e \in Seq(Seq(S)) /\ Len(e) = n /\ \A i \in 1..n : e[i][1] \in S
  BY SingleTyped, Zenon
<1>2. j + 1 \in 1..n /\ j \in 0..Len(e) - 1 /\ j \in 0..Len(e)
  BY <1>1 DEF Single
<1>3. x \in S
  BY <1>1, <1>2
<1>4. FlatTo(e, j + 1) = f \o e[j + 1] /\ f \in Seq(S)
  BY <1>1, <1>2, FlatGrows, FlatIsSequence
<1>5. e[j + 1] = <<>> \/ e[j + 1] = one
  BY <1>2, Zenon DEF Single
<1> HIDE DEF f, x
<1>6. f \o <<>> = f /\ Append(f, x) = f \o one /\ one # <<>>
  <2>1. f \o <<>> = f /\ Append(f, x) = f \o one
    BY <1>3, <1>4, ConcatEmptySeq, AppendIsConcat, Zenon
  <2> QED
    BY <2>1
<1> HIDE DEF one
<1>7. CASE e[j + 1] = <<>>
  BY <1>4, <1>6, <1>7 DEF f
<1>8. CASE e[j + 1] = one
  BY <1>4, <1>6, <1>8 DEF f, x
<1> QED
  BY <1>5, <1>7, <1>8

\* No part, and all of them.
LEMMA SingleWhole ==
    ASSUME NEW e, NEW n, Single(e, n)
    PROVE  FlatTo(e, 0) = <<>> /\ FlattenSeq(e) = FlatTo(e, n)
<1>1. PICK S : e \in Seq(Seq(S)) /\ Len(e) = n
  BY SingleTyped, Zenon
<1> QED
  BY <1>1, FlatIsFlattened DEF FlatTo

\* What comes behind the first k parts does not matter to them.
LEMMA SingleAgree ==
    ASSUME NEW b, NEW m, Single(b, m), NEW c, NEW n, Single(c, n),
           NEW k \in Nat, k <= m, k <= n, \A i \in 1..k : b[i] = c[i]
    PROVE  FlatTo(b, k) = FlatTo(c, k)
<1> DEFINE T == {j \in 0..k : FlatTo(b, j) = FlatTo(c, j)}
<1>1. 0 \in T
  BY DEF FlatTo
<1>2. ASSUME NEW j \in 0..k - 1, j \in T PROVE j + 1 \in T
  <2>1. j \in 0..m - 1 /\ j \in 0..n - 1 /\ j + 1 \in 1..k /\ j + 1 \in 0..k
    BY DEF Single
  <2>2. b[j + 1] = c[j + 1] /\ FlatTo(b, j) = FlatTo(c, j)
    BY <1>2, <2>1
  <2>3. FlatTo(b, j + 1) = FlatTo(c, j + 1)
    <3>1. CASE b[j + 1] = <<>>
      BY <2>1, <2>2, <3>1, SingleGrows
    <3>2. CASE b[j + 1] # <<>>
      <4>1. FlatTo(b, j + 1) = Append(FlatTo(b, j), b[j + 1][1])
        BY <2>1, <3>2, SingleGrows
      <4>2. FlatTo(c, j + 1) = Append(FlatTo(c, j), c[j + 1][1])
        BY <2>1, <2>2, <3>2, SingleGrows
      <4> QED
        BY <2>2, <4>1, <4>2
    <3> QED
      BY <3>1, <3>2
  <2> QED
    BY <2>1, <2>3
<1>3. T = 0..k
  <2>1. T \in SUBSET (0..k)
    OBVIOUS
  <2> HIDE DEF T
  <2> QED
    BY <1>1, <1>2, <2>1, Climb
<1> QED
  BY <1>3, k \in 0..k

\* The frames with some of the headers, one part for each.
OnlyParts(headers, frames) ==
    [i \in DOMAIN frames |-> IF frames[i].header \in headers THEN <<frames[i]>> ELSE <<>>]

\* What the worker replies to each of these requests: Replies with one code in every SUBACK.
ReplyParts(requests) ==
    [i \in DOMAIN requests |->
        LET r == requests[i] IN
        IF r.type = "subscribe" THEN <<Frame(SUBACK, TwoBytes(r.id) \o <<0>>)>>
        ELSE IF SubscribedBefore(requests, i) THEN <<Frame(PUBLISH, Text(r.topic) \o r.payload)>>
        ELSE <<>>]

\* It is one of the two things that a client may expect.
LEMMA PartsAreReplies ==
    ASSUME NEW requests
    PROVE  \E perFilter \in BOOLEAN :
               FlattenSeq(ReplyParts(requests)) = WorkerAnswers(requests, perFilter)
<1>1. ReplyParts(requests) = Replies(requests, FALSE)
  BY DEF ReplyParts, Replies, ReturnCodes
<1>2. FlattenSeq(ReplyParts(requests)) = WorkerAnswers(requests, FALSE)
  BY <1>1, Zenon DEF WorkerAnswers
<1> QED
  BY <1>2, Zenon

\* What each of these is made of has at most one element in a part.
LEMMA PartsSingle ==
    ASSUME NEW S, NEW q \in Seq(S), NEW headers
    PROVE  /\ Single(OnlyParts(headers, q), Len(q)) /\ Single(PingAnswers(q), Len(q))
           /\ Single(ReplyParts(q), Len(q))
<1> DEFINE n == Len(q)
<1>1. n \in Nat /\ DOMAIN q = 1..n
  OBVIOUS
<1> HIDE DEF n
<1>2. Single(OnlyParts(headers, q), n)
  <2> DEFINE e == OnlyParts(headers, q)
  <2>1. e = [i \in 1..n |-> IF q[i].header \in headers THEN <<q[i]>> ELSE <<>>]
    BY <1>1 DEF OnlyParts
  <2> HIDE DEF e
  <2>2. \A i \in 1..n : e[i] = <<>> \/ e[i] = <<e[i][1]>>
    BY <2>1
  <2>3. e = [i \in 1..n |-> e[i]]
    BY <2>1
  <2> QED
    BY <1>1, <2>2, <2>3 DEF Single, e
<1>3. Single(PingAnswers(q), n)
  <2> DEFINE e == PingAnswers(q)
             x == Frame(PINGRESP, <<>>)
  <2>1. e = [i \in 1..n |-> IF q[i].type = "pingreq" THEN <<x>> ELSE <<>>]
    BY <1>1 DEF PingAnswers
  <2> HIDE DEF e, x
  <2>2. \A i \in 1..n : e[i] = <<>> \/ e[i] = <<e[i][1]>>
    BY <2>1
  <2>3. e = [i \in 1..n |-> e[i]]
    BY <2>1
  <2> QED
    BY <1>1, <2>2, <2>3 DEF Single, e
<1>4. Single(ReplyParts(q), n)
  <2> DEFINE e == ReplyParts(q)
             x(i) == Frame(SUBACK, TwoBytes(q[i].id) \o <<0>>)
             y(i) == Frame(PUBLISH, Text(q[i].topic) \o q[i].payload)
  <2>1. e = [i \in 1..n |-> IF q[i].type = "subscribe" THEN <<x(i)>>
                            ELSE IF SubscribedBefore(q, i) THEN <<y(i)>> ELSE <<>>]
    BY <1>1 DEF ReplyParts
  <2> HIDE DEF e, x, y
  <2>2. \A i \in 1..n : e[i] = <<>> \/ e[i] = <<e[i][1]>>
    BY <2>1
  <2>3. e = [i \in 1..n |-> e[i]]
    BY <2>1
  <2> QED
    BY <1>1, <2>2, <2>3 DEF Single, e
<1> QED
  BY <1>2, <1>3, <1>4 DEF n

\* One more frame is selected or not.
LEMMA OnlyAppended ==
    ASSUME NEW S, NEW q \in Seq(S), NEW f \in S, NEW headers
    PROVE  /\ Only(headers, <<>>) = <<>>
           /\ f.header \in headers => Only(headers, Append(q, f)) = Append(Only(headers, q), f)
           /\ f.header \notin headers => Only(headers, Append(q, f)) = Only(headers, q)
<1> DEFINE n == Len(q)
           r == Append(q, f)
           b == OnlyParts(headers, q)
           c == OnlyParts(headers, r)
<1>1. n \in Nat /\ n \in 0..(n + 1) - 1 /\ n <= n + 1 /\ n + 1 \in 1..n + 1
  OBVIOUS
<1>2. r \in Seq(S) /\ Len(r) = n + 1 /\ r[n + 1] = f /\ \A i \in 1..n : r[i] = q[i]
  BY AppendProperties
<1> HIDE DEF r
<1>3. DOMAIN q = 1..n /\ DOMAIN r = 1..n + 1
  BY <1>2
<1> HIDE DEF n
<1>4. Single(b, n) /\ Single(c, n + 1)
  BY <1>2, PartsSingle, Zenon DEF n
<1>5. c[n + 1] = IF f.header \in headers THEN <<f>> ELSE <<>>
  BY <1>1, <1>2, <1>3 DEF OnlyParts
<1>6. \A i \in 1..n : b[i] = c[i]
  BY <1>1, <1>2, <1>3 DEF OnlyParts
<1>7. Only(headers, q) = FlattenSeq(b) /\ Only(headers, r) = FlattenSeq(c)
  BY Zenon DEF Only, OnlyParts
<1> HIDE DEF b, c
<1>8. FlattenSeq(b) = FlatTo(b, n) /\ FlattenSeq(c) = FlatTo(c, n + 1)
  BY <1>4, SingleWhole
<1>9. FlatTo(b, n) = FlatTo(c, n)
  BY <1>1, <1>4, <1>6, SingleAgree
<1>10. Only(headers, <<>>) = <<>>
  <2>1. OnlyParts(headers, <<>>) = <<>>
    BY DEF OnlyParts
  <2>2. Only(headers, <<>>) = FlattenSeq(OnlyParts(headers, <<>>))
    BY Zenon DEF Only, OnlyParts
  <2> QED
    BY <2>1, <2>2 DEF FlattenSeq
<1>11. CASE f.header \in headers
  <2>1. c[n + 1] # <<>> /\ c[n + 1][1] = f
    BY <1>5, <1>11
  <2>2. FlatTo(c, n + 1) = Append(FlatTo(c, n), f)
    BY <1>1, <1>4, <2>1, SingleGrows
  <2> QED
    BY <1>7, <1>8, <1>9, <1>10, <1>11, <2>2 DEF r
<1>12. CASE f.header \notin headers
  <2>1. FlatTo(c, n + 1) = FlatTo(c, n)
    BY <1>1, <1>4, <1>5, <1>12, SingleGrows
  <2> QED
    BY <1>7, <1>8, <1>9, <1>10, <1>12, <2>1 DEF r
<1> QED
  BY <1>11, <1>12

\* The replies to some requests do not depend on a later one.
LEMMA RepliesAppended ==
    ASSUME NEW S, NEW w \in Seq(S), NEW r \in S, NEW m \in 0..Len(w)
    PROVE  FlatTo(ReplyParts(Append(w, r)), m) = FlatTo(ReplyParts(w), m)
<1> DEFINE v == Append(w, r)
           n == Len(w)
<1>1. v \in Seq(S) /\ Len(v) = n + 1 /\ \A i \in 1..n : v[i] = w[i]
  BY AppendProperties
<1> HIDE DEF v
<1>2. n \in Nat /\ DOMAIN w = 1..n /\ DOMAIN v = 1..n + 1 /\ m \in Nat /\ m <= n /\ m <= n + 1
  BY <1>1
<1> HIDE DEF n
<1>3. Single(ReplyParts(w), n) /\ Single(ReplyParts(v), n + 1)
  BY <1>1, PartsSingle, Zenon DEF n
<1>4. ASSUME NEW i \in 1..m PROVE ReplyParts(v)[i] = ReplyParts(w)[i]
  <2>1. i \in 1..n /\ i \in DOMAIN w /\ i \in DOMAIN v /\ \A j \in 1..i - 1 : j \in 1..n
    BY <1>2
  <2>2. v[i] = w[i] /\ \A j \in 1..i - 1 : v[j] = w[j]
    BY <1>1, <2>1
  <2>3. SubscribedBefore(v, i) <=> SubscribedBefore(w, i)
    BY <2>2 DEF SubscribedBefore
  <2> QED
    BY <2>1, <2>2, <2>3 DEF ReplyParts
<1> QED
  BY <1>2, <1>3, <1>4, SingleAgree DEF v

\* The events of the first requests are counted.
LEMMA EventsGrow ==
    ASSUME NEW k \in Nat
    PROVE  /\ Events(0) = 0 /\ Events(k) \in Nat
           /\ script[k + 1].type \in WorkerTypes => Events(k + 1) = Events(k) + 1
           /\ script[k + 1].type \notin WorkerTypes => Events(k + 1) = Events(k)
           /\ \A i \in 0..k : Events(i) \in Nat /\ Events(i) <= Events(k)
<1> DEFINE C(n) == {i \in 1..n : script[i].type \in WorkerTypes}
<1>1. ASSUME NEW n \in Nat PROVE IsFiniteSet(C(n)) /\ Cardinality(C(n)) \in Nat
  <2>1. IsFiniteSet(1..n)
    BY FS_Interval
  <2>2. C(n) \in SUBSET (1..n)
    OBVIOUS
  <2> HIDE DEF C
  <2>3. IsFiniteSet(C(n))
    BY <2>1, <2>2, FS_Subset
  <2> QED
    BY <2>3, FS_CardinalityType
<1>2. \A n : Events(n) = Cardinality(C(n))
  BY DEF Events
<1>3. Events(0) = 0
  <2>1. C(0) = {}
    OBVIOUS
  <2> HIDE DEF C
  <2> QED
    BY <1>2, <2>1, FS_EmptySet
<1>4. ASSUME script[k + 1].type \in WorkerTypes PROVE Events(k + 1) = Events(k) + 1
  <2>1. C(k + 1) = C(k) \cup {k + 1} /\ k + 1 \notin C(k)
    BY <1>4
  <2> HIDE DEF C
  <2> QED
    BY <1>1, <1>2, <2>1, FS_AddElement
<1>5. ASSUME script[k + 1].type \notin WorkerTypes PROVE Events(k + 1) = Events(k)
  <2>1. C(k + 1) = C(k)
    BY <1>5
  <2> HIDE DEF C
  <2> QED
    BY <1>2, <2>1
<1>6. ASSUME NEW i \in 0..k PROVE Events(i) \in Nat /\ Events(i) <= Events(k)
  <2>1. C(i) \in SUBSET C(k) /\ i \in Nat
    OBVIOUS
  <2> HIDE DEF C
  <2>2. IsFiniteSet(C(k))
    BY <1>1
  <2>3. Cardinality(C(i)) <= Cardinality(C(k))
    BY <2>1, <2>2, FS_Subset
  <2> QED
    BY <1>1, <1>2, <2>1, <2>3
<1>7. Events(k) \in Nat
  <2> HIDE DEF C
  <2> QED
    BY <1>1, <1>2
<1> QED
  BY <1>3, <1>4, <1>5, <1>6, <1>7

\* The requests of the script for the worker.
WorkerRequests == {r \in Range(script) : r.type \in WorkerTypes}

\* One part for each request, with a request for the worker in it or nothing.
LEMMA KeptTyped ==
    ASSUME script \in Scripts
    PROVE  /\ Single(Kept, Len(script)) /\ Kept \in Seq(Seq(WorkerRequests))
           /\ Len(Kept) = Len(script) /\ Len(script) \in Nat
           /\ \A k \in 0..Len(script) : FlatTo(Kept, k) \in Seq(WorkerRequests)
<1> DEFINE n == Len(script)
           takes(i) == script[i].type \in WorkerTypes /\ Events(i) \notin dropped
<1>1. n \in Nat /\ DOMAIN script = 1..n
  BY ScriptTyped
<1>2. \A i \in 1..n : takes(i) => script[i] \in WorkerRequests
  BY <1>1 DEF WorkerRequests, Range
<1>3. Kept = [i \in 1..n |-> IF takes(i) THEN <<script[i]>> ELSE <<>>]
  BY <1>1 DEF Kept
<1> HIDE DEF n, takes
<1> DEFINE e == Kept
<1> HIDE DEF e
<1>4. \A i \in 1..n : e[i] = <<>> \/ e[i] = <<e[i][1]>>
  BY <1>3 DEF e
<1>5. e = [i \in 1..n |-> e[i]]
  BY <1>3 DEF e
<1>6. Single(e, n)
  BY <1>1, <1>4, <1>5 DEF Single
<1>7. \A i \in 1..n : e[i] \in Seq(WorkerRequests)
  BY <1>2, <1>3 DEF e
<1>8. e \in Seq(Seq(WorkerRequests)) /\ Len(e) = n
  BY <1>1, <1>3, <1>7 DEF e
<1>9. \A k \in 0..n : FlatTo(e, k) \in Seq(WorkerRequests)
  BY <1>8, FlatIsSequence
<1> QED
  BY <1>1, <1>6, <1>8, <1>9 DEF e, n

\* The next request is kept if it makes an event and that was not dropped.
LEMMA KeptGrows ==
    ASSUME script \in Scripts, NEW k \in 0..Len(script) - 1
    PROVE  IF script[k + 1].type \in WorkerTypes /\ Events(k + 1) \notin dropped
           THEN FlatTo(Kept, k + 1) = Append(FlatTo(Kept, k), script[k + 1])
           ELSE FlatTo(Kept, k + 1) = FlatTo(Kept, k)
<1> DEFINE takes == script[k + 1].type \in WorkerTypes /\ Events(k + 1) \notin dropped
<1>1. Single(Kept, Len(script)) /\ k + 1 \in DOMAIN script
  BY KeptTyped, ScriptTyped
<1>2. Kept[k + 1] = IF takes THEN <<script[k + 1]>> ELSE <<>>
  BY <1>1 DEF Kept
<1> HIDE DEF takes
<1>3. CASE takes
  <2>1. Kept[k + 1] # <<>> /\ Kept[k + 1][1] = script[k + 1]
    BY <1>2, <1>3
  <2> QED
    BY <1>1, <1>3, <2>1, SingleGrows DEF takes
<1>4. CASE ~takes
  <2>1. Kept[k + 1] = <<>>
    BY <1>2, <1>4
  <2> QED
    BY <1>1, <1>4, <2>1, SingleGrows DEF takes
<1> QED
  BY <1>3, <1>4

\* What is dropped later does not matter to the requests so far.
LEMMA KeptSame ==
    ASSUME script \in Scripts, UNCHANGED script, NEW k \in 0..Len(script),
           \A x \in 0..Events(k) : x \in dropped' <=> x \in dropped
    PROVE  FlatTo(Kept, k)' = FlatTo(Kept, k) /\ \A i \in Nat : Events(i)' = Events(i)
<1>1. Single(Kept, Len(script)) /\ Len(script) \in Nat /\ DOMAIN script = 1..Len(script)
  BY KeptTyped, ScriptTyped
<1>2. script' \in Scripts /\ script' = script
  OBVIOUS
<1>3. Single(Kept', Len(script))
  <2>1. (script \in Scripts => Single(Kept, Len(script)))'
    BY KeptTyped, PTL
  <2> QED
    BY <1>2, <2>1
<1>4. \A i : Events(i)' = Events(i)
  BY <1>2 DEF Events
<1>5. ASSUME NEW i \in 1..k PROVE Kept'[i] = Kept[i]
  <2>1. i \in DOMAIN script /\ i \in 0..k /\ k \in Nat
    BY <1>1
  <2>2. Events(i) \in 0..Events(k)
    BY <2>1, EventsGrow
  <2>3. Events(i) \in dropped' <=> Events(i) \in dropped
    BY <2>2
  <2> QED
    BY <1>2, <1>4, <2>1, <2>3 DEF Kept
<1>6. FlatTo(Kept', k) = FlatTo(Kept, k)
  <2>1. k \in Nat /\ k <= Len(script)
    BY <1>1
  <2> QED
    BY <1>1, <1>3, <1>5, <2>1, SingleAgree
<1> QED
  BY <1>4, <1>6 DEF FlatTo, Flattening

\* The callback has got the frames of the first k requests, and perhaps one of the two
\* that are read of an overlong packet behind them.
Progress(k) ==
    /\ k \in 0..Len(script)
    /\ \/ Len(packets) = Len(FlatTo(FramesIn(script), k))
       \/ /\ k < Len(script) /\ script[k + 1].type = "overlong"
          /\ Len(packets) = Len(FlatTo(FramesIn(script), k)) + 1

\* The packet that the callback is given is the next request's.
LEMMA NextRequest ==
    ASSUME RequestInv, RequestInv', DeliverPacket, UNCHANGED script, NEW k, Progress(k)
    PROVE  /\ k \in 0..Len(script) - 1
           /\ \/ /\ script[k + 1].type # "overlong"
                 /\ [header |-> fixedHeader, body |-> remainingPacket] = FrameOf(script[k + 1])
                 /\ Progress(k + 1)'
              \/ /\ script[k + 1].type = "overlong" /\ fixedHeader = 0
                 /\ Progress(k)' \/ Progress(k + 1)'
<1> DEFINE e == FramesIn(script)
           n == Len(script)
           a == Asked(script)
           f == [header |-> fixedHeader, body |-> remainingPacket]
           g == FlatTo(e, k)
           h == FlatTo(e, k + 1)
           x == e[k + 1]
           w == g \o x
           r == script[k + 1]
           m == Len(packets)
<1>1. /\ script \in Scripts /\ m \in Nat /\ m + 1 \in 1..Len(a) /\ Len(packets') = m + 1
      /\ a[m + 1] = f
  BY NextPacket
<1>2. /\ e \in Seq(Seq(Packets)) /\ Len(e) = n /\ n \in Nat /\ DOMAIN script = 1..n
  BY <1>1, ScriptThere, ScriptTyped
<1>3. a = FlatTo(e, n) /\ a = FlattenSeq(e)
  BY <1>2, FlatIsFlattened DEF Asked
<1>4. /\ k \in 0..n
      /\ \/ m = Len(g)
         \/ k < n /\ r.type = "overlong" /\ m = Len(g) + 1
  BY DEF Progress
<1>5. k \in 0..n - 1 /\ k + 1 \in 1..n /\ k + 1 \in 0..n
  <2> SUFFICES ASSUME k = n PROVE FALSE
    BY <1>2, <1>4
  <2>1. m = Len(a) /\ Len(a) \in Nat
    BY <1>1, <1>2, <1>3, <1>4
  <2> QED
    BY <1>1, <2>1
<1>6. x = Expected(r)
  BY <1>2, <1>5 DEF FramesIn
<1>7. h = w /\ g \in Seq(Packets) /\ x \in Seq(Packets)
  <2>1. k \in 0..Len(e) - 1 /\ k \in 0..Len(e) /\ k + 1 \in 1..Len(e)
    BY <1>2, <1>5
  <2>2. h = w
    BY <1>2, <2>1, FlatGrows
  <2>3. g \in Seq(Packets)
    BY <1>2, <2>1, FlatIsSequence
  <2> QED
    BY <1>2, <2>1, <2>2, <2>3
<1>8. \A i \in 1..Len(h) : a[i] = h[i]
  BY <1>2, <1>3, <1>5, FlatInWhole
<1>9. UNCHANGED <<FramesIn(script), script>>
  BY DEF FramesIn
<1>10. /\ Progress(k)' <=> /\ k \in 0..n
                           /\ \/ Len(packets') = Len(g)
                              \/ k < n /\ r.type = "overlong" /\ Len(packets') = Len(g) + 1
       /\ Len(packets') = Len(h) => Progress(k + 1)'
  BY <1>5, <1>9 DEF Progress, FlatTo, Flattening
<1> HIDE DEF e, n, a, f, g, h, x, r, m
<1>11. Len(w) = Len(g) + Len(x) /\ \A i \in 1..Len(x) : w[Len(g) + i] = x[i]
  BY <1>7, Joined
<1> HIDE DEF w
<1>12. Len(g) \in Nat
  BY <1>7
<1>13. CASE r.type # "overlong"
  <2>1. Len(x) = 1 /\ x[1] = FrameOf(r)
    BY <1>6, <1>13 DEF Expected
  <2>2. m = Len(g) /\ Len(h) = m + 1 /\ h[m + 1] = x[1]
    BY <1>4, <1>7, <1>11, <1>13, <2>1
  <2>3. a[m + 1] = FrameOf(r)
    BY <1>1, <1>8, <2>1, <2>2
  <2> QED
    BY <1>1, <1>5, <1>10, <1>13, <2>2, <2>3 DEF n, r, f
<1>14. CASE r.type = "overlong"
  <2>1. Len(x) = 2 /\ x[1] = Zero /\ x[2] = Zero
    BY <1>6, <1>14 DEF Expected
  <2>2. Len(h) = Len(g) + 2 /\ h[Len(g) + 1] = Zero /\ h[Len(g) + 2] = Zero
    BY <1>7, <1>11, <2>1
  <2>3. m + 1 \in {Len(g) + 1, Len(g) + 2} /\ m + 1 \in 1..Len(h)
    BY <1>1, <1>4, <1>12, <2>2
  <2>4. f = Zero
    BY <1>1, <1>8, <2>2, <2>3
  <2>5. fixedHeader = 0
    BY <2>4 DEF f, Zero, Frame
  <2>6. Progress(k)' \/ Progress(k + 1)'
    <3>1. CASE m = Len(g)
      <4>1. k < n
        BY <1>2, <1>5
      <4> QED
        BY <1>1, <1>4, <1>10, <1>14, <3>1, <4>1
    <3>2. CASE m = Len(g) + 1
      BY <1>1, <1>10, <1>12, <2>2, <3>2
    <3> QED
      BY <1>4, <3>1, <3>2
  <2> QED
    BY <1>5, <1>14, <2>5, <2>6 DEF n, r
<1> QED
  BY <1>13, <1>14

\* A sequence behind one element grows at its end.
LEMMA GrowsBehind ==
    ASSUME NEW S, NEW c, NEW s \in Seq(S), NEW x \in S
    PROVE  <<c>> \o Append(s, x) = Append(<<c>> \o s, x)
<1> DEFINE T == S \cup {c}
           one == <<c>>
           last == <<x>>
           all == one \o s
<1>1. one \in Seq(T) /\ last \in Seq(T) /\ s \in Seq(T) /\ x \in T
  OBVIOUS
<1> HIDE DEF one, last, T
<1>2. all \in Seq(T)
  BY <1>1, ConcatProperties
<1>3. Append(s, x) = s \o last
  BY AppendIsConcat DEF last
<1>4. Append(all, x) = all \o last
  <2> HIDE DEF all
  <2> QED
    BY <1>1, <1>2, AppendIsConcat DEF last
<1>5. one \o (s \o last) = all \o last
  BY <1>1, ConcatAssociative
<1> QED
  BY <1>3, <1>4, <1>5 DEF one

-----------------------------------------------------------------------------
(* What has been answered so far.                                          *)

\* What the network task has sent answers the first k requests.
NetworkHeaders == {CONNECTACK, PINGRESP}

NetworkDone(q, s, k) ==
    Only(NetworkHeaders, q) = <<Frame(CONNECTACK, <<0, 0>>)>> \o FlatTo(PingAnswers(s), k)

\* Of the requests w the worker has answered the first m; the others are in the queue.
WorkerDone(q, w, m, queue, filters) ==
    /\ m \in 0..Len(w) /\ Len(queue) = Len(w) - m
    /\ \A i \in 1..Len(queue) : queue[i] = EventFor(w[m + i])
    /\ Only(Bytes \ NetworkHeaders, q) = FlatTo(ReplyParts(w), m)
    /\ \A t : t \in filters
                <=> \E j \in 1..m : w[j].type = "subscribe" /\ t \in Range(w[j].filters)

Answered(q, k, m) ==
    /\ FramedAs(q) /\ Progress(k) /\ attempts = Events(k)
    /\ NetworkDone(q, script, k)
    /\ WorkerDone(q, FlatTo(Kept, k), m, brokerEventQueue, subscribed)

\* The answers to the PINGREQs of the first requests.
LEMMA PingsGrow ==
    ASSUME script \in Scripts, NEW k \in 0..Len(script) - 1, NEW q, NetworkDone(q, script, k)
    PROVE  /\ script[k + 1].type # "pingreq" => NetworkDone(q, script, k + 1)
           /\ script[k + 1].type = "pingreq"
              => Append(Only(NetworkHeaders, q), Frame(PINGRESP, <<>>))
                 = <<Frame(CONNECTACK, <<0, 0>>)>> \o FlatTo(PingAnswers(script), k + 1)
<1> DEFINE e == PingAnswers(script)
           n == Len(script)
           c == Frame(CONNECTACK, <<0, 0>>)
           x == Frame(PINGRESP, <<>>)
           s == FlatTo(e, k)
<1>1. /\ script \in Seq(Range(script)) /\ n \in Nat /\ DOMAIN script = 1..n
      /\ k + 1 \in 1..n
  BY ScriptsAssumption, ScriptTyped
<1>2. Single(e, n)
  BY <1>1, PartsSingle, Zenon
<1>3. e[k + 1] = IF script[k + 1].type = "pingreq" THEN <<x>> ELSE <<>>
  BY <1>1 DEF PingAnswers
<1>4. Only(NetworkHeaders, q) = <<c>> \o s
  BY DEF NetworkDone
<1> HIDE DEF e, c, x
<1>5. CASE script[k + 1].type # "pingreq"
  <2>1. FlatTo(e, k + 1) = s
    BY <1>2, <1>3, <1>5, SingleGrows DEF n
  <2> QED
    BY <1>4, <1>5, <2>1 DEF NetworkDone, e, c
<1>6. CASE script[k + 1].type = "pingreq"
  <2>1. e[k + 1] # <<>> /\ e[k + 1][1] = x
    BY <1>3, <1>6
  <2>2. FlatTo(e, k + 1) = Append(s, x)
    BY <1>2, <2>1, SingleGrows DEF n
  <2>3. PICK S : e \in Seq(Seq(S)) /\ Len(e) = n /\ \A i \in 1..n : e[i][1] \in S
    BY <1>2, SingleTyped, Zenon
  <2>4. x \in S
    BY <1>1, <2>1, <2>3
  <2>5. k \in 0..Len(e)
    BY <2>3
  <2>6. s \in Seq(S)
    BY <2>3, <2>5, FlatIsSequence
  <2> HIDE DEF s
  <2>7. <<c>> \o Append(s, x) = Append(<<c>> \o s, x)
    BY <2>4, <2>6, GrowsBehind
  <2> QED
    BY <1>4, <1>6, <2>2, <2>7 DEF e, c, x
<1> QED
  BY <1>5, <1>6

\* A request of which neither task makes anything.
LEMMA NothingMade ==
    ASSUME script \in Scripts, NEW q, NEW k, NEW m, Answered(q, k, m), NEW j, Progress(j)',
           \/ j = k
           \/ /\ j = k + 1 /\ k \in 0..Len(script) - 1
              /\ script[k + 1].type \notin WorkerTypes \cup {"pingreq"},
           UNCHANGED <<script, connected, clientState, outgoing, attempts, dropped,
                       brokerEventQueue, subscribed>>
    PROVE  Answered(q, j, m)'
<1>1. /\ FramedAs(q) /\ Progress(k) /\ attempts = Events(k)
      /\ NetworkDone(q, script, k)
      /\ WorkerDone(q, FlatTo(Kept, k), m, brokerEventQueue, subscribed)
  BY DEF Answered
<1>2. FramedAs(q)'
  BY <1>1 DEF FramedAs, SentAnswers
<1>3. k \in 0..Len(script) /\ Len(script) \in Nat /\ j \in Nat /\ k \in Nat
  BY <1>1, ScriptTyped DEF Progress
<1>4. attempts = Events(j) /\ NetworkDone(q, script, j) /\ FlatTo(Kept, j) = FlatTo(Kept, k)
  <2>1. CASE j = k
    BY <1>1, <2>1
  <2>2. CASE j = k + 1 /\ j # k
    <3>1. /\ k \in 0..Len(script) - 1
          /\ script[k + 1].type \notin WorkerTypes /\ script[k + 1].type # "pingreq"
      BY <2>2
    <3>2. attempts = Events(j)
      BY <1>1, <1>3, <2>2, <3>1, EventsGrow
    <3>3. NetworkDone(q, script, j)
      BY <1>1, <2>2, <3>1, PingsGrow
    <3>4. FlatTo(Kept, j) = FlatTo(Kept, k)
      BY <2>2, <3>1, KeptGrows
    <3> QED
      BY <3>2, <3>3, <3>4
  <2> QED
    BY <2>1, <2>2
<1>5. Events(j)' = Events(j) /\ FlatTo(Kept, j)' = FlatTo(Kept, j)
  <2>1. j \in 0..Len(script)
    BY <1>3
  <2> QED
    BY <1>3, <2>1, KeptSame
<1>6. NetworkDone(q, script, j)'
  BY <1>4
<1>7. WorkerDone(q, FlatTo(Kept, j), m, brokerEventQueue, subscribed)'
  BY <1>1, <1>4, <1>5
<1> QED
  BY <1>2, <1>4, <1>5, <1>6, <1>7 DEF Answered

\* Which task an answer comes from is told by its header.
LEMMA AnswerHeaders ==
    /\ CONNECTACK \in NetworkHeaders /\ PINGRESP \in NetworkHeaders
    /\ \A h \in {SUBACK, PUBLISH} : h \notin NetworkHeaders /\ h \in Bytes \ NetworkHeaders
<1>1. /\ DOMAIN Headers = 1..9 /\ Headers[2] = CONNECTACK
      /\ Headers[3] = PUBLISH /\ Headers[6] = SUBACK /\ Headers[9] = PINGRESP
  BY DEF Headers
<1>2. \A i, j \in 1..9 : Headers[i] = Headers[j] => i = j
  BY <1>1, SessionAssumption DEF IsInjective
<1>3. \A i \in 1..9 : Headers[i] \in Bytes
  BY <1>1, SessionAssumption DEF Range
<1> HIDE DEF Headers
<1> QED
  BY <1>1, <1>2, <1>3 DEF NetworkHeaders

\* Frames of answers can be sent and are packets.
LEMMA FramesTyped ==
    ASSUME script \in Scripts, WithinWord, NEW q, FramedAs(q)
    PROVE  q \in Seq(Packets) /\ \A i \in 1..Len(q) : Sendable(q[i])
<1>1. q \in Seq(SentAnswers(script))
  BY DEF FramedAs
<1>2. \A i \in 1..Len(q) : Sendable(q[i])
  BY <1>1, AnswersSendable
<1> QED
  BY <1>1, <1>2 DEF Sendable

\* A PINGREQ is answered at once.
LEMMA PingAnswered ==
    ASSUME script \in Scripts, NEW q \in Seq(Packets), NEW k, NEW m, Answered(q, k, m),
           NEW f \in Packets, f = Frame(PINGRESP, <<>>), FramedAs(Append(q, f))',
           k \in 0..Len(script) - 1, script[k + 1].type = "pingreq", Progress(k + 1)',
           UNCHANGED <<script, attempts, dropped, brokerEventQueue, subscribed>>
    PROVE  Answered(Append(q, f), k + 1, m)'
<1> DEFINE r == Append(q, f)
           w == FlatTo(Kept, k)
<1>1. /\ attempts = Events(k) /\ NetworkDone(q, script, k)
      /\ WorkerDone(q, w, m, brokerEventQueue, subscribed)
  BY DEF Answered
<1>2. k + 1 \in 0..Len(script) /\ k \in Nat /\ k + 1 \in Nat
  BY ScriptTyped
<1>3. script[k + 1].type \notin WorkerTypes
  BY DEF WorkerTypes
<1>4. FlatTo(Kept, k + 1) = w /\ Events(k + 1) = Events(k)
  BY <1>2, <1>3, KeptGrows, EventsGrow
<1>5. FlatTo(Kept, k + 1)' = w /\ Events(k + 1)' = Events(k)
  BY <1>2, <1>4, KeptSame
<1>6. f.header = PINGRESP
  BY DEF Frame
<1>7. /\ f.header \in NetworkHeaders /\ f.header \notin Bytes \ NetworkHeaders
  BY <1>6, AnswerHeaders
<1>8. /\ Only(NetworkHeaders, r) = Append(Only(NetworkHeaders, q), f)
      /\ Only(Bytes \ NetworkHeaders, r) = Only(Bytes \ NetworkHeaders, q)
  BY <1>7, OnlyAppended, Zenon
<1>9. NetworkDone(r, script, k + 1)'
  <2>1. NetworkDone(r, script, k + 1)
    BY <1>1, <1>8, PingsGrow DEF NetworkDone
  <2> QED
    BY <2>1
<1>10. WorkerDone(r, w, m, brokerEventQueue, subscribed)
  BY <1>1, <1>8 DEF WorkerDone
<1>11. WorkerDone(r, FlatTo(Kept, k + 1), m, brokerEventQueue, subscribed)'
  BY <1>5, <1>10
<1> HIDE DEF w, r
<1> QED
  BY <1>1, <1>5, <1>9, <1>11 DEF Answered, r

\* An event goes behind the others in the queue, or it is dropped.
LEMMA EventAdded ==
    ASSUME script \in Scripts, NEW q, NEW k, NEW m, Answered(q, k, m), FramedAs(q)',
           k \in 0..Len(script) - 1, script[k + 1].type \in WorkerTypes, Progress(k + 1)',
           QueueEvent(EventFor(script[k + 1])), dropped \subseteq 1..attempts,
           brokerEventQueue \in Seq(EventsOf(script)), UNCHANGED <<script, subscribed>>
    PROVE  Answered(q, k + 1, m)' /\ dropped' \subseteq 1..attempts'
<1> DEFINE w == FlatTo(Kept, k)
           r == script[k + 1]
           v == EventFor(r)
           t == Append(brokerEventQueue, v)
           u == Append(w, r)
<1>1. /\ attempts = Events(k) /\ NetworkDone(q, script, k)
      /\ WorkerDone(q, w, m, brokerEventQueue, subscribed)
  BY DEF Answered
<1>2. /\ k + 1 \in 0..Len(script) /\ k \in 0..Len(script) /\ k \in Nat /\ k + 1 \in Nat
      /\ k + 1 \in DOMAIN script
  BY ScriptTyped
<1>3. Events(k) \in Nat /\ Events(k + 1) = Events(k) + 1 /\ attempts' = Events(k + 1)
  BY <1>1, <1>2, EventsGrow DEF QueueEvent
<1>4. NetworkDone(q, script, k + 1)'
  <2>1. r.type # "pingreq"
    BY DEF WorkerTypes
  <2>2. NetworkDone(q, script, k + 1)
    BY <1>1, <2>1, PingsGrow
  <2> QED
    BY <2>2
<1>5. w \in Seq(WorkerRequests) /\ r \in WorkerRequests
  <2>1. w \in Seq(WorkerRequests)
    BY <1>2, KeptTyped
  <2>2. r \in Range(script)
    BY <1>2 DEF Range
  <2> QED
    BY <2>1, <2>2 DEF WorkerRequests
<1>6. Events(k + 1) \notin dropped
  BY <1>1, <1>3
<1>7. CASE brokerEventQueue' = t /\ UNCHANGED dropped
  <2>1. FlatTo(Kept, k + 1) = u
    BY <1>6, KeptGrows
  <2>2. FlatTo(Kept, k + 1)' = u /\ Events(k + 1)' = Events(k + 1)
    BY <1>2, <1>7, <2>1, KeptSame
  <2>3. v \in EventsOf(script)
    BY <1>2 DEF EventsOf
  <2> DEFINE b == brokerEventQueue
  <2>4. /\ b \in Seq(EventsOf(script)) /\ Len(t) = Len(b) + 1 /\ t[Len(b) + 1] = v
        /\ \A i \in 1..Len(b) : t[i] = b[i]
    BY <2>3, AppendProperties
  <2>5. /\ Len(u) = Len(w) + 1 /\ u[Len(w) + 1] = r /\ \A i \in 1..Len(w) : u[i] = w[i]
    BY <1>5, AppendProperties
  <2>6. Len(b) \in Nat /\ Len(w) \in Nat
    BY <1>5, <2>4
  <2>7. /\ m \in 0..Len(w) /\ Len(b) = Len(w) - m
        /\ \A i \in 1..Len(b) : b[i] = EventFor(w[m + i])
        /\ Only(Bytes \ NetworkHeaders, q) = FlatTo(ReplyParts(w), m)
        /\ \A f : f \in subscribed
                    <=> \E j \in 1..m : w[j].type = "subscribe" /\ f \in Range(w[j].filters)
    BY <1>1 DEF WorkerDone
  <2>8. FlatTo(ReplyParts(u), m) = FlatTo(ReplyParts(w), m)
    BY <1>5, <2>7, RepliesAppended
  <2> HIDE DEF w, u, t, b, v
  <2>9. ASSUME NEW i \in 1..Len(t) PROVE t[i] = EventFor(u[m + i])
    <3>1. CASE i \in 1..Len(b)
      <4>1. m + i \in 1..Len(w)
        BY <2>6, <2>7, <3>1
      <4> QED
        BY <2>4, <2>5, <2>7, <3>1, <4>1
    <3>2. CASE i = Len(b) + 1
      <4>1. m + i = Len(w) + 1
        BY <2>6, <2>7, <3>2
      <4> QED
        BY <2>4, <2>5, <3>2, <4>1 DEF v
    <3> QED
      BY <2>4, <2>6, <3>1, <3>2
  <2>10. \A j \in 1..m : u[j] = w[j]
    BY <2>5, <2>6, <2>7
  <2>11. m \in 0..Len(u) /\ Len(t) = Len(u) - m
    BY <2>4, <2>5, <2>6, <2>7
  <2>12. WorkerDone(q, u, m, t, subscribed)
    BY <2>7, <2>8, <2>9, <2>10, <2>11 DEF WorkerDone
  <2>13. WorkerDone(q, FlatTo(Kept, k + 1), m, brokerEventQueue, subscribed)'
    BY <1>7, <2>2, <2>12
  <2>14. dropped' \subseteq 1..attempts'
    BY <1>1, <1>3, <1>7
  <2> QED
    BY <1>3, <1>4, <2>2, <2>13, <2>14 DEF Answered
<1>8. CASE UNCHANGED brokerEventQueue /\ dropped' = dropped \cup {attempts'}
  <2>1. FlatTo(Kept, k)' = w /\ Events(k + 1)' = Events(k + 1)
    <3>1. \A x \in 0..Events(k) : x \in dropped' <=> x \in dropped
      BY <1>3, <1>8
    <3> QED
      BY <1>2, <3>1, KeptSame
  <2>2. FlatTo(Kept', k + 1) = FlatTo(Kept', k)
    <3>1. (script \in Scripts => Single(Kept, Len(script)))'
      BY KeptTyped, PTL
    <3>2. Single(Kept', Len(script))
      BY <3>1
    <3>3. script' = script /\ Events(k + 1)' \in dropped'
      BY <1>3, <1>8, <2>1
    <3>4. Kept'[k + 1] = <<>>
      BY <1>2, <3>3 DEF Kept
    <3> QED
      BY <3>2, <3>4, SingleGrows
  <2>3. FlatTo(Kept, k + 1)' = w
    BY <2>1, <2>2 DEF FlatTo, Flattening
  <2>4. WorkerDone(q, FlatTo(Kept, k + 1), m, brokerEventQueue, subscribed)'
    BY <1>1, <1>8, <2>3
  <2>5. dropped' \subseteq 1..attempts'
    <3>1. attempts \in Nat /\ attempts' = attempts + 1
      BY <1>1, <1>3
    <3>2. ASSUME NEW x \in dropped' PROVE x \in 1..attempts'
      BY <1>8, <3>1, <3>2
    <3> QED
      BY <3>2
  <2> QED
    BY <1>3, <1>4, <2>1, <2>4, <2>5 DEF Answered
<1> QED
  BY <1>7, <1>8 DEF QueueEvent

\* The head of the queue is the first request that has not been answered.
LEMMA HeadWaits ==
    ASSUME script \in Scripts, NEW q, NEW k, NEW m, Answered(q, k, m),
           brokerEventQueue \in Seq(EventsOf(script)), brokerEventQueue # <<>>
    PROVE  LET w == FlatTo(Kept, k)
               r == w[m + 1]
           IN  /\ m \in 0..Len(w) - 1 /\ m + 1 \in 1..Len(w) /\ r \in WorkerRequests
               /\ Head(brokerEventQueue) = EventFor(r)
               /\ r.type = "subscribe"
                  => ReplyParts(w)[m + 1] = <<Frame(SUBACK, TwoBytes(r.id) \o <<0>>)>>
               /\ r.type # "subscribe"
                  => ReplyParts(w)[m + 1] = IF r.topic \in subscribed
                                         THEN <<Frame(PUBLISH, Text(r.topic) \o r.payload)>>
                                         ELSE <<>>
<1> DEFINE w == FlatTo(Kept, k)
           r == w[m + 1]
           b == brokerEventQueue
<1>1. /\ WorkerDone(q, w, m, b, subscribed) /\ k \in 0..Len(script)
  BY DEF Answered, Progress
<1>2. w \in Seq(WorkerRequests)
  BY <1>1, KeptTyped
<1> HIDE DEF w
<1>3. Len(b) \in Nat \ {0} /\ b[1] = Head(b) /\ Len(w) \in Nat /\ DOMAIN w = 1..Len(w)
  BY <1>2
<1>4. /\ m \in 0..Len(w) /\ Len(b) = Len(w) - m
      /\ \A i \in 1..Len(b) : b[i] = EventFor(w[m + i])
      /\ \A t : t \in subscribed
                  <=> \E j \in 1..m : w[j].type = "subscribe" /\ t \in Range(w[j].filters)
  BY <1>1 DEF WorkerDone
<1> HIDE DEF b
<1>5. m \in 0..Len(w) - 1 /\ m + 1 \in 1..Len(w) /\ 1 \in 1..Len(b) /\ (m + 1) - 1 = m
  <2>1. m \in 0..Len(w) /\ Len(b) = Len(w) - m
    BY <1>4
  <2>2. Len(w) \in Nat /\ Len(b) \in Nat /\ Len(b) # 0
    BY <1>3
  <2> QED
    BY <2>1, <2>2
<1>6. r \in WorkerRequests /\ Head(b) = EventFor(r)
  <2>1. r \in WorkerRequests
    BY <1>2, <1>5
  <2>2. b[1] = EventFor(w[m + 1])
    BY <1>4, <1>5
  <2> QED
    BY <1>3, <2>1, <2>2
<1>7. r.type = "subscribe" => ReplyParts(w)[m + 1] = <<Frame(SUBACK, TwoBytes(r.id) \o <<0>>)>>
  BY <1>3, <1>5 DEF ReplyParts
<1>8. SubscribedBefore(w, m + 1) <=> r.topic \in subscribed
  BY <1>4, <1>5 DEF SubscribedBefore
<1>9. r.type # "subscribe"
      => ReplyParts(w)[m + 1] = IF r.topic \in subscribed
                             THEN <<Frame(PUBLISH, Text(r.topic) \o r.payload)>> ELSE <<>>
  BY <1>3, <1>5, <1>8 DEF ReplyParts
<1> QED
  BY <1>5, <1>6, <1>7, <1>9 DEF w, b

\* The worker has answered one more request.
LEMMA ReplySent ==
    ASSUME script \in Scripts, NEW q, NEW k, NEW m, Answered(q, k, m),
           brokerEventQueue \in Seq(EventsOf(script)), brokerEventQueue # <<>>,
           brokerEventQueue' = Tail(brokerEventQueue),
           UNCHANGED <<script, packets, attempts, dropped>>,
           NEW g, FramedAs(g)', Only(NetworkHeaders, g) = Only(NetworkHeaders, q),
           Only(Bytes \ NetworkHeaders, g) = FlatTo(ReplyParts(FlatTo(Kept, k)), m + 1),
           \A t : t \in subscribed'
                    <=> \/ t \in subscribed
                        \/ /\ FlatTo(Kept, k)[m + 1].type = "subscribe"
                           /\ t \in Range(FlatTo(Kept, k)[m + 1].filters)
    PROVE  Answered(g, k, m + 1)'
<1> DEFINE w == FlatTo(Kept, k)
           r == w[m + 1]
           b == brokerEventQueue
           u == Tail(b)
<1>1. /\ WorkerDone(q, w, m, b, subscribed) /\ k \in 0..Len(script) /\ Progress(k)
      /\ NetworkDone(q, script, k) /\ attempts = Events(k)
  BY DEF Answered, Progress
<1>2. Progress(k)'
  BY <1>1 DEF Progress, FramesIn
<1>3. k \in Nat /\ FlatTo(Kept, k)' = w /\ Events(k)' = Events(k)
  BY <1>1, ScriptTyped, KeptSame
<1>4. NetworkDone(g, script, k)'
  BY <1>1 DEF NetworkDone
<1>5. m \in 0..Len(w) - 1 /\ Len(w) \in Nat /\ Len(b) \in Nat
  <2>1. m \in 0..Len(w) - 1
    BY HeadWaits
  <2>2. w \in Seq(WorkerRequests)
    BY <1>1, KeptTyped
  <2> QED
    BY <2>1, <2>2
<1>6. Len(u) = Len(b) - 1 /\ \A i \in 1..Len(u) : u[i] = b[i + 1]
  OBVIOUS
<1>7. /\ Len(b) = Len(w) - m /\ \A i \in 1..Len(b) : b[i] = EventFor(w[m + i])
      /\ \A t : t \in subscribed
                  <=> \E j \in 1..m : w[j].type = "subscribe" /\ t \in Range(w[j].filters)
  BY <1>1 DEF WorkerDone
<1> HIDE DEF w, b, u
<1>8. ASSUME NEW i \in 1..Len(u) PROVE u[i] = EventFor(w[(m + 1) + i])
  <2>1. i + 1 \in 1..Len(b) /\ m + (i + 1) = (m + 1) + i
    <3>1. Len(u) = Len(b) - 1 /\ Len(b) \in Nat /\ m \in Nat /\ i \in Nat
      BY <1>5, <1>6
    <3> QED
      BY <3>1
  <2> QED
    BY <1>6, <1>7, <2>1
<1>9. \A t : t \in subscribed'
               <=> \E j \in 1..m + 1 : w[j].type = "subscribe" /\ t \in Range(w[j].filters)
  <2>1. \A j : j \in 1..m + 1 <=> j \in 1..m \/ j = m + 1
    BY <1>5
  <2> QED
    BY <1>7, <2>1 DEF w
<1>10. m + 1 \in 0..Len(w) /\ Len(u) = Len(w) - (m + 1)
  BY <1>5, <1>6, <1>7
<1>11. WorkerDone(g, w, m + 1, u, subscribed')
  BY <1>8, <1>9, <1>10 DEF WorkerDone, w
<1>12. WorkerDone(g, FlatTo(Kept, k), m + 1, brokerEventQueue, subscribed)'
  BY <1>3, <1>11 DEF u, b
<1> QED
  BY <1>1, <1>2, <1>3, <1>4, <1>12 DEF Answered

-----------------------------------------------------------------------------
(* Every step answers what it takes.                                       *)

\* The request that a packet with a header that the broker serves was made of.
LEMMA ServedRequest ==
    ASSUME RequestInv, RequestInv', DeliverPacket, UNCHANGED script, NEW k, Progress(k),
           fixedHeader # 0
    PROVE  /\ k \in 0..Len(script) - 1 /\ Progress(k + 1)'
           /\ WellFormed(script[k + 1]) /\ script[k + 1].type # "overlong"
           /\ [header |-> fixedHeader, body |-> remainingPacket] = FrameOf(script[k + 1])
           /\ FrameOf(script[k + 1]).header = fixedHeader
<1> DEFINE f == [header |-> fixedHeader, body |-> remainingPacket]
<1>1. /\ k \in 0..Len(script) - 1 /\ Progress(k + 1)' /\ script[k + 1].type # "overlong"
      /\ f = FrameOf(script[k + 1])
  BY NextRequest
<1>2. WellFormed(script[k + 1])
  <2>1. script \in Scripts
    BY DEF RequestInv, WireInv
  <2>2. k + 1 \in 1..Len(script)
    BY <1>1, <2>1, ScriptTyped
  <2> QED
    BY <2>1, <2>2, ScriptTyped
<1>3. f.header = fixedHeader
  OBVIOUS
<1> HIDE DEF f
<1> QED
  BY <1>1, <1>2, <1>3 DEF f

\* The CONNACK answers the first request.
LEMMA ConnectExact ==
    ASSUME script \in Scripts, WithinWord, RequestInv, RequestInv', ConnectInv,
           HandshakeFirst, connected, HandleConnect
    PROVE  Answered(Append(<<>>, Frame(CONNECTACK, <<0, 0>>)), 1, 0)'
<1> DEFINE c == Frame(CONNECTACK, <<0, 0>>)
           none == <<>>
           q == Append(none, c)
<1>1. /\ fixedHeader = CONNECT /\ clientState = "pending" /\ DeliverPacket
      /\ UNCHANGED <<script, brokerEventQueue, subscribed, attempts, dropped>>
  BY DEF HandleConnect, Handle
<1>2. packets = <<>> /\ brokerEventQueue = <<>> /\ subscribed = {} /\ attempts = 0
  BY <1>1 DEF ConnectInv, HandshakeFirst
<1>3. Progress(0) /\ 0 + 1 = 1
  <2>1. Len(packets) = Len(FlatTo(FramesIn(script), 0))
    BY <1>2 DEF FlatTo
  <2>2. 0 \in 0..Len(script)
    BY ScriptTyped
  <2> QED
    BY <2>1, <2>2 DEF Progress
<1>4. fixedHeader # 0
  BY <1>1, HeaderBytes
<1>5. /\ 0 \in 0..Len(script) - 1 /\ Progress(1)' /\ WellFormed(script[1])
      /\ script[1].type # "overlong" /\ FrameOf(script[1]).header = CONNECT
  <2>1. /\ 0 \in 0..Len(script) - 1 /\ Progress(0 + 1)' /\ WellFormed(script[0 + 1])
        /\ script[0 + 1].type # "overlong" /\ FrameOf(script[0 + 1]).header = fixedHeader
    BY <1>1, <1>3, <1>4, ServedRequest
  <2> QED
    BY <1>1, <1>3, <2>1
<1>6. script[1].type = "connect"
  BY <1>5, RequestOfHeader
<1>7. FramedAs(q)'
  BY FirstAnswer
<1>8. c.header = CONNECTACK /\ c.header \in NetworkHeaders /\ c.header \notin Bytes \ NetworkHeaders
  BY AnswerHeaders DEF Frame
<1>9. /\ Only(NetworkHeaders, q) = <<c>> /\ Only(Bytes \ NetworkHeaders, q) = <<>>
  <2>1. none \in Seq({c}) /\ c \in {c}
    OBVIOUS
  <2> HIDE DEF none, c
  <2>2. /\ Only(NetworkHeaders, q) = Append(Only(NetworkHeaders, none), c)
        /\ Only(Bytes \ NetworkHeaders, q) = Only(Bytes \ NetworkHeaders, none)
        /\ \A h : Only(h, <<>>) = <<>>
    BY <1>8, <2>1, OnlyAppended, Zenon
  <2>3. none = <<>> /\ Append(<<>>, c) = <<c>>
    BY DEF none
  <2> QED
    BY <2>2, <2>3
<1> HIDE DEF q
<1>10. NetworkDone(q, script, 0)
  <2>1. <<c>> = <<c>> \o <<>>
    OBVIOUS
  <2>2. FlatTo(PingAnswers(script), 0) = <<>>
    BY DEF FlatTo
  <2> QED
    BY <1>9, <2>1, <2>2 DEF NetworkDone
<1> HIDE DEF c
<1>11. NetworkDone(q, script, 1)'
  <2>1. NetworkDone(q, script, 0 + 1)
    BY <1>3, <1>5, <1>6, <1>10, PingsGrow
  <2> QED
    BY <1>1, <1>3, <2>1
<1>12. script[1].type \notin WorkerTypes
  BY <1>6 DEF WorkerTypes
<1>13. FlatTo(Kept, 1) = <<>> /\ Events(1) = 0
  <2>1. FlatTo(Kept, 0 + 1) = FlatTo(Kept, 0) /\ Events(0 + 1) = Events(0) /\ Events(0) = 0
    BY <1>3, <1>5, <1>12, KeptGrows, EventsGrow
  <2> QED
    BY <1>3, <2>1 DEF FlatTo
<1>14. FlatTo(Kept, 1)' = <<>> /\ Events(1)' = 0
  <2>1. 1 \in 0..Len(script) /\ 1 \in Nat
    BY <1>5, ScriptTyped
  <2> QED
    BY <1>1, <1>13, <2>1, KeptSame
<1>15. WorkerDone(q, <<>>, 0, <<>>, {})
  <2>1. Only(Bytes \ NetworkHeaders, q) = FlatTo(ReplyParts(<<>>), 0)
    BY <1>9 DEF FlatTo
  <2> QED
    BY <2>1 DEF WorkerDone
<1>16. WorkerDone(q, FlatTo(Kept, 1), 0, brokerEventQueue, subscribed)'
  BY <1>1, <1>2, <1>14, <1>15
<1>17. attempts' = Events(1)'
  BY <1>1, <1>2, <1>14
<1> QED
  BY <1>5, <1>7, <1>11, <1>16, <1>17 DEF Answered, q, c, none

\* A PINGREQ is answered by the network task.
LEMMA PingExact ==
    ASSUME script \in Scripts, WithinWord, RequestInv, RequestInv', connected,
           NEW q, NEW k, NEW m, Answered(q, k, m), HandlePing
    PROVE  Answered(Append(q, Frame(PINGRESP, <<>>)), k + 1, m)'
<1> DEFINE f == Frame(PINGRESP, <<>>)
<1>1. /\ fixedHeader = PINGREQ /\ clientState = "connected" /\ DeliverPacket
      /\ SendPacket(BuildPingRes)
      /\ UNCHANGED <<script, connected, clientState, brokerEventQueue, subscribed, attempts,
                     dropped>>
  BY DEF HandlePing, Handle
<1>2. FramedAs(q) /\ Progress(k)
  BY DEF Answered
<1>3. fixedHeader # 0
  BY <1>1, HeaderBytes
<1>4. /\ k \in 0..Len(script) - 1 /\ Progress(k + 1)' /\ WellFormed(script[k + 1])
      /\ script[k + 1].type # "overlong" /\ FrameOf(script[k + 1]).header = PINGREQ
  BY <1>1, <1>2, <1>3, ServedRequest
<1>5. script[k + 1].type = "pingreq"
  BY <1>4, RequestOfHeader
<1>6. f \in SentAnswers(script) /\ f.header # CONNECTACK
  BY OtherAnswers DEF SentAnswers, Frame
<1>7. BuildPingRes = OnWire(f) /\ Sendable(f)
  BY FixedAnswers
<1>8. f \in Packets /\ q \in Seq(Packets)
  BY <1>2, <1>7, FramesTyped DEF Sendable
<1> HIDE DEF f
<1>9. FramedAs(Append(q, f))'
  BY <1>1, <1>2, <1>6, <1>7, FrameSent
<1>10. f = Frame(PINGRESP, <<>>)
  BY DEF f
<1> QED
  BY <1>1, <1>4, <1>5, <1>8, <1>9, <1>10, PingAnswered DEF f

\* A request for the worker goes into the queue or is dropped.
LEMMA EventExact ==
    ASSUME script \in Scripts, RequestInv, RequestInv', SessionTypeOK,
           brokerEventQueue \in Seq(EventsOf(script)),
           NEW q, NEW k, NEW m, Answered(q, k, m), HandlePublish \/ HandleSubscribe
    PROVE  Answered(q, k + 1, m)'
<1>1. /\ fixedHeader \in {PUBLISH, PUBLISHACKED, SUBSCRIBE} /\ DeliverPacket
      /\ UNCHANGED <<script, connected, clientState, outgoing, subscribed>>
  BY DEF HandlePublish, HandleSubscribe, Handle
<1>2. /\ fixedHeader = SUBSCRIBE =>
             QueueEvent([type |-> "subscribe", message |-> DecodeSubscribe])
      /\ fixedHeader # SUBSCRIBE =>
             QueueEvent([type |-> "publish", message |-> DecodePublish])
  <2>1. SUBSCRIBE \notin {PUBLISH, PUBLISHACKED}
    BY HeaderBytes
  <2> QED
    BY <2>1 DEF HandlePublish, HandleSubscribe
<1>3. FramedAs(q) /\ Progress(k)
  BY DEF Answered
<1>4. FramedAs(q)'
  BY <1>1, <1>3 DEF FramedAs, SentAnswers
<1>5. fixedHeader # 0
  BY <1>1, HeaderBytes
<1>6. /\ k \in 0..Len(script) - 1 /\ Progress(k + 1)' /\ WellFormed(script[k + 1])
      /\ script[k + 1].type # "overlong"
      /\ [header |-> fixedHeader, body |-> remainingPacket] = FrameOf(script[k + 1])
  BY <1>1, <1>3, <1>5, ServedRequest
<1>7. remainingLengt = Len(remainingPacket) /\ remainingPacket \in Seq(Bytes)
  BY <1>1, NextPacket
<1>8. script[k + 1].type \in WorkerTypes /\ QueueEvent(EventFor(script[k + 1]))
  BY <1>1, <1>2, <1>6, <1>7, EventDecoded
<1>9. dropped \subseteq 1..attempts
  BY DEF SessionTypeOK
<1> QED
  BY <1>1, <1>4, <1>6, <1>8, <1>9, EventAdded

\* A packet that the broker only takes note of.
LEMMA OtherExact ==
    ASSUME script \in Scripts, RequestInv, RequestInv',
           NEW q, NEW k, NEW m, Answered(q, k, m), HandleOther
    PROVE  \E j : Answered(q, j, m)'
<1>1. /\ fixedHeader \notin {PINGREQ, PUBLISH, PUBLISHACKED, SUBSCRIBE} /\ DeliverPacket
      /\ UNCHANGED <<script, connected, clientState, outgoing, attempts, dropped,
                     brokerEventQueue, subscribed>>
  BY DEF HandleOther, Handle
<1>2. Progress(k)
  BY DEF Answered
<1>3. /\ k \in 0..Len(script) - 1
      /\ \/ /\ script[k + 1].type # "overlong"
            /\ [header |-> fixedHeader, body |-> remainingPacket] = FrameOf(script[k + 1])
            /\ Progress(k + 1)'
         \/ /\ script[k + 1].type = "overlong" /\ fixedHeader = 0
            /\ Progress(k)' \/ Progress(k + 1)'
  BY <1>1, <1>2, NextRequest
<1>4. script[k + 1].type \notin WorkerTypes \cup {"pingreq"}
  <2>1. CASE script[k + 1].type = "overlong"
    BY <2>1 DEF WorkerTypes
  <2>2. CASE script[k + 1].type # "overlong"
    <3> DEFINE f == [header |-> fixedHeader, body |-> remainingPacket]
    <3>1. f = FrameOf(script[k + 1]) /\ f.header = fixedHeader
      BY <1>3, <2>2
    <3> HIDE DEF f
    <3>2. FrameOf(script[k + 1]).header \notin {PINGREQ, PUBLISH, PUBLISHACKED, SUBSCRIBE}
      BY <1>1, <3>1
    <3>3. WellFormed(script[k + 1])
      <4>1. k + 1 \in 1..Len(script)
        BY <1>3, ScriptTyped
      <4> QED
        BY <4>1, ScriptTyped
    <3> QED
      BY <2>2, <3>2, <3>3, RequestOfHeader DEF WorkerTypes
  <2> QED
    BY <2>1, <2>2
<1>5. PICK j \in {k, k + 1} : Progress(j)'
  BY <1>3
<1>6. Answered(q, j, m)'
  BY <1>1, <1>3, <1>4, <1>5, NothingMade
<1> QED
  BY <1>6

\* An answer of the worker goes behind the others.
LEMMA ReplyFramed ==
    ASSUME script \in Scripts, WithinWord, NEW q, FramedAs(q), connected,
           clientState = "connected", UNCHANGED <<script, connected, clientState>>,
           NEW f \in SentAnswers(script), f.header \in {SUBACK, PUBLISH}, SendPacket(OnWire(f))
    PROVE  /\ FramedAs(Append(q, f))'
           /\ Only(NetworkHeaders, Append(q, f)) = Only(NetworkHeaders, q)
           /\ Only(Bytes \ NetworkHeaders, Append(q, f))
              = Append(Only(Bytes \ NetworkHeaders, q), f)
<1>1. f.header # CONNECTACK
  BY OtherAnswers
<1>2. FramedAs(Append(q, f))'
  BY <1>1, FrameSent
<1>3. q \in Seq(Packets) /\ f \in Packets
  BY FramesTyped, AnswersSendable DEF Sendable
<1>4. f.header \notin NetworkHeaders /\ f.header \in Bytes \ NetworkHeaders
  BY AnswerHeaders
<1> QED
  BY <1>2, <1>3, <1>4, OnlyAppended, Zenon

\* What the worker has sent are its replies to the first requests.
LEMMA RepliesSoFar ==
    ASSUME script \in Scripts, NEW q, NEW k, NEW m, Answered(q, k, m)
    PROVE  /\ Single(ReplyParts(FlatTo(Kept, k)), Len(FlatTo(Kept, k)))
           /\ Only(Bytes \ NetworkHeaders, q) = FlatTo(ReplyParts(FlatTo(Kept, k)), m)
<1> DEFINE w == FlatTo(Kept, k)
<1>1. Only(Bytes \ NetworkHeaders, q) = FlatTo(ReplyParts(w), m) /\ k \in 0..Len(script)
  BY DEF Answered, WorkerDone, Progress
<1>2. w \in Seq(WorkerRequests)
  BY <1>1, KeptTyped
<1>3. Single(ReplyParts(w), Len(w))
  BY <1>2, PartsSingle, Zenon
<1> QED
  BY <1>1, <1>3

\* A SUBSCRIBE is answered.
LEMMA SubscribeExact ==
    ASSUME script \in Scripts, WithinWord, connected, clientState = "connected",
           brokerEventQueue \in Seq(EventsOf(script)),
           NEW q, NEW k, NEW m, Answered(q, k, m), ProcessSubscribe
    PROVE  \E g : Answered(g, k, m + 1)'
<1>0. PICK w, r, f : /\ w = FlatTo(Kept, k) /\ r = w[m + 1]
                     /\ f = Frame(SUBACK, TwoBytes(r.id) \o <<0>>)
  OBVIOUS
<1> DEFINE g == Append(q, f)
<1>1. /\ brokerEventQueue # <<>> /\ Head(brokerEventQueue).type = "subscribe"
      /\ brokerEventQueue' = Tail(brokerEventQueue)
      /\ UNCHANGED <<script, connected, clientState, packets, attempts, dropped>>
      /\ subscribed' = subscribed \cup Range(HeadMessage.topics)
      /\ SendPacket(BuildSubAck(HeadMessage.messageId))
  BY DEF ProcessSubscribe, TakeEvent, vars
<1>2. /\ m \in 0..Len(w) - 1 /\ r \in WorkerRequests /\ Head(brokerEventQueue) = EventFor(r)
      /\ r.type = "subscribe" => ReplyParts(w)[m + 1] = <<f>>
  BY <1>0, <1>1, HeadWaits
<1>3. r.type = "subscribe" /\ HeadMessage.messageId = r.id /\ HeadMessage.topics = r.filters
  BY <1>1, <1>2 DEF EventFor, HeadMessage
<1>4. r \in Range(script) /\ r.id \in 0..Word - 1
  BY <1>2, <1>3, RequestTyped DEF WellFormed, WorkerRequests
<1>5. /\ f \in SentAnswers(script) /\ f.header = SUBACK
      /\ BuildSubAck(HeadMessage.messageId) = OnWire(f)
  <2>1. BuildSubAck(r.id) = OnWire(f)
    BY <1>0, <1>4, FixedAnswers
  <2>2. f \in SentAnswers(script)
    BY <1>0, <1>3, <1>4 DEF SentAnswers
  <2>3. f.header = SUBACK
    BY <1>0 DEF Frame
  <2> QED
    BY <1>3, <2>1, <2>2, <2>3
<1>6. \A t : t \in subscribed'
               <=> t \in subscribed \/ (r.type = "subscribe" /\ t \in Range(r.filters))
  BY <1>1, <1>3
<1>7. FlatTo(ReplyParts(w), m + 1) = Append(Only(Bytes \ NetworkHeaders, q), f)
  <2>1. /\ Single(ReplyParts(w), Len(w))
        /\ Only(Bytes \ NetworkHeaders, q) = FlatTo(ReplyParts(w), m)
    BY <1>0, RepliesSoFar
  <2>2. ReplyParts(w)[m + 1] # <<>> /\ ReplyParts(w)[m + 1][1] = f
    BY <1>2, <1>3
  <2> QED
    BY <1>0, <1>2, <2>1, <2>2, SingleGrows
<1>8. FramedAs(q)
  BY DEF Answered
<1>9. /\ FramedAs(g)' /\ Only(NetworkHeaders, g) = Only(NetworkHeaders, q)
      /\ Only(Bytes \ NetworkHeaders, g) = FlatTo(ReplyParts(w), m + 1)
  BY <1>1, <1>5, <1>7, <1>8, ReplyFramed
<1> HIDE DEF g
<1>10. Answered(g, k, m + 1)'
  BY <1>0, <1>1, <1>6, <1>9, ReplySent
<1> QED
  BY <1>10

\* A PUBLISH is relayed to a client that has asked for its topic, and only then.
LEMMA PublishExact ==
    ASSUME script \in Scripts, WithinWord, connected, clientState = "connected", FiltersAsked,
           brokerEventQueue \in Seq(EventsOf(script)),
           NEW q, NEW k, NEW m, Answered(q, k, m), ProcessPublish
    PROVE  \E g : Answered(g, k, m + 1)'
<1>0. PICK w, r, f : /\ w = FlatTo(Kept, k) /\ r = w[m + 1]
                     /\ f = Frame(PUBLISH, Text(r.topic) \o r.payload)
  OBVIOUS
<1> DEFINE o == HeadMessage
           g == Append(q, f)
<1>1. /\ brokerEventQueue # <<>> /\ Head(brokerEventQueue).type = "publish"
      /\ brokerEventQueue' = Tail(brokerEventQueue)
      /\ UNCHANGED <<script, connected, clientState, packets, attempts, dropped, subscribed>>
      /\ IF o.topic \in subscribed THEN SendPacket(BuildPublish(o)) ELSE UNCHANGED outgoing
  BY DEF ProcessPublish, TakeEvent, vars
<1>2. /\ m \in 0..Len(w) - 1 /\ r \in WorkerRequests /\ Head(brokerEventQueue) = EventFor(r)
      /\ r.type # "subscribe"
         => ReplyParts(w)[m + 1] = IF r.topic \in subscribed THEN <<f>> ELSE <<>>
  BY <1>0, <1>1, HeadWaits
<1>3. /\ r.type \in {"publish", "publishAcked"} /\ r.type # "subscribe"
      /\ o.topic = r.topic /\ o.payload = r.payload /\ r \in Range(script)
  BY <1>1, <1>2 DEF EventFor, HeadMessage, WorkerTypes, WorkerRequests
<1>4. \A t : t \in subscribed'
               <=> t \in subscribed \/ (r.type = "subscribe" /\ t \in Range(r.filters))
  BY <1>1, <1>3
<1>5. FramedAs(q)
  BY DEF Answered
<1> HIDE DEF o
<1>6. CASE r.topic \in subscribed
  <2>1. r.topic \in Texts /\ r.payload \in Seq(Bytes)
    BY <1>3, RequestTyped DEF WellFormed
  <2>2. Len(r.topic) + Len(r.payload) < Word
    BY <1>3, RequestTyped DEF WithinWord
  <2>3. BuildPublish(o) = OnWire(f)
    <3>1. /\ o.topic \in Texts /\ o.payload \in Seq(Bytes)
          /\ Len(o.topic) + Len(o.payload) < Word
      BY <1>3, <2>1, <2>2
    <3>2. BuildPublish(o) = OnWire(Frame(PUBLISH, Text(o.topic) \o o.payload))
      BY <3>1, PublishEncoded
    <3> QED
      BY <1>0, <1>3, <3>2
  <2>4. f \in SentAnswers(script) /\ f.header = PUBLISH
    <3>1. PICK i \in 1..Len(script) : /\ script[i].type = "subscribe"
                                      /\ r.topic \in Range(script[i].filters)
      BY <1>6 DEF FiltersAsked
    <3>2. script[i] \in Range(script)
      BY ScriptTyped DEF Range
    <3>3. \E sub \in Range(script) : sub.type = "subscribe" /\ r.topic \in Range(sub.filters)
      BY <3>1, <3>2
    <3>4. f \in SentAnswers(script)
      BY <1>0, <1>3, <3>3 DEF SentAnswers
    <3> QED
      BY <1>0, <3>4 DEF Frame
  <2>5. SendPacket(OnWire(f)) /\ ReplyParts(w)[m + 1] = <<f>>
    BY <1>1, <1>2, <1>3, <1>6, <2>3
  <2>6. FlatTo(ReplyParts(w), m + 1) = Append(Only(Bytes \ NetworkHeaders, q), f)
    <3>1. /\ Single(ReplyParts(w), Len(w))
          /\ Only(Bytes \ NetworkHeaders, q) = FlatTo(ReplyParts(w), m)
      BY <1>0, RepliesSoFar
    <3>2. ReplyParts(w)[m + 1] # <<>> /\ ReplyParts(w)[m + 1][1] = f
      BY <2>5
    <3> QED
      BY <1>0, <1>2, <3>1, <3>2, SingleGrows
  <2>7. /\ FramedAs(g)' /\ Only(NetworkHeaders, g) = Only(NetworkHeaders, q)
        /\ Only(Bytes \ NetworkHeaders, g) = FlatTo(ReplyParts(w), m + 1)
    BY <1>1, <1>5, <2>4, <2>5, <2>6, ReplyFramed
  <2> HIDE DEF g
  <2>8. Answered(g, k, m + 1)'
    BY <1>0, <1>1, <1>4, <2>7, ReplySent
  <2> QED
    BY <2>8
<1>7. CASE r.topic \notin subscribed
  <2>1. UNCHANGED outgoing /\ ReplyParts(w)[m + 1] = <<>>
    BY <1>1, <1>2, <1>3, <1>7
  <2>2. FramedAs(q)'
    BY <1>1, <1>5, <2>1 DEF FramedAs, SentAnswers
  <2>3. Only(Bytes \ NetworkHeaders, q) = FlatTo(ReplyParts(w), m + 1)
    <3>1. /\ Single(ReplyParts(w), Len(w))
          /\ Only(Bytes \ NetworkHeaders, q) = FlatTo(ReplyParts(w), m)
      BY <1>0, RepliesSoFar
    <3> QED
      BY <1>0, <1>2, <2>1, <3>1, SingleGrows
  <2>4. Answered(q, k, m + 1)'
    BY <1>0, <1>1, <1>4, <2>2, <2>3, ReplySent
  <2> QED
    BY <2>4
<1> QED
  BY <1>6, <1>7

\* A client that is connected has been answered what it has asked for so far.
ExactInv ==
    connected /\ clientState = "connected" =>
        script # <<>> /\ \E q, k, m : Answered(q, k, m)

\* Every step answers what it takes, and nothing else.
LEMMA ExactStep ==
    ASSUME script \in Scripts, WithinWord, RequestInv, RequestInv', ConnectInv, HandshakeFirst,
           EventsInv, FiltersAsked, SessionTypeOK, ExactInv,
           [SessionNext]_<<vars, sessionVars>>
    PROVE  ExactInv'
<1>1. brokerEventQueue \in Seq(EventsOf(script))
  BY DEF EventsInv
<1>2. brokerEventQueue # <<>> => clientState = "connected"
  BY DEF HandshakeFirst
<1>3. CASE HandleConnect
  <2>1. UNCHANGED <<script, connected>>
    BY <1>3 DEF HandleConnect, Handle
  <2>2. CASE connected
    <3> DEFINE q == Append(<<>>, Frame(CONNECTACK, <<0, 0>>))
    <3>1. Answered(q, 1, 0)'
      BY <1>3, <2>2, ConnectExact
    <3>2. Progress(1)'
      BY <3>1 DEF Answered
    <3>3. script' # <<>>
      <4>1. script' # <<>> \/ Len(script') = 0
        OBVIOUS
      <4> QED
        BY <3>2, <4>1 DEF Progress
    <3> HIDE DEF q
    <3>4. (\E x, k, m : Answered(x, k, m))'
      BY <3>1
    <3> QED
      BY <3>3, <3>4 DEF ExactInv
  <2> QED
    BY <2>1, <2>2 DEF ExactInv
<1>4. CASE HandleBadHandshake
  BY <1>4 DEF HandleBadHandshake, ExactInv
\* Behind the CONNACK, of a client that is there.
<1>5. SUFFICES ASSUME connected, clientState = "connected", ~HandleConnect, ~HandleBadHandshake
               PROVE  script' # <<>> /\ \E q, k, m : Answered(q, k, m)'
  <2>1. UNCHANGED <<connected, clientState>> \/ HandleConnect \/ HandleBadHandshake
    BY DEF SessionNext, Arrive, ReadOn, HandlePing, HandlePublish, HandleSubscribe, HandleOther,
           ProcessSubscribe, ProcessPublish, TakeEvent, sessionVars
  <2> QED
    BY <1>3, <1>4, <2>1 DEF ExactInv
<1>6. script' # <<>>
  <2>1. UNCHANGED script
    BY DEF SessionNext, Arrive, ReadOn, HandleConnect, HandleBadHandshake, HandlePing,
           HandlePublish, HandleSubscribe, HandleOther, Handle, ProcessSubscribe,
           ProcessPublish, TakeEvent, sessionVars
  <2> QED
    BY <1>5, <2>1 DEF ExactInv
<1>7. PICK q, k, m : Answered(q, k, m)
  BY <1>5 DEF ExactInv
<1>8. CASE HandlePing
  <2>1. Answered(Append(q, Frame(PINGRESP, <<>>)), k + 1, m)'
    BY <1>5, <1>7, <1>8, PingExact
  <2> QED
    BY <1>6, <2>1
<1>9. CASE HandlePublish \/ HandleSubscribe
  <2>1. Answered(q, k + 1, m)'
    BY <1>1, <1>7, <1>9, EventExact
  <2> QED
    BY <1>6, <2>1
<1>10. CASE HandleOther
  <2>1. \E j : Answered(q, j, m)'
    BY <1>7, <1>10, OtherExact
  <2> QED
    BY <1>6, <2>1
<1>11. CASE ProcessSubscribe
  <2>1. \E g : Answered(g, k, m + 1)'
    BY <1>1, <1>5, <1>7, <1>11, SubscribeExact
  <2> QED
    BY <1>6, <2>1
<1>12. CASE ProcessPublish
  <2>1. \E g : Answered(g, k, m + 1)'
    BY <1>1, <1>5, <1>7, <1>12, PublishExact
  <2> QED
    BY <1>6, <2>1
<1>13. CASE (\E n \in ChunkSizes : Arrive(n)) \/ ReadOn \/ UNCHANGED <<vars, sessionVars>>
  <2>1. UNCHANGED <<script, connected, clientState, outgoing, attempts, dropped,
                    brokerEventQueue, subscribed, packets>>
    BY <1>13 DEF Arrive, AddData, ReadOn, ReadFixedHeader, RejectLength, ReadLengthByte,
                 AllocationFails, CopyBody, sessionVars, vars
  <2>2. Progress(k)'
    BY <1>7, <2>1 DEF Answered, Progress, FramesIn
  <2>3. Answered(q, k, m)'
    BY <1>7, <2>1, <2>2, NothingMade
  <2> QED
    BY <1>6, <2>3
<1> QED
  BY <1>5, <1>8, <1>9, <1>10, <1>11, <1>12, <1>13 DEF SessionNext

\* When all that was asked for has come, it was for the last of the requests.
LEMMA AllTaken ==
    ASSUME script \in Scripts, NEW k, Progress(k), packets = Asked(script)
    PROVE  k = Len(script)
<1> DEFINE e == FramesIn(script)
           n == Len(script)
           g == FlatTo(e, k)
           x == e[k + 1]
           h == FlatTo(e, k + 1)
<1>1. e \in Seq(Seq(Packets)) /\ Len(e) = n /\ n \in Nat /\ DOMAIN script = 1..n /\ k \in 0..n
  BY ScriptThere, ScriptTyped DEF Progress
<1> SUFFICES ASSUME k # n PROVE FALSE
  OBVIOUS
<1>2. k \in 0..Len(e) - 1 /\ k \in 0..Len(e) /\ k + 1 \in 1..Len(e) /\ k + 1 \in 0..Len(e)
  BY <1>1
<1>3. Asked(script) = FlatTo(e, n)
  BY <1>1, FlatIsFlattened DEF Asked
<1>4. /\ Len(packets) = Len(g) \/ (script[k + 1].type = "overlong" /\ Len(packets) = Len(g) + 1)
      /\ Len(packets) = Len(FlatTo(e, n))
  BY <1>3 DEF Progress
<1>5. x = Expected(script[k + 1])
  BY <1>1, <1>2 DEF FramesIn
<1> HIDE DEF e, n
<1>6. h = g \o x /\ g \in Seq(Packets) /\ x \in Seq(Packets)
  <2>1. h = g \o x
    BY <1>1, <1>2, FlatGrows
  <2>2. g \in Seq(Packets)
    BY <1>1, <1>2, FlatIsSequence
  <2> QED
    BY <1>1, <1>2, <2>1, <2>2
<1>7. Len(h) <= Len(FlatTo(e, n)) /\ Len(FlatTo(e, n)) \in Nat
  <2>1. n \in 0..Len(e) /\ k + 1 <= n
    BY <1>1, <1>2
  <2>2. Len(h) <= Len(FlatTo(e, n))
    BY <1>1, <1>2, <2>1, FlatLonger
  <2>3. FlatTo(e, n) \in Seq(Packets)
    BY <1>1, <2>1, FlatIsSequence
  <2> QED
    BY <2>2, <2>3
<1>8. Len(x) = IF script[k + 1].type = "overlong" THEN 2 ELSE 1
  BY <1>5 DEF Expected
<1> HIDE DEF g, x, h
<1>9. Len(h) = Len(g) + Len(x) /\ Len(g) \in Nat
  BY <1>6, Joined
<1> QED
  BY <1>4, <1>7, <1>8, <1>9

\* When the client's requests are through, they have been answered.
LEMMA ExactRead ==
    ASSUME script \in Scripts, RequestInv, ConnectInv, HandshakeFirst, WithinWord => ExactInv
    PROVE  AnswersExact
<1> SUFFICES ASSUME Idle, unsent = <<>>, brokerEventQueue = <<>>, ~memoryShort, WithinWord
             PROVE  LET frames  == Frames(outgoing)
                        network == {CONNECTACK, PINGRESP}
                    IN  IF connected /\ script # <<>>
                        THEN /\ Only(network, frames) = NetworkAnswers(script)
                             /\ \E perFilter \in BOOLEAN :
                                   Only(Bytes \ network, frames) = WorkerAnswers(Queued, perFilter)
                             /\ frames[1].header = CONNECTACK
                             /\ outgoing = FlattenSeq([i \in DOMAIN frames |-> OnWire(frames[i])])
                        ELSE outgoing = <<>>
  BY DEF AnswersExact
<1>1. packets = Asked(script)
  BY DeliveredAsked DEF RequestInv, AllPacketsAsked
<1>2. clientState \in {"pending", "connected"}
  BY DEF HandshakeFirst
<1>3. CASE ~connected
  BY <1>3 DEF HandshakeFirst
<1>4. CASE connected /\ clientState = "pending"
  <2>1. packets = <<>> /\ outgoing = <<>>
    BY <1>4 DEF ConnectInv, HandshakeFirst
  <2>2. Progress(0)
    <3>1. Len(packets) = Len(FlatTo(FramesIn(script), 0)) /\ 0 \in 0..Len(script)
      BY <2>1, ScriptTyped DEF FlatTo
    <3> QED
      BY <3>1 DEF Progress
  <2>3. Len(script) = 0
    BY <1>1, <2>2, AllTaken
  <2>4. script = <<>>
    BY <2>3, ScriptsAssumption
  <2> QED
    BY <2>1, <2>4
<1>5. CASE connected /\ clientState = "connected"
  <2>1. script # <<>> /\ \E q, k, m : Answered(q, k, m)
    BY <1>5 DEF ExactInv
  <2>2. PICK q, k, m : Answered(q, k, m)
    BY <2>1
  <2> DEFINE n == Len(script)
             w == FlatTo(Kept, k)
  <2>3. /\ FramedAs(q) /\ Progress(k) /\ NetworkDone(q, script, k)
        /\ WorkerDone(q, w, m, brokerEventQueue, subscribed)
    BY <2>2 DEF Answered
  <2>4. k = n
    BY <1>1, <2>3, AllTaken
  <2>5. /\ outgoing = Wire(q) /\ q # <<>> /\ q \in Seq(Packets)
        /\ \A i \in 1..Len(q) : Sendable(q[i])
        /\ \A i \in 1..Len(q) : q[i].header = CONNECTACK <=> i = 1
    BY <1>5, <2>3, FramesTyped DEF FramedAs
  <2>6. Frames(outgoing) = q
    BY <2>5, WireThere
  <2>7. q[1].header = CONNECTACK
    BY <2>5
  <2>8. outgoing = FlattenSeq([i \in DOMAIN q |-> OnWire(q[i])])
    BY <2>5 DEF Wire, WiresOf
  <2>9. Only(NetworkHeaders, q) = NetworkAnswers(script)
    <3>1. script \in Seq(Range(script))
      BY ScriptsAssumption
    <3>2. FlattenSeq(PingAnswers(script)) = FlatTo(PingAnswers(script), n)
      BY <3>1, PartsSingle, SingleWhole
    <3> QED
      BY <2>3, <2>4, <3>2 DEF NetworkDone, NetworkAnswers
  <2>10. Only(Bytes \ NetworkHeaders, q) = FlattenSeq(ReplyParts(Queued))
    <3>1. Queued = w
      BY <2>4, KeptTyped, SingleWhole DEF Queued
    <3>2. w \in Seq(WorkerRequests)
      BY <2>3, KeptTyped DEF Progress
    <3> HIDE DEF w
    <3>3. m = Len(w) /\ Only(Bytes \ NetworkHeaders, q) = FlatTo(ReplyParts(w), m)
      <4>1. m \in 0..Len(w) /\ Len(brokerEventQueue) = Len(w) - m /\ Len(w) \in Nat
        BY <2>3, <3>2 DEF WorkerDone
      <4>2. Len(brokerEventQueue) = 0
        OBVIOUS
      <4> QED
        BY <2>3, <4>1, <4>2 DEF WorkerDone
    <3>4. FlattenSeq(ReplyParts(w)) = FlatTo(ReplyParts(w), Len(w))
      BY <3>2, PartsSingle, SingleWhole
    <3> QED
      BY <3>1, <3>3, <3>4
  <2>11. \E perFilter \in BOOLEAN :
             Only(Bytes \ NetworkHeaders, q) = WorkerAnswers(Queued, perFilter)
    BY <2>10, PartsAreReplies
  <2> QED
    BY <1>5, <2>1, <2>6, <2>7, <2>8, <2>9, <2>11 DEF NetworkHeaders
<1> QED
  BY <1>2, <1>3, <1>4, <1>5

\* For every base, every script whose topics and payloads fit in 16 bits and whose lengths
\* the reader takes, and every size of the queue: once its requests are through, a client
\* that is still connected has been
\* sent a CONNACK and a PINGRESP for every PINGREQ by the network task, and by the worker
\* a SUBACK with its id for every SUBSCRIBE and a copy of every PUBLISH that it had asked
\* for by then, of those that the queue took, in the order of its requests, and not a byte
\* more; one that was thrown out has been sent nothing (property AnswersExact).
THEOREM AnswersExactCorrect == SessionSpec => []AnswersExact
<1> DEFINE Inv == script \in Scripts /\ (WithinWord => ExactInv)
<1>1. SessionInit => Inv /\ HandshakeFirst /\ ConnectInv
  BY DEF SessionInit, Init, ExactInv, HandshakeFirst, ConnectInv, KeepAliveAgreed
<1>2. ASSUME Inv, RequestInv, RequestInv', ConnectInv, HandshakeFirst, EventsInv, FiltersAsked,
             SessionTypeOK, [SessionNext]_<<vars, sessionVars>>
      PROVE  Inv'
  <2>1. script' = script
    BY <1>2 DEF SessionNext, Arrive, ReadOn, HandleConnect, HandleBadHandshake, HandlePing,
                HandlePublish, HandleSubscribe, HandleOther, Handle, ProcessSubscribe,
                ProcessPublish, TakeEvent, sessionVars
  <2>2. WithinWord' => WithinWord
    BY <2>1 DEF WithinWord
  <2>3. WithinWord => ExactInv'
    BY <1>2, ExactStep
  <2> QED
    BY <1>2, <2>1, <2>2, <2>3
<1>3. Inv /\ RequestInv /\ ConnectInv /\ HandshakeFirst => AnswersExact
  BY ExactRead
<1> HIDE DEF Inv
<1> QED
  BY <1>1, <1>2, <1>3, HandshakeStep, ConnectStep, EventsStart, EventsStep, RequestInit,
     RequestStep, SessionTypeCorrect, PTL DEF SessionSpec

=============================================================================
