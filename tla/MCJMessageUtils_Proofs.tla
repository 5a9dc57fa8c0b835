----------------------- MODULE MCJMessageUtils_Proofs -----------------------
(***************************************************************************)
(* Proofs about the decoder of MCJMessageUtils: the types of its fields on *)
(* any stream, sound or damaged, and that it delivers the messages of a    *)
(* sound stream, for any texts, any packages and any checksum.             *)
(***************************************************************************)
EXTENDS FrameLayout, SequenceTheorems, TLAPS

-----------------------------------------------------------------------------
(* Numbers *)

MinWord == -32768
MaxWord == 32767

\* The provers reason about the bounds of a word, not about the interval.
LEMMA WordIs == \A n : n \in Word <=> n \in Int /\ -32768 <= n /\ n <= 32767
<1>1. ASSUME NEW a \in Int, NEW b \in Int
      PROVE  \A n : n \in a..b <=> n \in Int /\ a <= n /\ n <= b
  OBVIOUS
<1>2. MinWord \in Int /\ MaxWord \in Int /\ Word = MinWord..MaxWord
  BY DEF MinWord, MaxWord, Word
<1>3. \A n : n \in Word <=> n \in Int /\ MinWord <= n /\ n <= MaxWord
  BY <1>1, <1>2
<1>. QED
  BY <1>3 DEF MinWord, MaxWord

\* A String of bytes has characters.
LEMMA StringType ==
  ASSUME NEW b \in Seq(Byte)
  PROVE  UTF8(b) \in Seq(Char)
<1>1. Len(b) \in Nat /\ \A i \in 1..Len(b) : b[i] \in Char
  BY LenProperties, ElementOfSeq DEF Char
<1>2. Replacement \in Char
  BY DEF Char
<1>3. UTF8(b) \in [1..Len(b) -> Char]
  BY <1>1, <1>2, Zenon DEF UTF8
<1>. QED
  BY <1>1, <1>3

LEMMA ByteIs == \A n : n \in Byte <=> n \in Int /\ 0 <= n /\ n <= 255
BY DEF Byte

LEMMA ShortFacts ==
  ASSUME NEW n \in Int
  PROVE  /\ Short(n) \in Word
         /\ n \in Word => Short(n) = n
         /\ n \in Word => Short(n % 65536) = n
<1>1. /\ (n + 32768) % 65536 \in Int
      /\ 0 <= (n + 32768) % 65536 /\ (n + 32768) % 65536 <= 65535
  OBVIOUS
<1>2. ASSUME n \in Word
      PROVE  /\ (n + 32768) % 65536 = n + 32768
             /\ ((n % 65536) + 32768) % 65536 = n + 32768
  <2>1. -32768 <= n /\ n <= 32767
    BY <1>2, WordIs
  <2>. QED
    BY <2>1
<1>. QED
  BY <1>1, <1>2, WordIs DEF Short

LEMMA ShortBytesFacts ==
  ASSUME NEW n \in Int
  PROVE  /\ ShortBytes(n)[1] \in Byte /\ ShortBytes(n)[2] \in Byte
         /\ Len(ShortBytes(n)) = 2 /\ ShortBytes(n) \in Seq(Byte)
         /\ ShortBytes(n)[1] + 256 * ShortBytes(n)[2] = n % 65536
<1>1. n % 256 \in Byte /\ (n \div 256) % 256 \in Byte
  BY ByteIs
<1>2. (n % 256) + 256 * ((n \div 256) % 256) = n % 65536
  OBVIOUS
<1>. QED
  BY <1>1, <1>2 DEF ShortBytes

\* toInt16 undoes getBytes of a short.
LEMMA ShortRound ==
  ASSUME NEW n \in Word
  PROVE  Short(ShortBytes(n)[1] + 256 * ShortBytes(n)[2]) = n
<1>1. n \in Int
  BY WordIs
<1>. QED
  BY <1>1, ShortBytesFacts, ShortFacts

LEMMA Int16Type ==
  ASSUME NEW h \in Seq(Byte), NEW k \in 0..(Len(h) - 2)
  PROVE  toInt16(h, k) \in Word
<1>1. h[k + 1] \in Byte /\ h[k + 2] \in Byte
  OBVIOUS
<1>2. h[k + 1] + 256 * h[k + 2] \in Int
  BY <1>1, ByteIs
<1>. QED
  BY <1>2, ShortFacts DEF toInt16

LEMMA SizeType ==
  ASSUME NEW n \in Word, n >= 0
  PROVE  n * PackageSize \in Nat
BY PackageAssumption, WordIs

-----------------------------------------------------------------------------
(* Types *)

LEMMA ByteIn ==
  ASSUME TypeOK, count < Len(stream.bytes)
  PROVE  /\ stream.bytes \in Seq(Byte) /\ inByte \in Byte
         /\ count + 1 \in 0..Len(stream.bytes)
<1>1. stream.bytes \in Seq(Byte) /\ count \in Nat
  BY StreamsAssumption DEF TypeOK, Stream
<1>. QED
  BY <1>1 DEF inByte, TypeOK

LEMMA StepReads ==
  ASSUME TypeOK, Next
  PROVE  /\ stream' = stream /\ count' = count + 1
         /\ count < Len(stream.bytes)
         /\ stream' \in Streams /\ count' \in 0..Len(stream'.bytes)
         /\ inByte \in Byte
         /\ header \in Seq(Byte) /\ Len(header) = Len(headerBytes) + 1
         /\ frame \in Seq(Byte) /\ Len(frame) = Len(frameBuffer) + 1
<1>1. count < Len(stream.bytes) /\ stream' = stream /\ count' = count + 1
  BY DEF Next, WaitForStart, FillHeader, RejectHeader, HeaderThrows,
     AcceptHeader, EndHeader, FillData, DataThrows, InvalidFrame, Package,
     LastPackage, ValidFrame, EndData, Decode
<1>2. inByte \in Byte /\ count + 1 \in 0..Len(stream.bytes)
  BY <1>1, ByteIn
<1>3. stream \in Streams /\ headerBytes \in Seq(Byte)
      /\ frameBuffer \in Seq(Byte)
  BY DEF TypeOK
<1>. QED
  BY <1>1, <1>2, <1>3, AppendProperties DEF header, frame

LEMMA StepType == ASSUME TypeOK, [Next]_vars PROVE TypeOK'
<1>1. CASE UNCHANGED vars
  BY <1>1 DEF vars, totalVars, TypeOK, frameLen, expectedDataLen
<1>. SUFFICES ASSUME Next PROVE TypeOK'
  BY <1>1
<1>2. /\ stream' = stream /\ stream' \in Streams
      /\ count' \in 0..Len(stream'.bytes) /\ inByte \in Byte
      /\ header \in Seq(Byte) /\ Len(header) = Len(headerBytes) + 1
      /\ frame \in Seq(Byte) /\ Len(frame) = Len(frameBuffer) + 1
  BY StepReads
<1>. USE DEF MsgHeaderLength
<1>3. CASE WaitForStart
  <2>1. <<lastByte, inByte>> \in Seq(Byte) /\ Len(<<lastByte, inByte>>) = 2
    BY <1>2 DEF TypeOK
  <2>. QED
    <3>1. CASE inByte = StaticSerialBytes[1]
      <4>1. /\ headerBytes' \in Seq(Byte) /\ Len(headerBytes') = 2
            /\ decoderPhase' = "Header"
        BY <1>3, <2>1, <3>1 DEF WaitForStart
      <4>2. Len(headerBytes') \in 2..(19 - 1)
        BY <4>1
      <4>. QED
        BY <1>2, <1>3, <4>1, <4>2 DEF WaitForStart, TypeOK, totalVars
    <3>2. CASE inByte # StaticSerialBytes[1]
      BY <1>2, <1>3, <3>2 DEF WaitForStart, Decode, TypeOK, totalVars
    <3>. QED
      BY <3>1, <3>2
<1>4. CASE FillHeader
  <2>1. decoderPhase = "Header" /\ decoderPhase' = "Header"
        /\ headerBytes' = header /\ Len(header) < 19
    BY <1>4 DEF FillHeader, Decode
  <2>2. Len(headerBytes) \in 2..18
    BY <2>1 DEF TypeOK
  <2>3. Len(headerBytes') \in 2..(19 - 1)
    <3>1. ASSUME NEW n \in 2..18, n + 1 < 19 PROVE n + 1 \in 2..(19 - 1)
      BY <3>1
    <3>2. Len(header) = Len(headerBytes) + 1
      BY <1>2
    <3>. QED
      BY <3>1, <3>2, <2>1, <2>2
  <2>. QED
    BY <1>2, <1>4, <2>1, <2>3 DEF FillHeader, TypeOK, totalVars
<1>5. CASE RejectHeader
  BY <1>2, <1>5
     DEF RejectHeader, EndHeader, Decode, BackToWaiting, TypeOK, totalVars
<1>6. CASE HeaderThrows \/ DataThrows
  BY <1>2, <1>6 DEF HeaderThrows, EndHeader, Decode, DataThrows, Throws,
                    TypeOK, totalVars
<1>7. CASE AcceptHeader
  <2>1. Len(header) = 19
    BY <1>7 DEF AcceptHeader, EndHeader
  <2>2. expectedDataLen(header) \in Word /\ expectedPackages(header) \in Word
    <3>1. 5 \in 0..(Len(header) - 2) /\ 17 \in 0..(Len(header) - 2)
      BY <2>1
    <3>. QED
      BY <3>1, <1>2, Int16Type DEF expectedDataLen, expectedPackages
  <2>3. frameLen' = expectedDataLen(header) /\ frameLen' >= 19
    BY <1>7 DEF AcceptHeader, frameLen, expectedDataLen, Allocates
  <2>4. totalMessage' \in Seq(Byte) /\ totalSize' \in Nat \cup {Null}
    <3>1. CASE currPackage(header) = 1
      <4>1. expectedPackages(header) >= 0
        BY <1>7, <3>1 DEF AcceptHeader, Allocates
      <4>2. expectedPackages(header) * PackageSize \in Nat
        BY <4>1, <2>2, SizeType
      <4>. QED
        BY <1>7, <3>1, <4>2 DEF AcceptHeader
    <3>2. CASE currPackage(header) # 1
      BY <1>7, <3>2 DEF AcceptHeader, TypeOK, totalVars
    <3>. QED
      BY <3>1, <3>2
  <2>5. frameLen' \in Int
    BY <2>2, <2>3, WordIs
  <2>6. headerBytes' = header /\ frameBuffer' = header
        /\ decoderPhase' = "Data" /\ lastByte' = inByte
        /\ delivered' = delivered
    BY <1>7 DEF AcceptHeader
  <2>7. Len(frameBuffer') \in 19..frameLen'
    <3>1. ASSUME NEW k \in Int, k >= 19 PROVE 19 \in 19..k
      BY <3>1
    <3>. QED
      BY <3>1, <2>1, <2>3, <2>5, <2>6
  <2>8. delivered \in Seq(Message)
    BY DEF TypeOK
  <2>. QED
    BY <1>2, <2>1, <2>4, <2>6, <2>7, <2>8 DEF TypeOK
<1>8. CASE FillData \/ Package \/ LastPackage
  <2>1. decoderPhase = "Data" /\ headerBytes' = headerBytes
        /\ Len(frame) <= frameLen /\ Len(headerBytes) = 19
    <3>1. decoderPhase = "Data" /\ headerBytes' = headerBytes
          /\ (Len(frame) < frameLen \/ Len(frame) = frameLen)
      BY <1>8 DEF FillData, Package, LastPackage, ValidFrame, EndData, Decode
    <3>2. frameLen \in Int
      <4>1. 5 \in 0..(Len(headerBytes) - 2)
        <5>1. Len(headerBytes) = 19
          BY <3>1 DEF TypeOK
        <5>. QED
          BY <5>1
      <4>2. headerBytes \in Seq(Byte)
        BY DEF TypeOK
      <4>. QED
        BY <4>1, <4>2, Int16Type, WordIs DEF frameLen, expectedDataLen
    <3>. QED
      BY <1>2, <3>1, <3>2 DEF TypeOK
  <2>2. frameLen \in Int /\ toInt16(headerBytes, 11) \in Word
        /\ headerBytes[1] \in Byte
    <3>1. 5 \in 0..(Len(headerBytes) - 2) /\ 11 \in 0..(Len(headerBytes) - 2)
          /\ 1 \in 1..Len(headerBytes)
      BY <2>1
    <3>2. headerBytes \in Seq(Byte)
      BY DEF TypeOK
    <3>. QED
      BY <3>1, <3>2, Int16Type, WordIs DEF frameLen, expectedDataLen
  <2>3. frameLen' = frameLen
    BY <2>1 DEF frameLen, expectedDataLen
  <2>4. CASE FillData
    BY <1>2, <2>4, <2>1, <2>2, <2>3 DEF FillData, Decode, TypeOK, totalVars
  <2>5. CASE Package \/ LastPackage
    <3>1. ValidFrame
      BY <2>5 DEF Package, LastPackage
    <3>2. Copied \in Seq(Byte)
      <4>1. /\ Len(frame) = frameLen /\ TextLen >= 0
        BY <3>1 DEF ValidFrame, EndData, CopyWorks
      <4>2. SubSeq(frame, 19 + 1, frameLen - 3) \in Seq(Byte)
        <5>1. frameLen >= 22
          BY <4>1, <2>2 DEF TextLen
        <5>2. \A k \in 20..(frameLen - 3) : frame[k] \in Byte
          BY <5>1, <4>1, <1>2, <2>2, ElementOfSeq
        <5>. QED
          BY <5>1, <5>2, <2>2, SubSeqProperties
      <4>3. totalMessage \in Seq(Byte)
        BY DEF TypeOK
      <4>. QED
        BY <4>2, <4>3, ConcatProperties DEF Copied
    <3>3. delivered' \in Seq(Message)
      <4>1. [type |-> headerBytes[1], id |-> toInt16(headerBytes, 11),
             msg |-> UTF8(Copied)] \in Message
        BY <2>2, <3>2, StringType DEF Message
      <4>2. delivered \in Seq(Message)
        BY DEF TypeOK
      <4>. QED
        BY <2>5, <4>1, <4>2, AppendProperties DEF Package, LastPackage
    <3>4. totalMessage' \in Seq(Byte) /\ totalSize' \in Nat \cup {Null}
      <4>1. << >> \in Seq(Byte)
        OBVIOUS
      <4>. QED
        BY <2>5, <3>2, <4>1 DEF Package, LastPackage, TypeOK
    <3>. QED
      BY <1>2, <2>1, <3>1, <3>3, <3>4
         DEF ValidFrame, EndData, Decode, TypeOK
  <2>. QED
    BY <1>8, <2>4, <2>5
<1>9. CASE InvalidFrame
  BY <1>2, <1>9 DEF InvalidFrame, EndData, Decode, BackToWaiting, TypeOK
<1>. QED
  BY <1>3, <1>4, <1>5, <1>6, <1>7, <1>8, <1>9 DEF Next

LEMMA InitType == ASSUME Init PROVE TypeOK
<1>1. stream \in Streams /\ stream.bytes \in Seq(Byte)
  BY StreamsAssumption DEF Init, Stream
<1>2. count \in 0..Len(stream.bytes)
  <2>1. Len(stream.bytes) \in Nat
    BY <1>1, LenProperties, Zenon
  <2>2. count = 0
    BY DEF Init
  <2>. QED
    BY ONLY <2>1, <2>2
<1>3. lastByte \in Byte
  BY ByteIs DEF Init
<1>4. /\ headerBytes = << >> /\ frameBuffer = << >> /\ totalMessage = << >>
      /\ delivered = << >> /\ totalSize = Null /\ decoderPhase = "Waiting"
  BY DEF Init
<1>. QED
  BY <1>1, <1>2, <1>3, <1>4 DEF TypeOK

\* Every field keeps its type on any stream, whatever the checksum: the header
\* has room for each byte, the frame is as long as the header says, what is
\* delivered is made of bytes (DecodeMessage).
THEOREM TypeCorrect == Spec => []TypeOK
BY InitType, StepType, PTL DEF Spec

-----------------------------------------------------------------------------
(* The bytes of a frame *)

\* Concatenation and prefixes, opaque to the provers.
Cat(a, c) == a \o c
Starts(a, b) ==
  \A k \in Int : 1 <= k /\ k <= Len(a) => k <= Len(b) /\ b[k] = a[k]
EndsWith(b, n, c) ==
  \A k \in Int : 1 <= k /\ k <= Len(c) => b[n + k] = c[k]

LEMMA CatType ==
  ASSUME NEW S, NEW a \in Seq(S), NEW c \in Seq(S)
  PROVE  Cat(a, c) \in Seq(S) /\ Len(Cat(a, c)) = Len(a) + Len(c)
BY ConcatProperties DEF Cat

LEMMA CatStarts ==
  ASSUME NEW S, NEW a \in Seq(S), NEW c \in Seq(S)
  PROVE  Starts(a, Cat(a, c))
<1>. SUFFICES ASSUME NEW k \in Int, 1 <= k, k <= Len(a)
              PROVE  k <= Len(Cat(a, c)) /\ Cat(a, c)[k] = a[k]
  BY DEF Starts
<1>1. k \in 1..(Len(a) + Len(c)) /\ k <= Len(a)
  BY LenProperties
<1>. QED
  BY <1>1, ConcatProperties DEF Cat

LEMMA CatEnds ==
  ASSUME NEW S, NEW a \in Seq(S), NEW c \in Seq(S)
  PROVE  EndsWith(Cat(a, c), Len(a), c)
<1>. SUFFICES ASSUME NEW k \in Int, 1 <= k, k <= Len(c)
              PROVE  Cat(a, c)[Len(a) + k] = c[k]
  BY DEF EndsWith
<1>1. /\ Len(a) + k \in 1..(Len(a) + Len(c)) /\ ~(Len(a) + k <= Len(a))
      /\ (Len(a) + k) - Len(a) = k
  BY LenProperties
<1>. QED
  BY <1>1, ConcatProperties DEF Cat

\* The elements of a short second part.
LEMMA CatPair ==
  ASSUME NEW S, NEW a \in Seq(S), NEW c \in Seq(S), Len(c) >= 2
  PROVE  /\ Cat(a, c)[Len(a) + 1] = c[1]
         /\ Cat(a, c)[Len(a) + 2] = c[2]
<1>1. EndsWith(Cat(a, c), Len(a), c)
  BY CatEnds
<1>. QED
  BY <1>1 DEF EndsWith

LEMMA StartsTransitive ==
  ASSUME NEW a, NEW b, NEW c, Starts(a, b), Starts(b, c)
  PROVE  Starts(a, c)
BY DEF Starts

\* The fields of a frame without its checksum, z stands for the text.
Fields(S, a, c, n, d, e, p, s, z, o) ==
  /\ a \in Seq(S) /\ Len(a) = 1 /\ c \in Seq(S) /\ Len(c) = 4
  /\ n \in Seq(S) /\ Len(n) = 2 /\ d \in Seq(S) /\ Len(d) = 4
  /\ e \in Seq(S) /\ Len(e) = 4 /\ p \in Seq(S) /\ Len(p) = 2
  /\ s \in Seq(S) /\ Len(s) = 2 /\ z \in Seq(S)
  /\ o \in Seq(S) /\ Len(o) = 1

JoinedFields(a, c, n, d, e, p, s, z, o) ==
  a \o c \o n \o d \o e \o p \o s \o z \o o

\* How the fields lie in the frame b.
FieldsIn(b, a, c, n, e, p, s, z) ==
  /\ b[1] = a[1]
  /\ b[2] = c[1] /\ b[3] = c[2] /\ b[4] = c[3] /\ b[5] = c[4]
  /\ b[6] = n[1] /\ b[7] = n[2]
  /\ b[12] = e[1] /\ b[13] = e[2]
  /\ b[16] = p[1] /\ b[17] = p[2] /\ b[18] = s[1] /\ b[19] = s[2]
  /\ \A k \in 1..Len(z) : b[19 + k] = z[k]

LEMMA FieldBytes ==
  ASSUME NEW S, NEW a, NEW c, NEW n, NEW d, NEW e, NEW p, NEW s, NEW z, NEW o,
         Fields(S, a, c, n, d, e, p, s, z, o)
  PROVE  /\ JoinedFields(a, c, n, d, e, p, s, z, o) \in Seq(S)
         /\ Len(JoinedFields(a, c, n, d, e, p, s, z, o)) = Len(z) + 20
         /\ FieldsIn(JoinedFields(a, c, n, d, e, p, s, z, o),
                     a, c, n, e, p, s, z)
<1>a. a \in Seq(S) /\ Len(a) = 1
  BY DEF Fields
<1>c. c \in Seq(S) /\ Len(c) = 4
  BY DEF Fields
<1>n. n \in Seq(S) /\ Len(n) = 2
  BY DEF Fields
<1>d. d \in Seq(S) /\ Len(d) = 4
  BY DEF Fields
<1>e. e \in Seq(S) /\ Len(e) = 4
  BY DEF Fields
<1>p. p \in Seq(S) /\ Len(p) = 2
  BY DEF Fields
<1>s. s \in Seq(S) /\ Len(s) = 2
  BY DEF Fields
<1>z. z \in Seq(S)
  BY DEF Fields
<1>o. o \in Seq(S) /\ Len(o) = 1
  BY DEF Fields
<1>2. PICK b2 : b2 = Cat(a, c)
  OBVIOUS
<1>3. PICK b3 : b3 = Cat(b2, n)
  OBVIOUS
<1>4. PICK b4 : b4 = Cat(b3, d)
  OBVIOUS
<1>5. PICK b5 : b5 = Cat(b4, e)
  OBVIOUS
<1>6. PICK b6 : b6 = Cat(b5, p)
  OBVIOUS
<1>7. PICK b7 : b7 = Cat(b6, s)
  OBVIOUS
<1>8. PICK b8 : b8 = Cat(b7, z)
  OBVIOUS
<1>9. PICK b9 : b9 = Cat(b8, o)
  OBVIOUS
<1>12. b2 \in Seq(S) /\ Len(b2) = 5
  <2>1. Cat(a, c) \in Seq(S) /\ Len(Cat(a, c)) = Len(a) + Len(c)
    BY <1>a, <1>c, CatType, Zenon
  <2>. QED
    BY <1>2, <1>a, <1>c, <2>1
<1>13. b3 \in Seq(S) /\ Len(b3) = 7
  <2>1. Cat(b2, n) \in Seq(S) /\ Len(Cat(b2, n)) = Len(b2) + Len(n)
    BY <1>12, <1>n, CatType, Zenon
  <2>. QED
    BY <1>3, <1>12, <1>n, <2>1
<1>14. b4 \in Seq(S) /\ Len(b4) = 11
  <2>1. Cat(b3, d) \in Seq(S) /\ Len(Cat(b3, d)) = Len(b3) + Len(d)
    BY <1>13, <1>d, CatType, Zenon
  <2>. QED
    BY <1>4, <1>13, <1>d, <2>1
<1>15. b5 \in Seq(S) /\ Len(b5) = 15
  <2>1. Cat(b4, e) \in Seq(S) /\ Len(Cat(b4, e)) = Len(b4) + Len(e)
    BY <1>14, <1>e, CatType, Zenon
  <2>. QED
    BY <1>5, <1>14, <1>e, <2>1
<1>16. b6 \in Seq(S) /\ Len(b6) = 17
  <2>1. Cat(b5, p) \in Seq(S) /\ Len(Cat(b5, p)) = Len(b5) + Len(p)
    BY <1>15, <1>p, CatType, Zenon
  <2>. QED
    BY <1>6, <1>15, <1>p, <2>1
<1>17. b7 \in Seq(S) /\ Len(b7) = 19
  <2>1. Cat(b6, s) \in Seq(S) /\ Len(Cat(b6, s)) = Len(b6) + Len(s)
    BY <1>16, <1>s, CatType, Zenon
  <2>. QED
    BY <1>7, <1>16, <1>s, <2>1
<1>18. Len(z) \in Nat /\ b8 \in Seq(S) /\ Len(b8) = Len(z) + 19
  <2>1. Cat(b7, z) \in Seq(S) /\ Len(Cat(b7, z)) = Len(b7) + Len(z)
    BY <1>17, <1>z, CatType, Zenon
  <2>2. Len(z) \in Nat
    BY <1>z, LenProperties
  <2>. QED
    BY <1>8, <1>17, <1>z, <2>1, <2>2
<1>19. b9 \in Seq(S) /\ Len(b9) = Len(z) + 20
  <2>1. Cat(b8, o) \in Seq(S) /\ Len(Cat(b8, o)) = Len(b8) + Len(o)
    BY <1>18, <1>o, CatType, Zenon
  <2>. QED
    BY <1>9, <1>18, <1>o, <2>1
<1>20. /\ Starts(b2, b3) /\ Starts(b3, b4) /\ Starts(b4, b5) /\ Starts(b5, b6)
       /\ Starts(b6, b7) /\ Starts(b7, b8) /\ Starts(b8, b9)
  BY <1>3, <1>4, <1>5, <1>6, <1>7, <1>8, <1>9, <1>12, <1>13, <1>14, <1>15,
     <1>16, <1>17, <1>18, <1>n, <1>d, <1>e, <1>p, <1>s, <1>z, <1>o, CatStarts
<1>21. Starts(b7, b9)
  BY <1>20, StartsTransitive
<1>22. Starts(b6, b9)
  BY <1>20, <1>21, StartsTransitive
<1>23. Starts(b5, b9)
  BY <1>20, <1>22, StartsTransitive
<1>24. Starts(b4, b9)
  BY <1>20, <1>23, StartsTransitive
<1>25. Starts(b3, b9)
  BY <1>20, <1>24, StartsTransitive
<1>26. Starts(b2, b9) /\ Starts(a, b9)
  BY <1>2, <1>a, <1>c, <1>20, <1>25, StartsTransitive, CatStarts
<1>30. /\ b9[1] = a[1]
       /\ b9[2] = c[1] /\ b9[3] = c[2] /\ b9[4] = c[3] /\ b9[5] = c[4]
  <2>1. EndsWith(Cat(a, c), Len(a), c)
    BY <1>a, <1>c, CatEnds, Zenon
  <2>2. /\ Cat(a, c)[Len(a) + 1] = c[1] /\ Cat(a, c)[Len(a) + 2] = c[2]
        /\ Cat(a, c)[Len(a) + 3] = c[3] /\ Cat(a, c)[Len(a) + 4] = c[4]
    BY <2>1, <1>a, <1>c DEF EndsWith
  <2>3. b2[2] = c[1] /\ b2[3] = c[2] /\ b2[4] = c[3] /\ b2[5] = c[4]
    BY <1>2, <1>a, <2>2
  <2>4. /\ b9[1] = a[1] /\ b9[2] = b2[2] /\ b9[3] = b2[3]
        /\ b9[4] = b2[4] /\ b9[5] = b2[5]
    BY <1>a, <1>12, <1>26 DEF Starts
  <2>. QED
    BY <2>3, <2>4
<1>31. b9[6] = n[1] /\ b9[7] = n[2]
  <2>1. Len(n) >= 2
    BY <1>n
  <2>2. /\ Cat(b2, n)[Len(b2) + 1] = n[1]
        /\ Cat(b2, n)[Len(b2) + 2] = n[2]
    BY <2>1, <1>n, <1>12, CatPair, Zenon
  <2>3. b3[5 + 1] = n[1] /\ b3[5 + 2] = n[2]
    BY <1>3, <1>12, <2>2
  <2>4. b9[6] = b3[6] /\ b9[7] = b3[7]
    <3>1. \A k \in Int : 1 <= k /\ k <= 7 => b9[k] = b3[k]
      BY <1>13, <1>25 DEF Starts
    <3>. QED
      BY <3>1
  <2>. QED
    BY <2>3, <2>4
<1>32. b9[12] = e[1] /\ b9[13] = e[2]
  <2>1. Len(e) >= 2
    BY <1>e
  <2>2. /\ Cat(b4, e)[Len(b4) + 1] = e[1]
        /\ Cat(b4, e)[Len(b4) + 2] = e[2]
    BY <2>1, <1>e, <1>14, CatPair, Zenon
  <2>3. b5[11 + 1] = e[1] /\ b5[11 + 2] = e[2]
    BY <1>5, <1>14, <2>2
  <2>4. b9[12] = b5[12] /\ b9[13] = b5[13]
    <3>1. \A k \in Int : 1 <= k /\ k <= 15 => b9[k] = b5[k]
      BY <1>15, <1>23 DEF Starts
    <3>. QED
      BY <3>1
  <2>. QED
    BY <2>3, <2>4
<1>33. b9[16] = p[1] /\ b9[17] = p[2]
  <2>1. Len(p) >= 2
    BY <1>p
  <2>2. /\ Cat(b5, p)[Len(b5) + 1] = p[1]
        /\ Cat(b5, p)[Len(b5) + 2] = p[2]
    BY <2>1, <1>p, <1>15, CatPair, Zenon
  <2>3. b6[15 + 1] = p[1] /\ b6[15 + 2] = p[2]
    BY <1>6, <1>15, <2>2
  <2>4. b9[16] = b6[16] /\ b9[17] = b6[17]
    <3>1. \A k \in Int : 1 <= k /\ k <= 17 => b9[k] = b6[k]
      BY <1>16, <1>22 DEF Starts
    <3>. QED
      BY <3>1
  <2>. QED
    BY <2>3, <2>4
<1>34. b9[18] = s[1] /\ b9[19] = s[2]
  <2>1. Len(s) >= 2
    BY <1>s
  <2>2. /\ Cat(b6, s)[Len(b6) + 1] = s[1]
        /\ Cat(b6, s)[Len(b6) + 2] = s[2]
    BY <2>1, <1>s, <1>16, CatPair, Zenon
  <2>3. b7[17 + 1] = s[1] /\ b7[17 + 2] = s[2]
    BY <1>7, <1>16, <2>2
  <2>4. b9[18] = b7[18] /\ b9[19] = b7[19]
    <3>1. \A k \in Int : 1 <= k /\ k <= 19 => b9[k] = b7[k]
      BY <1>17, <1>21 DEF Starts
    <3>. QED
      BY <3>1
  <2>. QED
    BY <2>3, <2>4
<1>35. \A k \in 1..Len(z) : b9[19 + k] = z[k]
  <2>. SUFFICES ASSUME NEW k \in 1..Len(z) PROVE b9[19 + k] = z[k]
    OBVIOUS
  <2>1. b8[19 + k] = z[k]
    <3>1. EndsWith(Cat(b7, z), Len(b7), z)
      BY <1>17, <1>z, CatEnds, Zenon
    <3>. QED
      BY <1>8, <1>17, <3>1 DEF EndsWith
  <2>2. 19 + k \in Int /\ 1 <= 19 + k /\ 19 + k <= Len(b8)
    BY <1>18
  <2>3. b9[19 + k] = b8[19 + k]
    BY <1>20, <2>2 DEF Starts
  <2>. QED
    BY <2>1, <2>3
<1>36. b9 = JoinedFields(a, c, n, d, e, p, s, z, o)
  BY <1>2, <1>3, <1>4, <1>5, <1>6, <1>7, <1>8, <1>9
     DEF Cat, JoinedFields
<1>37. FieldsIn(b9, a, c, n, e, p, s, z)
  BY <1>30, <1>31, <1>32, <1>33, <1>34, <1>35 DEF FieldsIn
<1>. QED
  BY <1>19, <1>36, <1>37, Zenon

\* A frame without its checksum.
BodyOf(f, length) ==
  JoinedFields(<<f.type>>, StaticSerialBytes, ShortBytes(length), f.seven,
               f.eleven, ShortBytes(f.package), ShortBytes(f.packages),
               f.text, <<0>>)
FrameBody(f) == BodyOf(f, FrameLength(f))
Checked(body) == body \o ShortBytes(makeCRC(body))

LEMMA PlacedType ==
  ASSUME NEW f \in Placed
  PROVE  /\ f.at \in Nat /\ f.type \in Byte /\ f.type # 231
         /\ f.type \in FrameTypeBytes
         /\ f.seven \in Seq(Byte) /\ Len(f.seven) = 4
         /\ f.eleven \in Seq(Byte) /\ Len(f.eleven) = 4
         /\ f.package \in Word /\ f.package \in Int /\ f.package >= 1
         /\ f.packages \in Word /\ f.packages \in Int /\ f.packages >= 1
         /\ f.text \in Seq(Byte) /\ f.before \in Seq(Byte)
         /\ f.message \in Nat /\ f.message >= 1
         /\ FrameLength(f) \in Nat /\ FrameLength(f) = Len(f.text) + 22
         /\ FrameEnd(f) = f.at + FrameLength(f)
<1>1. f.type \in Byte /\ f.type # 231 /\ f.type \in FrameTypeBytes
  <2>1. f.type \in FrameTypeBytes
    BY DEF Placed
  <2>. QED
    BY <2>1, ByteIs DEF FrameTypeBytes
<1>2. ASSUME NEW g \in [1..4 -> Byte]
      PROVE  g \in Seq(Byte) /\ Len(g) = 4
  <2>1. g \in Seq(Byte)
    BY SeqDef
  <2>2. Len(g) \in Nat /\ DOMAIN g = 1..Len(g) /\ DOMAIN g = 1..4
    BY <2>1, LenProperties
  <2>. QED
    BY <2>1, <2>2
<1>3. f.seven \in [1..4 -> Byte] /\ f.eleven \in [1..4 -> Byte]
  BY DEF Placed
<1>4. ASSUME NEW n \in PackageNumber
      PROVE  n \in Int /\ n >= 1 /\ n \in Word
  BY WordIs DEF PackageNumber
<1>5. f.package \in PackageNumber /\ f.packages \in PackageNumber
  BY DEF Placed
<1>6. /\ f.at \in Nat /\ f.text \in Seq(Byte) /\ f.before \in Seq(Byte)
      /\ f.message \in Nat \ {0}
  BY DEF Placed
<1>. QED
  BY <1>1, <1>2, <1>3, <1>4, <1>5, <1>6
     DEF FrameLength, FrameEnd, MsgHeaderLength

LEMMA FrameLengthIs ==
  ASSUME NEW f \in Placed, FrameLength(f) \in Word
  PROVE  Short(Short(Len(f.text) + MsgHeaderLength + 1) + 2) = FrameLength(f)
<1>1. Len(f.text) \in Nat /\ FrameLength(f) = Len(f.text) + 22
  BY PlacedType
<1>2. Len(f.text) + 20 \in Int /\ (Len(f.text) + 20) + 2 = FrameLength(f)
      /\ Len(f.text) + MsgHeaderLength + 1 = Len(f.text) + 20
      /\ FrameLength(f) \in Int
  BY <1>1 DEF MsgHeaderLength
<1>3. Len(f.text) + 20 \in Word
  BY <1>1, WordIs
<1>4. Short(Len(f.text) + 20) = Len(f.text) + 20
  BY <1>2, <1>3, ShortFacts
<1>5. Short(FrameLength(f)) = FrameLength(f)
  BY <1>2, ShortFacts
<1>. QED
  BY <1>2, <1>4, <1>5

LEMMA FrameIsBody ==
  ASSUME NEW f \in Placed, FrameLength(f) \in Word
  PROVE  FrameBytes(f) = Checked(FrameBody(f))
<1>1. Short(Short(Len(f.text) + MsgHeaderLength + 1) + 2) = FrameLength(f)
  BY FrameLengthIs
<1>2. FrameBytes(f) = Checked(BodyOf(f,
          Short(Short(Len(f.text) + MsgHeaderLength + 1) + 2)))
  BY DEF FrameBytes, Framed, BodyOf, Checked, JoinedFields
<1>. QED
  BY <1>1, <1>2 DEF FrameBody

LEMMA SerialType ==
  /\ StaticSerialBytes \in Seq(Byte) /\ Len(StaticSerialBytes) = 4
  /\ StaticSerialBytes[1] = 231 /\ StaticSerialBytes[2] = 24
  /\ StaticSerialBytes[3] = 129 /\ StaticSerialBytes[4] = 126
BY ByteIs DEF StaticSerialBytes

LEMMA BodyBytes ==
  ASSUME NEW f \in Placed
  PROVE  /\ FrameBody(f) \in Seq(Byte)
         /\ Len(FrameBody(f)) = Len(f.text) + 20
         /\ FieldsIn(FrameBody(f), <<f.type>>, StaticSerialBytes,
                     ShortBytes(FrameLength(f)), f.eleven,
                     ShortBytes(f.package), ShortBytes(f.packages), f.text)
<1>1. /\ ShortBytes(FrameLength(f)) \in Seq(Byte)
      /\ Len(ShortBytes(FrameLength(f))) = 2
      /\ ShortBytes(f.package) \in Seq(Byte) /\ Len(ShortBytes(f.package)) = 2
      /\ ShortBytes(f.packages) \in Seq(Byte)
      /\ Len(ShortBytes(f.packages)) = 2
  BY PlacedType, ShortBytesFacts
<1>2. <<f.type>> \in Seq(Byte) /\ Len(<<f.type>>) = 1 /\ <<f.type>>[1] = f.type
  BY PlacedType
<1>3. StaticSerialBytes \in Seq(Byte) /\ Len(StaticSerialBytes) = 4
  BY SerialType
<1>4. /\ f.seven \in Seq(Byte) /\ Len(f.seven) = 4
      /\ f.eleven \in Seq(Byte) /\ Len(f.eleven) = 4
      /\ f.text \in Seq(Byte)
  BY PlacedType
<1>5. <<0>> \in Seq(Byte) /\ Len(<<0>>) = 1
  BY ByteIs
<1>6. Fields(Byte, <<f.type>>, StaticSerialBytes, ShortBytes(FrameLength(f)),
             f.seven, f.eleven, ShortBytes(f.package),
             ShortBytes(f.packages), f.text, <<0>>)
  BY <1>1, <1>2, <1>3, <1>4, <1>5 DEF Fields
<1>. QED
  BY <1>6, FieldBytes, Zenon DEF FrameBody, BodyOf

LEMMA PairAtEnd ==
  ASSUME NEW S, NEW a \in Seq(S), NEW c \in Seq(S), Len(c) = 2
  PROVE  /\ Len(Cat(a, c)) = Len(a) + 2
         /\ \A k \in 1..Len(a) : Cat(a, c)[k] = a[k]
         /\ Cat(a, c)[Len(a) + 1] = c[1] /\ Cat(a, c)[Len(a) + 2] = c[2]
<1>1. Len(c) >= 2
  OBVIOUS
<1>2. Cat(a, c)[Len(a) + 1] = c[1] /\ Cat(a, c)[Len(a) + 2] = c[2]
  BY <1>1, CatPair
<1>3. Starts(a, Cat(a, c)) /\ Len(Cat(a, c)) = Len(a) + Len(c)
  BY CatStarts, CatType
<1>. QED
  BY <1>2, <1>3 DEF Starts

LEMMA PairType ==
  ASSUME NEW n
  PROVE  \E S : /\ Byte \subseteq S /\ ShortBytes(n) \in Seq(S)
                /\ Len(ShortBytes(n)) = 2
<1>1. PICK u, v : ShortBytes(n) = <<u, v>>
  BY DEF ShortBytes
<1>2. <<u, v>> \in Seq(Byte \cup {u, v}) /\ Len(<<u, v>>) = 2
  OBVIOUS
<1>. QED
  BY <1>1, <1>2

\* The checksum of a frame.
Crc(f) == ShortBytes(makeCRC(FrameBody(f)))

LEMMA FrameElements ==
  ASSUME NEW f \in Placed, FrameLength(f) \in Word
  PROVE  /\ Len(FrameBytes(f)) = Len(f.text) + 22
         /\ \A k \in 1..(Len(f.text) + 20) :
              FrameBytes(f)[k] = FrameBody(f)[k]
         /\ FrameBytes(f)[Len(f.text) + 21] = Crc(f)[1]
         /\ FrameBytes(f)[Len(f.text) + 22] = Crc(f)[2]
<1>1. FrameBytes(f) = Cat(FrameBody(f), Crc(f))
  BY FrameIsBody DEF Checked, Cat, Crc
<1>2. PICK S : Byte \subseteq S /\ Crc(f) \in Seq(S) /\ Len(Crc(f)) = 2
  BY PairType DEF Crc
<1>3. /\ FrameBody(f) \in Seq(Byte)
      /\ Len(FrameBody(f)) = Len(f.text) + 20
  BY BodyBytes, Zenon
<1>4. FrameBody(f) \in Seq(S) /\ Len(f.text) \in Nat
  <2>1. FrameBody(f) \in Seq(S)
    BY <1>2, <1>3, SeqMonotonic
  <2>. QED
    BY <2>1, PlacedType, LenProperties
<1>5. /\ Len(FrameBytes(f)) = Len(FrameBody(f)) + 2
      /\ \A k \in 1..Len(FrameBody(f)) : FrameBytes(f)[k] = FrameBody(f)[k]
      /\ FrameBytes(f)[Len(FrameBody(f)) + 1] = Crc(f)[1]
      /\ FrameBytes(f)[Len(FrameBody(f)) + 2] = Crc(f)[2]
  BY <1>1, <1>2, <1>4, PairAtEnd
<1>. QED
  BY <1>3, <1>4, <1>5

\* The decoder reads the fields of a frame from its first 19 bytes.
LEMMA HeaderFacts ==
  ASSUME NEW f \in Placed, FrameLength(f) \in Word,
         NEW h \in Seq(Byte), Len(h) = 19,
         \A k \in 1..19 : h[k] = FrameBytes(f)[k]
  PROVE  /\ h[1] = f.type /\ FrameOk(h)
         /\ expectedDataLen(h) = FrameLength(f)
         /\ currPackage(h) = f.package
         /\ expectedPackages(h) = f.packages
         /\ toInt16(h, 11) = toInt16(f.eleven, 0)
<1>1. \A k \in 1..19 : h[k] = FrameBody(f)[k]
  <2>1. \A k \in 1..(Len(f.text) + 20) : FrameBytes(f)[k] = FrameBody(f)[k]
    BY FrameElements
  <2>2. Len(f.text) \in Nat
    <3>1. f.text \in Seq(Byte)
      BY PlacedType, Zenon
    <3>. QED
      BY <3>1, LenProperties, Zenon
  <2>3. \A k \in 1..19 : k \in 1..(Len(f.text) + 20)
    BY <2>2
  <2>. QED
    BY <2>1, <2>3
<1>2. /\ h[1] = FrameBody(f)[1] /\ h[2] = FrameBody(f)[2]
      /\ h[3] = FrameBody(f)[3] /\ h[4] = FrameBody(f)[4]
      /\ h[5] = FrameBody(f)[5] /\ h[6] = FrameBody(f)[6]
      /\ h[7] = FrameBody(f)[7] /\ h[12] = FrameBody(f)[12]
      /\ h[13] = FrameBody(f)[13] /\ h[16] = FrameBody(f)[16]
      /\ h[17] = FrameBody(f)[17] /\ h[18] = FrameBody(f)[18]
      /\ h[19] = FrameBody(f)[19]
  BY <1>1
<1>3. FieldsIn(FrameBody(f), <<f.type>>, StaticSerialBytes,
               ShortBytes(FrameLength(f)), f.eleven,
               ShortBytes(f.package), ShortBytes(f.packages), f.text)
  BY BodyBytes
<1>4. /\ h[1] = f.type
      /\ h[2] = StaticSerialBytes[1] /\ h[3] = StaticSerialBytes[2]
      /\ h[4] = StaticSerialBytes[3] /\ h[5] = StaticSerialBytes[4]
      /\ h[6] = ShortBytes(FrameLength(f))[1]
      /\ h[7] = ShortBytes(FrameLength(f))[2]
      /\ h[12] = f.eleven[1] /\ h[13] = f.eleven[2]
      /\ h[16] = ShortBytes(f.package)[1] /\ h[17] = ShortBytes(f.package)[2]
      /\ h[18] = ShortBytes(f.packages)[1]
      /\ h[19] = ShortBytes(f.packages)[2]
  <2>1. <<f.type>>[1] = f.type
    OBVIOUS
  <2>. QED
    BY <1>2, <1>3, <2>1 DEF FieldsIn
<1>5. SubSeq(h, 2, 5) = StaticSerialBytes
  <2>1. StaticSerialBytes \in Seq(Byte) /\ Len(StaticSerialBytes) = 4
    BY SerialType
  <2>2. \A k \in 2..5 : h[k] \in Byte
    <3>. SUFFICES ASSUME NEW k \in 2..5 PROVE h[k] \in Byte
      OBVIOUS
    <3>1. k \in 1..Len(h)
      OBVIOUS
    <3>. QED
      BY <3>1, ElementOfSeq, Zenon
  <2>3. /\ SubSeq(h, 2, 5) \in Seq(Byte) /\ Len(SubSeq(h, 2, 5)) = 4
        /\ \A k \in 1..4 : SubSeq(h, 2, 5)[k] = h[k + 1]
    BY <2>2, SubSeqProperties
  <2>4. \A k \in 1..4 : SubSeq(h, 2, 5)[k] = StaticSerialBytes[k]
    <3>. SUFFICES ASSUME NEW k \in 1..4
                  PROVE  SubSeq(h, 2, 5)[k] = StaticSerialBytes[k]
      OBVIOUS
    <3>1. SubSeq(h, 2, 5)[k] = h[k + 1]
      BY <2>3
    <3>2. /\ h[1 + 1] = StaticSerialBytes[1]
          /\ h[2 + 1] = StaticSerialBytes[2]
          /\ h[3 + 1] = StaticSerialBytes[3]
          /\ h[4 + 1] = StaticSerialBytes[4]
      BY ONLY <1>4
    <3>3. k = 1 \/ k = 2 \/ k = 3 \/ k = 4
      OBVIOUS
    <3>. QED
      BY ONLY <3>1, <3>2, <3>3
  <2>. QED
    BY <2>1, <2>3, <2>4, SeqEqual
<1>6. f.type \in FrameTypeBytes /\ f.package \in Word /\ f.packages \in Word
      /\ FrameLength(f) \in Word
  BY PlacedType
<1>7. /\ expectedDataLen(h)
           = Short(ShortBytes(FrameLength(f))[1]
                   + 256 * ShortBytes(FrameLength(f))[2])
      /\ currPackage(h) = Short(ShortBytes(f.package)[1]
                                + 256 * ShortBytes(f.package)[2])
      /\ expectedPackages(h) = Short(ShortBytes(f.packages)[1]
                                     + 256 * ShortBytes(f.packages)[2])
      /\ toInt16(h, 11) = toInt16(f.eleven, 0)
  <2>1. /\ expectedDataLen(h) = Short(h[6] + 256 * h[7])
        /\ currPackage(h) = Short(h[16] + 256 * h[17])
        /\ expectedPackages(h) = Short(h[18] + 256 * h[19])
        /\ toInt16(h, 11) = Short(h[12] + 256 * h[13])
        /\ toInt16(f.eleven, 0) = Short(f.eleven[1] + 256 * f.eleven[2])
    BY DEF expectedDataLen, currPackage, expectedPackages, toInt16
  <2>. QED
    BY <1>4, <2>1
<1>. QED
  BY <1>4, <1>5, <1>6, <1>7, ShortRound DEF FrameOk

\* A complete frame passes the checksum and holds its text.
LEMMA EndFacts ==
  ASSUME NEW f \in Placed, FrameLength(f) \in Word,
         NEW g \in Seq(Byte), Len(g) = FrameLength(f),
         \A k \in 1..Len(g) : g[k] = FrameBytes(f)[k]
  PROVE  /\ CrcOk(g)
         /\ SubSeq(g, MsgHeaderLength + 1, FrameLength(f) - 3) = f.text
<1> DEFINE n == Len(f.text) + 20
           crc == Crc(f)
<1>1. Len(f.text) \in Nat /\ f.text \in Seq(Byte) /\ Len(g) = n + 2
  BY PlacedType
<1>2. /\ \A k \in 1..n : FrameBytes(f)[k] = FrameBody(f)[k]
      /\ FrameBytes(f)[n + 1] = crc[1] /\ FrameBytes(f)[n + 2] = crc[2]
  <2>1. /\ \A k \in 1..(Len(f.text) + 20) :
             FrameBytes(f)[k] = FrameBody(f)[k]
        /\ FrameBytes(f)[Len(f.text) + 21] = Crc(f)[1]
        /\ FrameBytes(f)[Len(f.text) + 22] = Crc(f)[2]
    BY FrameElements, Zenon
  <2>2. n + 1 = Len(f.text) + 21 /\ n + 2 = Len(f.text) + 22
    BY <1>1
  <2>. QED
    BY <2>1, <2>2
<1>3. /\ FrameBody(f) \in Seq(Byte) /\ Len(FrameBody(f)) = n
      /\ \A k \in 1..Len(f.text) : FrameBody(f)[19 + k] = f.text[k]
  BY BodyBytes DEF FieldsIn
<1>4. \A k \in 1..(n + 2) : g[k] \in Byte /\ g[k] = FrameBytes(f)[k]
  BY <1>1, ElementOfSeq
<1>. HIDE DEF crc
<1>5. SubSeq(g, 1, n) = FrameBody(f)
  <2>1. /\ SubSeq(g, 1, n) \in Seq(Byte) /\ Len(SubSeq(g, 1, n)) = n
        /\ \A k \in 1..n : SubSeq(g, 1, n)[k] = g[k]
    BY <1>1, <1>4, SubSeqProperties
  <2>2. \A k \in 1..n : SubSeq(g, 1, n)[k] = FrameBody(f)[k]
    BY <1>1, <1>2, <1>4, <2>1
  <2>. QED
    BY <1>3, <2>1, <2>2, SeqEqual
<1>6. SubSeq(g, n + 1, n + 2) = crc
  <2>1. /\ SubSeq(g, n + 1, n + 2) \in Seq(Byte)
        /\ Len(SubSeq(g, n + 1, n + 2)) = 2
        /\ \A k \in 1..2 : SubSeq(g, n + 1, n + 2)[k] = g[n + k]
    BY <1>1, <1>4, SubSeqProperties
  <2>2. crc[1] = g[n + 1] /\ crc[2] = g[n + 2]
        /\ crc[1] \in Byte /\ crc[2] \in Byte
    BY <1>1, <1>2, <1>4
  <2>3. PICK u, v : crc = <<u, v>>
    BY DEF crc, Crc, ShortBytes
  <2>4. crc \in Seq(Byte) /\ Len(crc) = 2
    BY <2>2, <2>3
  <2>5. \A k \in 1..2 : SubSeq(g, n + 1, n + 2)[k] = crc[k]
    <3>. SUFFICES ASSUME NEW k \in 1..2
                  PROVE  SubSeq(g, n + 1, n + 2)[k] = crc[k]
      OBVIOUS
    <3>1. k = 1 \/ k = 2
      OBVIOUS
    <3>. QED
      BY <2>1, <2>2, <3>1
  <2>. QED
    <3>1. \A k \in 1..Len(SubSeq(g, n + 1, n + 2)) :
            SubSeq(g, n + 1, n + 2)[k] = crc[k]
      BY <2>1, <2>5
    <3>. QED
      BY <2>1, <2>4, <3>1, SeqEqual, Zenon
<1>7. Len(g) - 2 = n /\ Len(g) - 1 = n + 1
  BY <1>1
<1>8. CrcOk(g)
  <2>1. SubSeq(g, 1, Len(g) - 2) = FrameBody(f)
    BY <1>5, <1>7
  <2>2. SubSeq(g, Len(g) - 1, Len(g)) = crc
    BY <1>1, <1>6, <1>7
  <2>. QED
    BY <2>1, <2>2 DEF CrcOk, crc, Crc
<1>9. SubSeq(g, 20, Len(f.text) + 19) = f.text
  <2>1. /\ SubSeq(g, 20, Len(f.text) + 19) \in Seq(Byte)
        /\ Len(SubSeq(g, 20, Len(f.text) + 19)) = Len(f.text)
        /\ \A k \in 1..Len(f.text) :
             SubSeq(g, 20, Len(f.text) + 19)[k] = g[19 + k]
    BY <1>1, <1>4, SubSeqProperties
  <2>2. \A k \in 1..Len(f.text) : g[19 + k] = f.text[k]
    BY <1>1, <1>2, <1>3, <1>4
  <2>. QED
    BY <1>1, <2>1, <2>2, SeqEqual
<1>10. MsgHeaderLength + 1 = 20 /\ FrameLength(f) - 3 = Len(f.text) + 19
  BY <1>1 DEF MsgHeaderLength, FrameLength
<1>. QED
  BY <1>8, <1>9, <1>10


-----------------------------------------------------------------------------
(* Frames in the stream *)

LEMMA PlacedBytes ==
  ASSUME NEW s \in Stream, NEW f \in Placed, PlacedIn(s, f)
  PROVE  /\ s.bytes \in Seq(Byte) /\ FrameLength(f) \in Word
         /\ f.at \in Nat /\ FrameLength(f) \in Nat /\ FrameLength(f) >= 22
         /\ f.at + FrameLength(f) <= Len(s.bytes)
         /\ \A k \in 1..FrameLength(f) :
              s.bytes[f.at + k] = FrameBytes(f)[k]
<1>1. /\ s.bytes \in Seq(Byte) /\ Len(s.bytes) \in Nat
  BY LenProperties DEF Stream
<1>2. /\ f.at \in Nat /\ FrameLength(f) \in Nat /\ FrameLength(f) >= 22
  BY PlacedType, LenProperties
<1>3. /\ FrameLength(f) \in Word /\ f.at + FrameLength(f) <= Len(s.bytes)
      /\ SubSeq(s.bytes, f.at + 1, f.at + FrameLength(f)) = FrameBytes(f)
  BY DEF PlacedIn, FrameEnd
<1>4. \A k \in (f.at + 1)..(f.at + FrameLength(f)) : s.bytes[k] \in Byte
  <2>. SUFFICES ASSUME NEW k \in (f.at + 1)..(f.at + FrameLength(f))
                PROVE  s.bytes[k] \in Byte
    OBVIOUS
  <2>1. k \in 1..Len(s.bytes)
    BY <1>1, <1>2, <1>3
  <2>. QED
    BY <1>1, <2>1, ElementOfSeq
<1>5. \A k \in 1..((f.at + FrameLength(f)) - (f.at + 1) + 1) :
        FrameBytes(f)[k] = s.bytes[(f.at + 1) + k - 1]
  <2>1. f.at + 1 \in Int /\ f.at + FrameLength(f) \in Int
    BY <1>2
  <2>. QED
    <3>1. ASSUME NEW m \in Int, NEW n \in Int,
                 \A k \in m..n : s.bytes[k] \in Byte
          PROVE  \A k \in 1..(n - m + 1) :
                   SubSeq(s.bytes, m, n)[k] = s.bytes[m + k - 1]
      BY <3>1, SubSeqProperties
    <3>2. \A k \in 1..((f.at + FrameLength(f)) - (f.at + 1) + 1) :
            SubSeq(s.bytes, f.at + 1, f.at + FrameLength(f))[k]
              = s.bytes[(f.at + 1) + k - 1]
      BY <1>4, <2>1, <3>1
    <3>. QED
      BY <1>3, <3>2
<1>6. \A k \in 1..FrameLength(f) : s.bytes[f.at + k] = FrameBytes(f)[k]
  <2>. SUFFICES ASSUME NEW k \in 1..FrameLength(f)
                PROVE  s.bytes[f.at + k] = FrameBytes(f)[k]
    OBVIOUS
  <2>1. k \in 1..((f.at + FrameLength(f)) - (f.at + 1) + 1)
        /\ (f.at + 1) + k - 1 = f.at + k
    BY <1>2
  <2>. QED
    BY <1>5, <2>1
<1>. QED
  BY <1>1, <1>2, <1>3, <1>6

\* A frame starts with its type and the first byte of the serial number.
LEMMA PlacedStart ==
  ASSUME NEW s \in Stream, NEW f \in Placed, PlacedIn(s, f)
  PROVE  /\ s.bytes[f.at + 1] # StaticSerialBytes[1]
         /\ s.bytes[f.at + 2] = StaticSerialBytes[1]
<1>1. /\ FrameBytes(f)[1] = FrameBody(f)[1]
      /\ FrameBytes(f)[2] = FrameBody(f)[2]
  <2>1. \A k \in 1..(Len(f.text) + 20) : FrameBytes(f)[k] = FrameBody(f)[k]
    BY FrameElements, PlacedBytes, Zenon
  <2>2. Len(f.text) \in Nat
    BY PlacedType, LenProperties
  <2>. QED
    BY <2>1, <2>2
<1>2. FrameBody(f)[1] = f.type /\ FrameBody(f)[2] = StaticSerialBytes[1]
  <2>1. <<f.type>>[1] = f.type
    OBVIOUS
  <2>. QED
    BY <2>1, BodyBytes DEF FieldsIn
<1>3. /\ s.bytes[f.at + 1] = FrameBytes(f)[1]
      /\ s.bytes[f.at + 2] = FrameBytes(f)[2]
  BY PlacedBytes
<1>4. f.type # StaticSerialBytes[1]
  BY PlacedType, SerialType
<1>. QED
  BY <1>1, <1>2, <1>3, <1>4

\* What Laid says of the frame after the first i.
LEMMA NextFrame ==
  ASSUME NEW s \in Stream, NEW F, Laid(s, F), NEW i \in Nat, i < Len(F)
  PROVE  /\ F \in Seq(Placed) /\ Len(F) \in Nat /\ i + 1 \in 1..Len(F)
         /\ F[i + 1] \in Placed /\ PlacedIn(s, F[i + 1])
         /\ F[i + 1].package <= F[i + 1].packages
         /\ F[i + 1].package = 1 => F[i + 1].before = << >>
         /\ F[i + 1].package < F[i + 1].packages => GoesOn(F, i + 1)
         /\ ~(F[i + 1].package < F[i + 1].packages)
              => EndsMessage(s, F, i + 1)
<1>1. F \in Seq(Placed) /\ Len(F) \in Nat
  BY LenProperties DEF Laid
<1>2. i + 1 \in 1..Len(F)
  BY <1>1
<1>3. F[i + 1] \in Placed
  BY <1>1, <1>2, ElementOfSeq
<1>. QED
  BY <1>1, <1>2, <1>3 DEF Laid

\* The bytes before the frame after the first i, and after the last frame.
LEMMA Gaps ==
  ASSUME NEW s \in Stream, NEW F, Laid(s, F), NEW i \in 0..Len(F)
  PROVE  /\ Len(F) \in Nat /\ Len(s.bytes) \in Nat
         /\ GapStart(F, i) \in Nat /\ GapEnd(s, F, i) \in Nat
         /\ GapStart(F, i) <= GapEnd(s, F, i)
         /\ GapEnd(s, F, i) <= Len(s.bytes)
         /\ \A q \in Nat : GapStart(F, i) < q /\ q <= GapEnd(s, F, i)
              => s.bytes[q] # StaticSerialBytes[1]
         /\ i > 0 => GapStart(F, i) = F[i].at + FrameLength(F[i])
         /\ i = Len(F) => GapEnd(s, F, i) = Len(s.bytes)
         /\ i < Len(F) => GapEnd(s, F, i) = F[i + 1].at
<1>1. F \in Seq(Placed) /\ Len(F) \in Nat /\ Len(s.bytes) \in Nat
  BY LenProperties DEF Laid, Stream
<1>2. ASSUME NEW j \in 1..Len(F)
      PROVE  /\ F[j].at \in Nat /\ FrameLength(F[j]) \in Nat
             /\ F[j].at + FrameLength(F[j]) <= Len(s.bytes)
  <2>1. F[j] \in Placed /\ PlacedIn(s, F[j])
    BY <1>1, ElementOfSeq DEF Laid
  <2>. QED
    BY <2>1, PlacedBytes
<1>3. /\ i > 0 => GapStart(F, i) = F[i].at + FrameLength(F[i])
      /\ i = 0 => GapStart(F, i) = 0
  BY <1>1 DEF GapStart, FrameEnd
<1>4. /\ i = Len(F) => GapEnd(s, F, i) = Len(s.bytes)
      /\ i < Len(F) => GapEnd(s, F, i) = F[i + 1].at
  BY <1>1 DEF GapEnd
<1>5. GapStart(F, i) \in Nat
  <2>1. CASE i > 0
    <3>1. i \in 1..Len(F)
      BY <2>1
    <3>. QED
      BY <1>2, <1>3, <2>1, <3>1
  <2>2. CASE i = 0
    BY <1>3, <2>2
  <2>. QED
    BY <2>1, <2>2
<1>6. GapEnd(s, F, i) \in Nat /\ GapEnd(s, F, i) <= Len(s.bytes)
  <2>1. CASE i < Len(F)
    <3>1. i + 1 \in 1..Len(F)
      BY <1>1, <2>1
    <3>. QED
      BY <1>1, <1>2, <1>4, <2>1, <3>1
  <2>2. CASE i = Len(F)
    BY <1>1, <1>4, <2>2
  <2>. QED
    BY <1>1, <2>1, <2>2
<1>7. NoStart(s, F, i)
  BY DEF Laid
<1>8. \A q \in Nat : GapStart(F, i) < q /\ q <= GapEnd(s, F, i)
        => s.bytes[q] # StaticSerialBytes[1]
  <2>. SUFFICES ASSUME NEW q \in Nat, GapStart(F, i) < q,
                       q <= GapEnd(s, F, i)
                PROVE  s.bytes[q] # StaticSerialBytes[1]
    OBVIOUS
  <2>1. q \in (GapStart(F, i) + 1)..GapEnd(s, F, i)
    BY <1>5, <1>6
  <2>. QED
    BY <1>7, <2>1 DEF NoStart
<1>. QED
  BY <1>1, <1>3, <1>4, <1>5, <1>6, <1>7, <1>8 DEF NoStart


-----------------------------------------------------------------------------
(* The decoder on a sound stream *)

\* The bytes of part are those of the stream after the first `at' bytes.
Matches(part, at) == \A k \in 1..Len(part) : part[k] = stream.bytes[at + k]

\* Between the frames; the type of the next frame may have been read.
InGap(F, i) ==
  /\ GapStart(F, i) <= count
  /\ count <= GapEnd(stream, F, i) + (IF i = Len(F) THEN 0 ELSE 1)

InHeader(f) == Len(headerBytes) = count - f.at /\ Matches(headerBytes, f.at)

InData(f) ==
  /\ Matches(headerBytes, f.at) /\ Matches(frameBuffer, f.at)
  /\ Len(frameBuffer) = count - f.at /\ Len(frameBuffer) < FrameLength(f)

\* The packages of the message so far; there is room for the next one.
Gathered(f) ==
  /\ totalMessage = f.before
  /\ totalSize = f.packages * PackageSize
  /\ Len(f.before) <= (f.package - 1) * PackageSize

\* The messages that end before the (i + 1)st frame.
Ended(F, i) == IF i = Len(F) THEN Len(stream.sent) ELSE F[i + 1].message - 1

\* The messages delivered are those that end before the (i + 1)st frame.
Arrived(F, i) ==
  /\ Len(delivered) = Ended(F, i) /\ Len(delivered) <= Len(stream.sent)
  /\ \A d \in 1..Len(delivered) : delivered[d] = stream.sent[d]

\* The first i frames have been decoded.
At(F, i) ==
  /\ count > 0 => lastByte = stream.bytes[count]
  /\ decoderPhase \in {"Waiting", "Header", "Data"}
  /\ decoderPhase = "Waiting" => InGap(F, i)
  /\ decoderPhase = "Header" => i < Len(F) /\ InHeader(F[i + 1])
  /\ decoderPhase = "Data" => i < Len(F) /\ InData(F[i + 1])
  /\ i < Len(F) /\ (decoderPhase = "Data" \/ F[i + 1].package > 1)
       => Gathered(F[i + 1])
  /\ Arrived(F, i)

Reading ==
  \E F \in Seq(Placed) :
    Laid(stream, F) /\ \E i \in 0..Len(F) : At(F, i)


\* What every step does, on a stream whose frames are F.
LEMMA ByteRead ==
  ASSUME TypeOK, Next
  PROVE  /\ stream \in Stream /\ stream' = stream /\ count \in Nat
         /\ count < Len(stream.bytes) /\ count' = count + 1
         /\ inByte = stream.bytes[count + 1]
<1>1. stream \in Stream /\ count \in Nat
  BY StreamsAssumption DEF TypeOK
<1>. QED
  BY <1>1, StepReads DEF inByte

LEMMA ArrivedKept ==
  ASSUME NEW F, NEW i, Arrived(F, i), stream' = stream,
         delivered' = delivered
  PROVE  Arrived(F, i)'
BY DEF Arrived, Ended

LEMMA GatheredKept ==
  ASSUME NEW f, Gathered(f), totalMessage' = totalMessage,
         totalSize' = totalSize
  PROVE  Gathered(f)'
BY DEF Gathered

LEMMA WaitingAt ==
  ASSUME TypeOK, Next, WaitForStart, NEW F, Laid(stream, F),
         NEW i \in 0..Len(F), At(F, i)
  PROVE  At(F, i)'
<1>1. /\ stream \in Stream /\ stream' = stream /\ count \in Nat
      /\ count < Len(stream.bytes) /\ count' = count + 1
      /\ inByte = stream.bytes[count + 1]
  BY ByteRead
<1>2. /\ decoderPhase = "Waiting" /\ lastByte' = inByte
      /\ totalMessage' = totalMessage /\ totalSize' = totalSize
      /\ delivered' = delivered
  BY DEF WaitForStart, Decode, totalVars
<1>3. Arrived(F, i)'
  BY <1>1, <1>2, ArrivedKept DEF At
<1>4. i < Len(F) /\ F[i + 1].package > 1 => Gathered(F[i + 1])'
  BY <1>2, GatheredKept DEF At
<1>5. /\ count > 0 => lastByte = stream.bytes[count]
      /\ GapStart(F, i) <= count
      /\ count <= GapEnd(stream, F, i) + (IF i = Len(F) THEN 0 ELSE 1)
  BY <1>2 DEF At, InGap
<1>6. /\ Len(F) \in Nat /\ GapStart(F, i) \in Nat
      /\ GapEnd(stream, F, i) \in Nat
      /\ \A q \in Nat : GapStart(F, i) < q /\ q <= GapEnd(stream, F, i)
           => stream.bytes[q] # StaticSerialBytes[1]
      /\ i = Len(F) => GapEnd(stream, F, i) = Len(stream.bytes)
      /\ i < Len(F) => GapEnd(stream, F, i) = F[i + 1].at
  BY <1>1, Gaps
<1>7. i < Len(F) => /\ stream.bytes[F[i + 1].at + 1] # StaticSerialBytes[1]
                    /\ stream.bytes[F[i + 1].at + 2] = StaticSerialBytes[1]
  <2>. SUFFICES ASSUME i < Len(F)
                PROVE  /\ stream.bytes[F[i + 1].at + 1] # StaticSerialBytes[1]
                       /\ stream.bytes[F[i + 1].at + 2] = StaticSerialBytes[1]
    OBVIOUS
  <2>1. F[i + 1] \in Placed /\ PlacedIn(stream, F[i + 1])
    BY <1>1, NextFrame
  <2>. QED
    BY <1>1, <2>1, PlacedStart
<1>8. lastByte' = stream'.bytes[count']
  BY <1>1, <1>2
<1>9. CASE inByte = StaticSerialBytes[1]
  <2>1. i < Len(F) /\ count = F[i + 1].at + 1
    <3>1. ~(GapStart(F, i) < count + 1 /\ count + 1 <= GapEnd(stream, F, i))
      <4>1. count + 1 \in Nat
        BY <1>1
      <4>2. stream.bytes[count + 1] = StaticSerialBytes[1]
        BY <1>1, <1>9
      <4>. QED
        BY <1>6, <4>1, <4>2
    <3>2. i # Len(F)
      BY <1>1, <1>5, <1>6, <3>1
    <3>3. i < Len(F) /\ F[i + 1].at <= count /\ count <= F[i + 1].at + 1
      BY <1>1, <1>5, <1>6, <3>1, <3>2
    <3>4. count # F[i + 1].at
      BY <1>1, <1>7, <1>9, <3>3
    <3>5. F[i + 1].at \in Nat
      BY <1>6, <3>3
    <3>. QED
      BY <1>1, <3>3, <3>4, <3>5
  <2>2. headerBytes' = <<lastByte, inByte>> /\ decoderPhase' = "Header"
    BY <1>9 DEF WaitForStart
  <2>3. F[i + 1].at \in Nat
    BY <1>6, <2>1
  <2>4. lastByte = stream.bytes[F[i + 1].at + 1]
        /\ inByte = stream.bytes[F[i + 1].at + 2]
    <3>1. count > 0
      BY ONLY <2>1, <2>3
    <3>2. lastByte = stream.bytes[count] /\ inByte = stream.bytes[count + 1]
      BY <1>1, <1>5, <3>1, Zenon
    <3>3. count + 1 = F[i + 1].at + 2
      BY ONLY <2>1, <2>3
    <3>. QED
      BY <2>1, <3>2, <3>3, Zenon
  <2>5. InHeader(F[i + 1])'
    <3>1. Len(headerBytes') = 2 /\ count' - F[i + 1].at = 2
      <4>1. Len(<<lastByte, inByte>>) = 2
        OBVIOUS
      <4>2. Len(headerBytes') = 2
        BY <2>2, <4>1, Zenon
      <4>3. count' = count + 1 /\ count = F[i + 1].at + 1
        BY <1>1, <2>1, Zenon
      <4>4. count' - F[i + 1].at = 2
        <5>1. PICK at : at = F[i + 1].at
          BY Zenon
        <5>2. at \in Nat /\ count' = count + 1 /\ count = at + 1
          BY <2>3, <4>3, <5>1, Zenon
        <5>3. count' - at = 2
          BY ONLY <5>2
        <5>. QED
          BY <5>1, <5>3, Zenon
      <4>. QED
        BY <4>2, <4>4, Zenon
    <3>2. \A k \in 1..2 : headerBytes'[k] = stream.bytes[F[i + 1].at + k]
      <4>. SUFFICES ASSUME NEW k \in 1..2
                    PROVE  headerBytes'[k] = stream.bytes[F[i + 1].at + k]
        OBVIOUS
      <4>1. k = 1 \/ k = 2
        OBVIOUS
      <4>. QED
        BY <2>2, <2>4, <4>1
    <3>. QED
      BY <1>1, <3>1, <3>2 DEF InHeader, Matches
  <2>. QED
    BY <1>3, <1>4, <1>8, <2>1, <2>2, <2>5 DEF At
<1>10. CASE inByte # StaticSerialBytes[1]
  <2>1. decoderPhase' = "Waiting"
    BY <1>2, <1>10 DEF WaitForStart
  <2>2. InGap(F, i)'
    <3>1. CASE i = Len(F)
      <4>1. count + 1 <= GapEnd(stream, F, i)
        BY <1>1, <1>6, <3>1
      <4>. QED
        BY <1>1, <1>5, <1>6, <3>1, <4>1 DEF InGap, GapEnd
    <3>2. CASE i # Len(F)
      <4>1. i < Len(F)
        BY <1>6, <3>2
      <4>2. count # F[i + 1].at + 1
        <5>. SUFFICES ASSUME count = F[i + 1].at + 1 PROVE FALSE
          OBVIOUS
        <5>1. F[i + 1].at \in Nat
          BY <1>6, <4>1
        <5>2. count + 1 = F[i + 1].at + 2
          BY <5>1
        <5>3. inByte = stream.bytes[F[i + 1].at + 2]
          BY <1>1, <5>2, Zenon
        <5>. QED
          BY <1>7, <1>10, <4>1, <5>3, Zenon
      <4>3. count + 1 <= GapEnd(stream, F, i) + 1
        BY <1>1, <1>5, <1>6, <4>1, <4>2
      <4>. QED
        BY <1>1, <1>5, <1>6, <3>2, <4>3 DEF InGap, GapEnd
    <3>. QED
      BY <3>1, <3>2
  <2>. QED
    BY <1>3, <1>4, <1>8, <2>1, <2>2 DEF At
<1>. QED
  BY <1>9, <1>10

LEMMA OneMore ==
  ASSUME NEW l \in Nat, NEW n \in Nat, l < n
  PROVE  l + 1 <= n
OBVIOUS

\* The header with the byte just read: the first bytes of the frame.
LEMMA HeaderBytes ==
  ASSUME TypeOK, Next, decoderPhase = "Header", NEW F, Laid(stream, F),
         NEW i \in 0..Len(F), At(F, i)
  PROVE  /\ i < Len(F) /\ F[i + 1] \in Placed /\ PlacedIn(stream, F[i + 1])
         /\ Len(header) = (count + 1) - F[i + 1].at
         /\ \A k \in 1..Len(header) :
              header[k] = stream.bytes[F[i + 1].at + k]
         /\ F[i + 1].at \in Nat
<1>1. /\ stream \in Stream /\ stream' = stream /\ count \in Nat
      /\ inByte = stream.bytes[count + 1] /\ headerBytes \in Seq(Byte)
      /\ inByte \in Byte
  BY ByteRead, StepReads DEF TypeOK
<1>2. /\ i < Len(F) /\ Len(headerBytes) = count - F[i + 1].at
      /\ \A k \in 1..Len(headerBytes) :
           headerBytes[k] = stream.bytes[F[i + 1].at + k]
  BY DEF At, InHeader, Matches
<1>3. F[i + 1] \in Placed /\ PlacedIn(stream, F[i + 1])
  BY <1>1, <1>2, NextFrame
<1>4. F[i + 1].at \in Nat
  BY <1>3, PlacedType
<1>5. /\ Len(header) = Len(headerBytes) + 1
      /\ \A k \in 1..Len(headerBytes) : header[k] = headerBytes[k]
      /\ header[Len(headerBytes) + 1] = inByte
      /\ Len(headerBytes) \in Nat
  BY <1>1, AppendProperties, LenProperties DEF header
<1>a. /\ Len(headerBytes) + 1 = (count + 1) - F[i + 1].at
      /\ F[i + 1].at + (Len(headerBytes) + 1) = count + 1
      /\ Len(headerBytes) + 1 \in Nat
  <2>1. PICK at : at = F[i + 1].at
    BY Zenon
  <2>2. PICK len : len = Len(headerBytes)
    BY Zenon
  <2>3. count \in Nat /\ at \in Nat /\ len \in Nat /\ len = count - at
    BY <1>1, <1>2, <1>4, <1>5, <2>1, <2>2, Zenon
  <2>4. /\ len + 1 = (count + 1) - at /\ at + (len + 1) = count + 1
        /\ len + 1 \in Nat
    BY ONLY <2>3
  <2>. QED
    BY ONLY <2>1, <2>2, <2>4, Zenon
<1>6. \A k \in 1..Len(header) : header[k] = stream.bytes[F[i + 1].at + k]
  <2>. SUFFICES ASSUME NEW k \in 1..Len(header)
                PROVE  header[k] = stream.bytes[F[i + 1].at + k]
    OBVIOUS
  <2>1. CASE k = Len(header)
    <3>1. header[k] = inByte
      BY <1>5, <2>1
    <3>2. F[i + 1].at + k = count + 1
      <4>1. F[i + 1].at + (Len(headerBytes) + 1) = count + 1
        BY <1>a, Zenon
      <4>2. k = Len(headerBytes) + 1
        BY <1>5, <2>1, Zenon
      <4>. QED
        BY <4>1, <4>2, Zenon
    <3>. QED
      BY <1>1, <3>1, <3>2
  <2>2. CASE k # Len(header)
    <3>1. k \in 1..Len(headerBytes)
      BY <1>5, <2>2
    <3>. QED
      BY <1>2, <1>5, <3>1
  <2>. QED
    BY <2>1, <2>2
<1>7. Len(header) = (count + 1) - F[i + 1].at
  <2>1. Len(headerBytes) + 1 = (count + 1) - F[i + 1].at
    BY <1>a, Zenon
  <2>. QED
    BY <1>5, <2>1, Zenon
<1>. QED
  BY <1>2, <1>3, <1>4, <1>6, <1>7, Zenon

\* The header of a frame is complete: no frame of a sound stream is rejected.
LEMMA HeaderRead ==
  ASSUME TypeOK, Next, EndHeader, NEW F, Laid(stream, F),
         NEW i \in 0..Len(F), At(F, i)
  PROVE  /\ header \in Seq(Byte) /\ Len(header) = 19
         /\ \A k \in 1..19 : header[k] = FrameBytes(F[i + 1])[k]
         /\ ~Rejected(header) /\ Allocates(header)
         /\ currPackage(header) = F[i + 1].package
         /\ expectedPackages(header) = F[i + 1].packages
<1>1. decoderPhase = "Header" /\ Len(header) = 19 /\ header \in Seq(Byte)
  BY StepReads DEF EndHeader, Decode, MsgHeaderLength
<1>2. /\ i < Len(F) /\ F[i + 1] \in Placed /\ PlacedIn(stream, F[i + 1])
      /\ \A k \in 1..Len(header) :
           header[k] = stream.bytes[F[i + 1].at + k]
  BY <1>1, HeaderBytes
<1>3. /\ FrameLength(F[i + 1]) \in Word /\ FrameLength(F[i + 1]) \in Nat
      /\ FrameLength(F[i + 1]) >= 22
      /\ \A k \in 1..FrameLength(F[i + 1]) :
           stream.bytes[F[i + 1].at + k] = FrameBytes(F[i + 1])[k]
  BY <1>2, PlacedBytes, ByteRead
<1>4. \A k \in 1..19 : header[k] = FrameBytes(F[i + 1])[k]
  <2>. SUFFICES ASSUME NEW k \in 1..19
                PROVE  header[k] = FrameBytes(F[i + 1])[k]
    OBVIOUS
  <2>1. k \in 1..FrameLength(F[i + 1]) /\ k \in 1..Len(header)
    BY <1>1, <1>3
  <2>. QED
    BY <1>2, <1>3, <2>1
<1>5. /\ FrameOk(header) /\ expectedDataLen(header) = FrameLength(F[i + 1])
      /\ currPackage(header) = F[i + 1].package
      /\ expectedPackages(header) = F[i + 1].packages
  BY <1>1, <1>2, <1>3, <1>4, HeaderFacts
<1>6. F[i + 1].packages \in Int /\ F[i + 1].packages >= 1
  BY <1>2, PlacedType
<1>7. Allocates(header)
  BY <1>3, <1>5, <1>6 DEF Allocates, MsgHeaderLength
<1>8. ~Rejected(header)
  BY <1>3, <1>5 DEF Rejected
<1>. QED
  BY <1>1, <1>4, <1>5, <1>7, <1>8

LEMMA HeaderAt ==
  ASSUME TypeOK, Next, FillHeader \/ AcceptHeader, NEW F, Laid(stream, F),
         NEW i \in 0..Len(F), At(F, i)
  PROVE  At(F, i)'
<1>1. /\ stream' = stream /\ count \in Nat /\ count' = count + 1
      /\ inByte = stream.bytes[count + 1] /\ stream \in Stream
  BY ByteRead
<1>2. /\ decoderPhase = "Header" /\ lastByte' = inByte
      /\ headerBytes' = header /\ delivered' = delivered
  BY DEF FillHeader, AcceptHeader, EndHeader, Decode
<1>3. Arrived(F, i)'
  BY <1>1, <1>2, ArrivedKept DEF At
<1>4. lastByte' = stream'.bytes[count']
  BY <1>1, <1>2
<1>5. /\ i < Len(F) /\ F[i + 1] \in Placed /\ PlacedIn(stream, F[i + 1])
      /\ Len(header) = (count + 1) - F[i + 1].at
      /\ \A k \in 1..Len(header) :
           header[k] = stream.bytes[F[i + 1].at + k]
      /\ F[i + 1].at \in Nat
  BY <1>2, HeaderBytes
<1>6. F[i + 1].package > 1 => Gathered(F[i + 1])
  BY <1>5 DEF At
<1>7. CASE FillHeader
  <2>1. /\ totalMessage' = totalMessage /\ totalSize' = totalSize
        /\ decoderPhase' = "Header"
    BY <1>2, <1>7 DEF FillHeader, totalVars
  <2>2. InHeader(F[i + 1])'
    BY <1>1, <1>2, <1>5 DEF InHeader, Matches
  <2>3. F[i + 1].package > 1 => Gathered(F[i + 1])'
    BY <1>6, <2>1, GatheredKept
  <2>. QED
    BY <1>3, <1>4, <1>5, <2>1, <2>2, <2>3 DEF At
<1>8. CASE AcceptHeader
  <2>1. /\ Len(header) = 19 /\ currPackage(header) = F[i + 1].package
        /\ expectedPackages(header) = F[i + 1].packages
    BY <1>8, HeaderRead DEF AcceptHeader
  <2>2. decoderPhase' = "Data" /\ frameBuffer' = header
    BY <1>8 DEF AcceptHeader
  <2>3. InData(F[i + 1])'
    <3>1. FrameLength(F[i + 1]) \in Nat /\ FrameLength(F[i + 1]) >= 22
      BY <1>1, <1>5, PlacedBytes
    <3>2. Len(header) < FrameLength(F[i + 1])
      BY <2>1, <3>1
    <3>3. /\ headerBytes' = header /\ frameBuffer' = header
          /\ stream' = stream /\ Len(header) = count' - F[i + 1].at
      BY <1>1, <1>2, <1>5, <2>2
    <3>4. Matches(headerBytes, F[i + 1].at)'
          /\ Matches(frameBuffer, F[i + 1].at)'
      BY <1>5, <3>3 DEF Matches
    <3>. QED
      BY <3>2, <3>3, <3>4 DEF InData
  <2>4. Gathered(F[i + 1])'
    <3>1. F[i + 1].package \in Int /\ F[i + 1].package >= 1
      BY <1>5, PlacedType
    <3>2. CASE F[i + 1].package = 1
      <4>1. /\ totalMessage' = << >>
            /\ totalSize' = F[i + 1].packages * PackageSize
        BY <1>8, <2>1, <3>2 DEF AcceptHeader
      <4>2. F[i + 1].before = << >>
        BY <1>1, <1>5, <3>2, NextFrame
      <4>3. Len(F[i + 1].before) <= (F[i + 1].package - 1) * PackageSize
        BY <3>2, <4>2, PackageAssumption
      <4>. QED
        BY <4>1, <4>2, <4>3 DEF Gathered
    <3>3. CASE F[i + 1].package # 1
      <4>1. totalMessage' = totalMessage /\ totalSize' = totalSize
        BY <1>8, <2>1, <3>3 DEF AcceptHeader, totalVars
      <4>2. Gathered(F[i + 1])
        BY <1>6, <3>1, <3>3
      <4>. QED
        BY <4>1, <4>2, GatheredKept
    <3>. QED
      BY <3>2, <3>3
  <2>. QED
    BY <1>3, <1>4, <1>5, <2>2, <2>3, <2>4 DEF At
<1>. QED
  BY <1>7, <1>8


\* The frame with the byte just read.
LEMMA DataBytes ==
  ASSUME TypeOK, Next, decoderPhase = "Data", NEW F, Laid(stream, F),
         NEW i \in 0..Len(F), At(F, i)
  PROVE  /\ i < Len(F) /\ F[i + 1] \in Placed /\ PlacedIn(stream, F[i + 1])
         /\ F[i + 1].at \in Nat /\ Gathered(F[i + 1])
         /\ headerBytes \in Seq(Byte) /\ Len(headerBytes) = 19
         /\ Matches(headerBytes, F[i + 1].at)
         /\ frame \in Seq(Byte) /\ Len(frame) \in Nat
         /\ Len(frame) = (count + 1) - F[i + 1].at
         /\ Len(frame) <= FrameLength(F[i + 1])
         /\ \A k \in 1..Len(frame) :
              frame[k] = stream.bytes[F[i + 1].at + k]
<1>1. /\ stream \in Stream /\ stream' = stream /\ count \in Nat
      /\ inByte = stream.bytes[count + 1] /\ frameBuffer \in Seq(Byte)
      /\ inByte \in Byte /\ headerBytes \in Seq(Byte)
      /\ Len(headerBytes) = 19
  BY ByteRead, StepReads DEF TypeOK, MsgHeaderLength
<1>2. /\ i < Len(F) /\ Len(frameBuffer) = count - F[i + 1].at
      /\ Len(frameBuffer) < FrameLength(F[i + 1])
      /\ Matches(headerBytes, F[i + 1].at) /\ Gathered(F[i + 1])
      /\ \A k \in 1..Len(frameBuffer) :
           frameBuffer[k] = stream.bytes[F[i + 1].at + k]
  BY DEF At, InData, Matches
<1>3. F[i + 1] \in Placed /\ PlacedIn(stream, F[i + 1])
  BY <1>1, <1>2, NextFrame
<1>4. F[i + 1].at \in Nat /\ FrameLength(F[i + 1]) \in Nat
  BY <1>3, PlacedType
<1>5. /\ Len(frame) = Len(frameBuffer) + 1 /\ frame \in Seq(Byte)
      /\ \A k \in 1..Len(frameBuffer) : frame[k] = frameBuffer[k]
      /\ frame[Len(frameBuffer) + 1] = inByte
      /\ Len(frameBuffer) \in Nat
  BY <1>1, AppendProperties, LenProperties DEF frame
<1>a. /\ Len(frameBuffer) + 1 = (count + 1) - F[i + 1].at
      /\ F[i + 1].at + (Len(frameBuffer) + 1) = count + 1
      /\ Len(frameBuffer) + 1 \in Nat
  <2>1. PICK at : at = F[i + 1].at
    BY Zenon
  <2>2. PICK len : len = Len(frameBuffer)
    BY Zenon
  <2>3. count \in Nat /\ at \in Nat /\ len \in Nat /\ len = count - at
    BY <1>1, <1>2, <1>4, <1>5, <2>1, <2>2, Zenon
  <2>4. /\ len + 1 = (count + 1) - at /\ at + (len + 1) = count + 1
        /\ len + 1 \in Nat
    BY ONLY <2>3
  <2>. QED
    BY ONLY <2>1, <2>2, <2>4, Zenon
<1>6. \A k \in 1..Len(frame) : frame[k] = stream.bytes[F[i + 1].at + k]
  <2>. SUFFICES ASSUME NEW k \in 1..Len(frame)
                PROVE  frame[k] = stream.bytes[F[i + 1].at + k]
    OBVIOUS
  <2>1. CASE k = Len(frame)
    <3>1. frame[k] = inByte
      BY <1>5, <2>1
    <3>2. F[i + 1].at + k = count + 1
      <4>1. F[i + 1].at + (Len(frameBuffer) + 1) = count + 1
        BY <1>a, Zenon
      <4>2. k = Len(frameBuffer) + 1
        BY <1>5, <2>1, Zenon
      <4>. QED
        BY <4>1, <4>2, Zenon
    <3>. QED
      BY <1>1, <3>1, <3>2
  <2>2. CASE k # Len(frame)
    <3>1. k \in 1..Len(frameBuffer)
      BY <1>5, <2>2
    <3>. QED
      BY <1>2, <1>5, <3>1
  <2>. QED
    BY <2>1, <2>2
<1>7. Len(frame) <= FrameLength(F[i + 1]) /\ Len(frame) \in Nat
      /\ Len(frame) = (count + 1) - F[i + 1].at
  <2>1. /\ Len(frameBuffer) + 1 = (count + 1) - F[i + 1].at
        /\ Len(frameBuffer) + 1 \in Nat
    BY <1>a, Zenon
  <2>2. Len(frameBuffer) + 1 <= FrameLength(F[i + 1])
    BY <1>2, <1>4, <1>5, OneMore, Zenon
  <2>. QED
    BY <1>5, <2>1, <2>2, Zenon
<1>. QED
  BY <1>1, <1>2, <1>3, <1>4, <1>5, <1>6, <1>7, Zenon

\* The fields of the header while its frame is read.
LEMMA DataFields ==
  ASSUME TypeOK, Next, decoderPhase = "Data", NEW F, Laid(stream, F),
         NEW i \in 0..Len(F), At(F, i)
  PROVE  /\ frameLen = FrameLength(F[i + 1]) /\ frameLen \in Nat
         /\ headerBytes[1] = F[i + 1].type
         /\ toInt16(headerBytes, 11) = toInt16(F[i + 1].eleven, 0)
         /\ currPackage(headerBytes) = F[i + 1].package
         /\ expectedPackages(headerBytes) = F[i + 1].packages
<1>1. /\ i < Len(F) /\ F[i + 1] \in Placed /\ PlacedIn(stream, F[i + 1])
      /\ headerBytes \in Seq(Byte) /\ Len(headerBytes) = 19
      /\ \A k \in 1..Len(headerBytes) :
           headerBytes[k] = stream.bytes[F[i + 1].at + k]
  BY DataBytes DEF Matches
<1>2. /\ FrameLength(F[i + 1]) \in Word /\ FrameLength(F[i + 1]) \in Nat
      /\ FrameLength(F[i + 1]) >= 22
      /\ \A k \in 1..FrameLength(F[i + 1]) :
           stream.bytes[F[i + 1].at + k] = FrameBytes(F[i + 1])[k]
  BY <1>1, PlacedBytes, ByteRead
<1>3. \A k \in 1..19 : headerBytes[k] = FrameBytes(F[i + 1])[k]
  <2>. SUFFICES ASSUME NEW k \in 1..19
                PROVE  headerBytes[k] = FrameBytes(F[i + 1])[k]
    OBVIOUS
  <2>1. k \in 1..FrameLength(F[i + 1]) /\ k \in 1..Len(headerBytes)
    <3>1. FrameLength(F[i + 1]) \in Nat /\ FrameLength(F[i + 1]) >= 22
      BY <1>2
    <3>2. Len(headerBytes) = 19
      BY <1>1
    <3>. QED
      BY <3>1, <3>2
  <2>. QED
    BY <1>1, <1>2, <2>1
<1>4. frameLen = expectedDataLen(headerBytes)
  BY DEF frameLen
<1>. QED
  BY <1>1, <1>2, <1>3, <1>4, HeaderFacts

\* There is room for the text of every frame.
LEMMA Room ==
  ASSUME NEW p \in Int, NEW q \in Int, 1 <= p, p <= q, NEW size \in Nat,
         NEW n \in Nat, n <= (p - 1) * size, NEW l \in Nat, l <= size
  PROVE  n + l <= p * size /\ n + l <= q * size /\ q * size \in Nat
<1>1. (p - 1) * size + size = p * size
  OBVIOUS
<1>2. p * size <= q * size /\ q * size \in Nat
  <2>1. (q - p) * size \in Nat
    OBVIOUS
  <2>2. q * size = p * size + (q - p) * size /\ p * size \in Int
    OBVIOUS
  <2>3. p * size \in Nat
    OBVIOUS
  <2>. QED
    BY <2>1, <2>2, <2>3
<1>. QED
  BY <1>1, <1>2

\* The frame is complete: no frame of a sound stream is dropped.
LEMMA FrameRead ==
  ASSUME TypeOK, Next, EndData, NEW F, Laid(stream, F),
         NEW i \in 0..Len(F), At(F, i)
  PROVE  /\ i < Len(F) /\ F[i + 1] \in Placed
         /\ CrcOk(frame) /\ CopyWorks(TextLen)
         /\ Copied = F[i + 1].before \o F[i + 1].text
         /\ Len(F[i + 1].before \o F[i + 1].text)
              <= F[i + 1].package * PackageSize
         /\ totalSize = F[i + 1].packages * PackageSize
         /\ count + 1 = F[i + 1].at + FrameLength(F[i + 1])
<1>1. decoderPhase = "Data" /\ Len(frame) = frameLen
  BY DEF EndData, Decode
<1>2. /\ i < Len(F) /\ F[i + 1] \in Placed /\ PlacedIn(stream, F[i + 1])
      /\ F[i + 1].at \in Nat /\ Gathered(F[i + 1])
      /\ frame \in Seq(Byte)
      /\ Len(frame) = (count + 1) - F[i + 1].at
      /\ \A k \in 1..Len(frame) :
           frame[k] = stream.bytes[F[i + 1].at + k]
  BY <1>1, DataBytes
<1>3. frameLen = FrameLength(F[i + 1]) /\ frameLen \in Nat
  BY <1>1, DataFields
<1>4. /\ FrameLength(F[i + 1]) \in Word
      /\ \A k \in 1..FrameLength(F[i + 1]) :
           stream.bytes[F[i + 1].at + k] = FrameBytes(F[i + 1])[k]
  BY <1>2, PlacedBytes, ByteRead
<1>5. \A k \in 1..Len(frame) : frame[k] = FrameBytes(F[i + 1])[k]
  BY <1>1, <1>2, <1>3, <1>4
<1>6. /\ CrcOk(frame)
      /\ SubSeq(frame, MsgHeaderLength + 1, FrameLength(F[i + 1]) - 3)
           = F[i + 1].text
  <2>1. Len(frame) = FrameLength(F[i + 1])
    BY <1>1, <1>3, Zenon
  <2>. QED
    BY <1>2, <1>4, <1>5, <2>1, EndFacts, Zenon
<1>7. /\ totalMessage = F[i + 1].before
      /\ totalSize = F[i + 1].packages * PackageSize
      /\ Len(F[i + 1].before) <= (F[i + 1].package - 1) * PackageSize
  BY <1>2 DEF Gathered
<1>8. /\ F[i + 1].package \in Int /\ F[i + 1].packages \in Int
      /\ F[i + 1].package >= 1 /\ PackageSize \in Nat
      /\ F[i + 1].package <= F[i + 1].packages
      /\ F[i + 1].text \in Seq(Byte) /\ F[i + 1].before \in Seq(Byte)
      /\ Len(F[i + 1].text) <= PackageSize
      /\ FrameLength(F[i + 1]) = Len(F[i + 1].text) + 22
  <2>1. F[i + 1].package <= F[i + 1].packages
    BY <1>2, ByteRead, NextFrame
  <2>2. /\ F[i + 1].package \in Int /\ F[i + 1].packages \in Int
        /\ F[i + 1].package >= 1
        /\ F[i + 1].text \in Seq(Byte) /\ F[i + 1].before \in Seq(Byte)
        /\ FrameLength(F[i + 1]) = Len(F[i + 1].text) + 22
    <3>1. F[i + 1] \in Placed
      BY <1>2, Zenon
    <3>. QED
      BY ONLY <3>1, PlacedType
  <2>3. Len(F[i + 1].text) <= PackageSize
    BY <1>2 DEF PlacedIn
  <2>4. PackageSize \in Nat
    BY PackageAssumption
  <2>. QED
    BY <2>1, <2>2, <2>3, <2>4, Zenon
<1>9. Len(F[i + 1].text) \in Nat /\ Len(F[i + 1].before) \in Nat
  BY <1>8, LenProperties
<1>10. /\ Len(F[i + 1].before) + Len(F[i + 1].text)
            <= F[i + 1].package * PackageSize
       /\ Len(F[i + 1].before) + Len(F[i + 1].text) <= totalSize
       /\ totalSize \in Nat
  BY <1>7, <1>8, <1>9, Room
<1>11. TextLen = Len(F[i + 1].text)
  BY <1>3, <1>8, <1>9 DEF TextLen, MsgHeaderLength
<1>12. CopyWorks(TextLen)
  <2>1. totalMessage = F[i + 1].before
    BY <1>7
  <2>2. totalSize # Null
    BY <1>10, NullAssumption
  <2>3. TextLen \in Nat /\ Len(totalMessage) + TextLen <= totalSize
    <3>1. TextLen \in Nat
      BY <1>9, <1>11
    <3>2. Len(totalMessage) + TextLen
            = Len(F[i + 1].before) + Len(F[i + 1].text)
      BY <1>11, <2>1
    <3>. QED
      BY <1>10, <3>1, <3>2, Zenon
  <2>. QED
    BY <2>2, <2>3 DEF CopyWorks
<1>13. Copied = F[i + 1].before \o F[i + 1].text
  BY <1>3, <1>6, <1>7 DEF Copied
<1>14. Len(F[i + 1].before \o F[i + 1].text)
         = Len(F[i + 1].before) + Len(F[i + 1].text)
  BY <1>8, ConcatProperties
<1>15. count + 1 = F[i + 1].at + FrameLength(F[i + 1])
  <2>1. count \in Nat
    BY ByteRead
  <2>. QED
    <3>1. /\ F[i + 1].at \in Nat /\ Len(frame) = (count + 1) - F[i + 1].at
          /\ Len(frame) = FrameLength(F[i + 1])
          /\ FrameLength(F[i + 1]) \in Nat
      BY <1>1, <1>2, <1>3
    <3>2. ASSUME NEW a \in Nat, NEW c \in Nat, NEW l \in Nat,
                 l = (c + 1) - a
          PROVE  c + 1 = a + l
      BY <3>2
    <3>. QED
      BY <2>1, <3>1, <3>2
<1>. QED
  BY <1>2, <1>6, <1>7, <1>10, <1>12, <1>13, <1>14, <1>15


LEMMA DataAt ==
  ASSUME TypeOK, Next, FillData, NEW F, Laid(stream, F),
         NEW i \in 0..Len(F), At(F, i)
  PROVE  At(F, i)'
<1>1. /\ stream' = stream /\ count \in Nat /\ count' = count + 1
      /\ inByte = stream.bytes[count + 1]
  BY ByteRead
<1>2. /\ decoderPhase = "Data" /\ decoderPhase' = "Data"
      /\ lastByte' = inByte /\ Len(frame) < frameLen
      /\ headerBytes' = headerBytes /\ frameBuffer' = frame
      /\ totalMessage' = totalMessage /\ totalSize' = totalSize
      /\ delivered' = delivered
  BY DEF FillData, Decode, totalVars
<1>3. Arrived(F, i)'
  BY <1>1, <1>2, ArrivedKept DEF At
<1>4. lastByte' = stream'.bytes[count']
  BY <1>1, <1>2
<1>5. /\ i < Len(F) /\ Gathered(F[i + 1])
      /\ Matches(headerBytes, F[i + 1].at)
      /\ Len(frame) = (count + 1) - F[i + 1].at
      /\ \A k \in 1..Len(frame) :
           frame[k] = stream.bytes[F[i + 1].at + k]
  BY <1>2, DataBytes
<1>6. frameLen = FrameLength(F[i + 1])
  BY <1>2, DataFields
<1>7. InData(F[i + 1])'
  <2>1. /\ Matches(headerBytes, F[i + 1].at)'
        /\ Matches(frameBuffer, F[i + 1].at)'
    BY <1>1, <1>2, <1>5 DEF Matches
  <2>2. /\ Len(frameBuffer') = count' - F[i + 1].at
        /\ Len(frameBuffer') < FrameLength(F[i + 1])
    BY <1>1, <1>2, <1>5, <1>6
  <2>. QED
    BY <2>1, <2>2 DEF InData
<1>8. Gathered(F[i + 1])'
  BY <1>2, <1>5, GatheredKept
<1>. QED
  BY <1>2, <1>3, <1>4, <1>5, <1>7, <1>8 DEF At

\* After the end of a frame the decoder waits in the next gap.
LEMMA GapAfter ==
  ASSUME TypeOK, Next, EndData, NEW F, Laid(stream, F),
         NEW i \in 0..Len(F), At(F, i)
  PROVE  i + 1 \in 0..Len(F) /\ InGap(F, i + 1)'
<1>1. /\ stream' = stream /\ stream \in Stream /\ count \in Nat
      /\ count' = count + 1
  BY ByteRead
<1>2. i < Len(F) /\ count + 1 = F[i + 1].at + FrameLength(F[i + 1])
  BY FrameRead
<1>3. Len(F) \in Nat
  BY <1>1, Gaps
<1>4. i + 1 \in 0..Len(F) /\ i + 1 > 0
  BY <1>2, <1>3
<1>5. /\ GapStart(F, i + 1) = F[i + 1].at + FrameLength(F[i + 1])
      /\ GapStart(F, i + 1) \in Nat /\ GapEnd(stream, F, i + 1) \in Nat
      /\ GapStart(F, i + 1) <= GapEnd(stream, F, i + 1)
  BY <1>1, <1>4, Gaps
<1>6. /\ GapStart(F, i + 1) <= count'
      /\ count' <= GapEnd(stream, F, i + 1)
                     + (IF i + 1 = Len(F) THEN 0 ELSE 1)
  BY <1>1, <1>2, <1>5
<1>. QED
  BY <1>1, <1>4, <1>6 DEF InGap, GapEnd

LEMMA PackageAt ==
  ASSUME TypeOK, Next, Package, NEW F, Laid(stream, F),
         NEW i \in 0..Len(F), At(F, i)
  PROVE  i + 1 \in 0..Len(F) /\ At(F, i + 1)'
<1>1. /\ stream' = stream /\ stream \in Stream /\ count \in Nat
      /\ count' = count + 1 /\ inByte = stream.bytes[count + 1]
  BY ByteRead
<1>2. /\ EndData /\ decoderPhase = "Data" /\ decoderPhase' = "Waiting"
      /\ lastByte' = inByte /\ delivered' = delivered
      /\ totalMessage' = Copied /\ totalSize' = totalSize
      /\ currPackage(headerBytes) # expectedPackages(headerBytes)
  BY DEF Package, ValidFrame, EndData, Decode
<1>3. /\ i < Len(F) /\ F[i + 1] \in Placed
      /\ Copied = F[i + 1].before \o F[i + 1].text
      /\ Len(F[i + 1].before \o F[i + 1].text)
           <= F[i + 1].package * PackageSize
      /\ totalSize = F[i + 1].packages * PackageSize
  BY <1>2, FrameRead
<1>4. /\ currPackage(headerBytes) = F[i + 1].package
      /\ expectedPackages(headerBytes) = F[i + 1].packages
  BY <1>2, DataFields
<1>5. F[i + 1].package \in Int /\ F[i + 1].packages \in Int
  BY <1>3, PlacedType
<1>6. F[i + 1].package < F[i + 1].packages /\ GoesOn(F, i + 1)
      /\ Len(F) \in Nat
  <2>1. F[i + 1].package <= F[i + 1].packages
    BY <1>1, <1>3, NextFrame
  <2>2. F[i + 1].package < F[i + 1].packages
    BY <1>2, <1>4, <1>5, <2>1
  <2>. QED
    BY <1>1, <1>3, <2>2, NextFrame
<1>7. /\ i + 1 < Len(F) /\ F[(i + 1) + 1].package = F[i + 1].package + 1
      /\ F[(i + 1) + 1].packages = F[i + 1].packages
      /\ F[(i + 1) + 1].message = F[i + 1].message
      /\ F[(i + 1) + 1].before = F[i + 1].before \o F[i + 1].text
  BY <1>6 DEF GoesOn
<1>8. Gathered(F[(i + 1) + 1])'
  <2>1. (F[i + 1].package + 1) - 1 = F[i + 1].package
    BY <1>5
  <2>. QED
    BY <1>2, <1>3, <1>7, <2>1 DEF Gathered
<1>9. Arrived(F, i + 1)'
  <2>1. Ended(F, i) = F[i + 1].message - 1
    BY <1>3, <1>6 DEF Ended
  <2>2. Ended(F, i + 1)' = F[i + 1].message - 1
    BY <1>7 DEF Ended
  <2>3. Arrived(F, i)
    BY DEF At
  <2>. QED
    BY <1>1, <1>2, <2>1, <2>2, <2>3 DEF Arrived
<1>10. i + 1 \in 0..Len(F) /\ InGap(F, i + 1)'
  BY <1>2, GapAfter
<1>11. lastByte' = stream'.bytes[count']
  BY <1>1, <1>2
<1>. QED
  BY <1>2, <1>8, <1>9, <1>10, <1>11 DEF At

LEMMA LastPackageAt ==
  ASSUME TypeOK, Next, LastPackage, NEW F, Laid(stream, F),
         NEW i \in 0..Len(F), At(F, i)
  PROVE  /\ i + 1 \in 0..Len(F) /\ At(F, i + 1)'
         /\ Len(delivered) + 1 \in 1..Len(stream.sent)
         /\ delivered' = Append(delivered, stream.sent[Len(delivered) + 1])
<1>1. /\ stream' = stream /\ stream \in Stream /\ count \in Nat
      /\ count' = count + 1 /\ inByte = stream.bytes[count + 1]
  BY ByteRead
<1>2. /\ EndData /\ decoderPhase = "Data" /\ decoderPhase' = "Waiting"
      /\ lastByte' = inByte
      /\ delivered' = Append(delivered, [type |-> headerBytes[1],
                                         id |-> toInt16(headerBytes, 11),
                                         msg |-> UTF8(Copied)])
      /\ currPackage(headerBytes) = expectedPackages(headerBytes)
  BY DEF LastPackage, ValidFrame, EndData, Decode
<1>3. /\ i < Len(F) /\ F[i + 1] \in Placed
      /\ Copied = F[i + 1].before \o F[i + 1].text
  BY <1>2, FrameRead
<1>4. /\ headerBytes[1] = F[i + 1].type
      /\ toInt16(headerBytes, 11) = toInt16(F[i + 1].eleven, 0)
      /\ currPackage(headerBytes) = F[i + 1].package
      /\ expectedPackages(headerBytes) = F[i + 1].packages
  BY <1>2, DataFields
<1>5. /\ F[i + 1].package \in Int /\ F[i + 1].packages \in Int
      /\ F[i + 1].message \in Nat /\ F[i + 1].message >= 1
  BY <1>3, PlacedType
<1>6. EndsMessage(stream, F, i + 1) /\ Len(F) \in Nat
  <2>1. ~(F[i + 1].package < F[i + 1].packages)
    <3>1. F[i + 1].package = F[i + 1].packages
      BY <1>2, <1>4
    <3>. QED
      BY <1>5, <3>1
  <2>. QED
    BY <1>1, <1>3, <2>1, NextFrame
<1>7. /\ F[i + 1].message <= Len(stream.sent)
      /\ stream.sent[F[i + 1].message]
           = [type |-> headerBytes[1], id |-> toInt16(headerBytes, 11),
              msg |-> UTF8(Copied)]
      /\ i + 1 = Len(F) => F[i + 1].message = Len(stream.sent)
      /\ i + 1 # Len(F) => /\ F[(i + 1) + 1].package = 1
                           /\ F[(i + 1) + 1].message = F[i + 1].message + 1
  BY <1>3, <1>4, <1>6 DEF EndsMessage
<1>8. /\ Len(delivered) = F[i + 1].message - 1
      /\ \A d \in 1..Len(delivered) : delivered[d] = stream.sent[d]
  BY <1>3, <1>6 DEF At, Arrived, Ended
<1>9. /\ Len(delivered) + 1 = F[i + 1].message
      /\ Len(delivered) \in Nat
  BY <1>5, <1>8
<1>10. delivered' = Append(delivered, stream.sent[Len(delivered) + 1])
  BY <1>2, <1>7, <1>9
<1>11. Len(stream.sent) \in Nat /\ stream.sent \in Seq(Message)
       /\ delivered \in Seq(Message)
  BY <1>1, LenProperties DEF Stream, TypeOK
<1>12. Len(delivered) + 1 \in 1..Len(stream.sent)
  BY <1>7, <1>9, <1>11
<1>13. /\ Len(delivered') = Len(delivered) + 1
       /\ \A d \in 1..(Len(delivered) + 1) :
            delivered'[d] = stream.sent[d]
  <2>1. stream.sent[Len(delivered) + 1] \in Message
    BY <1>11, <1>12, ElementOfSeq
  <2>2. /\ Len(delivered') = Len(delivered) + 1
        /\ \A d \in 1..Len(delivered) : delivered'[d] = delivered[d]
        /\ delivered'[Len(delivered) + 1] = stream.sent[Len(delivered) + 1]
    BY <1>10, <1>11, <2>1, AppendProperties
  <2>3. ASSUME NEW d \in 1..(Len(delivered) + 1)
        PROVE  d = Len(delivered) + 1 \/ d \in 1..Len(delivered)
    BY <1>9
  <2>. QED
    BY <1>8, <2>2, <2>3
<1>14. Arrived(F, i + 1)'
  <2>1. Ended(F, i + 1)' = F[i + 1].message
    <3>1. CASE i + 1 = Len(F)
      BY <1>1, <1>7, <3>1 DEF Ended
    <3>2. CASE i + 1 # Len(F)
      <4>1. F[(i + 1) + 1].message = F[i + 1].message + 1
        BY <1>7, <3>2, Zenon
      <4>2. Ended(F, i + 1)' = F[(i + 1) + 1].message - 1
        BY <3>2, Zenon DEF Ended
      <4>3. ASSUME NEW n \in Nat PROVE (n + 1) - 1 = n
        OBVIOUS
      <4>. QED
        BY <1>5, <4>1, <4>2, <4>3, Zenon
    <3>. QED
      BY <3>1, <3>2
  <2>. QED
    <3>1. Len(delivered') <= Len(stream.sent)
      BY <1>9, <1>11, <1>12, <1>13
    <3>. QED
      BY <1>1, <1>9, <1>13, <2>1, <3>1 DEF Arrived
<1>15. i + 1 \in 0..Len(F) /\ InGap(F, i + 1)'
  BY <1>2, GapAfter
<1>16. lastByte' = stream'.bytes[count']
  BY <1>1, <1>2
<1>17. ~(i + 1 < Len(F) /\ F[(i + 1) + 1].package > 1)
  BY <1>6, <1>7
<1>. QED
  BY <1>2, <1>10, <1>12, <1>14, <1>15, <1>16, <1>17 DEF At

\* On a sound stream nothing is rejected and nothing is thrown.
LEMMA NothingLost ==
  ASSUME TypeOK, Next, NEW F, Laid(stream, F), NEW i \in 0..Len(F), At(F, i)
  PROVE  /\ ~RejectHeader /\ ~HeaderThrows
         /\ ~DataThrows /\ ~InvalidFrame
<1>1. ASSUME RejectHeader \/ HeaderThrows PROVE FALSE
  <2>1. EndHeader /\ (Rejected(header) \/ ~Allocates(header))
    BY <1>1 DEF RejectHeader, HeaderThrows
  <2>. QED
    BY <2>1, HeaderRead
<1>2. ASSUME DataThrows PROVE FALSE
  <2>1. decoderPhase = "Data" /\ Len(frame) > frameLen
    BY <1>2 DEF DataThrows, Decode
  <2>2. Len(frame) <= FrameLength(F[i + 1]) /\ Len(frame) \in Nat
    BY <2>1, DataBytes
  <2>3. frameLen = FrameLength(F[i + 1]) /\ frameLen \in Nat
    BY <2>1, DataFields
  <2>. QED
    BY <2>1, <2>2, <2>3
<1>3. ASSUME InvalidFrame PROVE FALSE
  BY <1>3, FrameRead DEF InvalidFrame
<1>. QED
  BY <1>1, <1>2, <1>3


LEMMA SoundInit == ASSUME Init, Sound(stream) PROVE Reading
<1>1. PICK F \in Seq(Placed) : Laid(stream, F)
  BY DEF Sound
<1>2. stream \in Stream /\ Len(F) \in Nat /\ 0 \in 0..Len(F)
  BY StreamsAssumption, LenProperties DEF Init
<1>3. /\ count = 0 /\ decoderPhase = "Waiting" /\ delivered = << >>
      /\ Len(delivered) = 0
  BY DEF Init
<1>4. InGap(F, 0)
  <2>1. GapStart(F, 0) = 0 /\ GapEnd(stream, F, 0) \in Nat
    BY <1>1, <1>2, Gaps DEF GapStart
  <2>. QED
    BY <1>3, <2>1 DEF InGap
<1>5. Arrived(F, 0) /\ (0 < Len(F) => F[0 + 1].package = 1)
  <2>1. CASE F = << >>
    <3>1. stream.sent = << >> /\ Len(F) = 0
      BY <1>1, <2>1 DEF Laid
    <3>2. Len(stream.sent) = 0
      BY <3>1
    <3>. QED
      BY <1>3, <3>1, <3>2 DEF Arrived, Ended
  <2>2. CASE F # << >>
    <3>1. F[1].package = 1 /\ F[1].message = 1
      BY <1>1, <2>2 DEF Laid
    <3>2. Len(F) # 0
      BY <1>1, <2>2, EmptySeq
    <3>3. Len(stream.sent) \in Nat
      BY <1>2, LenProperties DEF Stream
    <3>4. Ended(F, 0) = 0
      BY <3>1, <3>2 DEF Ended
    <3>. QED
      BY <1>3, <3>1, <3>3, <3>4 DEF Arrived
  <2>. QED
    BY <2>1, <2>2
<1>6. At(F, 0)
  BY <1>3, <1>4, <1>5 DEF At
<1>. QED
  BY <1>1, <1>2, <1>6 DEF Reading

\* Each step of the decoder reads on in the same layout; the last package of a
\* message hands over the next message of the stream, no other step does.
LEMMA SoundStep ==
  ASSUME TypeOK, Next, Reading
  PROVE  /\ Reading'
         /\ \/ delivered' = delivered
            \/ /\ Len(delivered) + 1 \in 1..Len(stream.sent)
               /\ delivered' = Append(delivered,
                                      stream.sent[Len(delivered) + 1])
<1>1. PICK F \in Seq(Placed) :
        Laid(stream, F) /\ \E i \in 0..Len(F) : At(F, i)
  BY DEF Reading
<1>2. PICK i \in 0..Len(F) : At(F, i)
  BY <1>1
<1>3. stream' = stream
  BY ByteRead
<1>4. ASSUME NEW j \in 0..Len(F), At(F, j)'
      PROVE  Reading'
  <2>1. Laid(stream', F)
    BY <1>1, <1>3
  <2>. QED
    BY <1>1, <1>4, <2>1 DEF Reading
<1>5. CASE WaitForStart \/ FillHeader \/ AcceptHeader \/ FillData
  <2>1. At(F, i)'
    BY <1>1, <1>2, <1>5, WaitingAt, HeaderAt, DataAt
  <2>2. delivered' = delivered
    BY <1>5 DEF WaitForStart, FillHeader, AcceptHeader, FillData
  <2>. QED
    BY <1>4, <2>1, <2>2
<1>6. CASE Package
  <2>1. i + 1 \in 0..Len(F) /\ At(F, i + 1)'
    BY <1>1, <1>2, <1>6, PackageAt
  <2>2. delivered' = delivered
    BY <1>6 DEF Package
  <2>. QED
    BY <1>4, <2>1, <2>2
<1>7. CASE LastPackage
  BY <1>1, <1>2, <1>4, <1>7, LastPackageAt
<1>8. ~RejectHeader /\ ~HeaderThrows /\ ~DataThrows /\ ~InvalidFrame
  BY <1>1, <1>2, NothingLost
<1>. QED
  BY <1>5, <1>6, <1>7, <1>8 DEF Next

LEMMA SoundStutter == ASSUME Reading, UNCHANGED vars PROVE Reading'
<1>1. PICK F \in Seq(Placed) :
        Laid(stream, F) /\ \E i \in 0..Len(F) : At(F, i)
  BY DEF Reading
<1>2. PICK i \in 0..Len(F) : At(F, i)
  BY <1>1
<1>3. stream' = stream
  BY DEF vars
<1>4. Laid(stream', F)
  BY <1>1, <1>3
<1>5. At(F, i)'
  BY <1>2 DEF At, InGap, GapEnd, InHeader, InData, Matches, Gathered, Arrived,
              Ended, vars, totalVars
<1>. QED
  BY <1>1, <1>4, <1>5 DEF Reading

\* At the end of the stream every message has been delivered.
LEMMA EndOfStream ==
  ASSUME TypeOK, Reading, count = Len(stream.bytes)
  PROVE  /\ Len(delivered) = Len(stream.sent) /\ Len(stream.sent) \in Nat
         /\ \A d \in 1..Len(delivered) : delivered[d] = stream.sent[d]
<1>1. PICK F \in Seq(Placed) :
        Laid(stream, F) /\ \E i \in 0..Len(F) : At(F, i)
  BY DEF Reading
<1>2. PICK i \in 0..Len(F) : At(F, i)
  BY <1>1
<1>3. stream \in Stream /\ count \in Nat
  BY StreamsAssumption DEF TypeOK
<1>4. Len(F) \in Nat /\ Len(stream.sent) \in Nat
  BY <1>1, <1>3, LenProperties DEF Stream
<1>5. i = Len(F)
  <2>. SUFFICES ASSUME i < Len(F) PROVE FALSE
    BY <1>4
  <2>1. F[i + 1] \in Placed /\ PlacedIn(stream, F[i + 1])
    BY <1>1, <1>3, NextFrame
  <2>2. /\ F[i + 1].at \in Nat /\ FrameLength(F[i + 1]) \in Nat
        /\ FrameLength(F[i + 1]) >= 22
        /\ F[i + 1].at + FrameLength(F[i + 1]) <= count
    BY <1>3, <2>1, PlacedBytes
  <2>3. CASE decoderPhase = "Waiting"
    <3>1. count <= GapEnd(stream, F, i) + 1
      BY <1>2, <2>3 DEF At, InGap
    <3>2. GapEnd(stream, F, i) = F[i + 1].at
      BY <1>1, <1>3, Gaps
    <3>. QED
      BY <1>3, <2>2, <3>1, <3>2
  <2>4. CASE decoderPhase = "Header"
    <3>1. Len(headerBytes) = count - F[i + 1].at
      BY <1>2, <2>4 DEF At, InHeader
    <3>2. Len(headerBytes) \in 2..(19 - 1)
      BY <2>4 DEF TypeOK, MsgHeaderLength
    <3>3. ASSUME NEW n \in 2..(19 - 1) PROVE n < 22
      OBVIOUS
    <3>4. Len(headerBytes) < 22
      BY ONLY <3>2, <3>3
    <3>. QED
      BY <1>3, <2>2, <3>1, <3>4
  <2>5. CASE decoderPhase = "Data"
    <3>1. /\ Len(frameBuffer) = count - F[i + 1].at
          /\ Len(frameBuffer) < FrameLength(F[i + 1])
      BY <1>2, <2>5 DEF At, InData
    <3>. QED
      BY <1>3, <2>2, <3>1
  <2>. QED
    BY <1>2, <2>3, <2>4, <2>5 DEF At
<1>. QED
  BY <1>2, <1>4, <1>5 DEF At, Arrived, Ended

\* On a sound stream the decoder rejects nothing, throws nothing and stops in
\* no frame: at the end every message has been delivered (DecodeMessage).
THEOREM SoundFramesArrive == Spec /\ Sound(stream) => []LaterFramesArrive
<1> DEFINE SoundInv == TypeOK /\ Reading /\ stream.hit = 0
<1>1. Init /\ Sound(stream) => SoundInv
  <2>1. Init => TypeOK
    BY InitType
  <2>. QED
    BY <2>1, SoundInit DEF Sound
<1>2. SoundInv /\ [Next]_vars => SoundInv'
  <2>1. ASSUME SoundInv, Next PROVE SoundInv'
    BY <2>1, StepType, SoundStep, ByteRead
  <2>2. ASSUME SoundInv, UNCHANGED vars PROVE SoundInv'
    <3>1. TypeOK' /\ Reading'
      BY <2>2, StepType, SoundStutter
    <3>2. stream' = stream
      BY <2>2 DEF vars
    <3>. QED
      BY <2>2, <3>1, <3>2
  <2>. QED
    BY <2>1, <2>2
<1>3. SoundInv => LaterFramesArrive
  <2>. SUFFICES ASSUME SoundInv, count = Len(stream.bytes),
                       NEW k \in Spared..Len(stream.sent)
                PROVE  \E d \in 1..Len(delivered) :
                         delivered[d] = stream.sent[k]
    BY DEF LaterFramesArrive
  <2>1. /\ Len(delivered) = Len(stream.sent) /\ Len(stream.sent) \in Nat
        /\ \A d \in 1..Len(delivered) : delivered[d] = stream.sent[d]
    BY EndOfStream
  <2>2. k \in 1..Len(delivered)
    BY <2>1 DEF Spared
  <2>. QED
    BY <2>1, <2>2
<1>. QED
  BY <1>1, <1>2, <1>3, PTL DEF Spec


-----------------------------------------------------------------------------
(* The decoder as a channel *)

LEMMA ReadingIs ==
  ASSUME TypeOK, Reading
  PROVE  /\ delivered \in Seq(Message) /\ stream.sent \in Seq(Message)
         /\ Len(delivered) <= Len(stream.sent)
         /\ \A d \in 1..Len(delivered) : delivered[d] = stream.sent[d]
<1>1. \E F, i : At(F, i)
  BY DEF Reading
<1>. QED
  BY <1>1, StreamsAssumption DEF TypeOK, Stream, At, Arrived

\* On a sound stream the decoder is the channel MCJCommManager builds on: each
\* message once, as the String of its bytes, in order, none left out, equal
\* messages too (DecodeMessage).
THEOREM SoundRefines == Spec /\ Sound(stream) => DeliversFrames
<1> DEFINE SoundInv == TypeOK /\ Reading /\ stream.hit = 0
<1>1. Init /\ Sound(stream) => SoundInv
  BY InitType, SoundInit DEF Sound
<1>2. SoundInv => Passed = Len(delivered)
  BY DEF Passed
<1>3. SoundInv /\ [Next]_vars => SoundInv' /\ [Channel!Deliver]_(Channel!vars)
  <2>1. ASSUME SoundInv, Next
        PROVE  SoundInv' /\ [Channel!Deliver]_(Channel!vars)
    <3>1. stream' = stream
      BY <2>1, ByteRead
    <3>2. SoundInv'
      <4>1. TypeOK' /\ Reading'
        BY <2>1, StepType, SoundStep
      <4>. QED
        BY <2>1, <3>1, <4>1
    <3>3. Passed = Len(delivered)
      BY <1>2, <2>1
    <3>4. Passed' = Len(delivered')
      <4>1. (SoundInv => Passed = Len(delivered))'
        BY <1>2, PTL
      <4>. QED
        BY <3>2, <4>1
    <3>5. \/ delivered' = delivered
          \/ /\ Len(delivered) + 1 \in 1..Len(stream.sent)
             /\ delivered' = Append(delivered,
                                    stream.sent[Len(delivered) + 1])
      BY <2>1, SoundStep
    <3>6. CASE delivered' = delivered
      BY <3>1, <3>2, <3>3, <3>4, <3>6 DEF Channel!vars
    <3>7. CASE /\ Len(delivered) + 1 \in 1..Len(stream.sent)
               /\ delivered' = Append(delivered,
                                      stream.sent[Len(delivered) + 1])
      <4>1. Len(delivered') = Len(delivered) + 1
        <5>1. delivered \in Seq(Message) /\ stream.sent \in Seq(Message)
          BY <2>1, ReadingIs
        <5>2. stream.sent[Len(delivered) + 1] \in Message
          BY <3>7, <5>1, ElementOfSeq
        <5>. QED
          BY <3>7, <5>1, <5>2, AppendProperties
      <4>2. Passed' = Passed + 1
        BY <3>3, <3>4, <4>1
      <4>3. stream.hit = 0
        BY <2>1
      <4>4. /\ Passed' = Len(delivered) + 1
            /\ Len(delivered) + 1 > Passed
        BY ONLY <3>3, <3>4, <3>7, <4>1
      <4>5. Channel!Deliver
        BY ONLY <3>1, <3>7, <4>2, <4>3, <4>4 DEF Channel!Deliver
      <4>. QED
        BY <3>2, <4>5
    <3>. QED
      BY <3>2, <3>5, <3>6, <3>7
  <2>2. ASSUME SoundInv, UNCHANGED vars
        PROVE  SoundInv' /\ [Channel!Deliver]_(Channel!vars)
    <3>1. TypeOK' /\ Reading'
      BY <2>2, StepType, SoundStutter
    <3>2. stream' = stream /\ delivered' = delivered
      BY <2>2 DEF vars
    <3>3. UNCHANGED Channel!vars
      BY <2>2, <3>2 DEF Channel!vars, Passed
    <3>. QED
      BY <2>2, <3>1, <3>2, <3>3
  <2>. QED
    BY <2>1, <2>2
<1>4. Init /\ Sound(stream) => Channel!Init
  <2>. SUFFICES ASSUME Init, Sound(stream) PROVE Channel!Init
    OBVIOUS
  <2>1. Passed = Len(delivered) /\ delivered = << >>
    BY <1>1, <1>2 DEF Init
  <2>. QED
    BY <2>1, EmptySeq DEF Channel!Init
<1>. QED
  BY <1>1, <1>3, <1>4, PTL DEF Spec, DeliversFrames, Channel!Spec

-----------------------------------------------------------------------------
(* A command on its way to the MC *)

LEMMA IntBytesType ==
  ASSUME NEW n \in Int
  PROVE  IntBytes(n) \in [1..4 -> Byte]
<1> DEFINE low == ShortBytes(n)
           high == ShortBytes(n \div 65536)
<1>1. low \in Seq(Byte) /\ Len(low) = 2
  BY ShortBytesFacts
<1>2. high \in Seq(Byte) /\ Len(high) = 2
  <2>1. n \div 65536 \in Int
    OBVIOUS
  <2>. QED
    BY <2>1, ShortBytesFacts
<1>3. IntBytes(n) = low \o high
  BY DEF IntBytes
<1> HIDE DEF low, high
<1>4. low \o high \in Seq(Byte) /\ Len(low \o high) = 2 + 2
  <2>1. /\ low \o high \in Seq(Byte)
        /\ Len(low \o high) = Len(low) + Len(high)
    BY <1>1, <1>2, ConcatProperties, Zenon
  <2>. QED
    BY <1>1, <1>2, <2>1, Zenon
<1>5. ASSUME NEW q \in Seq(Byte), Len(q) = 4 PROVE q \in [1..4 -> Byte]
  <2>1. q \in [1..Len(q) -> Byte]
    BY LenProperties
  <2>. QED
    BY <1>5, <2>1, Zenon
<1>6. Len(low \o high) = 4
  BY <1>4
<1>. QED
  BY <1>3, <1>4, <1>5, <1>6, Zenon

LEMMA IdOfCommand == toInt16(IntBytes(0), 0) = 0
<1>1. IntBytes(0) = <<0, 0>> \o <<0, 0>>
  BY DEF IntBytes, ShortBytes
<1>2. IntBytes(0)[1] = 0 /\ IntBytes(0)[2] = 0
  BY <1>1
<1>3. toInt16(IntBytes(0), 0) = Short(IntBytes(0)[1] + 256 * IntBytes(0)[2])
  BY DEF toInt16
<1>. QED
  BY <1>2, <1>3, ShortFacts, WordIs

LEMMA CommandFrame ==
  ASSUME NEW type \in FrameTypeBytes, NEW id \in Int, NEW text \in Seq(Byte)
  PROVE  \E f \in Placed :
           /\ f.at = 0 /\ f.type = type /\ f.text = text
           /\ f.seven = IntBytes(id) /\ f.eleven = IntBytes(0)
           /\ f.package = 1 /\ f.packages = 1
           /\ f.message = 1 /\ f.before = << >>
<1> DEFINE f == [at |-> 0, type |-> type, seven |-> IntBytes(id),
                 eleven |-> IntBytes(0), package |-> 1, packages |-> 1,
                 text |-> text, message |-> 1, before |-> << >>]
<1>1. IntBytes(id) \in [1..4 -> Byte] /\ IntBytes(0) \in [1..4 -> Byte]
  BY IntBytesType
<1>2. 1 \in PackageNumber
  BY WordIs DEF PackageNumber
<1>3. << >> \in Seq(Byte)
  BY EmptySeq
<1>4. f \in Placed
  BY <1>1, <1>2, <1>3 DEF Placed
<1>. QED
  BY <1>4

\* What MakeMessage makes of a command that fits in one package is a sound
\* stream of one frame.
LEMMA CommandIsSound ==
  ASSUME NEW type \in FrameTypeBytes, NEW id \in Int, NEW msg \in Seq(Byte),
         Len(msg) + 1 <= PackageSize, Len(msg) + 23 \in Word,
         NEW s \in Stream, s.hit = 0, s.bytes = MakeMessage(type, msg, id),
         s.sent = <<[type |-> type, id |-> 0, msg |-> UTF8(Append(msg, 10))]>>
  PROVE  Sound(s)
<1> DEFINE text == Append(msg, 10)
<1>1. text \in Seq(Byte) /\ Len(text) = Len(msg) + 1
  <2>1. 10 \in Byte
    BY DEF Byte
  <2>. QED
    BY <2>1, AppendProperties
<1>2. PICK f \in Placed :
        /\ f.at = 0 /\ f.type = type /\ f.text = text
        /\ f.seven = IntBytes(id) /\ f.eleven = IntBytes(0)
        /\ f.package = 1 /\ f.packages = 1
        /\ f.message = 1 /\ f.before = << >>
  BY <1>1, CommandFrame
<1>3. FrameBytes(f) = s.bytes
  BY <1>2 DEF FrameBytes, MakeMessage
<1> HIDE DEF text
<1>4. Len(msg) \in Nat
  BY LenProperties
<1>5. FrameLength(f) = Len(msg) + 23 /\ FrameEnd(f) = FrameLength(f)
      /\ FrameLength(f) \in Nat
  <2>1. FrameLength(f) = Len(f.text) + 22 /\ FrameLength(f) \in Nat
        /\ FrameEnd(f) = f.at + FrameLength(f)
    BY PlacedType
  <2>. QED
    BY <1>1, <1>2, <1>4, <2>1
<1>6. FrameLength(f) \in Word
  BY <1>5
<1>7. s.bytes \in Seq(Byte) /\ Len(s.bytes) = FrameLength(f)
  <2>1. Len(FrameBytes(f)) = Len(f.text) + 22
    BY <1>6, FrameElements
  <2>2. s.bytes \in Seq(Byte)
    BY DEF Stream
  <2>. QED
    BY <1>1, <1>2, <1>3, <1>4, <1>5, <2>1, <2>2
<1>8. PlacedIn(s, f)
  <2>1. ASSUME NEW q \in Seq(Byte) PROVE SubSeq(q, 1, Len(q)) = q
    OBVIOUS
  <2>2. SubSeq(s.bytes, f.at + 1, FrameEnd(f)) = FrameBytes(f)
    <3>1. f.at + 1 = 1
      BY <1>2
    <3>. QED
      BY <1>3, <1>5, <1>7, <2>1, <3>1, Zenon
  <2>3. Len(f.text) <= PackageSize
    BY <1>1, <1>2
  <2>4. FrameEnd(f) <= Len(s.bytes)
    BY ONLY <1>5, <1>7
  <2>. QED
    BY <1>6, <2>2, <2>3, <2>4 DEF PlacedIn
<1> DEFINE F == <<f>>
<1>9. F \in Seq(Placed) /\ Len(F) = 1 /\ F[1] = f /\ F # << >>
  OBVIOUS
<1> HIDE DEF F
<1>10. /\ Len(s.sent) = 1
       /\ s.sent[1] = [type |-> type, id |-> 0, msg |-> UTF8(text)]
  BY DEF text
<1>11. EndsMessage(s, F, 1)
  <2>1. << >> \o text = text
    BY <1>1, ConcatEmptySeq
  <2>2. s.sent[1] = [type |-> f.type, id |-> toInt16(f.eleven, 0),
                     msg |-> UTF8(f.before \o f.text)]
    BY <1>2, <1>10, <2>1, IdOfCommand
  <2>3. F[1] = f /\ f.message = 1 /\ Len(F) = 1 /\ Len(s.sent) = 1
    BY <1>2, <1>9, <1>10, Zenon
  <2>4. 1 <= Len(s.sent)
    BY <2>3
  <2>. QED
    BY <2>2, <2>3, <2>4, Zenon DEF EndsMessage
<1>12. NoStart(s, F, 0) /\ NoStart(s, F, 1)
  <2>1. GapStart(F, 0) = 0 /\ GapEnd(s, F, 0) = 0
    BY <1>2, <1>9 DEF GapStart, GapEnd
  <2>2. GapStart(F, 1) = Len(s.bytes) /\ GapEnd(s, F, 1) = Len(s.bytes)
    BY <1>5, <1>7, <1>9 DEF GapStart, GapEnd
  <2>3. Len(s.bytes) \in Nat
    BY <1>5, <1>7
  <2>4. ASSUME NEW n \in Nat PROVE n <= n /\ (n + 1)..n = {}
    OBVIOUS
  <2>. QED
    BY <2>1, <2>2, <2>3, <2>4 DEF NoStart
<1>13. Laid(s, F)
  <2>1. \A i \in 1..Len(F) : i = 1
    BY <1>9
  <2>2. \A i \in 0..Len(F) : i = 0 \/ i = 1
    BY <1>9
  <2>. QED
    BY <1>2, <1>8, <1>9, <1>11, <1>12, <2>1, <2>2 DEF Laid
<1>. QED
  BY <1>9, <1>13 DEF Sound

\* The command a stream of one frame of MakeMessage arrives as.
Arriving(type, msg) ==
  [type |-> type, id |-> 0, msg |-> UTF8(Append(msg, 10))]

Carries(s, type, msg, id) ==
  /\ s.hit = 0 /\ s.bytes = MakeMessage(type, msg, id)
  /\ s.sent = <<Arriving(type, msg)>>

\* What MakeMessage makes of a command that fits in one package, DecodeMessage
\* gives back as the one message of the stream, with its newline.  The id is
\* not in it: commands and answers have their ids at different places.
THEOREM CommandRoundTrip ==
  ASSUME NEW type \in FrameTypeBytes, NEW id \in Int, NEW msg \in Seq(Byte),
         Len(msg) + 1 <= PackageSize, Len(msg) + 23 \in Word
  PROVE  Spec /\ Carries(stream, type, msg, id)
           => [](count = Len(stream.bytes)
                   => delivered = <<Arriving(type, msg)>>)
<1> DEFINE m == Arriving(type, msg)
           RoundInv == TypeOK /\ Reading /\ stream.sent = <<m>>
           Back == count = Len(stream.bytes) => delivered = <<m>>
<1>1. Init /\ Carries(stream, type, msg, id) => RoundInv
  <2>. SUFFICES ASSUME Init, Carries(stream, type, msg, id)
                PROVE  RoundInv
    OBVIOUS
  <2>1. stream \in Stream
    BY StreamsAssumption DEF Init
  <2>2. Sound(stream)
    BY <2>1, CommandIsSound DEF Carries, Arriving
  <2>. QED
    BY <2>2, InitType, SoundInit DEF Carries
<1>2. RoundInv /\ [Next]_vars => RoundInv'
  <2>1. ASSUME RoundInv, Next PROVE RoundInv'
    <3>1. TypeOK' /\ Reading' /\ stream' = stream
      BY <2>1, StepType, SoundStep, ByteRead
    <3>. QED
      BY <2>1, <3>1
  <2>2. ASSUME RoundInv, UNCHANGED vars PROVE RoundInv'
    <3>1. TypeOK' /\ Reading'
      BY <2>2, StepType, SoundStutter
    <3>2. stream' = stream
      BY <2>2 DEF vars
    <3>. QED
      BY <2>2, <3>1, <3>2
  <2>. QED
    BY <2>1, <2>2
<1>3. RoundInv => Back
  <2>. SUFFICES ASSUME RoundInv, count = Len(stream.bytes)
                PROVE  delivered = <<m>>
    OBVIOUS
  <2> HIDE DEF m
  <2>1. /\ Len(delivered) = Len(stream.sent)
        /\ \A d \in 1..Len(delivered) : delivered[d] = stream.sent[d]
    BY EndOfStream
  <2>2. delivered \in Seq(Message) /\ stream.sent \in Seq(Message)
    BY ReadingIs
  <2>3. delivered = stream.sent
    BY <2>1, <2>2, SeqEqual
  <2>. QED
    BY <2>3
<1>. QED
  BY <1>1, <1>2, <1>3, PTL DEF Spec

=============================================================================
