-------------------------- MODULE MCJMessageUtils --------------------------
(***************************************************************************)
(* The frames of the entry station protocol (MCJMessageUtils): MakeMessage *)
(* builds the frame of a command, DecodeMessage takes the byte stream of   *)
(* the MC apart, one byte per call, and hands messages to                  *)
(* OnMultiPurpDataCallback.  A step is one call of DecodeMessage by the    *)
(* queue thread of MCJCommManager; an exception that leaves DecodeMessage  *)
(* ends that thread.                                                       *)
(*                                                                         *)
(* Bytes are 0..255.  A String is the sequence of its UTF-8 bytes, see     *)
(* UTF8.  The fields currFrameType, currPackage, expectedPackages and      *)
(* expectedDataLen are read from headerBytes, which does not change before *)
(* the frame ends.  totalMessage is its filled part, totalSize its length. *)
(***************************************************************************)
EXTENDS Integers, Sequences

CONSTANTS
  Streams,      \* what the MC may send: records, see Stream
  makeCRC(_),   \* the checksum of a sequence of bytes
  PackageSize,  \* bytes of text in a package, 250 in the code
  Null          \* totalMessage == null

Byte == 0..255
Word == -32768..32767

\* Stands for a byte that is part of no character.
Replacement == 65533
Char == Byte \cup {Replacement}
Message == [type : Byte, id : Word, msg : Seq(Char)]

\* The bytes, the messages framed in them, the first message whose frames
\* are damaged (0 if none), and the byte of the frame that is hit.
Stream == [bytes : Seq(Byte), sent : Seq(Message), hit : Nat, at : Nat]

ASSUME StreamsAssumption == \A s \in Streams : s \in Stream
ASSUME PackageAssumption == PackageSize \in Nat \ {0}
ASSUME NullAssumption == Null \notin Nat

VARIABLES
  stream,        \* the stream of this connection
  count,         \* bytes decoded so far
  decoderPhase,  \* "Waiting", "Header", "Data", or "thrown"
  headerBytes,   \* the header so far
  lastByte,
  frameBuffer,   \* the frame so far
  totalMessage, totalSize,
  delivered      \* messages handed to OnMultiPurpDataCallback

totalVars == <<totalMessage, totalSize>>
vars == <<stream, count, decoderPhase, headerBytes, lastByte, frameBuffer,
          totalVars, delivered>>

-----------------------------------------------------------------------------
(* Strings *)

\* The bytes that continue a character.
Cont == 128..191

\* External: the characters of UTF-8.
Character ==
  [1..1 -> 0..127] \cup ((194..223) \X Cont)
  \cup ({224} \X (160..191) \X Cont)
  \cup (((225..236) \cup {238, 239}) \X Cont \X Cont)
  \cup ({237} \X (128..159) \X Cont)
  \cup ({240} \X (144..191) \X Cont \X Cont)
  \cup ((241..243) \X Cont \X Cont \X Cont)
  \cup ({244} \X (128..143) \X Cont \X Cont)

\* External: new String(bytes, UTF_8), given by its bytes again; U+FFFD takes
\* the place of what is part of no character (here of every byte of it).
UTF8(bytes) ==
  [i \in 1..Len(bytes) |->
     IF \E j \in 1..i, k \in i..Len(bytes) :
          k - j < 4 /\ SubSeq(bytes, j, k) \in Character
     THEN bytes[i] ELSE Replacement]

-----------------------------------------------------------------------------
(* Frames *)

StaticSerialBytes == <<231, 24, 129, 126>>     \* 0x7e8118e7
MsgHeaderLength == 19
FrameTypeBytes == {65, 68, 66, 67, 80, 69, 197, 196}

\* (short) n
Short(n) == ((n + 32768) % 65536) - 32768

\* BitConverter: little-endian bytes of a short and of an int, and back.
ShortBytes(n) == <<n % 256, (n \div 256) % 256>>
IntBytes(n) == ShortBytes(n) \o ShortBytes(n \div 65536)
toInt16(bytes, index) == Short(bytes[index + 1] + 256 * bytes[index + 2])

\* A frame: the serial number, the length, two fields the two directions use
\* in their own way, the package, the text, a zero, the checksum.
Framed(type, seven, eleven, package, packages, text) ==
  LET length == Short(Short(Len(text) + MsgHeaderLength + 1) + 2)
      body == <<type>> \o StaticSerialBytes \o ShortBytes(length)
                \o seven \o eleven \o ShortBytes(package)
                \o ShortBytes(packages) \o text \o <<0>>
  IN body \o ShortBytes(makeCRC(body))

\* The command, given by its UTF-8 bytes, goes with a newline; its id is where
\* no answer has one.
MakeMessage(type, msg, id) ==
  Framed(type, IntBytes(id), IntBytes(0), 1, 1, Append(msg, 10))

\* External: a frame of the MC.
MCFrame(type, id, package, packages, text) ==
  Framed(type, IntBytes(0), IntBytes(id), package, packages, text)

-----------------------------------------------------------------------------

Init ==
  /\ stream \in Streams
  /\ count = 0
  /\ decoderPhase = "Waiting"
  /\ headerBytes = << >>
  /\ lastByte = 0
  /\ frameBuffer = << >>
  /\ totalMessage = << >>
  /\ totalSize = Null
  /\ delivered = << >>

inByte == stream.bytes[count + 1]

Decode(phase) ==
  /\ count < Len(stream.bytes)
  /\ decoderPhase = phase
  /\ count' = count + 1
  /\ UNCHANGED stream

\* Mutant: decoderPhase is not reset.
BackToWaiting_KeepPhase == UNCHANGED <<decoderPhase, lastByte>>

\* An early return: lastByte keeps its value.
BackToWaiting == decoderPhase' = "Waiting" /\ UNCHANGED lastByte

\* An exception that DecodeMessage does not catch.
Throws ==
  /\ decoderPhase' = "thrown"
  /\ UNCHANGED <<headerBytes, lastByte, frameBuffer, totalVars, delivered>>

-----------------------------------------------------------------------------
(* case Waiting *)

\* The type is the byte before the serial number.
WaitForStart ==
  /\ Decode("Waiting")
  /\ IF inByte = StaticSerialBytes[1]
     THEN /\ headerBytes' = <<lastByte, inByte>>
          /\ decoderPhase' = "Header"
     ELSE UNCHANGED <<headerBytes, decoderPhase>>
  /\ lastByte' = inByte
  /\ UNCHANGED <<frameBuffer, totalVars, delivered>>

-----------------------------------------------------------------------------
(* case Header *)

expectedDataLen(h) == toInt16(h, 5)
currPackage(h) == toInt16(h, 15)
expectedPackages(h) == toInt16(h, 17)

FrameOk(h) ==
  /\ h[1] \in FrameTypeBytes
  /\ SubSeq(h, 2, 5) = StaticSerialBytes

\* Mutant: the length is not compared with the header's.
Allocates_AnyLength(h) == currPackage(h) = 1 => expectedPackages(h) >= 0

\* No new byte[n] of a negative n, and a buffer the header fits in.
Allocates(h) ==
  /\ expectedDataLen(h) >= MsgHeaderLength
  /\ currPackage(h) = 1 => expectedPackages(h) >= 0

header == Append(headerBytes, inByte)

FillHeader ==
  /\ Decode("Header")
  /\ Len(header) < MsgHeaderLength
  /\ headerBytes' = header
  /\ lastByte' = inByte
  /\ UNCHANGED <<decoderPhase, frameBuffer, totalVars, delivered>>

EndHeader == Decode("Header") /\ Len(header) = MsgHeaderLength

Rejected(h) == ~(FrameOk(h) /\ expectedDataLen(h) # 0)

RejectHeader ==
  /\ EndHeader
  /\ Rejected(header)
  /\ headerBytes' = header
  /\ BackToWaiting
  /\ UNCHANGED <<frameBuffer, totalVars, delivered>>

HeaderThrows ==
  /\ EndHeader
  /\ ~Rejected(header) /\ ~Allocates(header)
  /\ Throws

AcceptHeader ==
  /\ EndHeader
  /\ ~Rejected(header) /\ Allocates(header)
  /\ headerBytes' = header
  /\ frameBuffer' = header
  /\ IF currPackage(header) = 1
     THEN /\ totalMessage' = << >>
          /\ totalSize' = expectedPackages(header) * PackageSize
     ELSE UNCHANGED totalVars
  /\ decoderPhase' = "Data"
  /\ lastByte' = inByte
  /\ UNCHANGED delivered

-----------------------------------------------------------------------------
(* case Data *)

frame == Append(frameBuffer, inByte)
frameLen == expectedDataLen(headerBytes)

FillData ==
  /\ Decode("Data")
  /\ Len(frame) < frameLen
  /\ frameBuffer' = frame
  /\ lastByte' = inByte
  /\ UNCHANGED <<decoderPhase, headerBytes, totalVars, delivered>>

\* A frame of 19 bytes has no room for the first byte of data.
DataThrows ==
  /\ Decode("Data")
  /\ Len(frame) > frameLen
  /\ Throws

EndData == Decode("Data") /\ Len(frame) = frameLen

\* Mutant: the checksum is not compared.
CrcOk_Skipped(f) == TRUE

CrcOk(f) ==
  ShortBytes(makeCRC(SubSeq(f, 1, Len(f) - 2))) = SubSeq(f, Len(f) - 1, Len(f))

\* System.arraycopy(frameBuffer, 19, totalMessage, totalMessageIdx, len)
CopyWorks(len) ==
  totalSize # Null /\ len >= 0 /\ Len(totalMessage) + len <= totalSize

\* The text of a frame: all but the header, the zero and the checksum.
TextLen == frameLen - MsgHeaderLength - 3
Copied == totalMessage \o SubSeq(frame, MsgHeaderLength + 1, frameLen - 3)

InvalidFrame ==
  /\ EndData
  /\ ~(CrcOk(frame) /\ CopyWorks(TextLen))
  /\ BackToWaiting
  /\ totalMessage' = << >>
  /\ UNCHANGED <<headerBytes, frameBuffer, totalSize, delivered>>

ValidFrame ==
  /\ EndData
  /\ CrcOk(frame) /\ CopyWorks(TextLen)
  /\ decoderPhase' = "Waiting"
  /\ lastByte' = inByte
  /\ UNCHANGED <<headerBytes, frameBuffer>>

Package ==
  /\ ValidFrame
  /\ currPackage(headerBytes) # expectedPackages(headerBytes)
  /\ totalMessage' = Copied
  /\ UNCHANGED <<totalSize, delivered>>

LastPackage ==
  /\ ValidFrame
  /\ currPackage(headerBytes) = expectedPackages(headerBytes)
  /\ delivered' = Append(delivered, [type |-> headerBytes[1],
                                     id |-> toInt16(headerBytes, 11),
                                     msg |-> UTF8(Copied)])
  /\ totalMessage' = << >>
  /\ totalSize' = Null

-----------------------------------------------------------------------------

Next ==
  \/ WaitForStart
  \/ FillHeader \/ RejectHeader \/ HeaderThrows \/ AcceptHeader
  \/ FillData \/ DataThrows \/ InvalidFrame \/ Package \/ LastPackage

Spec == Init /\ [][Next]_vars

-----------------------------------------------------------------------------
(* Properties *)

\* Types of the variables.
TypeOK ==
  /\ stream \in Streams
  /\ count \in 0..Len(stream.bytes)
  /\ decoderPhase \in {"Waiting", "Header", "Data", "thrown"}
  /\ headerBytes \in Seq(Byte)
  /\ decoderPhase = "Header" => Len(headerBytes) \in 2..(MsgHeaderLength - 1)
  /\ decoderPhase = "Data" => Len(headerBytes) = MsgHeaderLength
  /\ lastByte \in Byte
  /\ frameBuffer \in Seq(Byte)
  /\ decoderPhase = "Data" => Len(frameBuffer) \in MsgHeaderLength..frameLen
  /\ totalMessage \in Seq(Byte)
  /\ totalSize \in Nat \cup {Null}
  /\ delivered \in Seq(Message)

\* How many messages of the stream have passed: each one delivered is taken
\* for the next one like it.
Matched ==
  LET passed[d \in 0..Len(delivered)] ==
        IF d = 0 THEN 0
        ELSE LET later == {k \in (passed[d - 1] + 1)..Len(stream.sent) :
                             stream.sent[k] = delivered[d]}
             IN IF later = {} THEN 0
                ELSE CHOOSE k \in later : \A l \in later : k <= l
  IN passed[Len(delivered)]
Passed == IF stream.hit = 0 THEN Len(delivered) ELSE Matched

Channel == INSTANCE FrameChannel WITH
             sent <- stream.sent, lossy <- stream.hit # 0,
             passed <- Passed, delivered <- delivered

\* The decoder is the channel MCJCommManager builds on: messages arrive once
\* and in order, as the Strings of all their bytes, none is left out while no
\* byte is damaged, whatever the texts contain and however they are cut into
\* packages, inside a character too (DecodeMessage).
DeliversFrames == Channel!Spec

\* Every message of a sound stream has been delivered at its end, and damage
\* outside the length of a frame costs that frame and at most the next one:
\* the decoder finds the start of a later frame again (DecodeMessage).
LengthField == 6..7
Spared == IF stream.hit = 0 THEN 1 ELSE stream.hit + 2

LaterFramesArrive ==
  count = Len(stream.bytes) /\ stream.at \notin LengthField
    => \A k \in Spared..Len(stream.sent) :
         \E d \in 1..Len(delivered) : delivered[d] = stream.sent[k]

=============================================================================
