----------------------------- MODULE FrameLayout -----------------------------
(***************************************************************************)
(* What a sound stream is: frames of MCJMessageUtils one after the other,  *)
(* that cut every message into packages of at most PackageSize bytes of    *)
(* text, and between them bytes that cannot start a serial number.  Texts, *)
(* ids and the cutting are free; a text may look like a frame.             *)
(***************************************************************************)
EXTENDS MCJMessageUtils

\* Packages count from 1.
PackageNumber == {n \in Word : n >= 1}

\* A frame, the bytes of the stream before it, the message it belongs to and
\* the text of that message in earlier frames.
Placed ==
  [at : Nat, type : FrameTypeBytes, seven : [1..4 -> Byte],
   eleven : [1..4 -> Byte], package : PackageNumber, packages : PackageNumber,
   text : Seq(Byte), message : Nat \ {0}, before : Seq(Byte)]

FrameLength(f) == Len(f.text) + MsgHeaderLength + 3
FrameEnd(f) == f.at + FrameLength(f)
FrameBytes(f) ==
  Framed(f.type, f.seven, f.eleven, f.package, f.packages, f.text)

\* The bytes between the i-th frame and the next one.
GapStart(F, i) == IF i = 0 THEN 0 ELSE FrameEnd(F[i])
GapEnd(s, F, i) == IF i = Len(F) THEN Len(s.bytes) ELSE F[i + 1].at

PlacedIn(s, f) ==
  /\ Len(f.text) <= PackageSize
  /\ FrameLength(f) \in Word
  /\ FrameEnd(f) <= Len(s.bytes)
  /\ SubSeq(s.bytes, f.at + 1, FrameEnd(f)) = FrameBytes(f)

NoStart(s, F, i) ==
  /\ GapStart(F, i) <= GapEnd(s, F, i)
  /\ \A q \in (GapStart(F, i) + 1)..GapEnd(s, F, i) :
       s.bytes[q] # StaticSerialBytes[1]

\* The frame after one that does not end its message goes on with it.
GoesOn(F, i) ==
  /\ i < Len(F)
  /\ F[i + 1].package = F[i].package + 1
  /\ F[i + 1].packages = F[i].packages
  /\ F[i + 1].message = F[i].message
  /\ F[i + 1].before = F[i].before \o F[i].text

\* The last frame of a message; the next message follows.
EndsMessage(s, F, i) ==
  /\ F[i].message <= Len(s.sent)
  /\ s.sent[F[i].message] = [type |-> F[i].type,
                             id |-> toInt16(F[i].eleven, 0),
                             msg |-> UTF8(F[i].before \o F[i].text)]
  /\ IF i = Len(F) THEN F[i].message = Len(s.sent)
     ELSE F[i + 1].package = 1 /\ F[i + 1].message = F[i].message + 1

Laid(s, F) ==
  /\ F \in Seq(Placed)
  /\ \A i \in 1..Len(F) :
       /\ PlacedIn(s, F[i])
       /\ F[i].package <= F[i].packages
       /\ F[i].package = 1 => F[i].before = << >>
       /\ IF F[i].package < F[i].packages THEN GoesOn(F, i)
                                          ELSE EndsMessage(s, F, i)
  /\ \A i \in 0..Len(F) : NoStart(s, F, i)
  /\ IF F = << >> THEN s.sent = << >>
     ELSE F[1].package = 1 /\ F[1].message = 1

Sound(s) == s.hit = 0 /\ \E F \in Seq(Placed) : Laid(s, F)

=============================================================================
