------------------------- MODULE MCMCJMessageUtils -------------------------
(* Streams for MCJMessageUtils. *)
EXTENDS FrameLayout, FrameCRC, SequencesExt

\* DATA_FRAME and PROMPT_FRAME
D == 68
P == 80

Sent(type, id, msg) == [type |-> type, id |-> id, msg |-> UTF8(msg)]
Clean(frames, messages) ==
  [bytes |-> FlattenSeq(frames), sent |-> messages, hit |-> 0, at |-> 0]

Serial == StaticSerialBytes

\* A reply in three packages, one of them full, and its prompt; the second
\* text looks like the start of a frame, which is no UTF-8.
Reply ==
  Clean(<<MCFrame(D, 1, 1, 3, <<49, 50, 51, 52>>),
          MCFrame(D, 1, 2, 3, <<D>> \o SubSeq(Serial, 1, 3)),
          MCFrame(D, 1, 3, 3, <<53>>),
          MCFrame(P, 1, 1, 1, << >>)>>,
        <<Sent(D, 1, <<49, 50, 51, 52, D>> \o SubSeq(Serial, 1, 3) \o <<53>>),
          Sent(P, 1, << >>)>>)

\* Two commands, as the MC would decode them.
Commands ==
  Clean(<<MakeMessage(D, <<49>>, 7), MakeMessage(D, <<50>>, 300)>>,
        <<Sent(D, 0, <<49, 10>>), Sent(D, 0, <<50, 10>>)>>)

\* Bytes of no frame between the frames.
Noise ==
  Clean(<<<<0, D, 13>>, MCFrame(D, 2, 1, 1, <<49>>), <<P, 10>>,
          MCFrame(P, 2, 1, 1, << >>)>>,
        <<Sent(D, 2, <<49>>), Sent(P, 2, << >>)>>)

\* Replies of one package to two commands.
Replies ==
  Clean(<<MCFrame(D, 1, 1, 1, <<49>>), MCFrame(P, 1, 1, 1, << >>),
          MCFrame(D, 2, 1, 1, <<50>>), MCFrame(P, 2, 1, 1, << >>)>>,
        <<Sent(D, 1, <<49>>), Sent(P, 1, << >>),
          Sent(D, 2, <<50>>), Sent(P, 2, << >>)>>)

\* The same answer twice, a euro sign cut between its packages.
Euro == <<226, 130, 172>>
Repeated ==
  LET frames == <<MCFrame(D, 1, 1, 2, <<49, 48, 226, 130>>),
                  MCFrame(D, 1, 2, 2, <<172, 59>>)>>
      reply == Sent(D, 1, <<49, 48>> \o Euro \o <<59>>)
  IN Clean(frames \o frames, <<reply, reply>>)

HitLength == Len(MCFrame(D, 1, 1, 1, <<49>>))

\* The first frame damaged at byte p: a byte changed, lost or inserted.
Damaged(s, bytes, p) == [s EXCEPT !.bytes = bytes, !.hit = 1, !.at = p]
DamagedReplies ==
  LET b == Replies.bytes
      before(p) == SubSeq(b, 1, p - 1)
      after(p) == SubSeq(b, p + 1, Len(b))
  IN {Damaged(Replies, before(p) \o <<x>> \o after(p), p) :
        p \in 1..HitLength, x \in {0, MsgHeaderLength, D, Serial[1]}}
     \cup {Damaged(Replies, before(p) \o after(p), p) : p \in 1..HitLength}
     \cup {Damaged(Replies, before(p) \o <<x, b[p]>> \o after(p), p) :
             p \in 1..HitLength, x \in {0, D, Serial[1]}}

\* How the frames of the clean streams lie: they are sound.
Part(at, type, seven, eleven, package, packages, text, message, before) ==
  [at |-> at, type |-> type, seven |-> IntBytes(seven),
   eleven |-> IntBytes(eleven), package |-> package, packages |-> packages,
   text |-> text, message |-> message, before |-> before]
Whole(at, type, seven, eleven, text, message) ==
  Part(at, type, seven, eleven, 1, 1, text, message, << >>)

ASSUME SoundAssumption ==
  /\ LET first == <<49, 50, 51, 52>>
         second == <<D>> \o SubSeq(Serial, 1, 3)
     IN Laid(Reply, <<Part(0, D, 0, 1, 1, 3, first, 1, << >>),
                      Part(26, D, 0, 1, 2, 3, second, 1, first),
                      Part(52, D, 0, 1, 3, 3, <<53>>, 1, first \o second),
                      Whole(75, P, 0, 1, << >>, 2)>>)
  /\ Laid(Commands, <<Whole(0, D, 7, 0, <<49, 10>>, 1),
                      Whole(24, D, 300, 0, <<50, 10>>, 2)>>)
  /\ Laid(Noise, <<Whole(3, D, 0, 2, <<49>>, 1),
                   Whole(28, P, 0, 2, << >>, 2)>>)
  /\ Laid(Replies, <<Whole(0, D, 0, 1, <<49>>, 1),
                     Whole(23, P, 0, 1, << >>, 2),
                     Whole(45, D, 0, 2, <<50>>, 3),
                     Whole(68, P, 0, 2, << >>, 4)>>)
  /\ LET first == <<49, 48, 226, 130>>
     IN Laid(Repeated,
             <<Part(0, D, 0, 1, 1, 2, first, 1, << >>),
               Part(26, D, 0, 1, 2, 2, <<172, 59>>, 1, first),
               Part(50, D, 0, 1, 1, 2, first, 2, << >>),
               Part(76, D, 0, 1, 2, 2, <<172, 59>>, 2, first)>>)

\* The euro sign is a String of its own, the serial number is not.
ASSUME StringAssumption ==
  /\ UTF8(Euro) = Euro
  /\ UTF8(Serial) = <<Replacement, 24, Replacement, 126>>

AllStreams == {Reply, Commands, Noise, Replies, Repeated} \cup DamagedReplies
=============================================================================
