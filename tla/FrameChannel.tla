---------------------------- MODULE FrameChannel ----------------------------
(***************************************************************************)
(* What MCJCommManager may expect of the frames of the MC: it gets every   *)
(* message once, as the String of all its bytes, and in order.  If bytes   *)
(* are damaged on the way, messages may be missing, but what arrives is    *)
(* still unaltered and in order.  The queue thread of MCJCommManager is    *)
(* modelled on this channel.                                               *)
(***************************************************************************)
EXTENDS Naturals, Sequences

VARIABLES
  sent,      \* the messages of the MC, in order
  lossy,     \* TRUE: the bytes are damaged
  passed,    \* how many messages of sent are delivered or lost
  delivered  \* the messages handed to OnMultiPurpDataCallback

vars == <<sent, lossy, passed, delivered>>

Init == passed = 0 /\ delivered = << >>

Deliver ==
  \E k \in 1..Len(sent) :
    /\ IF lossy THEN passed < k ELSE k = passed + 1
    /\ passed' = k
    /\ delivered' = Append(delivered, sent[k])
    /\ UNCHANGED <<sent, lossy>>

Spec == Init /\ [][Deliver]_vars
=============================================================================
