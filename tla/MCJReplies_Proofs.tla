-------------------------- MODULE MCJReplies_Proofs --------------------------
(***************************************************************************)
(* Proofs about the replies of MCJCommManager: their order, that a command *)
(* marked done has its whole reply, that a query returns all of it or      *)
(* nothing, and that the repeated commands.get(id) finds the entry, for    *)
(* any number of threads and any length of reply.                          *)
(*                                                                         *)
(* A reply is put on the wire at once, and from there to the text of its   *)
(* command frames only move forward in one line, the Flow; when the MC     *)
(* closes the connection the end of the line is cut off.  The invariants   *)
(* say what the line looks like and how its head fits the texts filed.     *)
(***************************************************************************)
EXTENDS MCJCommManager_Proofs, SequenceTheorems

-----------------------------------------------------------------------------
(* The line of frames that are not filed yet *)

Of(f) == f.piece[1]
Rank(f) == IF f.type = "PROMPT" THEN Parts + 1 ELSE f.piece[2]

\* The queue thread holds a frame it has not filed.
InHand == qpc \in {"handle", "append", "notify", "pending", "setDone"}

Flow == (IF InHand THEN <<cur>> ELSE << >>) \o (messagesQueue \o wire)

\* Replies are not mixed: a frame is preceded by the one before it in its
\* reply, unless that has left the line.
Blocks(F) ==
  \A j \in 2..Len(F) : Rank(F[j]) > 1 =>
    Of(F[j - 1]) = Of(F[j]) /\ Rank(F[j - 1]) = Rank(F[j]) - 1

\* No frame comes twice, those of a reply come in order.
Ordered(F) ==
  \A j, k \in 1..Len(F) :
    j < k /\ Of(F[j]) = Of(F[k]) => Rank(F[j]) < Rank(F[k])

NotIn(t, F) == \A j \in 1..Len(F) : Of(F[j]) # t
NotAsked(t) == \A k \in 1..Len(requests) : requests[k] # t

Unsent(t) ==
  pc[t] \in {"idle", "put", "reset", "send", "write", "qSend", "qWrite"}

\* A command is sent once, and answered once.
AskedOnce ==
  /\ \A t \in Threads : Unsent(t) => NotIn(t, Flow) /\ NotAsked(t)
  /\ \A j, k \in 1..Len(requests) : requests[j] = requests[k] => j = k
  /\ \A k \in 1..Len(requests) : NotIn(requests[k], Flow)

CurrentIsPrompt ==
  qpc \in {"notify", "pending", "setDone"} => cur.type = "PROMPT"

FlowInv == Blocks(Flow) /\ Ordered(Flow) /\ AskedOnce /\ CurrentIsPrompt

-----------------------------------------------------------------------------
(* The texts *)

HasEntry(t) == commands[IdOf[t]] # NoCommand
TextOf(t) == commands[IdOf[t]].text
Increasing(text) ==
  \A j, k \in 1..Len(text) : j < k => text[j][2] < text[k][2]

\* The frames of t's reply that are not filed come after those that are.
TextFits(t) ==
  /\ Increasing(TextOf(t))
  /\ \A k \in 1..Len(TextOf(t)), j \in 1..Len(Flow) :
       Of(Flow[j]) = t => TextOf(t)[k][2] < Rank(Flow[j])
  /\ Unsent(t) \/ ~NotAsked(t) => TextOf(t) = << >>

OrderInv ==
  /\ \A t \in Threads : HasEntry(t) => TextFits(t)
  /\ \A t \in Synced \cup Exiting : Increasing(ret[t])

-----------------------------------------------------------------------------
(* Until somebody disconnects *)

InSynced == {"put", "reset", "send", "write", "poll", "isDone", "after",
             "take", "remove"}
InDisconnect == {"disc", "dQuery", "dBlocked", "dJoin", "dSleep"}

Places ==
  /\ \A t \in Threads :
       /\ pc[t] \in InSynced => t \in Synced \cup Exiting
       /\ pc[t] \in InDisconnect => t \in Closers \cup Exiting
  /\ sockClient = "null" =>
       \E u \in Closers \cup Exiting : pc[u] = "returned"

\* The queue thread has left its loop, or is about to.
StopsOnce == ~bContinue => qpc \in {"top", "dead"}

\* What is filed is the beginning of the reply, and the line goes on from it.
Filed(t) ==
  /\ Len(TextOf(t)) <= Parts
  /\ \A k \in 1..Len(TextOf(t)) : TextOf(t)[k] = <<t, k>>
  /\ \A j \in 1..Len(Flow) :
       Of(Flow[j]) = t /\ (j = 1 \/ Rank(Flow[j]) = 1)
         => Rank(Flow[j]) = Len(TextOf(t)) + 1
  /\ commands[IdOf[t]].done =>
       /\ Len(TextOf(t)) = Parts
       /\ NotIn(t, Flow) /\ NotAsked(t) /\ ~Unsent(t)

\* A thread has its entry as long as it looks at it, and as long as frames of
\* its reply may come; it takes the text of a done one only.
Waits(t) ==
  /\ pc[t] # "npe"
  /\ pc[t] \in InSynced \ {"put"} => HasEntry(t)
  /\ ~(NotIn(t, Flow) /\ NotAsked(t)) => HasEntry(t)
  /\ pc[t] = "after" => commands[IdOf[t]].done \/ ~bContinue
  /\ pc[t] \in {"take", "remove"} => commands[IdOf[t]].done

Served(t) ==
  /\ HasEntry(t) => t \in Synced \cup Exiting /\ Filed(t)
  /\ t \in Synced \cup Exiting => Waits(t)
  /\ t \notin Querying => ret[t] \in {<< >>, Text(t)}

\* The queue thread has looked the entry up, and it is still there.
EntryInHand == qpc \in {"append", "setDone"} => commands[cur.id] # NoCommand

Calm == StopsOnce /\ EntryInHand /\ \A t \in Threads : Served(t)

CalmInv == Places /\ (NoDisconnect => Calm)

-----------------------------------------------------------------------------
(* The line moves forward *)

LEMMA FrameFacts ==
  ASSUME NEW f \in Frame
  PROVE  Of(f) \in Threads /\ Rank(f) \in 1..(Parts + 1) /\ f.id \in Ids
BY PartsAssumption DEF Frame, DataFrame, PromptFrame, Of, Rank

LEMMA FlowType == IInv => Flow \in Seq(OwnFrame) /\ Flow \in Seq(Frame)
<1>. SUFFICES ASSUME IInv PROVE Flow \in Seq(OwnFrame)
  BY DEF OwnFrame
<1>1. messagesQueue \o wire \in Seq(OwnFrame)
  BY ConcatProperties DEF IInv, FramesAreOwn
<1>2. (IF InHand THEN <<cur>> ELSE << >>) \in Seq(OwnFrame)
  BY DEF IInv, CurrentIsOwn, InHand
<1>. QED
  BY <1>1, <1>2, ConcatProperties DEF Flow

\* The place a frame has in the line, with and without one in hand.
LEMMA FlowIs ==
  ASSUME IInv
  PROVE  /\ InHand => Flow = <<cur>> \o (messagesQueue \o wire)
         /\ ~InHand => Flow = messagesQueue \o wire
<1>1. messagesQueue \o wire \in Seq(OwnFrame)
  BY ConcatProperties DEF IInv, FramesAreOwn
<1>. QED
  BY <1>1, ConcatEmptySeq DEF Flow

LEMMA HeadOfLine ==
  ASSUME NEW S, NEW c \in S, NEW q \in Seq(S)
  PROVE  /\ <<c>> \o q \in Seq(S)
         /\ <<c>> \o q # << >>
         /\ (<<c>> \o q)[1] = c
         /\ Tail(<<c>> \o q) = q
<1>1. <<c>> \in Seq(S) /\ Len(<<c>>) = 1
  OBVIOUS
<1>2. /\ <<c>> \o q \in Seq(S)
      /\ Len(<<c>> \o q) = 1 + Len(q)
      /\ \A i \in 1..(1 + Len(q)) :
           (<<c>> \o q)[i] = IF i <= 1 THEN c ELSE q[i - 1]
  <2> DEFINE h == <<c>>
  <2> HIDE DEF h
  <2>1. h \in Seq(S) /\ Len(h) = 1 /\ h[1] = c
    BY <1>1 DEF h
  <2>2. /\ h \o q \in Seq(S)
        /\ Len(h \o q) = Len(h) + Len(q)
        /\ \A i \in 1..(Len(h) + Len(q)) :
             (h \o q)[i] = IF i <= Len(h) THEN h[i] ELSE q[i - Len(h)]
    BY <2>1, ConcatProperties, Zenon
  <2>. QED
    BY <2>1, <2>2 DEF h
<1>3. <<c>> \o q # << >> /\ (<<c>> \o q)[1] = c
  BY <1>2
<1>4. /\ Tail(<<c>> \o q) \in Seq(S)
      /\ Len(Tail(<<c>> \o q)) = Len(q)
      /\ \A i \in 1..Len(q) : Tail(<<c>> \o q)[i] = (<<c>> \o q)[i + 1]
  BY <1>2, <1>3, HeadTailProperties
<1>5. \A i \in 1..Len(q) : Tail(<<c>> \o q)[i] = q[i]
  BY <1>2, <1>4
<1>. QED
  BY <1>2, <1>3, <1>4, <1>5, SeqEqual

LEMMA MovesOn ==
  ASSUME NEW S, NEW a \in Seq(S), NEW b \in Seq(S)
  PROVE  /\ a # << >> => <<Head(a)>> \o (Tail(a) \o b) = a \o b
         /\ b # << >> => Append(a, Head(b)) \o Tail(b) = a \o b
<1>1. ASSUME NEW s \in Seq(S), s # << >>
      PROVE  <<Head(s)>> \o Tail(s) = s /\ <<Head(s)>> \in Seq(S)
             /\ Tail(s) \in Seq(S) /\ Head(s) \in S
  <2>1. /\ Head(s) \in S /\ Tail(s) \in Seq(S) /\ Len(Tail(s)) = Len(s) - 1
        /\ \A i \in 1..Len(Tail(s)) : Tail(s)[i] = s[i + 1]
    BY <1>1, HeadTailProperties
  <2>2. <<Head(s)>> \in Seq(S) /\ Len(<<Head(s)>>) = 1
        /\ <<Head(s)>>[1] = s[1]
    BY <1>1, <2>1
  <2> DEFINE h == <<Head(s)>>
  <2> HIDE DEF h
  <2>3. /\ h \o Tail(s) \in Seq(S)
        /\ Len(h \o Tail(s)) = Len(s)
        /\ \A i \in 1..Len(s) :
             (h \o Tail(s))[i] = IF i <= 1 THEN h[i] ELSE Tail(s)[i - 1]
    <3>1. h \in Seq(S) /\ Len(h) = 1
      BY <2>2 DEF h
    <3>2. ASSUME NEW q \in Seq(S)
          PROVE  /\ h \o q \in Seq(S)
                 /\ Len(h \o q) = Len(h) + Len(q)
                 /\ \A i \in 1..(Len(h) + Len(q)) :
                      (h \o q)[i] = IF i <= Len(h) THEN h[i]
                                    ELSE q[i - Len(h)]
      BY <3>1, ConcatProperties, Zenon
    <3>3. Len(h) + Len(Tail(s)) = Len(s)
      <4>1. Len(s) \in Nat
        BY LenProperties, Zenon
      <4>. QED
        BY ONLY <2>1, <3>1, <4>1
    <3>4. /\ h \o Tail(s) \in Seq(S)
          /\ Len(h \o Tail(s)) = Len(h) + Len(Tail(s))
          /\ \A i \in 1..(Len(h) + Len(Tail(s))) :
               (h \o Tail(s))[i] = IF i <= Len(h) THEN h[i]
                                   ELSE Tail(s)[i - Len(h)]
      BY <2>1, <3>2, Zenon
    <3>. QED
      BY ONLY <3>1, <3>3, <3>4
  <2>4. \A i \in 1..Len(s) : (h \o Tail(s))[i] = s[i]
    BY <2>1, <2>2, <2>3 DEF h
  <2>5. h \o Tail(s) = s
    BY <2>3, <2>4, SeqEqual
  <2>. QED
    BY <2>1, <2>2, <2>5 DEF h
<1>2. ASSUME a # << >>
      PROVE  <<Head(a)>> \o (Tail(a) \o b) = a \o b
  BY <1>1, <1>2, ConcatAssociative
<1>3. ASSUME b # << >>
      PROVE  Append(a, Head(b)) \o Tail(b) = a \o b
  <2>1. Append(a, Head(b)) = a \o <<Head(b)>>
    BY <1>1, <1>3, AppendIsConcat
  <2>. QED
    BY <1>1, <1>3, <2>1, ConcatAssociative
<1>. QED
  BY <1>2, <1>3

\* A step of the queue thread moves the head of the line into its hand, and
\* out of the line when it has no more to do with it.
LEMMA QueueStepMoves ==
  ASSUME IInv, QueueStep
  PROVE  /\ ~(InHand /\ ~InHand') => Flow' = Flow
         /\ InHand /\ ~InHand' => /\ Flow # << >> /\ Flow[1] = cur
                                  /\ Flow' = Tail(Flow)
<1>0. /\ IInv' /\ UNCHANGED wire
      /\ messagesQueue \in Seq(OwnFrame) /\ wire \in Seq(OwnFrame)
      /\ messagesQueue' \in Seq(OwnFrame)
      /\ messagesQueue \o wire \in Seq(OwnFrame)
  <2>1. UNCHANGED wire
    BY DEF QueueStep, StartQueueThread, LoopTop, Woken, TakeFrame, Refresh,
           DropFrame, HandleData, AppendData, DataInQueryMode, StoreData,
           HandlePrompt, NotifyQuery, PromptPending, SetDone, QueueThread,
           netVars
  <2>. QED
    BY <2>1, QueueStepIInv, ConcatProperties DEF IInv, FramesAreOwn
<1>1. \/ /\ ~InHand /\ InHand'
         /\ messagesQueue # << >>
         /\ cur' = Head(messagesQueue) /\ messagesQueue' = Tail(messagesQueue)
      \/ UNCHANGED messagesQueue /\ ~InHand /\ ~InHand'
      \/ UNCHANGED messagesQueue /\ InHand /\ (InHand' => UNCHANGED cur)
  BY DEF QueueStep, StartQueueThread, LoopTop, Woken, TakeFrame, Refresh,
         DropFrame, HandleData, AppendData, DataInQueryMode, StoreData,
         HandlePrompt, NotifyQuery, PromptPending, SetDone, QueueThread,
         EndQueueThread, LeaveFrame, InHand
<1>2. CASE /\ ~InHand /\ InHand'
           /\ messagesQueue # << >>
           /\ cur' = Head(messagesQueue)
           /\ messagesQueue' = Tail(messagesQueue)
  <2>1. Flow = messagesQueue \o wire
    BY <1>0, <1>2, FlowIs
  <2>2. Flow' = <<cur'>> \o (messagesQueue' \o wire')
    BY <1>0, <1>2, ConcatEmptySeq, ConcatProperties DEF Flow
  <2>. QED
    BY <1>0, <1>2, <2>1, <2>2, MovesOn
<1>3. CASE UNCHANGED messagesQueue /\ ~InHand /\ ~InHand'
  BY <1>0, <1>3 DEF Flow
<1>4. CASE UNCHANGED messagesQueue /\ InHand /\ (InHand' => UNCHANGED cur)
  <2>1. CASE InHand'
    BY <1>0, <1>4, <2>1 DEF Flow
  <2>2. CASE ~InHand'
    <3>1. Flow = <<cur>> \o (messagesQueue \o wire) /\ cur \in OwnFrame
      BY <1>4, FlowIs DEF IInv, CurrentIsOwn, InHand
    <3>2. Flow' = messagesQueue \o wire
      BY <1>0, <1>4, <2>2, ConcatEmptySeq DEF Flow
    <3>. QED
      BY <1>0, <1>4, <2>2, <3>1, <3>2, HeadOfLine
  <2>. QED
    BY <2>1, <2>2
<1>. QED
  BY <1>1, <1>2, <1>3, <1>4

\* The socket reader moves a frame from one part of the line to the next.
LEMMA ReaderStepMoves ==
  ASSUME IInv, ReaderStep
  PROVE  Flow' = Flow
<1>1. UNCHANGED <<qpc, cur>>
  BY DEF ReaderStep, ReadBuffer, EndOfStream, queueVars
<1>2. messagesQueue' \o wire' = messagesQueue \o wire
  BY MovesOn DEF ReaderStep, ReadBuffer, EndOfStream, queueVars, netVars,
                 IInv, FramesAreOwn
<1>. QED
  BY <1>1, <1>2 DEF Flow, InHand

LEMMA FramesAssociative ==
  ASSUME NEW a \in Seq(OwnFrame), NEW b \in Seq(OwnFrame),
         NEW c \in Seq(OwnFrame)
  PROVE  a \o (b \o c) = (a \o b) \o c
BY ConcatAssociative

LEMMA ReplyMoves ==
  ASSUME IInv, NEW r \in Seq(OwnFrame), wire' = wire \o r,
         UNCHANGED <<messagesQueue, qpc, cur>>
  PROVE  Flow' = Flow \o r
<1> DEFINE h == IF InHand THEN <<cur>> ELSE << >>
<1>1. h \in Seq(OwnFrame) /\ h' = h
  BY DEF IInv, CurrentIsOwn, InHand
<1>2. /\ messagesQueue \in Seq(OwnFrame) /\ wire \in Seq(OwnFrame)
      /\ messagesQueue \o wire \in Seq(OwnFrame)
  BY ConcatProperties DEF IInv, FramesAreOwn
<1>3. /\ Flow' = h \o (messagesQueue \o (wire \o r))
      /\ Flow = h \o (messagesQueue \o wire)
  BY <1>1 DEF Flow
<1> HIDE DEF h
<1>4. messagesQueue \o (wire \o r) = (messagesQueue \o wire) \o r
  BY <1>2, FramesAssociative
<1> DEFINE q == messagesQueue \o wire
<1>5. q \in Seq(OwnFrame)
  BY <1>2
<1>6. Flow' = h \o (q \o r) /\ Flow = h \o q
  BY <1>3, <1>4
<1> HIDE DEF q
<1>7. (h \o q) \o r = h \o (q \o r)
  BY <1>1, <1>5, FramesAssociative
<1>. QED
  BY <1>6, <1>7

\* The end of the connection cuts the end of the line off.
LEMMA CloseMoves ==
  ASSUME IInv, MCClose
  PROVE  /\ Flow' \in Seq(Frame)
         /\ \A j \in 1..Len(Flow') : j \in 1..Len(Flow) /\ Flow'[j] = Flow[j]
         /\ requests' = << >>
         /\ UNCHANGED <<bContinue, mngrVars, commands, sockClient, queueVars,
                        pc, ret>>
<1>1. PICK n \in 0..Len(wire) : wire' = SubSeq(wire, 1, n)
  BY DEF MCClose
<1>2. /\ requests' = << >>
      /\ UNCHANGED <<bContinue, mngrVars, commands, sockClient, queueVars, pc,
                     ret>>
  BY DEF MCClose
<1> DEFINE h == IF InHand THEN <<cur>> ELSE << >>
           g == h \o messagesQueue
           w == SubSeq(wire, 1, n)
<1>3. /\ messagesQueue \in Seq(OwnFrame) /\ wire \in Seq(OwnFrame)
      /\ h \in Seq(OwnFrame) /\ g \in Seq(OwnFrame)
  BY ConcatProperties DEF IInv, FramesAreOwn, CurrentIsOwn, InHand
<1>4. /\ w \in Seq(OwnFrame) /\ Len(w) = n
      /\ \A i \in 1..n : w[i] = wire[i]
  BY <1>1, <1>3
<1>5. Flow = h \o (messagesQueue \o wire)
  BY DEF Flow
<1>6. Flow' = h \o (messagesQueue \o w)
  BY <1>1, <1>2 DEF Flow, InHand, queueVars
<1> HIDE DEF h, w
<1>7. Flow = g \o wire /\ Flow' = g \o w
  <2>1. h \o (messagesQueue \o wire) = (h \o messagesQueue) \o wire
    BY <1>3, FramesAssociative
  <2>2. h \o (messagesQueue \o w) = (h \o messagesQueue) \o w
    <3>1. w \in Seq(OwnFrame)
      BY <1>4
    <3>. QED
      BY <1>3, <3>1, FramesAssociative
  <2>. QED
    BY <1>5, <1>6, <2>1, <2>2
<1> HIDE DEF g
<1>8. /\ g \o w \in Seq(OwnFrame)
      /\ Len(g \o w) = Len(g) + Len(w)
      /\ \A i \in 1..(Len(g) + Len(w)) :
           (g \o w)[i] = IF i <= Len(g) THEN g[i] ELSE w[i - Len(g)]
  BY <1>3, <1>4, ConcatProperties, Zenon
<1>9. /\ Len(g \o wire) = Len(g) + Len(wire)
      /\ \A i \in 1..(Len(g) + Len(wire)) :
           (g \o wire)[i] = IF i <= Len(g) THEN g[i] ELSE wire[i - Len(g)]
  BY <1>3, ConcatProperties, Zenon
<1>10. Len(g) \in Nat /\ Len(wire) \in Nat /\ n <= Len(wire)
  BY <1>1, <1>3
<1>11. \A j \in 1..Len(g \o w) : /\ j \in 1..Len(g \o wire)
                                  /\ (g \o w)[j] = (g \o wire)[j]
  BY <1>4, <1>8, <1>9, <1>10
<1>12. g \o w \in Seq(Frame)
  BY <1>8 DEF OwnFrame
<1>. QED
  BY <1>2, <1>7, <1>11, <1>12

-----------------------------------------------------------------------------
(* Replies stay whole in the line *)

LEMMA TailBlocks ==
  ASSUME NEW F \in Seq(Frame), F # << >>, Blocks(F), Ordered(F)
  PROVE  /\ Blocks(Tail(F)) /\ Ordered(Tail(F))
         /\ \A t \in Threads : NotIn(t, F) => NotIn(t, Tail(F))
<1>1. /\ Tail(F) \in Seq(Frame) /\ Len(F) \in Nat \ {0}
      /\ Len(Tail(F)) = Len(F) - 1
      /\ \A i \in 1..(Len(F) - 1) : Tail(F)[i] = F[i + 1]
  BY HeadTailProperties
<1> DEFINE G == Tail(F)
<1> HIDE DEF G
<1>2. \A j \in 1..Len(G) : j + 1 \in 1..Len(F) /\ G[j] = F[j + 1]
  BY <1>1 DEF G
<1>3. Blocks(G)
  <2>1. ASSUME NEW j \in 2..Len(G), Rank(G[j]) > 1
        PROVE  Of(G[j - 1]) = Of(G[j]) /\ Rank(G[j - 1]) = Rank(G[j]) - 1
    <3>1. j + 1 \in 2..Len(F) /\ (j + 1) - 1 = j /\ G[j] = F[j + 1]
          /\ j - 1 \in 1..Len(G)
      BY <1>1, <1>2 DEF G
    <3>2. G[j - 1] = F[j]
      BY <1>2, <3>1
    <3>. QED
      BY <2>1, <3>1, <3>2 DEF Blocks
  <2>. QED
    BY <2>1 DEF Blocks
<1>4. Ordered(G)
  BY <1>1, <1>2 DEF Ordered
<1>5. \A t \in Threads : NotIn(t, F) => NotIn(t, G)
  BY <1>2 DEF NotIn
<1>. QED
  BY <1>3, <1>4, <1>5 DEF G

\* What a reply looks like.
LEMMA ReplyFacts ==
  ASSUME NEW t \in Threads, NEW last \in {"DATA", "ERROR"}
  PROVE  /\ Reply(t, last) \in Seq(Frame)
         /\ Len(Reply(t, last)) = Parts + 1
         /\ \A i \in 1..(Parts + 1) : /\ Of(Reply(t, last)[i]) = t
                                      /\ Rank(Reply(t, last)[i]) = i
<1>1. Reply(t, last) \in Seq(Frame)
  <2>1. OwnFrame \subseteq Frame
    BY DEF OwnFrame
  <2>. QED
    BY <2>1, ReplyIsOwn
<1>2. Len(Reply(t, last)) = Parts + 1
  BY PartsAssumption DEF Reply
<1>3. ASSUME NEW i \in 1..(Parts + 1)
      PROVE  Of(Reply(t, last)[i]) = t /\ Rank(Reply(t, last)[i]) = i
  BY <1>3, PartsAssumption DEF Reply, Of, Rank
<1>. QED
  BY <1>1, <1>2, <1>3

LEMMA ReplyBlocks ==
  ASSUME NEW F \in Seq(Frame), Blocks(F), Ordered(F),
         NEW t \in Threads, NEW last \in {"DATA", "ERROR"}, NotIn(t, F)
  PROVE  /\ Blocks(F \o Reply(t, last)) /\ Ordered(F \o Reply(t, last))
         /\ \A u \in Threads :
              u # t /\ NotIn(u, F) => NotIn(u, F \o Reply(t, last))
<1> DEFINE G == F \o Reply(t, last)
           n == Len(F)
<1>1. /\ G \in Seq(Frame) /\ n \in Nat /\ Len(G) = n + Parts + 1
      /\ \A j \in 1..n : G[j] = F[j]
      /\ \A j \in (n + 1)..(n + Parts + 1) :
           Of(G[j]) = t /\ Rank(G[j]) = j - n
  <2>1. /\ G \in Seq(Frame)
        /\ Len(G) = Len(F) + Len(Reply(t, last))
        /\ \A i \in 1..(Len(F) + Len(Reply(t, last))) :
             G[i] = IF i <= Len(F) THEN F[i] ELSE Reply(t, last)[i - Len(F)]
    BY ReplyFacts, ConcatProperties, Zenon
  <2>2. n \in Nat
    OBVIOUS
  <2>0. /\ Len(Reply(t, last)) = Parts + 1
        /\ \A i \in 1..(Parts + 1) : /\ Of(Reply(t, last)[i]) = t
                                     /\ Rank(Reply(t, last)[i]) = i
    BY ReplyFacts
  <2>. HIDE DEF G, n
  <2>3. Len(F) = n
    BY DEF n
  <2>4. \A j \in (n + 1)..(n + Parts + 1) :
          /\ G[j] = Reply(t, last)[j - n]
          /\ j - n \in 1..(Parts + 1)
    BY <2>0, <2>1, <2>2, <2>3, PartsAssumption
  <2>. QED
    BY <2>0, <2>1, <2>2, <2>3, <2>4, PartsAssumption
<1>2. \A j \in 1..n : Rank(F[j]) \in Nat /\ Of(F[j]) # t
  BY FrameFacts, PartsAssumption DEF NotIn
<1>3. n = Len(F)
  OBVIOUS
<1>. HIDE DEF G, n
<1>4. \A j \in 1..Len(G) : j \in 1..n \/ j \in (n + 1)..(n + Parts + 1)
  BY <1>1, PartsAssumption
<1>5. Blocks(G)
  <2>1. ASSUME NEW j \in 2..Len(G), Rank(G[j]) > 1
        PROVE  Of(G[j - 1]) = Of(G[j]) /\ Rank(G[j - 1]) = Rank(G[j]) - 1
    <3>1. CASE j \in 1..n
      <4>1. j \in 2..n /\ j - 1 \in 1..n
        BY <1>1, <3>1
      <4>. QED
        BY <1>1, <1>3, <2>1, <3>1, <4>1 DEF Blocks
    <3>2. CASE j \in (n + 1)..(n + Parts + 1)
      <4>1. j - 1 \in (n + 1)..(n + Parts + 1)
        BY <1>1, <2>1, <3>2, PartsAssumption
      <4>. QED
        BY <1>1, <3>2, <4>1, PartsAssumption
    <3>. QED
      BY <1>1, <1>4, <3>1, <3>2
  <2>. QED
    BY <2>1 DEF Blocks
<1>6. Ordered(G)
  <2>. SUFFICES ASSUME NEW j \in 1..Len(G), NEW k \in 1..Len(G), j < k,
                       Of(G[j]) = Of(G[k])
                PROVE  Rank(G[j]) < Rank(G[k])
    BY DEF Ordered
  <2>1. CASE k \in 1..n
    <3>1. j \in 1..n
      BY <1>1, <2>1
    <3>. QED
      BY <1>1, <1>3, <2>1, <3>1 DEF Ordered
  <2>2. CASE k \in (n + 1)..(n + Parts + 1)
    <3>1. j \in (n + 1)..(n + Parts + 1)
      BY <1>1, <1>2, <1>4, <2>2
    <3>. QED
      BY <1>1, <2>2, <3>1, PartsAssumption
  <2>. QED
    BY <1>4, <2>1, <2>2
<1>7. \A u \in Threads : u # t /\ NotIn(u, F) => NotIn(u, G)
  BY <1>1, <1>3, <1>4 DEF NotIn
<1>. QED
  BY <1>5, <1>6, <1>7 DEF G

-----------------------------------------------------------------------------
(* A command is sent once, and its reply is in the line once *)

\* What the threads that query and disconnect do to the line: they send.
LEMMA ThreadStepSends ==
  ASSUME IInv, NEW t \in Threads,
         \/ SyncedStep(t) \/ QueryStep(t) \/ BeginDisconnect(t)
         \/ CloseStep(t)
  PROVE  /\ UNCHANGED <<qpc, cur, messagesQueue, wire, mcUp>>
         /\ Flow' = Flow
         /\ \A u \in Threads : Unsent(u)' => Unsent(u)
         /\ \/ requests' = requests
            \/ /\ pc[t] \in {"write", "qWrite"} /\ ~Unsent(t)'
               /\ requests' = Append(requests, t)
<1>0. pc \in [Threads -> Locations]
  BY DEF IInv, TypeOK, Locations
<1>. USE DEF Goto, mngrVars, netVars, queueVars, Unsent
<1>1. CASE SyncedStep(t)
  <2>1. UNCHANGED <<qpc, cur, messagesQueue, wire, mcUp>>
    BY <1>1 DEF SyncedStep, Begin, Put, ResetDone, SendSynced, Send,
                WriteSynced, Write, Poll, IsDone, After, Take, Remove
  <2>2. \A u \in Threads : Unsent(u)' => Unsent(u)
    <3>1. \E l : /\ pc' = [pc EXCEPT ![t] = l]
                 /\ Unsent(t) \/ l \notin {"idle", "put", "reset", "send",
                                           "write", "qSend", "qWrite"}
      BY <1>1 DEF SyncedStep, Begin, Put, ResetDone, SendSynced, Send,
                  WriteSynced, Write, Poll, IsDone, After, Take, Remove,
                  Returned
    <3>. QED
      BY <1>0, <3>1
  <2>3. \/ requests' = requests
        \/ /\ pc[t] \in {"write", "qWrite"} /\ ~Unsent(t)'
           /\ requests' = Append(requests, t)
    BY <1>0, <1>1 DEF SyncedStep, Begin, Put, ResetDone, SendSynced, Send,
                WriteSynced, Write, Poll, IsDone, After, Take, Remove
  <2>. QED
    BY <2>1, <2>2, <2>3 DEF Flow, InHand
<1>2. CASE QueryStep(t)
  <2>1. UNCHANGED <<qpc, cur, messagesQueue, wire, mcUp>>
    BY <1>2 DEF QueryStep, QueryMC, SendQuery, Send, WriteQuery, Write,
                WaitQuery, ReturnQuery
  <2>2. \A u \in Threads : Unsent(u)' => Unsent(u)
    BY <1>0, <1>2 DEF QueryStep, QueryMC, SendQuery, Send, WriteQuery, Write,
                      WaitQuery, ReturnQuery
  <2>3. \/ requests' = requests
        \/ /\ pc[t] \in {"write", "qWrite"} /\ ~Unsent(t)'
           /\ requests' = Append(requests, t)
    BY <1>0, <1>2 DEF QueryStep, QueryMC, SendQuery, Send, WriteQuery, Write,
                      WaitQuery, ReturnQuery
  <2>. QED
    BY <2>1, <2>2, <2>3 DEF Flow, InHand
<1>3. CASE BeginDisconnect(t) \/ CloseStep(t)
  <2>1. UNCHANGED <<qpc, cur, messagesQueue, wire, mcUp, requests>>
    BY <1>3 DEF BeginDisconnect, CloseStep, Disconnect, AwaitQuery, EndQuery,
                CloseSocket, DropSocket
  <2>2. \A u \in Threads : Unsent(u)' => Unsent(u)
    BY <1>0, <1>3 DEF BeginDisconnect, CloseStep, Disconnect, AwaitQuery,
                      EndQuery, CloseSocket, DropSocket, Notified
  <2>. QED
    BY <2>1, <2>2 DEF Flow, InHand
<1>. QED
  BY <1>1, <1>2, <1>3

LEMMA QueueStepSends ==
  ASSUME IInv, QueueStep
  PROVE  /\ UNCHANGED <<requests, sockClient, mcUp, wire, ret>>
         /\ \A u \in Threads : \/ pc'[u] = pc[u]
                               \/ pc[u] = "qBlocked" /\ pc'[u] = "qWait"
         /\ \A u \in Threads : Unsent(u)' => Unsent(u)
<1>0. pc \in [Threads -> Locations]
  BY DEF IInv, TypeOK, Locations
<1>1. UNCHANGED <<requests, sockClient, mcUp, wire, ret>>
  BY DEF QueueStep, StartQueueThread, LoopTop, Woken, TakeFrame, Refresh,
         DropFrame, HandleData, AppendData, DataInQueryMode, StoreData,
         HandlePrompt, NotifyQuery, PromptPending, SetDone, QueueThread,
         netVars
<1>2. pc' = pc \/ pc' = Notified
  BY DEF QueueStep, StartQueueThread, LoopTop, Woken, TakeFrame, Refresh,
         DropFrame, HandleData, AppendData, DataInQueryMode, StoreData,
         HandlePrompt, NotifyQuery, PromptPending, SetDone
<1>3. \A u \in Threads : \/ pc'[u] = pc[u]
                         \/ pc[u] = "qBlocked" /\ pc'[u] = "qWait"
  BY <1>0, <1>2 DEF Notified
<1>4. \A u \in Threads : Unsent(u)' => Unsent(u)
  BY <1>3 DEF Unsent
<1>. QED
  BY <1>1, <1>3, <1>4

\* The k-th request is answered and gone.
LEMMA Answered ==
  ASSUME NEW S, NEW s \in Seq(S), NEW k \in 1..Len(s)
  PROVE  LET r == SubSeq(s, 1, k - 1) \o SubSeq(s, k + 1, Len(s))
         IN  /\ Len(r) = Len(s) - 1
             /\ \A i \in 1..Len(r) :
                  r[i] = (IF i < k THEN s[i] ELSE s[i + 1])
<1>. DEFINE a == SubSeq(s, 1, k - 1)
            b == SubSeq(s, k + 1, Len(s))
<1>1. /\ a \in Seq(S) /\ Len(a) = k - 1
      /\ \A i \in 1..(k - 1) : a[i] = s[i]
  BY SubSeqProperties
<1>2. /\ b \in Seq(S) /\ Len(b) = Len(s) - k
      /\ \A i \in 1..(Len(s) - k) : b[i] = s[k + i]
  <2>1. /\ b \in Seq(S)
        /\ Len(b) = IF k + 1 <= Len(s) THEN Len(s) - (k + 1) + 1 ELSE 0
        /\ \A i \in 1..(Len(s) - (k + 1) + 1) : b[i] = s[(k + 1) + i - 1]
    BY SubSeqProperties
  <2>2. Len(s) \in Nat
    OBVIOUS
  <2>. QED
    BY <2>1, <2>2
<1>. HIDE DEF a, b
<1>3. /\ Len(a \o b) = Len(a) + Len(b)
      /\ \A i \in 1..(Len(a) + Len(b)) :
           (a \o b)[i] = IF i <= Len(a) THEN a[i] ELSE b[i - Len(a)]
  BY <1>1, <1>2, ConcatProperties, Zenon
<1>4. Len(s) \in Nat /\ k \in Nat
  OBVIOUS
<1>5. Len(a \o b) = Len(s) - 1
  BY <1>1, <1>2, <1>3, <1>4
<1>6. ASSUME NEW i \in 1..Len(a \o b)
      PROVE  (a \o b)[i] = (IF i < k THEN s[i] ELSE s[i + 1])
  <2>1. (a \o b)[i] = IF i <= Len(a) THEN a[i] ELSE b[i - Len(a)]
    BY <1>3
  <2>2. CASE i < k
    BY <1>1, <1>4, <1>5, <2>1, <2>2
  <2>3. CASE ~(i < k)
    <3>1. i - (k - 1) \in 1..(Len(s) - k) /\ k + (i - (k - 1)) = i + 1
      BY <1>4, <1>5, <2>3
    <3>. QED
      BY <1>1, <1>2, <1>4, <2>1, <2>3, <3>1
  <2>. QED
    BY <2>2, <2>3
<1>. QED
  BY <1>5, <1>6, Zenon DEF a, b

\* A thread that sends is asked for, and no other.
LEMMA SendAsks ==
  ASSUME IInv, NEW t \in Threads,
         requests' = requests \/ requests' = Append(requests, t)
  PROVE  \A u \in Threads : u # t /\ ~NotAsked(u)' => ~NotAsked(u)
<1>1. CASE requests' = requests
  BY <1>1 DEF NotAsked
<1>2. CASE requests' = Append(requests, t)
  <2>1. /\ Len(requests') = Len(requests) + 1 /\ Len(requests) \in Nat
        /\ \A k \in 1..Len(requests) : requests'[k] = requests[k]
        /\ requests'[Len(requests) + 1] = t
    BY <1>2 DEF IInv, TypeOK
  <2>. QED
    BY <2>1 DEF NotAsked
<1>. QED
  BY <1>1, <1>2

\* The frame in hand is the head of the line, and answers a thread's command.
LEMMA Hand ==
  ASSUME IInv, InHand
  PROVE  /\ Flow # << >> /\ Flow[1] = cur /\ 1 \in 1..Len(Flow)
         /\ cur \in Frame /\ Of(cur) \in Threads /\ IdOf[Of(cur)] = cur.id
         /\ ~NotIn(Of(cur), Flow)
<1>1. cur \in OwnFrame /\ Flow = <<cur>> \o (messagesQueue \o wire)
  BY FlowIs DEF InHand, IInv, CurrentIsOwn
<1>2. messagesQueue \o wire \in Seq(OwnFrame)
  BY ConcatProperties DEF IInv, FramesAreOwn
<1>3. Flow # << >> /\ Flow[1] = cur
  BY <1>1, <1>2, HeadOfLine
<1>4. 1 \in 1..Len(Flow)
  BY <1>3, FlowType
<1>. QED
  BY <1>1, <1>3, <1>4, FrameFacts DEF OwnFrame, NotIn, Of

LEMMA InitFlow == Init => FlowInv
<1>. SUFFICES ASSUME Init PROVE FlowInv
  OBVIOUS
<1>1. ~InHand /\ IInv
  BY InitIInv DEF Init, InHand
<1>2. Flow = << >>
  <2>1. messagesQueue \o wire = << >>
    BY DEF Init
  <2>. QED
    BY <1>1, <2>1, FlowIs
<1>3. Blocks(Flow) /\ Ordered(Flow)
  BY <1>2 DEF Blocks, Ordered
<1>4. \A t \in Threads : NotIn(t, Flow)
  BY <1>2 DEF NotIn
<1>. QED
  BY <1>3, <1>4 DEF FlowInv, AskedOnce, NotAsked, CurrentIsPrompt, Init

LEMMA StepFlow == ASSUME IInv, FlowInv, [Next]_vars PROVE FlowInv'
<1>0. Flow \in Seq(Frame) /\ requests \in Seq(Threads)
  BY FlowType DEF IInv, TypeOK
<1>1. ASSUME NEW t \in Threads,
             \/ SyncedStep(t) \/ QueryStep(t) \/ BeginDisconnect(t)
             \/ CloseStep(t)
      PROVE  FlowInv'
  <2>1. /\ UNCHANGED <<qpc, cur>> /\ Flow' = Flow
        /\ \A u \in Threads : Unsent(u)' => Unsent(u)
        /\ \/ requests' = requests
           \/ /\ pc[t] \in {"write", "qWrite"} /\ ~Unsent(t)'
              /\ requests' = Append(requests, t)
    BY <1>1, ThreadStepSends
  <2>2. CASE requests' = requests
    BY <2>1, <2>2 DEF FlowInv, AskedOnce, NotAsked, CurrentIsPrompt
  <2>3. CASE /\ pc[t] \in {"write", "qWrite"} /\ ~Unsent(t)'
             /\ requests' = Append(requests, t)
    <3>1. Unsent(t)
      BY <2>3 DEF Unsent
    <3>2. NotIn(t, Flow) /\ \A k \in 1..Len(requests) : requests[k] # t
      BY <3>1 DEF FlowInv, AskedOnce, NotAsked
    <3>3. /\ Len(requests') = Len(requests) + 1
          /\ \A k \in 1..Len(requests) : requests'[k] = requests[k]
          /\ requests'[Len(requests) + 1] = t
          /\ Len(requests) \in Nat
      BY <1>0, <2>3
    <3>4. AskedOnce'
      <4>1. \A u \in Threads : Unsent(u)' => NotIn(u, Flow') /\ NotAsked(u)'
        BY <2>1, <2>3, <3>3 DEF FlowInv, AskedOnce, NotAsked
      <4>2. \A j, k \in 1..Len(requests') :
              requests'[j] = requests'[k] => j = k
        BY <3>2, <3>3 DEF FlowInv, AskedOnce
      <4>3. \A k \in 1..Len(requests') : NotIn(requests'[k], Flow')
        BY <2>1, <3>2, <3>3 DEF FlowInv, AskedOnce
      <4>. QED
        BY <4>1, <4>2, <4>3 DEF AskedOnce
    <3>. QED
      BY <2>1, <3>4 DEF FlowInv, CurrentIsPrompt
  <2>. QED
    BY <2>1, <2>2, <2>3
<1>2. CASE QueueStep
  <2>1. /\ requests' = requests
        /\ \A u \in Threads : Unsent(u)' => Unsent(u)
    BY <1>2, QueueStepSends
  <2>2. \/ Flow' = Flow
        \/ Flow # << >> /\ Flow' = Tail(Flow)
    BY <1>2, QueueStepMoves
  <2>3. /\ Blocks(Flow') /\ Ordered(Flow')
        /\ \A u \in Threads : NotIn(u, Flow) => NotIn(u, Flow')
    BY <1>0, <2>2, TailBlocks DEF FlowInv
  <2>4. CurrentIsPrompt'
    BY <1>2 DEF FlowInv, CurrentIsPrompt, QueueStep, StartQueueThread,
         LoopTop, Woken, TakeFrame, Refresh, DropFrame, HandleData,
         AppendData, DataInQueryMode, StoreData, HandlePrompt, NotifyQuery,
         PromptPending, SetDone, EndQueueThread, LeaveFrame, QueueThread
  <2>5. \A k \in 1..Len(requests) : requests[k] \in Threads
    BY <1>0
  <2>. QED
    BY <2>1, <2>3, <2>4, <2>5 DEF FlowInv, AskedOnce, NotAsked
<1>3. CASE ReaderStep
  <2>1. Flow' = Flow
    BY <1>3, ReaderStepMoves
  <2>2. UNCHANGED <<requests, pc, qpc, cur>>
    BY <1>3 DEF ReaderStep, ReadBuffer, EndOfStream, netVars, queueVars
  <2>. QED
    BY <2>1, <2>2 DEF FlowInv, AskedOnce, NotAsked, Unsent, CurrentIsPrompt
<1>4. CASE MCReply
  <2>1. PICK k \in 1..Len(requests), last \in {"DATA", "ERROR"} :
          /\ wire' = wire \o Reply(requests[k], last)
          /\ requests' = SubSeq(requests, 1, k - 1)
                           \o SubSeq(requests, k + 1, Len(requests))
    BY <1>4 DEF MCReply
  <2>2. UNCHANGED <<messagesQueue, qpc, cur, pc>>
    BY <1>4 DEF MCReply, queueVars
  <2>3. requests[k] \in Threads /\ NotIn(requests[k], Flow)
        /\ ~Unsent(requests[k])
    BY <1>0 DEF FlowInv, AskedOnce, NotAsked
  <2>4. Flow' = Flow \o Reply(requests[k], last)
    BY <2>1, <2>2, <2>3, ReplyIsOwn, ReplyMoves
  <2>5. /\ Blocks(Flow') /\ Ordered(Flow')
        /\ \A u \in Threads :
             u # requests[k] /\ NotIn(u, Flow) => NotIn(u, Flow')
    BY <1>0, <2>3, <2>4, ReplyBlocks DEF FlowInv
  <2>6. /\ Len(requests') = Len(requests) - 1
        /\ \A i \in 1..Len(requests') :
             requests'[i] = (IF i < k THEN requests[i] ELSE requests[i + 1])
    BY <1>0, <2>1, Answered
  <2>7. /\ Len(requests) \in Nat /\ k \in Nat
        /\ \A i \in 1..Len(requests') : i \in 1..Len(requests)
                                        /\ i + 1 \in 1..Len(requests)
    BY <1>0, <2>6
  <2>8. \A i \in 1..Len(requests') : /\ requests'[i] # requests[k]
                                     /\ requests'[i] \in Threads
                                     /\ ~Unsent(requests'[i])
                                     /\ NotIn(requests'[i], Flow)
    <3>. SUFFICES ASSUME NEW i \in 1..Len(requests')
                  PROVE  /\ requests'[i] # requests[k]
                         /\ requests'[i] \in Threads
                         /\ ~Unsent(requests'[i])
                         /\ NotIn(requests'[i], Flow)
      OBVIOUS
    <3>1. PICK j \in 1..Len(requests) : requests'[i] = requests[j] /\ j # k
      BY <2>6, <2>7
    <3>. QED
      BY <1>0, <3>1 DEF FlowInv, AskedOnce, NotAsked
  <2>9. AskedOnce'
    <3>1. \A u \in Threads : Unsent(u)' => NotIn(u, Flow') /\ NotAsked(u)'
      BY <2>2, <2>3, <2>5, <2>8 DEF FlowInv, AskedOnce, NotAsked, Unsent
    <3>2. \A i, j \in 1..Len(requests') : requests'[i] = requests'[j] => i = j
      BY <2>6, <2>7 DEF FlowInv, AskedOnce
    <3>3. \A i \in 1..Len(requests') : NotIn(requests'[i], Flow')
      BY <2>5, <2>8
    <3>. QED
      BY <3>1, <3>2, <3>3 DEF AskedOnce
  <2>. QED
    BY <2>2, <2>5, <2>9 DEF FlowInv, CurrentIsPrompt
<1>5. CASE MCClose
  <2>1. /\ \A j \in 1..Len(Flow') : j \in 1..Len(Flow) /\ Flow'[j] = Flow[j]
        /\ requests' = << >> /\ UNCHANGED <<qpc, cur, pc>>
        /\ Flow' \in Seq(Frame)
    BY <1>5, CloseMoves DEF queueVars
  <2>2. Blocks(Flow')
    <3>. SUFFICES ASSUME NEW j \in 2..Len(Flow'), Rank(Flow'[j]) > 1
                  PROVE  /\ Of(Flow'[j - 1]) = Of(Flow'[j])
                         /\ Rank(Flow'[j - 1]) = Rank(Flow'[j]) - 1
      BY DEF Blocks
    <3>1. j \in 1..Len(Flow') /\ j - 1 \in 1..Len(Flow') /\ Len(Flow') \in Nat
      BY <2>1
    <3>2. /\ j \in 2..Len(Flow) /\ Flow'[j] = Flow[j]
          /\ Flow'[j - 1] = Flow[j - 1]
      BY <1>0, <2>1, <3>1
    <3>. QED
      BY <3>2 DEF FlowInv, Blocks
  <2>3. Ordered(Flow')
    BY <2>1 DEF FlowInv, Ordered
  <2>4. \A u \in Threads : NotIn(u, Flow) => NotIn(u, Flow')
    BY <2>1 DEF NotIn
  <2>5. AskedOnce'
    BY <2>1, <2>4 DEF FlowInv, AskedOnce, NotAsked, Unsent
  <2>. QED
    BY <2>1, <2>2, <2>3, <2>5 DEF FlowInv, CurrentIsPrompt
<1>6. CASE UNCHANGED vars
  <2>1. UNCHANGED <<messagesQueue, wire, qpc, cur, pc, requests>>
    BY <1>6 DEF vars, queueVars, netVars
  <2>2. Flow' = Flow
    BY <2>1 DEF Flow, InHand
  <2>. QED
    BY <2>1, <2>2 DEF FlowInv, AskedOnce, NotAsked, Unsent, CurrentIsPrompt
<1>. QED
  BY <1>1, <1>2, <1>3, <1>4, <1>5, <1>6 DEF Next

LEMMA FlowInvariant == Spec => []FlowInv
<1>1. IInv /\ FlowInv /\ [Next]_vars => FlowInv'
  BY StepFlow
<1>. QED
  BY InitFlow, IInvInvariant, <1>1, PTL DEF Spec

-----------------------------------------------------------------------------
(* A reply is filed in order *)

\* What the MC's answer does: a reply to one request joins the line.
LEMMA ReplyJoins ==
  ASSUME IInv, FlowInv, MCReply
  PROVE  /\ \E w \in Threads :
              /\ ~NotAsked(w) /\ NotIn(w, Flow)
              /\ Len(Flow') = Len(Flow) + Parts + 1
              /\ \A j \in 1..Len(Flow) : Flow'[j] = Flow[j]
              /\ \A j \in (Len(Flow) + 1)..(Len(Flow) + Parts + 1) :
                   Of(Flow'[j]) = w /\ Rank(Flow'[j]) = j - Len(Flow)
         /\ \A u \in Threads : ~NotAsked(u)' => ~NotAsked(u)
<1>0. Flow \in Seq(Frame) /\ requests \in Seq(Threads) /\ Len(Flow) \in Nat
  BY FlowType DEF IInv, TypeOK
<1>1. PICK k \in 1..Len(requests), last \in {"DATA", "ERROR"} :
        /\ wire' = wire \o Reply(requests[k], last)
        /\ requests' = SubSeq(requests, 1, k - 1)
                         \o SubSeq(requests, k + 1, Len(requests))
  BY DEF MCReply
<1>2. requests[k] \in Threads /\ ~NotAsked(requests[k])
      /\ NotIn(requests[k], Flow)
  BY <1>0 DEF FlowInv, AskedOnce, NotAsked
<1>. DEFINE r == Reply(requests[k], last)
<1>3. Flow' = Flow \o r
  <2>1. UNCHANGED <<messagesQueue, qpc, cur>>
    BY DEF MCReply, queueVars
  <2>. QED
    BY <1>1, <1>2, <2>1, ReplyIsOwn, ReplyMoves
<1>4. /\ r \in Seq(Frame)
      /\ Len(r) = Parts + 1
      /\ \A i \in 1..(Parts + 1) : Of(r[i]) = requests[k] /\ Rank(r[i]) = i
  BY <1>2, ReplyFacts
<1>. HIDE DEF r
<1>5. /\ Len(Flow \o r) = Len(Flow) + Len(r)
      /\ \A i \in 1..(Len(Flow) + Len(r)) :
           (Flow \o r)[i] = IF i <= Len(Flow) THEN Flow[i]
                            ELSE r[i - Len(Flow)]
  BY <1>0, <1>4, ConcatProperties, Zenon
<1>6. /\ \A j \in 1..Len(Flow) : Flow'[j] = Flow[j]
      /\ \A j \in (Len(Flow) + 1)..(Len(Flow) + Parts + 1) :
           /\ Flow'[j] = r[j - Len(Flow)]
           /\ j - Len(Flow) \in 1..(Parts + 1)
  BY <1>0, <1>3, <1>4, <1>5, PartsAssumption
<1>7. Len(Flow') = Len(Flow) + Parts + 1
  BY <1>0, <1>3, <1>4, <1>5, PartsAssumption
<1>8. ASSUME NEW u \in Threads, ~NotAsked(u)' PROVE ~NotAsked(u)
  <2>1. /\ Len(requests') = Len(requests) - 1
        /\ \A i \in 1..Len(requests') :
             requests'[i] = (IF i < k THEN requests[i] ELSE requests[i + 1])
    BY <1>0, <1>1, Answered
  <2>2. \A i \in 1..Len(requests') : i \in 1..Len(requests)
                                     /\ i + 1 \in 1..Len(requests)
    BY <1>0, <2>1
  <2>. QED
    BY <1>8, <2>1, <2>2 DEF NotAsked
<1>. QED
  BY <1>2, <1>4, <1>6, <1>7, <1>8

\* A text that does not grow fits if no frame joins the line.
LEMMA StillFits ==
  ASSUME NEW t \in Threads,
         HasEntry(t) => TextFits(t),
         TextOf(t)' = << >> \/ (HasEntry(t) /\ TextOf(t)' = TextOf(t)),
         \A j \in 1..Len(Flow') : Of(Flow'[j]) = t =>
           \E i \in 1..Len(Flow) : Flow[i] = Flow'[j],
         Unsent(t)' => Unsent(t),
         ~NotAsked(t)' => ~NotAsked(t) \/ Unsent(t)
  PROVE  TextFits(t)'
<1>1. CASE TextOf(t)' = << >>
  BY <1>1 DEF TextFits, Increasing
<1>2. CASE HasEntry(t) /\ TextOf(t)' = TextOf(t)
  BY <1>2 DEF TextFits, Increasing
<1>. QED
  BY <1>1, <1>2

\* What a step of a querying thread does to the entries.
LEMMA ThreadStepTexts ==
  ASSUME IInv, NEW t \in Threads,
         \/ SyncedStep(t) \/ QueryStep(t) \/ BeginDisconnect(t)
         \/ CloseStep(t)
  PROVE  \A u \in Threads : HasEntry(u)' =>
           TextOf(u)' = << >> \/ (HasEntry(u) /\ TextOf(u)' = TextOf(u))
<1>. SUFFICES ASSUME NEW u \in Threads, HasEntry(u)'
              PROVE  \/ TextOf(u)' = << >>
                     \/ HasEntry(u) /\ TextOf(u)' = TextOf(u)
  OBVIOUS
<1>. USE DEF HasEntry, TextOf
<1>0. /\ IdOf[u] \in Ids /\ IdOf[t] \in Ids
      /\ commands \in [Ids -> PendingCommand \cup {NoCommand}]
  BY DEF Ids, IInv, TypeOK
<1>1. CASE Put(t)
  BY <1>0, <1>1 DEF Put, NewCommand
<1>2. CASE ResetDone(t)
  BY <1>0, <1>2 DEF ResetDone, PendingCommand
<1>3. CASE Remove(t)
  BY <1>0, <1>3 DEF Remove
<1>4. CASE UNCHANGED commands
  BY <1>4
<1>5. \/ Put(t) \/ ResetDone(t) \/ Remove(t) \/ UNCHANGED commands
  BY DEF SyncedStep, Begin, SendSynced, Send, WriteSynced, Write, Poll,
         IsDone, After, Take, QueryStep, QueryMC, SendQuery, WriteQuery,
         WaitQuery, ReturnQuery, BeginDisconnect, CloseStep, Disconnect,
         AwaitQuery, EndQuery, CloseSocket, DropSocket
<1>. QED
  BY <1>1, <1>2, <1>3, <1>4, <1>5

\* The text a query returns is the text of its entry.
LEMMA ThreadStepReturns ==
  ASSUME IInv, NEW t \in Threads,
         \/ SyncedStep(t) \/ QueryStep(t) \/ BeginDisconnect(t)
         \/ CloseStep(t)
  PROVE  \A u \in Synced \cup Exiting :
           \/ ret'[u] = ret[u]
           \/ u = t /\ pc[t] = "take" /\ HasEntry(t) /\ ret'[t] = TextOf(t)
<1>0. /\ ret \in [Threads -> Seq(Threads \X (1..Parts))]
      /\ Synced \cup Exiting \subseteq Threads
  BY DEF IInv, TypeOK, Threads
<1>1. CASE Take(t)
  BY <1>0, <1>1 DEF Take, HasEntry, TextOf
<1>2. CASE ReturnQuery(t)
  <2>1. t \notin Synced \cup Exiting
    BY <1>2, ThreadsAssumption DEF IInv, QueryingRuns, InQueryMC, ReturnQuery
  <2>. QED
    BY <1>0, <1>2, <2>1 DEF ReturnQuery
<1>3. CASE UNCHANGED ret
  BY <1>3
<1>4. Take(t) \/ ReturnQuery(t) \/ UNCHANGED ret
  BY DEF SyncedStep, Begin, Put, ResetDone, SendSynced, Send, WriteSynced,
         Write, Poll, IsDone, After, Remove, QueryStep, QueryMC, SendQuery,
         WriteQuery, WaitQuery, BeginDisconnect, CloseStep, Disconnect,
         AwaitQuery, EndQuery, CloseSocket, DropSocket
<1>. QED
  BY <1>1, <1>2, <1>3, <1>4

\* What a step of the queue thread does to the entries.
LEMMA QueueStepTexts ==
  ASSUME IInv, QueueStep
  PROVE  \/ commands' = commands
         \/ /\ SetDone /\ cur.id \in Ids /\ commands[cur.id] # NoCommand
            /\ commands' = [commands EXCEPT ![cur.id].done = TRUE]
         \/ /\ AppendData /\ cur.id \in Ids /\ commands[cur.id] # NoCommand
            /\ commands' = [commands EXCEPT
                             ![cur.id].text = Append(@, cur.piece)]
<1>1. AppendData \/ SetDone => cur.id \in Ids
  BY DEF AppendData, SetDone, QueueThread, IInv, CurrentIsOwn, OwnFrame,
         Frame, DataFrame, PromptFrame
<1>2. AppendData \/ SetDone \/ commands' = commands
  BY DEF QueueStep, StartQueueThread, LoopTop, Woken, TakeFrame, Refresh,
         DropFrame, HandleData, DataInQueryMode, StoreData, HandlePrompt,
         NotifyQuery, PromptPending
<1>. QED
  BY <1>1, <1>2 DEF AppendData, SetDone

LEMMA InitOrder == Init => OrderInv
BY DEF Init, OrderInv, HasEntry, Ids, Increasing, Threads

LEMMA QueueStepOrder ==
  ASSUME DistinctIds, IInv, FlowInv, OrderInv, QueueStep
  PROVE  OrderInv'
<1>0. /\ Flow \in Seq(Frame)
      /\ commands \in [Ids -> PendingCommand \cup {NoCommand}]
      /\ \A t \in Threads : IdOf[t] \in Ids
  BY FlowType DEF IInv, TypeOK, Ids
<1>1. /\ UNCHANGED <<requests, ret>>
      /\ \A u \in Threads : Unsent(u)' => Unsent(u)
  BY QueueStepSends
<1>2. \/ Flow' = Flow
      \/ Flow # << >> /\ Flow' = Tail(Flow)
  BY QueueStepMoves
<1>3. \A j \in 1..Len(Flow') :
        \E i \in 1..Len(Flow) : Flow[i] = Flow'[j]
  <2>1. CASE Flow' = Flow
    BY <2>1
  <2>2. CASE Flow # << >> /\ Flow' = Tail(Flow)
    <3>1. /\ Len(Flow) \in Nat \ {0} /\ Len(Tail(Flow)) = Len(Flow) - 1
          /\ \A i \in 1..(Len(Flow) - 1) : Tail(Flow)[i] = Flow[i + 1]
      BY <1>0, <2>2, HeadTailProperties
    <3>. QED
      BY <2>2, <3>1
  <2>. QED
    BY <1>2, <2>1, <2>2
<1>4. ASSUME NEW t \in Threads, HasEntry(t)',
             TextOf(t)' = << >> \/ (HasEntry(t) /\ TextOf(t)' = TextOf(t))
      PROVE  TextFits(t)'
  BY <1>1, <1>3, <1>4, StillFits DEF OrderInv, NotAsked
<1>5. CASE commands' = commands
  BY <1>1, <1>4, <1>5 DEF OrderInv, HasEntry, TextOf
<1>6. CASE /\ SetDone /\ cur.id \in Ids /\ commands[cur.id] # NoCommand
           /\ commands' = [commands EXCEPT ![cur.id].done = TRUE]
  <2>1. \A t \in Threads : HasEntry(t)' =>
          HasEntry(t) /\ TextOf(t)' = TextOf(t)
    BY <1>0, <1>6 DEF HasEntry, TextOf, PendingCommand
  <2>. QED
    BY <1>1, <1>4, <2>1 DEF OrderInv
<1>7. CASE /\ AppendData /\ cur.id \in Ids /\ commands[cur.id] # NoCommand
           /\ commands' = [commands EXCEPT
                            ![cur.id].text = Append(@, cur.piece)]
  <2>1. /\ qpc = "append" /\ qpc' = "mode"
        /\ cur \in OwnFrame /\ cur \in DataFrame
    BY <1>7 DEF AppendData, QueueThread, IInv, CurrentIsOwn
  <2>2. PICK u \in Threads :
          /\ u = Of(cur) /\ IdOf[u] = cur.id
          /\ Rank(cur) = cur.piece[2] /\ cur.piece[2] \in 1..Parts
    BY <2>1 DEF OwnFrame, DataFrame, Of, Rank
  <2>3. /\ Flow # << >> /\ Flow[1] = cur /\ Flow' = Tail(Flow)
    BY <2>1, QueueStepMoves DEF InHand
  <2>4. \A t \in Threads : t # u /\ HasEntry(t)' =>
          HasEntry(t) /\ TextOf(t)' = TextOf(t)
    BY <1>0, <1>7, <2>2 DEF HasEntry, TextOf, DistinctIds
  <2>5. TextFits(u)'
    <3>1. /\ HasEntry(u) /\ TextFits(u)
          /\ TextOf(u) \in Seq(Threads \X (1..Parts))
      BY <1>0, <1>7, <2>2 DEF HasEntry, TextOf, OrderInv, PendingCommand
    <3>2. TextOf(u)' = Append(TextOf(u), cur.piece)
      BY <1>0, <1>7, <2>2, <3>1 DEF HasEntry, TextOf, PendingCommand
    <3>3. /\ Len(TextOf(u)) \in Nat /\ Len(TextOf(u)') = Len(TextOf(u)) + 1
          /\ \A k \in 1..Len(TextOf(u)) : TextOf(u)'[k] = TextOf(u)[k]
          /\ TextOf(u)'[Len(TextOf(u)) + 1] = cur.piece
      <4>1. cur.piece \in Threads \X (1..Parts)
        BY <2>1 DEF DataFrame
      <4>. QED
        BY <3>1, <3>2, <4>1, AppendProperties
    <3>4. /\ Len(Flow) \in Nat \ {0} /\ Len(Flow') = Len(Flow) - 1
          /\ \A i \in 1..(Len(Flow) - 1) : Flow'[i] = Flow[i + 1]
      BY <1>0, <2>3, HeadTailProperties
    <3>5. \A k \in 1..Len(TextOf(u)) : TextOf(u)[k][2] < cur.piece[2]
      <4>1. 1 \in 1..Len(Flow)
        BY <3>4
      <4>. QED
        BY <2>2, <2>3, <3>1, <4>1 DEF TextFits
    <3>6. Increasing(TextOf(u)')
      <4>1. ASSUME NEW j \in 1..Len(TextOf(u)'), NEW k \in 1..Len(TextOf(u)'),
                   j < k
            PROVE  TextOf(u)'[j][2] < TextOf(u)'[k][2]
        <5>1. j \in 1..Len(TextOf(u))
          BY <3>3, <4>1
        <5>2. CASE k \in 1..Len(TextOf(u))
          BY <3>1, <3>3, <4>1, <5>1, <5>2 DEF TextFits, Increasing
        <5>3. CASE k = Len(TextOf(u)) + 1
          BY <3>3, <3>5, <5>1, <5>3
        <5>. QED
          BY <3>3, <5>2, <5>3
      <4>. QED
        BY <4>1 DEF Increasing
    <3>7. ASSUME NEW k \in 1..Len(TextOf(u)'), NEW j \in 1..Len(Flow'),
                 Of(Flow'[j]) = u
          PROVE  TextOf(u)'[k][2] < Rank(Flow'[j])
      <4>1. /\ j + 1 \in 1..Len(Flow) /\ 1 < j + 1 /\ 1 \in 1..Len(Flow)
            /\ Flow'[j] = Flow[j + 1]
        BY <3>4
      <4>2. cur.piece[2] < Rank(Flow'[j])
        BY <2>2, <2>3, <3>7, <4>1 DEF FlowInv, Ordered
      <4>3. CASE k \in 1..Len(TextOf(u))
        BY <3>1, <3>3, <3>7, <4>1, <4>3 DEF TextFits
      <4>4. CASE k = Len(TextOf(u)) + 1
        BY <3>3, <4>2, <4>4
      <4>. QED
        BY <3>3, <4>3, <4>4
    <3>8. ~Unsent(u)' /\ NotAsked(u)'
      <4>1. ~NotIn(u, Flow)
        <5>1. 1 \in 1..Len(Flow)
          BY <3>4
        <5>. QED
          BY <2>2, <2>3, <5>1 DEF NotIn
      <4>. QED
        BY <1>1, <2>2, <4>1 DEF FlowInv, AskedOnce, NotAsked
    <3>. QED
      BY <3>6, <3>7, <3>8 DEF TextFits
  <2>. QED
    BY <1>1, <1>4, <2>2, <2>4, <2>5 DEF OrderInv
<1>. QED
  BY <1>5, <1>6, <1>7, QueueStepTexts

LEMMA StepOrder ==
  ASSUME DistinctIds, IInv, FlowInv, OrderInv, [Next]_vars
  PROVE  OrderInv'
<1>0. Flow \in Seq(Frame) /\ requests \in Seq(Threads)
  BY FlowType DEF IInv, TypeOK
<1>1. ASSUME NEW t \in Threads,
             \/ SyncedStep(t) \/ QueryStep(t) \/ BeginDisconnect(t)
             \/ CloseStep(t)
      PROVE  OrderInv'
  <2>1. /\ Flow' = Flow
        /\ \A u \in Threads : Unsent(u)' => Unsent(u)
        /\ \/ requests' = requests
           \/ /\ pc[t] \in {"write", "qWrite"}
              /\ requests' = Append(requests, t)
    BY <1>1, ThreadStepSends
  <2>2. \A u \in Threads : ~NotAsked(u)' => ~NotAsked(u) \/ Unsent(u)
    BY <2>1, SendAsks DEF NotAsked, Unsent
  <2>3. \A u \in Threads : HasEntry(u)' => TextFits(u)'
    BY <1>1, <2>1, <2>2, ThreadStepTexts, StillFits DEF OrderInv
  <2>4. \A u \in Synced \cup Exiting : Increasing(ret'[u])
    BY <1>1, ThreadStepReturns DEF OrderInv, TextFits
  <2>. QED
    BY <2>3, <2>4 DEF OrderInv
<1>2. CASE QueueStep
  BY <1>2, QueueStepOrder
<1>3. CASE ReaderStep
  <2>1. Flow' = Flow
    BY <1>3, ReaderStepMoves
  <2>2. UNCHANGED <<requests, commands, pc, ret>>
    BY <1>3 DEF ReaderStep, ReadBuffer, EndOfStream, netVars, queueVars
  <2>. QED
    BY <2>1, <2>2 DEF OrderInv, TextFits, HasEntry, TextOf, NotAsked, Unsent
<1>4. CASE MCReply
  <2>1. UNCHANGED <<qpc, cur, pc, commands, ret>>
    BY <1>4 DEF MCReply, queueVars
  <2>2. PICK w \in Threads :
          /\ ~NotAsked(w) /\ Len(Flow') = Len(Flow) + Parts + 1
          /\ \A j \in 1..Len(Flow) : Flow'[j] = Flow[j]
          /\ \A j \in (Len(Flow) + 1)..(Len(Flow) + Parts + 1) :
               Of(Flow'[j]) = w
    BY <1>4, ReplyJoins
  <2>3. \A u \in Threads : ~NotAsked(u)' => ~NotAsked(u)
    BY <1>4, ReplyJoins
  <2>4. \A u \in Threads \ {w} : \A j \in 1..Len(Flow') :
          Of(Flow'[j]) = u => \E i \in 1..Len(Flow) : Flow[i] = Flow'[j]
    BY <1>0, <2>2, PartsAssumption
  <2>5. ASSUME NEW u \in Threads, HasEntry(u)' PROVE TextFits(u)'
    <3>1. HasEntry(u) /\ TextFits(u) /\ TextOf(u)' = TextOf(u)
      BY <2>1, <2>5 DEF HasEntry, TextOf, OrderInv
    <3>2. CASE u = w
      <4>1. TextOf(u) = << >>
        BY <2>2, <3>1, <3>2 DEF TextFits
      <4>. QED
        BY <3>1, <4>1 DEF TextFits, Increasing
    <3>3. CASE u # w
      BY <2>1, <2>3, <2>4, <3>1, <3>3, StillFits DEF Unsent
    <3>. QED
      BY <3>2, <3>3
  <2>. QED
    BY <2>1, <2>5 DEF OrderInv
<1>5. CASE MCClose
  <2>1. /\ \A j \in 1..Len(Flow') : j \in 1..Len(Flow) /\ Flow'[j] = Flow[j]
        /\ requests' = << >> /\ UNCHANGED <<pc, commands, ret>>
    BY <1>5, CloseMoves
  <2>. QED
    BY <2>1 DEF OrderInv, TextFits, HasEntry, TextOf, Unsent, NotAsked
<1>6. CASE UNCHANGED vars
  <2>1. UNCHANGED <<messagesQueue, wire, qpc, cur, pc, commands, ret,
                    requests>>
    BY <1>6 DEF vars, queueVars, netVars
  <2>2. Flow' = Flow
    BY <2>1 DEF Flow, InHand
  <2>. QED
    BY <2>1, <2>2 DEF OrderInv, TextFits, HasEntry, TextOf, Unsent, NotAsked
<1>. QED
  BY <1>1, <1>2, <1>3, <1>4, <1>5, <1>6 DEF Next

\* With distinct ids a query returns pieces of its own reply, each at most
\* once and in the order the MC sent them, however many other threads query
\* and disconnect (QueryMCSynced, OnMultiPurpDataCallback).
THEOREM RepliesInOrder == Spec => []ReplyInOrder
<1>1. DistinctIds /\ Init => OrderInv
  BY InitOrder
<1>2. DistinctIds /\ IInv /\ FlowInv /\ OrderInv /\ [Next]_vars => OrderInv'
  BY StepOrder
<1>3. IInv /\ (DistinctIds => OrderInv) => ReplyInOrder
  <2>. SUFFICES ASSUME IInv, OrderInv, DistinctIds,
                       NEW t \in Synced \cup Exiting
                PROVE  /\ \A k \in 1..Len(ret[t]) : ret[t][k][1] = t
                       /\ Increasing(ret[t])
    BY DEF ReplyInOrder, Increasing
  <2>1. \A k \in 1..Len(ret[t]) : ret[t][k] \in OwnPiece(IdOf[t])
    BY DEF IInv, ReturnsAreOwn
  <2>2. t \in Threads
    BY DEF Threads
  <2>. QED
    BY <2>1, <2>2 DEF OwnPiece, DistinctIds, OrderInv
<1>4. DistinctIds <=> DistinctIds'
  BY DEF DistinctIds
<1>. QED
  BY <1>1, <1>2, <1>3, <1>4, IInvInvariant, FlowInvariant, PTL DEF Spec

-----------------------------------------------------------------------------
(* Nobody comes back from a disconnect *)

LEMMA InitPlaces == Init => Places
BY DEF Init, Places, InSynced, InDisconnect

LEMMA StepPlaces ==
  ASSUME IInv, Places, [Next]_vars
  PROVE  Places' /\ (NoDisconnect' => NoDisconnect)
<1>0. pc \in [Threads -> Locations] /\ Closers \cup Exiting \subseteq Threads
  BY DEF IInv, TypeOK, Locations, Threads
<1>. USE <1>0 DEF Goto, Places, InSynced, InDisconnect, NoDisconnect
<1>1. ASSUME NEW t \in Threads, SyncedStep(t)
      PROVE  Places' /\ (NoDisconnect' => NoDisconnect)
  <2>1. sockClient' = sockClient
    BY <1>1 DEF SyncedStep, Begin, Put, ResetDone, SendSynced, Send,
                WriteSynced, Write, Poll, IsDone, After, Take, Remove
  <2>2. PICK l : /\ pc' = [pc EXCEPT ![t] = l]
                 /\ pc[t] \notin InDisconnect \cup {"returned"}
                 /\ l \in InSynced => t \in Synced \cup Exiting
                 /\ l \in InDisconnect => t \in Exiting
    <3>1. CASE After(t) \/ Remove(t)
      BY <3>1 DEF After, Remove, Returned
    <3>2. CASE Begin(t) \/ Put(t) \/ ResetDone(t) \/ SendSynced(t)
      BY <3>2 DEF Begin, Put, ResetDone, SendSynced, Send
    <3>3. CASE WriteSynced(t) \/ Poll(t) \/ IsDone(t) \/ Take(t)
      BY <3>3 DEF WriteSynced, Write, Poll, IsDone, Take
    <3>. QED
      BY <1>1, <3>1, <3>2, <3>3 DEF SyncedStep
  <2>. QED
    BY <2>1, <2>2
<1>2. ASSUME NEW t \in Threads, QueryStep(t)
      PROVE  Places' /\ (NoDisconnect' => NoDisconnect)
  <2>1. sockClient' = sockClient
    BY <1>2 DEF QueryStep, QueryMC, SendQuery, Send, WriteQuery, Write,
                WaitQuery, ReturnQuery
  <2>2. PICK l : /\ pc' = [pc EXCEPT ![t] = l]
                 /\ pc[t] \notin InDisconnect \cup {"returned"}
                 /\ l \notin InSynced \cup InDisconnect
    BY <1>2 DEF QueryStep, QueryMC, SendQuery, Send, WriteQuery, Write,
                WaitQuery, ReturnQuery
  <2>. QED
    BY <2>1, <2>2
<1>3. ASSUME NEW t \in Threads, BeginDisconnect(t) \/ CloseStep(t)
      PROVE  Places' /\ (NoDisconnect' => NoDisconnect)
  <2>1. CASE BeginDisconnect(t)
    BY <2>1 DEF BeginDisconnect
  <2>2. CASE Disconnect(t) \/ AwaitQuery(t)
    BY <2>2 DEF Disconnect, AwaitQuery
  <2>3. CASE EndQuery(t)
    BY <2>3 DEF EndQuery, Notified
  <2>4. CASE CloseSocket(t)
    BY <2>4 DEF CloseSocket
  <2>5. CASE DropSocket(t)
    BY <2>5 DEF DropSocket
  <2>. QED
    BY <1>3, <2>1, <2>2, <2>3, <2>4, <2>5 DEF CloseStep
<1>4. CASE QueueStep
  <2>1. /\ sockClient' = sockClient
        /\ \A u \in Threads : \/ pc'[u] = pc[u]
                              \/ pc[u] = "qBlocked" /\ pc'[u] = "qWait"
    BY <1>4, QueueStepSends
  <2>. QED
    BY <2>1
<1>5. CASE ReaderStep \/ MCReply \/ MCClose \/ UNCHANGED vars
  <2>1. pc' = pc /\ (sockClient' = "null" => sockClient = "null")
    BY <1>5 DEF ReaderStep, ReadBuffer, EndOfStream, MCReply, MCClose, vars
  <2>. QED
    BY <2>1
<1>. QED
  BY <1>1, <1>2, <1>3, <1>4, <1>5 DEF Next

-----------------------------------------------------------------------------
(* Until somebody disconnects replies are filed whole *)

\* A step that does not concern a thread leaves it served.
LEMMA StillServed ==
  ASSUME NEW t \in Threads, Served(t),
         commands'[IdOf[t]] = commands[IdOf[t]],
         pc'[t] = pc[t] \/ (pc[t] = "qBlocked" /\ pc'[t] = "qWait"),
         ret'[t] = ret[t],
         ~bContinue => ~bContinue',
         \A j \in 1..Len(Flow') : Of(Flow'[j]) = t =>
           \E i \in 1..Len(Flow) :
             Flow[i] = Flow'[j] /\ (j = 1 => i = 1 \/ Rank(Flow[i]) = 1),
         ~NotAsked(t)' => ~NotAsked(t)
  PROVE  Served(t)'
<1>1. /\ HasEntry(t)' = HasEntry(t) /\ TextOf(t)' = TextOf(t)
      /\ NotIn(t, Flow) => NotIn(t, Flow')
  BY DEF HasEntry, TextOf, NotIn
<1>2. Unsent(t)' = Unsent(t)
  BY DEF Unsent
<1>3. Filed(t) => Filed(t)'
  BY <1>1, <1>2 DEF Filed
<1>4. Waits(t) => Waits(t)'
  BY <1>1 DEF Waits, InSynced
<1>. QED
  BY <1>1, <1>3, <1>4 DEF Served

\* A text that is done is the whole reply.
LEMMA DoneText ==
  ASSUME IInv, NEW t \in Threads, HasEntry(t), Filed(t),
         commands[IdOf[t]].done
  PROVE  TextOf(t) = Text(t)
<1>1. TextOf(t) \in Seq(Threads \X (1..Parts))
  BY DEF IInv, TypeOK, TextOf, HasEntry, Ids, PendingCommand
<1>2. /\ Text(t) \in Seq(Threads \X (1..Parts)) /\ Len(Text(t)) = Parts
      /\ \A k \in 1..Parts : Text(t)[k] = <<t, k>>
  BY PartsAssumption DEF Text
<1>3. /\ Len(TextOf(t)) = Parts
      /\ \A k \in 1..Parts : TextOf(t)[k] = <<t, k>>
  BY DEF Filed
<1>4. /\ TextOf(t) \in Seq(Threads \X (1..Parts))
      /\ Text(t) \in Seq(Threads \X (1..Parts))
      /\ Len(TextOf(t)) = Len(Text(t))
      /\ \A k \in 1..Len(TextOf(t)) : TextOf(t)[k] = Text(t)[k]
  BY <1>1, <1>2, <1>3
<1>. QED
  BY <1>4, SeqEqual, Zenon

LEMMA SyncedStepCalm ==
  ASSUME DistinctIds, IInv, FlowInv, Places, Calm, NoDisconnect,
         NoDisconnect', NEW t \in Threads, SyncedStep(t)
  PROVE  Calm'
<1>0. /\ pc \in [Threads -> Locations] /\ IdOf[t] \in Ids
      /\ commands \in [Ids -> PendingCommand \cup {NoCommand}]
      /\ ret \in [Threads -> Seq(Threads \X (1..Parts))]
      /\ requests \in Seq(Threads)
      /\ \A u \in Threads : IdOf[u] \in Ids
      /\ sockClient # "null"
      /\ Flow \in Seq(Frame)
  BY FlowType DEF IInv, TypeOK, Locations, Ids, Places, NoDisconnect
<1>1. /\ UNCHANGED <<bContinue, qpc, cur>>
      /\ \E l : pc' = [pc EXCEPT ![t] = l]
      /\ \A u \in Threads \ {t} : ret'[u] = ret[u]
  BY <1>0 DEF SyncedStep, Begin, Put, ResetDone, SendSynced, Send,
     WriteSynced, Write, Poll, IsDone, After, Take, Remove, Goto, queueVars
<1>2. /\ Flow' = Flow
      /\ \/ requests' = requests
         \/ /\ pc[t] \in {"write", "qWrite"} /\ ~Unsent(t)'
            /\ requests' = Append(requests, t)
  BY ThreadStepSends
<1>3. \A i \in Ids : i # IdOf[t] => commands'[i] = commands[i]
  BY <1>0 DEF SyncedStep, Begin, Put, ResetDone, SendSynced, Send,
     WriteSynced, Write, Poll, IsDone, After, Take, Remove
<1>4. ASSUME NEW u \in Threads, u # t PROVE Served(u)'
  <2>1. /\ commands'[IdOf[u]] = commands[IdOf[u]] /\ pc'[u] = pc[u]
        /\ ret'[u] = ret[u]
    BY <1>0, <1>1, <1>3, <1>4 DEF DistinctIds
  <2>2. ~NotAsked(u)' => ~NotAsked(u)
    BY <1>2, <1>4, SendAsks
  <2>. QED
    BY <1>1, <1>2, <2>1, <2>2, StillServed DEF Calm
<1>5. Served(t)'
  <2>. USE <1>0 DEF Goto
  <2>0. /\ Served(t) /\ pc[t] \in InSynced \cup {"idle"}
        /\ t \in Synced \cup Exiting
    BY DEF Calm, SyncedStep, Begin, Put, ResetDone, SendSynced, WriteSynced,
           Poll, IsDone, After, Take, Remove, InSynced, Places
  <2>1. CASE Begin(t)
    <3>1. /\ pc[t] = "idle" /\ pc'[t] = "put"
          /\ UNCHANGED <<commands, ret, requests, bContinue>>
      BY <2>1 DEF Begin, netVars
    <3>. QED
      BY <1>2, <2>0, <3>1 DEF Served, Waits, Filed, HasEntry, TextOf,
                              NotAsked, Unsent, InSynced
  <2>2. CASE Put(t)
    <3>1. /\ pc[t] = "put" /\ pc'[t] = "reset"
          /\ commands'[IdOf[t]] = NewCommand
          /\ UNCHANGED <<ret, requests, bContinue>>
      BY <2>2 DEF Put, netVars
    <3>2. NotIn(t, Flow)
      BY <3>1 DEF FlowInv, AskedOnce, Unsent
    <3>3. NewCommand # NoCommand
      <4>1. << >> \in Seq(Threads \X (1..Parts))
        OBVIOUS
      <4>2. NewCommand \in PendingCommand
        BY <4>1 DEF NewCommand, PendingCommand
      <4>. QED
        BY <4>2, NoCommandAssumption
    <3>. QED
      BY <1>2, <2>0, <3>1, <3>2, <3>3, PartsAssumption
         DEF Served, Waits, Filed, HasEntry, TextOf, NewCommand, NotIn
  <2>3. CASE ResetDone(t)
    <3>1. HasEntry(t) /\ Filed(t) /\ pc[t] = "reset"
      BY <2>0, <2>3 DEF ResetDone, Served, Waits, InSynced
    <3>2. /\ pc'[t] = "send"
          /\ UNCHANGED <<ret, requests, bContinue>>
          /\ commands'[IdOf[t]] = [commands[IdOf[t]] EXCEPT !.done = FALSE]
      BY <2>3, <3>1 DEF ResetDone, netVars, HasEntry
    <3>3. /\ HasEntry(t)' /\ TextOf(t)' = TextOf(t)
          /\ commands'[IdOf[t]].done = FALSE
      <4>1. commands[IdOf[t]] \in PendingCommand
        BY <3>1 DEF HasEntry
      <4>2. commands'[IdOf[t]] \in PendingCommand
        BY <3>2, <4>1 DEF PendingCommand
      <4>. QED
        BY <3>2, <4>1, <4>2, NoCommandAssumption
           DEF HasEntry, TextOf, PendingCommand
    <3>. QED
      BY <1>2, <2>0, <3>1, <3>2, <3>3 DEF Served, Waits, Filed
  <2>4. CASE SendSynced(t)
    <3>1. /\ pc[t] = "send" /\ pc'[t] = "write"
          /\ UNCHANGED <<commands, ret, requests, bContinue>>
      BY <2>4 DEF SendSynced, Send, netVars
    <3>. QED
      BY <1>2, <2>0, <3>1 DEF Served, Waits, Filed, HasEntry, TextOf,
                              NotAsked, Unsent, InSynced
  <2>5. CASE WriteSynced(t)
    <3>1. /\ pc[t] = "write" /\ pc'[t] = "poll"
          /\ UNCHANGED <<commands, ret, bContinue>>
      BY <2>5 DEF WriteSynced, Write
    <3>2. HasEntry(t) /\ ~commands[IdOf[t]].done
      BY <2>0, <3>1 DEF Served, Waits, Filed, InSynced, Unsent
    <3>. QED
      BY <1>2, <2>0, <3>1, <3>2 DEF Served, Waits, Filed, HasEntry, TextOf
  <2>6. CASE Poll(t)
    <3>1. HasEntry(t) /\ pc[t] = "poll"
      BY <2>0, <2>6 DEF Poll, Served, Waits, InSynced
    <3>2. /\ pc'[t] = IF bContinue THEN "isDone" ELSE "after"
          /\ UNCHANGED <<commands, ret, requests, bContinue>>
      BY <2>6, <3>1 DEF Poll, HasEntry, netVars
    <3>. QED
      BY <1>2, <2>0, <3>1, <3>2 DEF Served, Waits, Filed, HasEntry, TextOf,
                                    NotAsked, Unsent, InSynced
  <2>7. CASE IsDone(t)
    <3>1. HasEntry(t) /\ pc[t] = "isDone"
      BY <2>0, <2>7 DEF IsDone, Served, Waits, InSynced
    <3>2. /\ pc'[t] = IF commands[IdOf[t]].done THEN "after" ELSE "poll"
          /\ UNCHANGED <<commands, ret, requests, bContinue>>
      BY <2>7, <3>1 DEF IsDone, HasEntry, netVars
    <3>. QED
      BY <1>2, <2>0, <3>1, <3>2 DEF Served, Waits, Filed, HasEntry, TextOf,
                                    NotAsked, Unsent, InSynced
  <2>8. CASE After(t)
    <3>1. HasEntry(t) /\ pc[t] = "after"
      BY <2>0, <2>8 DEF After, Served, Waits, InSynced
    <3>2. /\ \/ bContinue /\ pc'[t] = "take"
             \/ pc'[t] \in {"disc", "returned"}
          /\ UNCHANGED <<commands, ret, requests, bContinue>>
      BY <2>8, <3>1 DEF After, HasEntry, netVars, Returned
    <3>. QED
      BY <1>2, <2>0, <3>1, <3>2 DEF Served, Waits, Filed, HasEntry, TextOf,
                                    NotAsked, Unsent, InSynced
  <2>9. CASE Take(t)
    <3>1. /\ HasEntry(t) /\ pc[t] = "take"
          /\ Filed(t) /\ commands[IdOf[t]].done
      BY <2>0, <2>9 DEF Take, Served, Waits, InSynced
    <3>2. /\ pc'[t] = "remove" /\ ret'[t] = TextOf(t)
          /\ UNCHANGED <<commands, requests, bContinue>>
      BY <2>9, <3>1 DEF Take, HasEntry, TextOf, netVars
    <3>3. TextOf(t) = Text(t)
      BY <3>1, DoneText
    <3>. QED
      BY <1>2, <2>0, <3>1, <3>2, <3>3
         DEF Served, Waits, Filed, HasEntry, TextOf, NotAsked, Unsent,
             InSynced
  <2>10. CASE Remove(t)
    <3>1. /\ HasEntry(t) /\ pc[t] = "remove"
          /\ NotIn(t, Flow) /\ NotAsked(t)
      BY <2>0, <2>10 DEF Remove, Served, Waits, InSynced, Filed
    <3>2. /\ pc'[t] \in {"disc", "returned"}
          /\ commands'[IdOf[t]] = NoCommand
          /\ UNCHANGED <<ret, requests, bContinue>>
      BY <2>10 DEF Remove, netVars, Returned
    <3>. QED
      BY <1>2, <2>0, <3>1, <3>2 DEF Served, Waits, HasEntry, NotAsked,
                                    InSynced
  <2>. QED
    BY <2>1, <2>2, <2>3, <2>4, <2>5, <2>6, <2>7, <2>8, <2>9, <2>10
       DEF SyncedStep
<1>6. EntryInHand'
  <2>. SUFFICES ASSUME qpc \in {"append", "setDone"}
                PROVE  commands'[cur.id] # NoCommand
    BY <1>1 DEF EntryInHand
  <2>1. /\ Of(cur) \in Threads /\ IdOf[Of(cur)] = cur.id
        /\ ~NotIn(Of(cur), Flow)
    BY Hand DEF InHand
  <2>2. Of(cur) = t => HasEntry(t)'
    <3>1. Of(cur) = t /\ t \in Synced \cup Exiting => HasEntry(t)'
      BY <1>2, <1>5, <2>1 DEF Served, Waits
    <3>2. t \in Synced \cup Exiting
      BY DEF SyncedStep, Begin, Put, ResetDone, SendSynced, WriteSynced,
             Poll, IsDone, After, Take, Remove, InSynced, Places
    <3>. QED
      BY <3>1, <3>2
  <2>. QED
    BY <1>0, <1>3, <2>1, <2>2 DEF DistinctIds, HasEntry, Calm,
                                  EntryInHand
<1>. QED
  BY <1>1, <1>4, <1>5, <1>6 DEF Calm, StopsOnce

\* QueryMC keeps nothing in the map; MCConnection.disconnect only begins.
LEMMA OtherStepCalm ==
  ASSUME DistinctIds, IInv, Places, Calm, NoDisconnect, NoDisconnect',
         NEW t \in Threads,
         QueryStep(t) \/ BeginDisconnect(t) \/ CloseStep(t)
  PROVE  Calm'
<1>0. /\ pc \in [Threads -> Locations]
      /\ ret \in [Threads -> Seq(Threads \X (1..Parts))]
      /\ \A u \in Threads : IdOf[u] \in Ids
      /\ sockClient # "null"
  BY DEF IInv, TypeOK, Locations, Ids, Places, NoDisconnect
<1>1. ~CloseStep(t)
  BY DEF CloseStep, Disconnect, AwaitQuery, EndQuery, CloseSocket,
         DropSocket, Places, InDisconnect, NoDisconnect
<1>2. /\ Flow' = Flow /\ UNCHANGED <<qpc, cur>>
      /\ \A u \in Threads : u # t /\ ~NotAsked(u)' => ~NotAsked(u)
  BY <1>1, ThreadStepSends, SendAsks
<1>3. /\ UNCHANGED <<bContinue, commands>>
      /\ \E l : pc' = [pc EXCEPT ![t] = l]
      /\ \A u \in Threads \ {t} : ret'[u] = ret[u]
  BY <1>0, <1>1 DEF QueryStep, QueryMC, SendQuery, Send, WriteQuery, Write,
     WaitQuery, ReturnQuery, BeginDisconnect, Goto
<1>4. ASSUME NEW u \in Threads, u # t PROVE Served(u)'
  BY <1>0, <1>2, <1>3, <1>4, StillServed DEF Calm
<1>5. CASE QueryStep(t)
  <2>1. t \in Querying
    BY <1>5 DEF QueryStep, QueryMC, SendQuery, WriteQuery, WaitQuery,
                ReturnQuery, IInv, QueryingRuns, InQueryMC
  <2>2. t \notin Synced \cup Exiting
    BY <2>1, ThreadsAssumption
  <2>3. Served(t)'
    BY <1>3, <2>1, <2>2 DEF Calm, Served, HasEntry
  <2>. QED
    BY <1>2, <1>3, <1>4, <2>3 DEF Calm, StopsOnce, EntryInHand
<1>6. CASE BeginDisconnect(t)
  <2>1. /\ UNCHANGED <<ret, requests>> /\ pc[t] = "idle"
        /\ t \in Closers \cup Exiting
        /\ pc' = [pc EXCEPT ![t] =
                    IF ~ConnectedToMC THEN "returned"
                    ELSE IF t \in Exiting THEN "put" ELSE "disc"]
    BY <1>6 DEF BeginDisconnect, netVars, Goto
  <2>2. t \in Exiting /\ pc'[t] = "put"
    BY <1>0, <2>1 DEF NoDisconnect
  <2>3. Served(t)'
    BY <1>2, <1>3, <2>1, <2>2 DEF Calm, Served, Waits, Filed, HasEntry,
       TextOf, NotAsked, Unsent, InSynced
  <2>. QED
    BY <1>2, <1>3, <1>4, <2>3 DEF Calm, StopsOnce, EntryInHand
<1>. QED
  BY <1>1, <1>5, <1>6

\* When the head has left the line its reply goes on from the next frame, and
\* another one starts at its beginning.
LEMMA HeadLeaves ==
  ASSUME IInv, FlowInv, InHand, NEW G, G = Tail(Flow)
  PROVE  /\ \A t \in Threads \ {Of(cur)} : \A j \in 1..Len(G) :
              Of(G[j]) = t =>
                \E i \in 1..Len(Flow) :
                  Flow[i] = G[j] /\ (j = 1 => i = 1 \/ Rank(Flow[i]) = 1)
         /\ \A j \in 1..Len(G) :
              Of(G[j]) = Of(cur) /\ (j = 1 \/ Rank(G[j]) = 1)
                => Rank(G[j]) = Rank(cur) + 1
         /\ Rank(cur) = Parts + 1 => NotIn(Of(cur), G)
<1>1. /\ Flow \in Seq(Frame) /\ Flow # << >> /\ Flow[1] = cur
      /\ 1 \in 1..Len(Flow) /\ Len(Flow) \in Nat
      /\ Blocks(Flow) /\ Ordered(Flow)
  BY FlowType, Hand DEF FlowInv
<1>2. /\ Len(G) = Len(Flow) - 1
      /\ \A j \in 1..Len(G) : /\ G[j] = Flow[j + 1]
                              /\ j + 1 \in 2..Len(Flow)
  <2>1. /\ Len(Tail(Flow)) = Len(Flow) - 1
        /\ \A j \in 1..Len(Tail(Flow)) : Tail(Flow)[j] = Flow[j + 1]
    BY <1>1, HeadTailProperties
  <2>. QED
    BY <1>1, <2>1
<1>3. \A j \in 1..Len(Flow) : Rank(Flow[j]) \in 1..(Parts + 1)
  BY <1>1, FrameFacts
<1>4. \A j \in 1..Len(G) :
        Of(G[j]) = Of(cur) => Rank(G[j]) > Rank(cur) /\ Rank(G[j]) > 1
  <2>. SUFFICES ASSUME NEW j \in 1..Len(G), Of(G[j]) = Of(cur)
                PROVE  Rank(G[j]) > Rank(cur) /\ Rank(G[j]) > 1
    OBVIOUS
  <2>1. /\ j + 1 \in 1..Len(Flow) /\ 1 < j + 1 /\ G[j] = Flow[j + 1]
    BY <1>2
  <2>2. Rank(Flow[1]) < Rank(Flow[j + 1])
    BY <1>1, <2>1 DEF Ordered
  <2>. QED
    BY <1>1, <1>3, <2>1, <2>2, PartsAssumption
<1>5. ASSUME 1 \in 1..Len(G), Rank(G[1]) > 1
      PROVE  Of(G[1]) = Of(cur) /\ Rank(G[1]) = Rank(cur) + 1
  <2>1. /\ 2 \in 2..Len(Flow) /\ 2 \in 1..Len(Flow)
        /\ G[1] = Flow[2] /\ 2 - 1 = 1
    BY <1>1, <1>2, <1>5
  <2>2. Of(Flow[1]) = Of(Flow[2]) /\ Rank(Flow[1]) = Rank(Flow[2]) - 1
    BY <1>1, <1>5, <2>1 DEF Blocks
  <2>. QED
    BY <1>1, <1>3, <2>1, <2>2, PartsAssumption
<1>6. ASSUME NEW t \in Threads \ {Of(cur)}, NEW j \in 1..Len(G), Of(G[j]) = t
      PROVE  \E i \in 1..Len(Flow) :
               Flow[i] = G[j] /\ (j = 1 => i = 1 \/ Rank(Flow[i]) = 1)
  <2>1. j + 1 \in 1..Len(Flow) /\ Flow[j + 1] = G[j]
    BY <1>1, <1>2
  <2>2. j = 1 => Rank(Flow[j + 1]) = 1
    <3>1. j = 1 => ~(Rank(G[1]) > 1)
      BY <1>5, <1>6
    <3>2. Rank(Flow[j + 1]) \in Nat /\ Rank(Flow[j + 1]) >= 1
      BY <1>3, <2>1, PartsAssumption
    <3>. QED
      BY <2>1, <3>1, <3>2
  <2>. QED
    BY <2>1, <2>2
<1>7. ASSUME NEW j \in 1..Len(G), Of(G[j]) = Of(cur),
             j = 1 \/ Rank(G[j]) = 1
      PROVE  Rank(G[j]) = Rank(cur) + 1
  BY <1>4, <1>5, <1>7
<1>8. Rank(cur) = Parts + 1 => NotIn(Of(cur), G)
  <2>. SUFFICES ASSUME Rank(cur) = Parts + 1, NEW j \in 1..Len(G),
                       Of(G[j]) = Of(cur)
                PROVE  FALSE
    BY DEF NotIn
  <2>1. Rank(G[j]) > Parts + 1
    BY <1>4
  <2>2. Rank(G[j]) \in 1..(Parts + 1)
    BY <1>1, <1>2, <1>3
  <2>. QED
    BY <2>1, <2>2, PartsAssumption
<1>. QED
  BY <1>6, <1>7, <1>8

\* Before a disconnect the queue thread drops no frame, and does not stop
\* with one in hand.
LEMMA QueueStepStops ==
  ASSUME IInv, Places, StopsOnce, NoDisconnect, QueueStep
  PROVE  StopsOnce' /\ ~DropFrame /\ (~bContinue => ~bContinue')
<1>1. sockClient # "null"
  BY DEF Places, NoDisconnect
<1>. QED
  BY <1>1 DEF StopsOnce, QueueStep, StartQueueThread, LoopTop, Woken,
     TakeFrame, Refresh, DropFrame, HandleData, AppendData, DataInQueryMode,
     StoreData, HandlePrompt, NotifyQuery, PromptPending, SetDone,
     EndQueueThread, LeaveFrame, QueueThread, mngrVars

LEMMA QueueStepCalm ==
  ASSUME DistinctIds, IInv, FlowInv, Places, Calm, NoDisconnect, QueueStep
  PROVE  Calm'
<1>0. /\ Flow \in Seq(Frame)
      /\ commands \in [Ids -> PendingCommand \cup {NoCommand}]
      /\ \A t \in Threads : IdOf[t] \in Ids
  BY FlowType DEF IInv, TypeOK, Ids
<1>1. /\ UNCHANGED <<requests, ret>>
      /\ \A u \in Threads : \/ pc'[u] = pc[u]
                            \/ pc[u] = "qBlocked" /\ pc'[u] = "qWait"
  BY QueueStepSends
<1>2. StopsOnce' /\ ~DropFrame /\ (~bContinue => ~bContinue')
  BY QueueStepStops DEF Calm
<1>3. \A u \in Threads : ~NotAsked(u)' => ~NotAsked(u)
  BY <1>1 DEF NotAsked
<1>4. CASE ~(InHand /\ ~InHand')
  <2>1. Flow' = Flow
    BY <1>4, QueueStepMoves
  <2>2. commands' = commands
    BY <1>4 DEF InHand, QueueStep, StartQueueThread, LoopTop, Woken,
       TakeFrame, Refresh, DropFrame, HandleData, AppendData,
       DataInQueryMode, StoreData, HandlePrompt, NotifyQuery, PromptPending,
       SetDone, LeaveFrame, QueueThread
  <2>3. \A t \in Threads : Served(t)'
    BY <1>1, <1>2, <1>3, <2>1, <2>2, StillServed DEF Calm
  <2>4. EntryInHand'
    BY <1>4, <2>2 DEF InHand, EntryInHand, QueueStep, StartQueueThread,
       LoopTop, Woken, TakeFrame, Refresh, DropFrame, HandleData, AppendData,
       DataInQueryMode, StoreData, HandlePrompt, NotifyQuery, PromptPending,
       SetDone, LeaveFrame, QueueThread, EndQueueThread
  <2>. QED
    BY <1>2, <2>3, <2>4 DEF Calm
<1>5. CASE InHand /\ ~InHand'
  <2>1. /\ Flow # << >> /\ Flow[1] = cur /\ Flow' = Tail(Flow)
        /\ 1 \in 1..Len(Flow)
    BY <1>5, QueueStepMoves, Hand
  <2>2. PICK w \in Threads : /\ w = Of(cur) /\ IdOf[w] = cur.id
                             /\ ~NotIn(w, Flow)
    BY <1>5, Hand
  <2>3. /\ \A t \in Threads \ {w} : \A j \in 1..Len(Flow') :
             Of(Flow'[j]) = t =>
               \E i \in 1..Len(Flow) :
                 Flow[i] = Flow'[j] /\ (j = 1 => i = 1 \/ Rank(Flow[i]) = 1)
        /\ \A j \in 1..Len(Flow') :
             Of(Flow'[j]) = w /\ (j = 1 \/ Rank(Flow'[j]) = 1)
               => Rank(Flow'[j]) = Rank(cur) + 1
        /\ Rank(cur) = Parts + 1 => NotIn(w, Flow')
    <3>1. Flow' = Tail(Flow)
      BY <2>1
    <3>2. PICK G : G = Flow'
      OBVIOUS
    <3>3. /\ \A t \in Threads \ {Of(cur)} : \A j \in 1..Len(G) :
               Of(G[j]) = t =>
                 \E i \in 1..Len(Flow) :
                   Flow[i] = G[j] /\ (j = 1 => i = 1 \/ Rank(Flow[i]) = 1)
          /\ \A j \in 1..Len(G) :
               Of(G[j]) = Of(cur) /\ (j = 1 \/ Rank(G[j]) = 1)
                 => Rank(G[j]) = Rank(cur) + 1
          /\ Rank(cur) = Parts + 1 => NotIn(Of(cur), G)
      BY <1>5, <3>1, <3>2, HeadLeaves
    <3>. QED
      BY <2>2, <3>2, <3>3
  <2>4. \A i \in Ids : i # cur.id => commands'[i] = commands[i]
    BY <1>0, QueueStepTexts
  <2>5. ASSUME NEW t \in Threads \ {w} PROVE Served(t)'
    <3>1. commands'[IdOf[t]] = commands[IdOf[t]]
      BY <1>0, <2>2, <2>4 DEF DistinctIds
    <3>. QED
      BY <1>1, <1>2, <1>3, <2>3, <3>1, StillServed DEF Calm
  <2>6. NotAsked(w) /\ ~Unsent(w)
    BY <2>2 DEF FlowInv, AskedOnce, NotAsked
  <2>7. Unsent(w)' = Unsent(w) /\ NotAsked(w)' = NotAsked(w)
    BY <1>1 DEF Unsent, NotAsked
  <2>8. /\ Served(w)
        /\ HasEntry(w) => /\ w \in Synced \cup Exiting
                          /\ Filed(w) /\ Waits(w)
                          /\ ~commands[IdOf[w]].done
                          /\ Rank(cur) = Len(TextOf(w)) + 1
    BY <2>1, <2>2 DEF Calm, Served, Filed
  <2>9. ASSUME ~HasEntry(w), commands' = commands PROVE Served(w)'
    <3>1. w \notin Synced \cup Exiting
      BY <2>2, <2>8, <2>9 DEF Served, Waits
    <3>. QED
      BY <1>1, <2>8, <2>9, <3>1 DEF Served, HasEntry
  <2>10. ASSUME AppendData, HasEntry(w),
                commands' = [commands EXCEPT
                              ![cur.id].text = Append(@, cur.piece)]
         PROVE  Served(w)'
    <3>1. /\ cur.piece \in Threads \X (1..Parts)
          /\ cur.piece = <<w, Rank(cur)>>
          /\ Rank(cur) \in 1..Parts
      BY <2>2, <2>10 DEF AppendData, QueueThread, IInv, CurrentIsOwn,
                         DataFrame, Of, Rank
    <3>2. TextOf(w) \in Seq(Threads \X (1..Parts))
      BY <1>0, <2>10 DEF HasEntry, TextOf, PendingCommand
    <3>3. /\ HasEntry(w)' /\ TextOf(w)' = Append(TextOf(w), cur.piece)
          /\ commands'[IdOf[w]].done = commands[IdOf[w]].done
      <4>1. commands[IdOf[w]] \in PendingCommand
        BY <1>0, <2>10 DEF HasEntry
      <4>2. commands'[IdOf[w]] = [commands[IdOf[w]] EXCEPT
                                    !.text = Append(@, cur.piece)]
        BY <1>0, <2>2, <2>10
      <4>3. commands'[IdOf[w]] \in PendingCommand
        <5>1. Append(TextOf(w), cur.piece) \in Seq(Threads \X (1..Parts))
          BY <3>1, <3>2, AppendProperties
        <5>. QED
          BY <4>1, <4>2, <5>1 DEF PendingCommand, TextOf
      <4>. QED
        BY <4>1, <4>2, <4>3, NoCommandAssumption
           DEF HasEntry, TextOf, PendingCommand
    <3>4. /\ Len(TextOf(w)) \in Nat
          /\ Len(TextOf(w)') = Len(TextOf(w)) + 1
          /\ \A k \in 1..Len(TextOf(w)) : TextOf(w)'[k] = TextOf(w)[k]
          /\ TextOf(w)'[Len(TextOf(w)) + 1] = cur.piece
      BY <3>1, <3>2, <3>3, AppendProperties
    <3>5. Filed(w)'
      <4>1. Len(TextOf(w)') <= Parts
        BY <2>8, <2>10, <3>1, <3>4
      <4>2. \A k \in 1..Len(TextOf(w)') : TextOf(w)'[k] = <<w, k>>
        <5>. SUFFICES ASSUME NEW k \in 1..Len(TextOf(w)')
                      PROVE  TextOf(w)'[k] = <<w, k>>
          OBVIOUS
        <5>1. CASE k \in 1..Len(TextOf(w))
          BY <2>8, <2>10, <3>4, <5>1 DEF Filed
        <5>2. CASE k = Len(TextOf(w)) + 1
          BY <2>8, <2>10, <3>1, <3>4, <5>2
        <5>. QED
          BY <3>4, <5>1, <5>2
      <4>3. \A j \in 1..Len(Flow') :
              Of(Flow'[j]) = w /\ (j = 1 \/ Rank(Flow'[j]) = 1)
                => Rank(Flow'[j]) = Len(TextOf(w)') + 1
        BY <2>3, <2>8, <2>10, <3>4
      <4>. QED
        BY <2>8, <2>10, <3>3, <4>1, <4>2, <4>3 DEF Filed
    <3>6. Waits(w)'
      BY <1>1, <1>2, <2>8, <2>10, <3>3 DEF Waits, InSynced
    <3>. QED
      BY <1>1, <2>8, <2>10, <3>5, <3>6 DEF Served
  <2>11. ASSUME SetDone, HasEntry(w),
                commands' = [commands EXCEPT ![cur.id].done = TRUE]
         PROVE  Served(w)'
    <3>1. Rank(cur) = Parts + 1
      BY <2>11 DEF SetDone, QueueThread, FlowInv, CurrentIsPrompt, Rank
    <3>2. /\ HasEntry(w)' /\ TextOf(w)' = TextOf(w)
          /\ commands'[IdOf[w]].done = TRUE
      <4>1. commands[IdOf[w]] \in PendingCommand
        BY <1>0, <2>11 DEF HasEntry
      <4>2. commands'[IdOf[w]] = [commands[IdOf[w]] EXCEPT !.done = TRUE]
        BY <1>0, <2>2, <2>11
      <4>3. commands'[IdOf[w]] \in PendingCommand
        BY <4>1, <4>2 DEF PendingCommand
      <4>. QED
        BY <4>1, <4>2, <4>3, NoCommandAssumption
           DEF HasEntry, TextOf, PendingCommand
    <3>3. Len(TextOf(w)) = Parts
      <4>1. Len(TextOf(w)) \in Nat
        BY <1>0, <2>11 DEF HasEntry, TextOf, PendingCommand
      <4>. QED
        BY <2>8, <2>11, <3>1, <4>1, PartsAssumption
    <3>4. NotIn(w, Flow')
      BY <2>3, <3>1
    <3>5. Filed(w)'
      BY <2>6, <2>7, <2>8, <2>11, <3>2, <3>3, <3>4 DEF Filed, NotIn
    <3>6. Waits(w)'
      BY <1>1, <1>2, <2>8, <2>11, <3>2 DEF Waits, InSynced
    <3>. QED
      BY <1>1, <2>8, <2>11, <3>5, <3>6 DEF Served
  <2>12. /\ \/ ~HasEntry(w) /\ commands' = commands
            \/ /\ AppendData /\ HasEntry(w)
               /\ commands' = [commands EXCEPT
                                ![cur.id].text = Append(@, cur.piece)]
            \/ /\ SetDone /\ HasEntry(w)
               /\ commands' = [commands EXCEPT ![cur.id].done = TRUE]
         /\ qpc' \notin {"append", "setDone"}
    <3>1. CASE AppendData \/ SetDone
      <4>1. HasEntry(w)
        BY <2>2, <3>1 DEF Calm, EntryInHand, HasEntry, AppendData, SetDone,
                          QueueThread
      <4>. QED
        BY <2>2, <3>1, <4>1 DEF HasEntry, AppendData, SetDone, LeaveFrame
    <3>2. CASE ~(AppendData \/ SetDone)
      BY <1>2, <1>5, <2>2, <3>2 DEF InHand, HasEntry, QueueStep,
         StartQueueThread, LoopTop, Woken, TakeFrame, Refresh, HandleData,
         DataInQueryMode, StoreData, HandlePrompt, NotifyQuery,
         PromptPending, LeaveFrame, QueueThread, EndQueueThread
    <3>. QED
      BY <3>1, <3>2
  <2>13. Served(w)'
    BY <2>9, <2>10, <2>11, <2>12
  <2>. QED
    BY <1>2, <2>5, <2>12, <2>13 DEF Calm, EntryInHand
<1>. QED
  BY <1>4, <1>5

\* A reply that joins the line starts where the text of its command, still
\* empty, ends.
LEMMA ReplyCalm ==
  ASSUME IInv, FlowInv, OrderInv, Calm, MCReply
  PROVE  Calm'
<1>0. Len(Flow) \in Nat
  BY FlowType
<1>1. UNCHANGED <<bContinue, qpc, cur, pc, commands, ret>>
  BY DEF MCReply, queueVars
<1>2. PICK w \in Threads :
        /\ ~NotAsked(w) /\ NotIn(w, Flow)
        /\ Len(Flow') = Len(Flow) + Parts + 1
        /\ \A j \in 1..Len(Flow) : Flow'[j] = Flow[j]
        /\ \A j \in (Len(Flow) + 1)..(Len(Flow) + Parts + 1) :
             Of(Flow'[j]) = w /\ Rank(Flow'[j]) = j - Len(Flow)
  BY ReplyJoins
<1>3. \A u \in Threads : ~NotAsked(u)' => ~NotAsked(u)
  BY ReplyJoins
<1>4. \A j \in 1..Len(Flow') :
        \/ j \in 1..Len(Flow) /\ Flow'[j] = Flow[j]
        \/ /\ Of(Flow'[j]) = w /\ Rank(Flow'[j]) = j - Len(Flow)
           /\ j > Len(Flow)
  BY <1>0, <1>2, PartsAssumption
<1>5. ASSUME NEW u \in Threads \ {w} PROVE Served(u)'
  <2>1. \A j \in 1..Len(Flow') : Of(Flow'[j]) = u =>
          \E i \in 1..Len(Flow) :
            Flow[i] = Flow'[j] /\ (j = 1 => i = 1 \/ Rank(Flow[i]) = 1)
    BY <1>4
  <2>. QED
    BY <1>1, <1>3, <2>1, StillServed DEF Calm
<1>6. Served(w)'
  <2>1. HasEntry(w) => Filed(w)'
    <3>. SUFFICES ASSUME HasEntry(w) PROVE Filed(w)'
      OBVIOUS
    <3>1. TextOf(w) = << >> /\ Filed(w)
      BY <1>2 DEF OrderInv, TextFits, Calm, Served
    <3>2. ~commands[IdOf[w]].done
      BY <1>2, <3>1 DEF Filed
    <3>3. TextOf(w)' = << >> /\ ~commands'[IdOf[w]].done
      BY <1>1, <3>1, <3>2 DEF TextOf
    <3>4. \A j \in 1..Len(Flow') :
            Of(Flow'[j]) = w /\ (j = 1 \/ Rank(Flow'[j]) = 1)
              => Rank(Flow'[j]) = 1
      <4>. SUFFICES ASSUME 1 \in 1..Len(Flow'), Of(Flow'[1]) = w
                    PROVE  Rank(Flow'[1]) = 1
        OBVIOUS
      <4>1. ~(1 \in 1..Len(Flow) /\ Flow'[1] = Flow[1])
        BY <1>2 DEF NotIn
      <4>2. Rank(Flow'[1]) = 1 - Len(Flow) /\ 1 > Len(Flow)
        BY <1>4, <4>1
      <4>. QED
        BY <1>0, <4>2
    <3>. QED
      BY <3>3, <3>4, PartsAssumption DEF Filed
  <2>2. w \in Synced \cup Exiting => HasEntry(w) /\ Waits(w)
    BY <1>2 DEF Calm, Served, Waits
  <2>3. HasEntry(w)' = HasEntry(w)
    BY <1>1 DEF HasEntry
  <2>. QED
    BY <1>1, <2>1, <2>2, <2>3 DEF Calm, Served, Waits
<1>. QED
  BY <1>1, <1>5, <1>6 DEF Calm, StopsOnce, EntryInHand

LEMMA InitCalm == Init => CalmInv
<1>. SUFFICES ASSUME Init PROVE Calm
  BY InitPlaces DEF CalmInv
<1>1. \A t \in Threads : /\ pc[t] = "idle" /\ ~HasEntry(t)
                         /\ ret[t] = << >>
                         /\ NotIn(t, Flow) /\ NotAsked(t)
  BY InitFlow DEF Init, HasEntry, Ids, FlowInv, AskedOnce, Unsent
<1>. QED
  BY <1>1 DEF Init, Calm, StopsOnce, EntryInHand, Served, Waits, InSynced

LEMMA StepCalm ==
  ASSUME DistinctIds, IInv, FlowInv, OrderInv, CalmInv, [Next]_vars
  PROVE  CalmInv'
<1>1. Places /\ Places' /\ (NoDisconnect' => NoDisconnect)
  BY StepPlaces DEF CalmInv
<1>. SUFFICES ASSUME NoDisconnect' PROVE Calm'
  BY <1>1 DEF CalmInv
<1>2. NoDisconnect /\ Calm
  BY <1>1 DEF CalmInv
<1>3. ASSUME NEW t \in Threads,
             \/ SyncedStep(t) \/ QueryStep(t) \/ BeginDisconnect(t)
             \/ CloseStep(t)
      PROVE  Calm'
  BY <1>1, <1>2, <1>3, SyncedStepCalm, OtherStepCalm
<1>4. CASE QueueStep
  BY <1>1, <1>2, <1>4, QueueStepCalm
<1>5. CASE MCReply
  BY <1>2, <1>5, ReplyCalm
<1>6. CASE ReaderStep \/ MCClose \/ UNCHANGED vars
  <2>1. /\ UNCHANGED <<bContinue, qpc, cur, pc, commands, ret>>
        /\ requests' = requests \/ requests' = << >>
    BY <1>6 DEF ReaderStep, ReadBuffer, EndOfStream, MCClose, vars,
                queueVars, netVars
  <2>2. \A j \in 1..Len(Flow') : j \in 1..Len(Flow) /\ Flow'[j] = Flow[j]
    <3>1. CASE ReaderStep
      BY <3>1, ReaderStepMoves
    <3>2. CASE MCClose
      BY <3>2, CloseMoves
    <3>3. CASE UNCHANGED vars
      BY <3>3 DEF vars, queueVars, netVars, Flow, InHand
    <3>. QED
      BY <1>6, <3>1, <3>2, <3>3
  <2>3. \A u \in Threads : ~NotAsked(u)' => ~NotAsked(u)
    BY <2>1 DEF NotAsked
  <2>4. ASSUME NEW u \in Threads PROVE Served(u)'
    BY <1>2, <2>1, <2>2, <2>3, StillServed DEF Calm
  <2>. QED
    BY <1>2, <2>1, <2>4 DEF Calm, StopsOnce, EntryInHand
<1>. QED
  BY <1>3, <1>4, <1>5, <1>6 DEF Next

LEMMA RepliesInvariant ==
  Spec => [](DistinctIds => IInv /\ FlowInv /\ OrderInv /\ CalmInv)
<1>1. DistinctIds /\ Init => OrderInv /\ CalmInv
  BY InitOrder, InitCalm
<1>2. DistinctIds /\ IInv /\ FlowInv /\ OrderInv /\ CalmInv /\ [Next]_vars
        => OrderInv' /\ CalmInv'
  BY StepOrder, StepCalm
<1>3. DistinctIds <=> DistinctIds'
  BY DEF DistinctIds
<1>. QED
  BY <1>1, <1>2, <1>3, IInvInvariant, FlowInvariant, PTL DEF Spec

\* With distinct ids a command is marked done only when the whole of its reply
\* is filed, as long as nobody disconnects: the polling loop of QueryMCSynced
\* never ends on a half-filled entry (OnMultiPurpDataCallback).
THEOREM DoneComplete == Spec => []DoneIsComplete
<1>1. (DistinctIds => IInv /\ CalmInv) => DoneIsComplete
  <2>. SUFFICES ASSUME IInv, CalmInv, NoDisconnect, NEW t \in Threads,
                       HasEntry(t), commands[IdOf[t]].done
                PROVE  TextOf(t) = Text(t)
    BY DEF DoneIsComplete, HasEntry, TextOf
  <2>1. Filed(t)
    BY DEF CalmInv, Calm, Served
  <2>. QED
    BY <2>1, DoneText
<1>. QED
  BY <1>1, RepliesInvariant, PTL

\* With distinct ids the repeated commands.get(id) never finds the entry gone
\* before somebody disconnects, neither in QueryMCSynced nor in the queue
\* thread.
THEOREM EntriesFound == Spec => []NoNullEntry
<1>1. (DistinctIds => CalmInv) => NoNullEntry
  <2>. SUFFICES ASSUME CalmInv, NoDisconnect
                PROVE  /\ \A t \in Synced \cup Exiting : pc[t] # "npe"
                       /\ EntryInHand
    BY DEF NoNullEntry, EntryInHand
  <2>1. Calm /\ Synced \cup Exiting \subseteq Threads
    BY DEF CalmInv, Threads
  <2>. QED
    BY <2>1 DEF Calm, Served, Waits
<1>. QED
  BY <1>1, RepliesInvariant, PTL

-----------------------------------------------------------------------------
(* The manager of the start-up: asked through QueryMC, its disconnect sends *)
(* tp_exit when the queries have returned; they may all have one id         *)

\* Nobody has begun to disconnect.
Asking == \A u \in Closers \cup Exiting : pc[u] = "idle"

OneInside == \A t, u \in Threads : InQueryMC(t) /\ InQueryMC(u) => t = u

\* The prompt in hand has ended its query.
Handled == qpc \in {"notify", "pending", "setDone"}

\* The frame in hand has left the line, and is not in resSB yet.
Storing == qpc \in {"mode", "store"}

\* resSB is the beginning of t's reply, and the line goes on from it.
Collects(t) ==
  /\ Len(resSB) <= Parts
  /\ \A k \in 1..Len(resSB) : resSB[k] = <<t, k>>
  /\ Storing => cur.piece = <<t, Len(resSB) + 1>>
  /\ Handled => Of(cur) # t
  /\ \A j \in 1..Len(Flow) :
       /\ Of(Flow[j]) = t \/ (j = 1 /\ Handled)
       /\ Of(Flow[j]) = t /\ (j = 1 \/ Rank(Flow[j]) = 1)
            => Rank(Flow[j]) = Len(resSB) + (IF Storing THEN 2 ELSE 1)
  /\ \A k \in 1..Len(requests) : requests[k] = t
  /\ Unsent(t) \/ ~NotAsked(t) => resSB = << >> /\ ~Storing

\* Between two queries nothing of the first is left but its prompt in hand.
Quiet ==
  /\ requests = << >>
  /\ ~Storing
  /\ \A j \in 1..Len(Flow) : j = 1 /\ Handled

QueryCalm ==
  /\ \A t \in Querying : ret[t] \in {<< >>, Text(t)}
  /\ bContinue /\ isQueryMode =>
       \E t \in Threads : InQueryMC(t) /\ pc[t] # "qAfter" /\ Collects(t)
  /\ bContinue /\ ~isQueryMode =>
       /\ Quiet
       /\ \A t \in Threads : InQueryMC(t) => ~Unsent(t) /\ resSB = Text(t)

\* While the queries are under way no command is in the map.
AskingInv ==
  /\ Asking
  /\ StopsOnce
  /\ EntryInHand
  /\ \A i \in Ids : commands[i] = NoCommand
  /\ OneInside
  /\ QueryCalm

\* When tp_exit is asked the queries are over, and nothing changes them.
ExitingInv ==
  /\ ~Asking
  /\ (\A u \in Closers : pc[u] = "idle") =>
       \A t \in Querying : pc[t] = "returned" /\ ret[t] \in {<< >>, Text(t)}

QueryInv == Places /\ (AskingInv \/ ExitingInv)

LEMMA InitQuery == Init => QueryInv
<1>. SUFFICES ASSUME Init PROVE QueryInv
  OBVIOUS
<1>1. \A j \in 1..Len(Flow) : FALSE
  <2>1. Flow \in Seq(Frame)
    BY InitIInv, FlowType
  <2>2. \A t \in Threads : NotIn(t, Flow)
    BY InitFlow DEF FlowInv, AskedOnce, Unsent, Init
  <2>. QED
    BY <2>1, <2>2, FrameFacts DEF NotIn
<1>2. ~InHand /\ ~Storing
  BY DEF Init, InHand, Storing
<1>. QED
  BY <1>1, <1>2, InitPlaces, ThreadsAssumption
     DEF Init, QueryInv, AskingInv, Asking, StopsOnce, EntryInHand, OneInside,
         QueryCalm, InQueryMC, Quiet, Threads

LEMMA StillCollects ==
  ASSUME NEW t \in Threads, Collects(t), resSB' = resSB,
         \A j \in 1..Len(Flow') : j \in 1..Len(Flow) /\ Flow'[j] = Flow[j],
         Storing' <=> Storing, Handled' <=> Handled,
         Storing \/ Handled => cur' = cur,
         Unsent(t)' => Unsent(t),
         requests' = requests \/ requests' = << >>
  PROVE  Collects(t)'
BY DEF Collects, NotAsked

\* A step that neither asks nor answers leaves the query under way as it is.
LEMMA StillQueryCalm ==
  ASSUME QueryCalm, resSB' = resSB, ret' = ret,
         \A j \in 1..Len(Flow') : j \in 1..Len(Flow) /\ Flow'[j] = Flow[j],
         isQueryMode' = isQueryMode, bContinue' => bContinue,
         Storing' <=> Storing, Handled' <=> Handled,
         Storing \/ Handled => cur' = cur,
         requests' = requests \/ requests' = << >>,
         \A u \in Threads : /\ InQueryMC(u)' = InQueryMC(u)
                            /\ Unsent(u)' => Unsent(u)
                            /\ pc'[u] = "qAfter" => pc[u] = "qAfter"
  PROVE  QueryCalm'
<1>1. \A u \in Threads : Collects(u) => Collects(u)'
  BY StillCollects
<1>. QED
  BY <1>1 DEF QueryCalm, Quiet

LEMMA QueryStepQuery ==
  ASSUME IInv, FlowInv, Places, AskingInv, NEW t \in Threads, QueryStep(t)
  PROVE  AskingInv'
<1>0. /\ pc \in [Threads -> Locations]
      /\ ret \in [Threads -> Seq(Threads \X (1..Parts))]
      /\ Flow \in Seq(Frame) /\ requests \in Seq(Threads)
      /\ QueryCalm /\ OneInside /\ NoDisconnect
      /\ \A u \in Threads : InQueryMC(u) => u \in Querying
  BY FlowType DEF IInv, TypeOK, Locations, AskingInv, Asking, NoDisconnect,
                  QueryingRuns
<1>1. /\ UNCHANGED <<commands, bContinue, qpc, cur>> /\ Flow' = Flow
      /\ (Storing' <=> Storing) /\ (Handled' <=> Handled)
  BY ThreadStepSends DEF QueryStep, QueryMC, SendQuery, Send, WriteQuery,
     Write, WaitQuery, ReturnQuery, queueVars, Storing, Handled
<1>7. Asking'
  <2>1. t \in Querying /\ \A u \in Threads \ {t} : pc'[u] = pc[u]
    BY <1>0 DEF QueryStep, QueryMC, SendQuery, Send, WriteQuery, Write,
       WaitQuery, ReturnQuery, Goto, InQueryMC
  <2>. QED
    BY <2>1, ThreadsAssumption DEF AskingInv, Asking, Threads
<1>8. /\ Asking' /\ StopsOnce' /\ EntryInHand'
      /\ Ids' = Ids /\ \A i \in Ids : commands'[i] = NoCommand
  BY <1>1, <1>7 DEF AskingInv, StopsOnce, EntryInHand, Ids, Threads
<1>. USE DEF Goto, InQueryMC
<1>2. CASE QueryMC(t)
  <2>1. /\ pc[t] = "idle" /\ \A u \in Threads : ~InQueryMC(u)
        /\ resSB' = << >> /\ isQueryMode' = TRUE
        /\ pc' = [pc EXCEPT ![t] = "qSend"]
        /\ UNCHANGED <<requests, ret>>
    BY <1>0, <1>2 DEF QueryMC, netVars
  <2>2. OneInside'
    BY <1>0, <2>1 DEF OneInside
  <2>3. ASSUME bContinue PROVE Collects(t)'
    <3>1. Quiet
      BY <1>0, <2>1, <2>3 DEF QueryCalm
    <3>2. NotIn(t, Flow) /\ NotAsked(t)
      BY <2>1 DEF FlowInv, AskedOnce, Unsent
    <3>3. Handled => Of(cur) # t
      BY <3>2, Hand DEF Handled, InHand, NotIn
    <3>. QED
      BY <1>1, <2>1, <3>1, <3>2, <3>3, PartsAssumption
         DEF Collects, Quiet, NotIn, NotAsked
  <2>. QED
    BY <1>0, <1>1, <1>8, <2>1, <2>2, <2>3 DEF AskingInv, QueryCalm
<1>3. CASE SendQuery(t)
  <2>1. /\ pc[t] = "qSend"
        /\ \E l \in {"qWrite", "qWait"} : pc' = [pc EXCEPT ![t] = l]
        /\ UNCHANGED <<requests, ret, resSB, isQueryMode>>
    BY <1>3 DEF SendQuery, Send, mngrVars, netVars
  <2>2. \A u \in Threads : /\ InQueryMC(u)' = InQueryMC(u)
                           /\ Unsent(u)' => Unsent(u)
                           /\ pc'[u] = "qAfter" => pc[u] = "qAfter"
    BY <1>0, <2>1 DEF Unsent
  <2>. QED
    BY <1>0, <1>1, <1>8, <2>1, <2>2, StillQueryCalm DEF AskingInv, OneInside
<1>4. CASE WriteQuery(t)
  <2>1. /\ pc[t] = "qWrite"
        /\ pc' = [pc EXCEPT ![t] = "qWait"]
        /\ UNCHANGED <<ret, resSB, isQueryMode>>
        /\ requests' = requests \/ requests' = Append(requests, t)
    BY <1>0, <1>4 DEF WriteQuery, Write, mngrVars, Places, NoDisconnect
  <2>2. OneInside'
    BY <1>0, <2>1 DEF OneInside
  <2>3. InQueryMC(t) /\ Unsent(t) /\ InQueryMC(t)' /\ pc'[t] # "qAfter"
    BY <1>0, <2>1 DEF Unsent
  <2>4. ASSUME bContinue PROVE isQueryMode /\ Collects(t)
    BY <1>0, <2>3, <2>4 DEF QueryCalm, OneInside
  <2>5. ASSUME bContinue PROVE Collects(t)'
    <3>1. \A k \in 1..Len(requests') : requests'[k] = t
      <4>1. \A k \in 1..Len(requests) : requests[k] = t
        BY <2>4, <2>5 DEF Collects
      <4>2. CASE requests' = requests
        BY <4>1, <4>2
      <4>3. CASE requests' = Append(requests, t)
        <5>1. /\ Len(requests') = Len(requests) + 1
              /\ \A k \in 1..Len(requests) : requests'[k] = requests[k]
              /\ requests'[Len(requests) + 1] = t
              /\ Len(requests) \in Nat
          BY <1>0, <4>3, AppendProperties
        <5>. QED
          BY <4>1, <5>1
      <4>. QED
        BY <2>1, <4>2, <4>3
    <3>. QED
      BY <1>1, <2>1, <2>3, <2>4, <2>5, <3>1 DEF Collects
  <2>. QED
    BY <1>0, <1>1, <1>8, <2>1, <2>2, <2>3, <2>4, <2>5 DEF AskingInv, QueryCalm
<1>5. CASE WaitQuery(t)
  <2>1. /\ pc[t] = "qWait"
        /\ pc' = [pc EXCEPT ![t] = IF isQueryMode /\ bContinue
                                   THEN "qBlocked" ELSE "qAfter"]
        /\ UNCHANGED <<requests, ret, resSB, isQueryMode>>
    BY <1>5 DEF WaitQuery, mngrVars, netVars
  <2>2. \A u \in Threads : /\ InQueryMC(u)' = InQueryMC(u)
                           /\ Unsent(u)' => Unsent(u)
    BY <1>0, <2>1 DEF Unsent
  <2>3. CASE isQueryMode /\ bContinue
    <3>1. \A u \in Threads : pc'[u] = "qAfter" => pc[u] = "qAfter"
      BY <1>0, <2>1, <2>3
    <3>. QED
      BY <1>0, <1>1, <1>8, <2>1, <2>2, <3>1, StillQueryCalm
         DEF AskingInv, OneInside
  <2>4. CASE ~(isQueryMode /\ bContinue)
    BY <1>0, <1>1, <1>8, <2>1, <2>2, <2>4
       DEF AskingInv, QueryCalm, OneInside, Quiet
  <2>. QED
    BY <2>3, <2>4
<1>6. CASE ReturnQuery(t)
  <2>1. /\ pc[t] = "qAfter"
        /\ pc' = [pc EXCEPT ![t] = "returned"]
        /\ ret' = [ret EXCEPT ![t] = IF bContinue THEN resSB ELSE << >>]
        /\ UNCHANGED <<requests, resSB, isQueryMode>>
    BY <1>6 DEF ReturnQuery, mngrVars, netVars
  <2>2. InQueryMC(t) /\ \A u \in Threads : InQueryMC(u)' => InQueryMC(u)
    BY <1>0, <2>1
  <2>3. bContinue => ~isQueryMode /\ Quiet /\ resSB = Text(t)
    BY <1>0, <2>1, <2>2 DEF QueryCalm, OneInside
  <2>4. \A u \in Querying : ret'[u] \in {<< >>, Text(u)}
    BY <1>0, <2>1, <2>3 DEF QueryCalm, Threads
  <2>5. \A u \in Threads : InQueryMC(u)' => u # t /\ InQueryMC(u)
    BY <1>0, <2>1
  <2>6. OneInside' /\ \A u \in Threads : ~InQueryMC(u)'
    BY <1>0, <2>2, <2>5 DEF OneInside
  <2>7. bContinue => Quiet'
    BY <1>1, <2>1, <2>3 DEF Quiet
  <2>. QED
    BY <1>0, <1>1, <1>8, <2>1, <2>3, <2>4, <2>6, <2>7 DEF AskingInv, QueryCalm
<1>. QED
  BY <1>2, <1>3, <1>4, <1>5, <1>6 DEF QueryStep

\* The queue thread stores the frames of the query under way in resSB, and its
\* prompt ends the query.
LEMMA QueueStepQuery ==
  ASSUME IInv, FlowInv, Places, AskingInv, QueueStep
  PROVE  AskingInv'
<1>0. /\ Flow \in Seq(Frame) /\ Len(Flow) \in Nat
      /\ resSB \in Seq(Threads \X (1..Parts))
      /\ requests \in Seq(Threads) /\ Len(requests) \in Nat
      /\ QueryCalm /\ OneInside /\ NoDisconnect /\ StopsOnce /\ EntryInHand
      /\ \A i \in Ids : commands[i] = NoCommand
  BY FlowType DEF IInv, TypeOK, AskingInv, Asking, NoDisconnect
<1>1. /\ UNCHANGED <<requests, ret>>
      /\ \A u \in Threads : \/ pc'[u] = pc[u]
                            \/ pc[u] = "qBlocked" /\ pc'[u] = "qWait"
  BY QueueStepSends
<1>2. \A u \in Threads : /\ InQueryMC(u)' = InQueryMC(u)
                         /\ Unsent(u)' = Unsent(u)
                         /\ pc'[u] = "qAfter" <=> pc[u] = "qAfter"
  BY <1>1 DEF InQueryMC, Unsent
<1>3. ~DropFrame /\ (bContinue' => bContinue) /\ StopsOnce'
  BY <1>0, QueueStepStops DEF IInv, TypeOK
<1>4. /\ qpc \notin {"append", "setDone"}
      /\ InHand => commands[cur.id] = NoCommand
  <2>1. InHand => cur.id \in Ids
    BY Hand, FrameFacts
  <2>. QED
    BY <1>0, <2>1 DEF InHand, EntryInHand
<1>5. /\ commands' = commands /\ Asking' /\ Ids' = Ids
      /\ OneInside' /\ EntryInHand'
  <2>1. commands' = commands
    BY <1>4, QueueStepTexts DEF AppendData, SetDone, QueueThread
  <2>2. OneInside'
    BY <1>0, <1>2 DEF OneInside
  <2>3. Asking'
    BY <1>1 DEF AskingInv, Asking, Threads
  <2>4. qpc' \notin {"append", "setDone"}
    BY <1>4 DEF InHand, QueueStep, StartQueueThread, LoopTop, Woken,
       TakeFrame, Refresh, DropFrame, HandleData, AppendData,
       DataInQueryMode, StoreData, HandlePrompt, NotifyQuery, PromptPending,
       SetDone, LeaveFrame, QueueThread, EndQueueThread
  <2>. QED
    BY <2>1, <2>2, <2>3, <2>4 DEF EntryInHand, Ids, Threads
<1>. SUFFICES QueryCalm'
  BY <1>0, <1>3, <1>5 DEF AskingInv
<1>6. ASSUME InHand, ~Handled, bContinue
      PROVE  \E w \in Threads :
               /\ InQueryMC(w) /\ pc[w] # "qAfter" /\ Collects(w)
               /\ isQueryMode /\ Of(cur) = w /\ Rank(cur) = Len(resSB) + 1
               /\ ~Unsent(w) /\ NotAsked(w)
               /\ \A j \in 1..Len(Flow) : Of(Flow[j]) = w
  <2>1. Flow[1] = cur /\ 1 \in 1..Len(Flow) /\ ~NotIn(Of(cur), Flow)
    BY <1>6, Hand
  <2>2. isQueryMode
    BY <1>0, <1>6, <2>1 DEF QueryCalm, Quiet, IInv, TypeOK
  <2>3. PICK w \in Threads : InQueryMC(w) /\ pc[w] # "qAfter" /\ Collects(w)
    BY <1>0, <1>6, <2>2 DEF QueryCalm
  <2>4. Of(cur) = w
    BY <1>6, <2>1, <2>3 DEF Collects
  <2>5. Rank(cur) = Len(resSB) + 1
    BY <1>6, <2>1, <2>3, <2>4 DEF Collects, Storing, InHand
  <2>6. ~Unsent(w) /\ NotAsked(w)
    BY <2>1, <2>4 DEF FlowInv, AskedOnce, NotAsked
  <2>. QED
    BY <1>6, <2>2, <2>3, <2>4, <2>5, <2>6 DEF Collects
<1>7. ASSUME InHand, Flow' = Tail(Flow)
      PROVE  /\ Len(Flow') = Len(Flow) - 1
             /\ \A j \in 1..Len(Flow') : /\ Flow'[j] = Flow[j + 1]
                                         /\ j + 1 \in 2..Len(Flow)
                                         /\ j + 1 \in 1..Len(Flow)
  <2>1. /\ Len(Tail(Flow)) = Len(Flow) - 1
        /\ \A j \in 1..Len(Tail(Flow)) : Tail(Flow)[j] = Flow[j + 1]
    BY <1>0, <1>7, Hand, HeadTailProperties
  <2>. QED
    BY <1>0, <1>7, <2>1
<1>8. CASE StartQueueThread \/ LoopTop \/ Woken \/ TakeFrame \/ Refresh
  <2>1. /\ ~InHand /\ ~Storing /\ ~Handled /\ ~Storing' /\ ~Handled'
        /\ UNCHANGED <<isQueryMode, resSB>>
    BY <1>8 DEF StartQueueThread, LoopTop, Woken, TakeFrame, Refresh,
       QueueThread, EndQueueThread, InHand, Storing, Handled, mngrVars
  <2>2. Flow' = Flow
    BY <2>1, QueueStepMoves
  <2>. QED
    BY <1>0, <1>1, <1>2, <1>3, <2>1, <2>2, StillQueryCalm
<1>9. CASE HandleData
  <2>1. /\ qpc = "handle" /\ qpc' = "mode" /\ bContinue /\ cur' = cur
        /\ cur.type # "PROMPT"
        /\ UNCHANGED <<isQueryMode, resSB, bContinue>>
    BY <1>4, <1>9 DEF HandleData, QueueThread, InHand, mngrVars
  <2>2. /\ InHand /\ ~InHand' /\ ~Handled /\ ~Handled' /\ ~Storing
        /\ Storing'
    BY <2>1 DEF InHand, Handled, Storing
  <2>3. PICK w \in Threads :
          /\ InQueryMC(w) /\ pc[w] # "qAfter" /\ Collects(w)
          /\ isQueryMode /\ Of(cur) = w /\ Rank(cur) = Len(resSB) + 1
          /\ ~Unsent(w) /\ NotAsked(w)
          /\ \A j \in 1..Len(Flow) : Of(Flow[j]) = w
    BY <1>6, <2>1, <2>2
  <2>4. /\ Flow' = Tail(Flow)
        /\ \A j \in 1..Len(Flow') : Flow'[j] = Flow[j + 1]
                                    /\ j + 1 \in 1..Len(Flow)
    BY <1>7, <2>2, QueueStepMoves
  <2>5. cur.piece = <<w, Len(resSB) + 1>>
    <3>1. cur \in Frame
      BY <2>2, Hand
    <3>. QED
      BY <2>1, <2>3, <3>1 DEF Frame, DataFrame, PromptFrame, Of, Rank
  <2>6. \A j \in 1..Len(Flow') :
          Of(Flow'[j]) = w /\ (j = 1 \/ Rank(Flow'[j]) = 1)
            => Rank(Flow'[j]) = Len(resSB) + 2
    <3>1. PICK G : G = Flow'
      OBVIOUS
    <3>2. \A j \in 1..Len(G) :
            Of(G[j]) = Of(cur) /\ (j = 1 \/ Rank(G[j]) = 1)
              => Rank(G[j]) = Rank(cur) + 1
      BY <2>2, <2>4, <3>1, HeadLeaves
    <3>3. Len(resSB) \in Nat
      BY <1>0
    <3>. QED
      BY <2>3, <3>1, <3>2, <3>3
  <2>7. Collects(w)'
    <3>1. \A j \in 1..Len(Flow') : Of(Flow'[j]) = w
      BY <2>3, <2>4
    <3>2. ~Unsent(w)' /\ NotAsked(w)'
      BY <1>1, <1>2, <2>3 DEF NotAsked
    <3>. QED
      BY <1>1, <2>1, <2>2, <2>3, <2>5, <2>6, <3>1, <3>2 DEF Collects
  <2>. QED
    BY <1>0, <1>1, <1>2, <2>1, <2>3, <2>7 DEF QueryCalm
<1>10. CASE DataInQueryMode
  <2>1. bContinue => isQueryMode
    BY <1>0, <1>10 DEF DataInQueryMode, QueueThread, QueryCalm, Quiet,
                       Storing, IInv, TypeOK
  <2>2. CASE isQueryMode
    <3>1. /\ Storing /\ Storing' /\ ~Handled /\ ~Handled' /\ ~InHand
          /\ UNCHANGED <<isQueryMode, resSB, cur>>
      BY <1>10, <2>2 DEF DataInQueryMode, QueueThread, Storing, Handled,
                         InHand, mngrVars
    <3>2. Flow' = Flow
      BY <3>1, QueueStepMoves
    <3>. QED
      BY <1>0, <1>1, <1>2, <1>3, <3>1, <3>2, StillQueryCalm
  <2>3. CASE ~bContinue
    BY <1>0, <1>1, <1>3, <2>3 DEF QueryCalm
  <2>. QED
    BY <1>0, <2>1, <2>2, <2>3 DEF IInv, TypeOK
<1>11. CASE StoreData
  <2>1. /\ qpc = "store" /\ qpc' = "drain"
        /\ resSB' = Append(resSB, cur.piece)
        /\ cur.piece \in Threads \X (1..Parts)
        /\ UNCHANGED <<isQueryMode, bContinue>>
    BY <1>11 DEF StoreData, QueueThread, LeaveFrame, IInv, CurrentIsOwn,
                 DataFrame
  <2>2. /\ ~InHand /\ ~InHand' /\ ~Handled /\ ~Handled' /\ Storing
        /\ ~Storing'
    BY <2>1 DEF InHand, Handled, Storing
  <2>3. Flow' = Flow
    BY <2>2, QueueStepMoves
  <2>4. CASE ~bContinue
    BY <1>0, <1>1, <2>1, <2>4 DEF QueryCalm
  <2>5. CASE bContinue
    <3>1. isQueryMode
      BY <1>0, <2>2, <2>5 DEF QueryCalm, Quiet, IInv, TypeOK
    <3>2. PICK w \in Threads :
            InQueryMC(w) /\ pc[w] # "qAfter" /\ Collects(w)
      BY <1>0, <2>5, <3>1 DEF QueryCalm
    <3>3. cur.piece = <<w, Len(resSB) + 1>> /\ Len(resSB) + 1 <= Parts
      <4>1. cur.piece = <<w, Len(resSB) + 1>> /\ Len(resSB) \in Nat
        BY <1>0, <2>2, <3>2 DEF Collects
      <4>. QED
        BY <2>1, <4>1, PartsAssumption
    <3>4. /\ Len(resSB') = Len(resSB) + 1 /\ Len(resSB) \in Nat
          /\ \A k \in 1..Len(resSB) : resSB'[k] = resSB[k]
          /\ resSB'[Len(resSB) + 1] = cur.piece
      BY <1>0, <2>1, AppendProperties
    <3>5. \A k \in 1..Len(resSB') : resSB'[k] = <<w, k>>
      BY <3>2, <3>3, <3>4 DEF Collects
    <3>6. ~Unsent(w)' /\ NotAsked(w)'
      BY <1>1, <1>2, <2>2, <3>2 DEF Collects, NotAsked
    <3>7. Collects(w)'
      BY <1>1, <2>2, <2>3, <3>2, <3>3, <3>4, <3>5, <3>6 DEF Collects
    <3>. QED
      BY <1>0, <1>1, <1>2, <2>1, <3>1, <3>2, <3>7 DEF QueryCalm
  <2>. QED
    BY <1>0, <2>4, <2>5 DEF IInv, TypeOK
<1>12. CASE HandlePrompt
  <2>1. /\ qpc = "handle" /\ qpc' \in {"notify", "pending"} /\ bContinue
        /\ cur.type = "PROMPT" /\ ~isQueryMode'
        /\ UNCHANGED <<resSB, bContinue, cur>>
    BY <1>12 DEF HandlePrompt, QueueThread
  <2>2. InHand /\ InHand' /\ ~Handled /\ Handled' /\ ~Storing'
    BY <2>1 DEF InHand, Handled, Storing
  <2>3. PICK w \in Threads :
          /\ InQueryMC(w) /\ pc[w] # "qAfter" /\ Collects(w)
          /\ isQueryMode /\ Of(cur) = w /\ Rank(cur) = Len(resSB) + 1
          /\ ~Unsent(w) /\ NotAsked(w)
          /\ \A j \in 1..Len(Flow) : Of(Flow[j]) = w
    BY <1>6, <2>1, <2>2
  <2>4. Flow' = Flow /\ Flow[1] = cur /\ 1 \in 1..Len(Flow)
    BY <2>2, QueueStepMoves, Hand
  <2>5. Rank(cur) = Parts + 1
    BY <2>1 DEF Rank
  <2>6. \A j \in 1..Len(Flow) : j = 1
    <3>. SUFFICES ASSUME NEW j \in 1..Len(Flow), 1 < j PROVE FALSE
      OBVIOUS
    <3>1. Rank(Flow[1]) < Rank(Flow[j])
      BY <2>3, <2>4 DEF FlowInv, Ordered
    <3>2. Rank(Flow[j]) \in 1..(Parts + 1)
      BY <1>0, FrameFacts
    <3>. QED
      BY <2>4, <2>5, <3>1, <3>2, PartsAssumption
  <2>7. requests' = << >>
    <3>1. Len(requests) = 0
      <4>1. \A k \in 1..Len(requests) : requests[k] = w
        BY <2>3 DEF Collects
      <4>2. \A k \in 1..Len(requests) : requests[k] # w
        BY <2>3 DEF NotAsked
      <4>3. requests \in Seq(Threads) /\ Len(requests) \in Nat
        BY <1>0, LenProperties
      <4>. QED
        BY ONLY <4>1, <4>2, <4>3
    <3>. QED
      BY <1>0, <1>1, <3>1
  <2>8. resSB = Text(w)
    <3>1. /\ Text(w) \in Seq(Threads \X (1..Parts)) /\ Len(Text(w)) = Parts
          /\ \A k \in 1..Parts : Text(w)[k] = <<w, k>>
      BY PartsAssumption DEF Text
    <3>2. /\ Len(resSB) = Parts
          /\ \A k \in 1..Len(resSB) : resSB[k] = <<w, k>>
      BY <1>0, <2>3, <2>5, PartsAssumption DEF Collects
    <3>3. \A k \in 1..Len(resSB) : resSB[k] = Text(w)[k]
      BY <3>1, <3>2
    <3>. QED
      BY <1>0, <3>1, <3>2, <3>3, SeqEqual, Zenon
  <2>9. Quiet'
    BY <2>2, <2>4, <2>6, <2>7 DEF Quiet
  <2>10. \A u \in Threads : InQueryMC(u)' => u = w
    BY <1>0, <1>2, <2>3 DEF OneInside
  <2>11. ~Unsent(w)' /\ resSB' = Text(w)
    BY <1>2, <2>1, <2>3, <2>8
  <2>. QED
    BY <1>0, <1>1, <2>1, <2>9, <2>10, <2>11 DEF QueryCalm
<1>13. CASE NotifyQuery
  <2>1. /\ InHand /\ InHand' /\ Handled /\ Handled' /\ ~Storing /\ ~Storing'
        /\ UNCHANGED <<isQueryMode, resSB, cur>>
    BY <1>13 DEF NotifyQuery, QueueThread, InHand, Storing, Handled, mngrVars
  <2>2. Flow' = Flow
    BY <2>1, QueueStepMoves
  <2>. QED
    BY <1>0, <1>1, <1>2, <1>3, <2>1, <2>2, StillQueryCalm
<1>14. CASE PromptPending
  <2>1. /\ qpc = "pending" /\ qpc' = "drain"
        /\ UNCHANGED <<isQueryMode, resSB, bContinue>>
    BY <1>4, <1>14 DEF PromptPending, QueueThread, InHand, mngrVars
  <2>2. /\ InHand /\ ~InHand' /\ Handled /\ ~Handled' /\ ~Storing
        /\ ~Storing'
    BY <2>1 DEF InHand, Handled, Storing
  <2>3. /\ Flow' = Tail(Flow) /\ Flow[1] = cur
        /\ Len(Flow') = Len(Flow) - 1
        /\ \A j \in 1..Len(Flow') : /\ Flow'[j] = Flow[j + 1]
                                    /\ j + 1 \in 2..Len(Flow)
                                    /\ j + 1 \in 1..Len(Flow)
    BY <1>7, <2>2, QueueStepMoves
  <2>4. ASSUME Quiet PROVE Quiet'
    BY <1>1, <2>2, <2>3, <2>4 DEF Quiet
  <2>5. ASSUME NEW w \in Threads, Collects(w) PROVE Collects(w)'
    <3>1. Of(cur) # w /\ \A j \in 1..Len(Flow') : Of(Flow'[j]) = w
      BY <2>2, <2>3, <2>5 DEF Collects
    <3>2. ASSUME NEW j \in 1..Len(Flow'), j = 1 \/ Rank(Flow'[j]) = 1
          PROVE  Rank(Flow'[j]) = Len(resSB) + 1
      <4>1. PICK G : G = Flow'
        OBVIOUS
      <4>2. \A t \in Threads \ {Of(cur)} : \A i \in 1..Len(G) :
              Of(G[i]) = t =>
                \E k \in 1..Len(Flow) :
                  Flow[k] = G[i] /\ (i = 1 => k = 1 \/ Rank(Flow[k]) = 1)
        BY <2>2, <2>3, <4>1, HeadLeaves
      <4>3. PICK k \in 1..Len(Flow) :
              Flow[k] = Flow'[j] /\ (j = 1 => k = 1 \/ Rank(Flow[k]) = 1)
        BY <2>5, <3>1, <3>2, <4>1, <4>2
      <4>4. Of(Flow[k]) = w /\ (k = 1 \/ Rank(Flow[k]) = 1)
        BY <3>1, <3>2, <4>3
      <4>. QED
        BY <2>2, <2>5, <4>3, <4>4 DEF Collects
    <3>3. Unsent(w)' = Unsent(w) /\ NotAsked(w)' = NotAsked(w)
      BY <1>1, <1>2 DEF NotAsked
    <3>. QED
      BY <1>1, <2>1, <2>2, <2>5, <3>1, <3>2, <3>3 DEF Collects
  <2>. QED
    BY <1>0, <1>1, <1>2, <2>1, <2>4, <2>5 DEF QueryCalm
<1>. QED
  BY <1>3, <1>4, <1>8, <1>9, <1>10, <1>11, <1>12, <1>13, <1>14
     DEF QueueStep, AppendData, SetDone, QueueThread

\* The MC answers the query under way; its reply starts where resSB ends.
LEMMA ReplyQuery ==
  ASSUME IInv, FlowInv, QueryCalm, MCReply
  PROVE  QueryCalm'
<1>0. /\ Len(Flow) \in Nat /\ requests \in Seq(Threads)
      /\ requests' \in Seq(Threads)
  BY FlowType, NetStepIInv DEF IInv, TypeOK
<1>1. UNCHANGED <<bContinue, isQueryMode, resSB, qpc, cur, pc, ret>>
  BY DEF MCReply, mngrVars, queueVars
<1>2. PICK w \in Threads :
        /\ ~NotAsked(w) /\ NotIn(w, Flow)
        /\ Len(Flow') = Len(Flow) + Parts + 1
        /\ \A j \in 1..Len(Flow) : Flow'[j] = Flow[j]
        /\ \A j \in (Len(Flow) + 1)..(Len(Flow) + Parts + 1) :
             Of(Flow'[j]) = w /\ Rank(Flow'[j]) = j - Len(Flow)
  BY ReplyJoins
<1>3. \A u \in Threads : ~NotAsked(u)' => ~NotAsked(u)
  BY ReplyJoins
<1>4. \A j \in 1..Len(Flow') :
        \/ j \in 1..Len(Flow) /\ Flow'[j] = Flow[j]
        \/ /\ Of(Flow'[j]) = w /\ Rank(Flow'[j]) = j - Len(Flow)
           /\ j > Len(Flow)
  BY <1>0, <1>2, PartsAssumption
<1>5. ~Quiet
  BY <1>2 DEF Quiet, NotAsked
<1>6. ASSUME NEW t \in Threads, Collects(t) PROVE Collects(t)'
  <2>1. t = w
    BY <1>2, <1>6 DEF Collects, NotAsked
  <2>2. resSB = << >> /\ ~Storing
    BY <1>2, <1>6, <2>1 DEF Collects
  <2>3. \A k \in 1..Len(requests') : requests'[k] = t
    <3>. SUFFICES ASSUME NEW k \in 1..Len(requests')
                  PROVE  requests'[k] = t
      OBVIOUS
    <3>1. requests'[k] \in Threads /\ ~NotAsked(requests'[k])
      BY <1>0, <1>3 DEF NotAsked
    <3>. QED
      BY <1>6, <3>1 DEF Collects, NotAsked
  <2>4. \A j \in 1..Len(Flow') :
          /\ Of(Flow'[j]) = t \/ (j = 1 /\ Handled)
          /\ Of(Flow'[j]) = t /\ (j = 1 \/ Rank(Flow'[j]) = 1)
               => Rank(Flow'[j]) = 1
    <3>. SUFFICES ASSUME NEW j \in 1..Len(Flow')
                  PROVE  /\ Of(Flow'[j]) = t \/ (j = 1 /\ Handled)
                         /\ Of(Flow'[j]) = t /\ j = 1 => Rank(Flow'[j]) = 1
      OBVIOUS
    <3>1. CASE j \in 1..Len(Flow) /\ Flow'[j] = Flow[j]
      BY <1>2, <1>6, <2>1, <3>1 DEF Collects, NotIn
    <3>2. CASE /\ Of(Flow'[j]) = w /\ Rank(Flow'[j]) = j - Len(Flow)
               /\ j > Len(Flow)
      BY <1>0, <2>1, <3>2
    <3>. QED
      BY <1>4, <3>1, <3>2
  <2>5. /\ (Storing' <=> Storing) /\ (Handled' <=> Handled)
        /\ Len(resSB) = 0 /\ Len(resSB') = 0
    BY <1>1, <2>2 DEF Storing, Handled
  <2>. QED
    BY <1>1, <1>6, <2>2, <2>3, <2>4, <2>5 DEF Collects
<1>. QED
  BY <1>1, <1>5, <1>6 DEF QueryCalm, InQueryMC

LEMMA StepQuery ==
  ASSUME Synced = {}, IInv, FlowInv, QueryInv, [Next]_vars
  PROVE  QueryInv'
<1>0. /\ pc \in [Threads -> Locations]
      /\ Querying \cup Closers \cup Exiting \subseteq Threads
      /\ \A u \in Threads : InQueryMC(u) => u \in Querying
  BY DEF IInv, TypeOK, Locations, Threads, QueryingRuns
<1>1. Places /\ Places' /\ Ids' = Ids
  BY StepPlaces DEF QueryInv, Ids, Threads
\* A thread that has returned has done its part.
<1>2. ASSUME NEW u \in Threads, pc[u] = "returned"
      PROVE  pc'[u] = "returned" /\ ret'[u] = ret[u]
  <2>1. ASSUME NEW t \in Threads, SyncedStep(t) \/ QueryStep(t)
        PROVE  pc'[u] = "returned" /\ ret'[u] = ret[u]
    <3>1. ret \in [Threads -> Seq(Threads \X (1..Parts))]
      BY DEF IInv, TypeOK
    <3>2. u # t
      BY <1>2, <2>1 DEF SyncedStep, Begin, Put, ResetDone, SendSynced,
         WriteSynced, Poll, IsDone, After, Take, Remove, QueryStep, QueryMC,
         SendQuery, WriteQuery, WaitQuery, ReturnQuery
    <3>3. CASE SyncedStep(t)
      BY <1>0, <1>2, <3>1, <3>2, <3>3 DEF SyncedStep, Begin, Put, ResetDone,
         SendSynced, Send, WriteSynced, Write, Poll, IsDone, After, Take,
         Remove, Goto
    <3>4. CASE QueryStep(t)
      BY <1>0, <1>2, <3>1, <3>2, <3>4 DEF QueryStep, QueryMC, SendQuery,
         Send, WriteQuery, Write, WaitQuery, ReturnQuery, Goto
    <3>. QED
      BY <2>1, <3>3, <3>4
  <2>2. ASSUME NEW t \in Threads, BeginDisconnect(t) \/ CloseStep(t)
        PROVE  pc'[u] = "returned" /\ ret'[u] = ret[u]
    BY <1>0, <1>2, <2>2 DEF BeginDisconnect, CloseStep, Disconnect,
       AwaitQuery, EndQuery, CloseSocket, DropSocket, Goto, Notified
  <2>3. CASE QueueStep
    BY <1>2, <2>3, QueueStepSends
  <2>4. CASE ReaderStep \/ MCReply \/ MCClose \/ UNCHANGED vars
    BY <1>2, <2>4 DEF ReaderStep, ReadBuffer, EndOfStream, MCReply, MCClose,
       vars
  <2>. QED
    BY <2>1, <2>2, <2>3, <2>4 DEF Next
<1>3. ASSUME NEW u \in Threads, pc'[u] = "idle" PROVE pc[u] = "idle"
  <2>1. ASSUME NEW t \in Threads,
               \/ SyncedStep(t) \/ QueryStep(t) \/ BeginDisconnect(t)
               \/ CloseStep(t)
        PROVE  pc[u] = "idle"
    <3>1. CASE SyncedStep(t)
      BY <1>0, <1>3, <3>1 DEF SyncedStep, Begin, Put, ResetDone, SendSynced,
         Send, WriteSynced, Write, Poll, IsDone, After, Take, Remove, Goto,
         Returned
    <3>2. CASE QueryStep(t)
      BY <1>0, <1>3, <3>2 DEF QueryStep, QueryMC, SendQuery, Send,
         WriteQuery, Write, WaitQuery, ReturnQuery, Goto
    <3>3. CASE BeginDisconnect(t) \/ CloseStep(t)
      BY <1>0, <1>3, <3>3 DEF BeginDisconnect, CloseStep, Disconnect,
         AwaitQuery, EndQuery, CloseSocket, DropSocket, Goto, Notified
    <3>. QED
      BY <2>1, <3>1, <3>2, <3>3
  <2>2. CASE QueueStep
    BY <1>3, <2>2, QueueStepSends
  <2>3. CASE ReaderStep \/ MCReply \/ MCClose \/ UNCHANGED vars
    BY <1>3, <2>3 DEF ReaderStep, ReadBuffer, EndOfStream, MCReply, MCClose,
       vars
  <2>. QED
    BY <2>1, <2>2, <2>3 DEF Next
<1>4. CASE ExitingInv
  <2>1. ~Asking'
    BY <1>0, <1>3, <1>4 DEF ExitingInv, Asking
  <2>. QED
    BY <1>0, <1>1, <1>2, <1>3, <1>4, <2>1 DEF ExitingInv, QueryInv
<1>5. CASE AskingInv
  <2>0. NoDisconnect /\ QueryCalm
    BY <1>5 DEF AskingInv, Asking, NoDisconnect
  <2>1. ASSUME NEW t \in Threads, SyncedStep(t) \/ CloseStep(t) PROVE FALSE
    <3>1. CASE CloseStep(t)
      BY <1>1, <1>5, <3>1 DEF CloseStep, Disconnect, AwaitQuery, EndQuery,
         CloseSocket, DropSocket, Places, InDisconnect, AskingInv, Asking
    <3>2. CASE SyncedStep(t)
      BY <1>1, <1>5, <3>2 DEF SyncedStep, Begin, Put, ResetDone, SendSynced,
         WriteSynced, Poll, IsDone, After, Take, Remove, Places, InSynced,
         AskingInv, Asking
    <3>. QED
      BY <2>1, <3>1, <3>2
  <2>2. ASSUME NEW t \in Threads, QueryStep(t) PROVE QueryInv'
    BY <1>1, <1>5, <2>2, QueryStepQuery DEF QueryInv
  <2>3. ASSUME NEW t \in Threads, BeginDisconnect(t) PROVE QueryInv'
    <3>1. /\ t \in Closers \cup Exiting /\ pc'[t] # "idle"
          /\ t \in Exiting => \A u \in Querying : pc[u] = "returned"
          /\ ret' = ret
      BY <1>0, <2>3 DEF BeginDisconnect, Goto
    <3>2. ~Asking'
      BY <3>1 DEF Asking
    <3>3. CASE t \in Closers
      BY <1>1, <3>1, <3>2, <3>3 DEF QueryInv, ExitingInv
    <3>4. CASE t \in Exiting
      BY <1>0, <1>1, <1>2, <2>0, <3>1, <3>2, <3>4
         DEF QueryInv, ExitingInv, QueryCalm
    <3>. QED
      BY <3>1, <3>3, <3>4
  <2>4. CASE QueueStep
    BY <1>1, <1>5, <2>4, QueueStepQuery DEF QueryInv
  <2>5. CASE ReaderStep \/ MCReply \/ MCClose \/ UNCHANGED vars
    <3>1. UNCHANGED <<bContinue, isQueryMode, resSB, qpc, cur, pc, ret,
                      commands>>
      BY <2>5 DEF ReaderStep, ReadBuffer, EndOfStream, MCReply, MCClose,
         vars, mngrVars, queueVars, netVars
    <3>2. /\ (Storing' <=> Storing) /\ (Handled' <=> Handled)
          /\ \A u \in Threads : /\ InQueryMC(u)' = InQueryMC(u)
                                /\ Unsent(u)' => Unsent(u)
                                /\ pc'[u] = "qAfter" => pc[u] = "qAfter"
      BY <3>1 DEF Storing, Handled, InQueryMC, Unsent
    <3>3. Asking' /\ StopsOnce' /\ EntryInHand' /\ OneInside'
          /\ \A i \in Ids : commands'[i] = NoCommand
      BY <1>5, <3>1, <3>2 DEF AskingInv, Asking, StopsOnce, EntryInHand,
                              OneInside
    <3>4. QueryCalm'
      <4>1. CASE MCReply
        BY <2>0, <4>1, ReplyQuery
      <4>2. CASE ReaderStep \/ MCClose \/ UNCHANGED vars
        <5>1. requests' = requests \/ requests' = << >>
          BY <4>2 DEF ReaderStep, ReadBuffer, EndOfStream, MCClose, vars,
                      netVars
        <5>2. \A j \in 1..Len(Flow') :
                j \in 1..Len(Flow) /\ Flow'[j] = Flow[j]
          <6>1. CASE ReaderStep
            BY <6>1, ReaderStepMoves
          <6>2. CASE MCClose
            BY <6>2, CloseMoves
          <6>3. CASE UNCHANGED vars
            BY <6>3 DEF vars, queueVars, netVars, Flow, InHand
          <6>. QED
            BY <4>2, <6>1, <6>2, <6>3
        <5>. QED
          BY <2>0, <3>1, <3>2, <5>1, <5>2, StillQueryCalm
      <4>. QED
        BY <2>5, <4>1, <4>2
    <3>. QED
      BY <1>1, <3>3, <3>4 DEF QueryInv, AskingInv
  <2>. QED
    BY <2>1, <2>2, <2>3, <2>4, <2>5 DEF Next
<1>. QED
  BY <1>4, <1>5 DEF QueryInv

\* With distinct ids QueryMCSynced returns its whole reply or nothing as long
\* as nobody disconnects, also when the MC closes the connection in the middle
\* of a reply.  The managers of the websockets are not asked through QueryMC:
\* MCServer asks its own one, and only while it starts up.
THEOREM WholeReplies ==
  Querying = {} => (Spec => []WholeUntilDisconnect)
<1>1. Querying = {} =>
        ((DistinctIds => CalmInv) => WholeUntilDisconnect)
  BY DEF WholeUntilDisconnect, WholeOrNothing, CalmInv, Calm, Served
<1>. DEFINE NoQueries == Querying = {}
<1>2. NoQueries <=> NoQueries'
  OBVIOUS
<1>3. NoQueries => (Spec => []WholeUntilDisconnect)
  <2>1. NoQueries => ((DistinctIds => CalmInv) => WholeUntilDisconnect)
    BY <1>1
  <2>. HIDE DEF NoQueries
  <2>. QED
    BY <1>2, <2>1, RepliesInvariant, PTL
<1>. QED
  BY <1>3

\* The QueryMC of the start-up returns its whole reply or nothing, whatever
\* the ids (they are all 0), with the QueryMCSynced of tp_exit after it on the
\* same manager, and with the MC closing in the middle of a reply: only a
\* disconnect by another thread can cut a reply (MCServer, MCConnection).
THEOREM WholeQueries == Synced = {} => (Spec => []QueryIsWhole)
<1>. DEFINE NoSynced == Synced = {}
<1>1. NoSynced /\ Init => QueryInv
  BY InitQuery
<1>2. NoSynced /\ IInv /\ FlowInv /\ QueryInv /\ [Next]_vars => QueryInv'
  BY StepQuery
<1>3. QueryInv => QueryIsWhole
  BY DEF QueryInv, AskingInv, ExitingInv, QueryCalm, QueryIsWhole
<1>4. NoSynced <=> NoSynced'
  OBVIOUS
<1>5. NoSynced => (Spec => []QueryIsWhole)
  <2>. HIDE DEF NoSynced
  <2>. QED
    BY <1>1, <1>2, <1>3, <1>4, IInvInvariant, FlowInvariant, PTL DEF Spec
<1>. QED
  BY <1>5

=============================================================================
