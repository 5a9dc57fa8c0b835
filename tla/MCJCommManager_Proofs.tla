------------------------ MODULE MCJCommManager_Proofs ------------------------
(***************************************************************************)
(* Proofs about MCJCommManager, for any number of threads, any assignment  *)
(* of ids and any length of reply.                                         *)
(*                                                                         *)
(* The invariant follows a piece of text on its way from the MC to the     *)
(* thread that asked for it: on the wire and in messagesQueue a frame      *)
(* carries the id of the command it answers, the queue thread files it     *)
(* under that id, and a thread takes the text filed under its own id.      *)
(***************************************************************************)
EXTENDS MCJCommManager, TLAPS

\* Where a thread may be.
Locations == {"idle", "put", "reset", "send", "write", "poll", "isDone",
              "after", "take", "remove", "qSend", "qWrite", "qWait",
              "qBlocked", "qAfter", "disc", "dQuery", "dBlocked", "dJoin",
              "dSleep", "returned", "npe"}

OwnFrame == {f \in Frame : IdOf[f.piece[1]] = f.id}
OwnPiece(i) == {p \in Threads \X (1..Parts) : IdOf[p[1]] = i}

FramesAreOwn == wire \in Seq(OwnFrame) /\ messagesQueue \in Seq(OwnFrame)

CurrentIsOwn ==
  /\ qpc \notin {"start", "top", "waited", "drain", "refresh", "dead"}
       => cur \in OwnFrame
  /\ qpc \in {"append", "mode", "store"} => cur \in DataFrame

CommandsAreOwn ==
  \A i \in Ids : commands[i] # NoCommand
                   => commands[i].text \in Seq(OwnPiece(i))

ReturnsAreOwn ==
  \A t \in Synced \cup Exiting : ret[t] \in Seq(OwnPiece(IdOf[t]))

QueryingRuns == \A t \in Threads : InQueryMC(t) => t \in Querying

IInv == /\ TypeOK
        /\ FramesAreOwn
        /\ CurrentIsOwn
        /\ CommandsAreOwn
        /\ ReturnsAreOwn
        /\ QueryingRuns

-----------------------------------------------------------------------------

\* The reply to a command is made of frames that carry the command's id.
LEMMA ReplyIsOwn ==
  ASSUME NEW t \in Threads, NEW last \in {"DATA", "ERROR"}
  PROVE  Reply(t, last) \in Seq(OwnFrame)
<1>1. Parts + 1 \in Nat
  BY PartsAssumption
<1>2. ASSUME NEW i \in 1..(Parts + 1)
      PROVE  (IF i > Parts
              THEN [type |-> "PROMPT", id |-> IdOf[t], piece |-> <<t, 0>>]
              ELSE [type |-> IF i = Parts THEN last ELSE "DATA",
                    id |-> IdOf[t], piece |-> <<t, i>>])
             \in OwnFrame
  BY PartsAssumption DEF Frame, DataFrame, PromptFrame, OwnFrame, Ids
<1>3. Reply(t, last) \in [1..(Parts + 1) -> OwnFrame]
  BY <1>2 DEF Reply
<1>. QED
  BY <1>1, <1>3

\* Waking the waiters leaves every thread at a known location.
LEMMA NotifiedType ==
  ASSUME NEW Places, {"qBlocked", "qWait"} \subseteq Places,
         pc \in [Threads -> Places]
  PROVE  Notified \in [Threads -> Places]
BY DEF Notified

-----------------------------------------------------------------------------

LEMMA InitIInv == Init => IInv
<1>. SUFFICES ASSUME Init PROVE IInv
  OBVIOUS
<1>. USE DEF Init
<1>1. TypeOK
  <2>1. commands \in [Ids -> PendingCommand \cup {NoCommand}]
    OBVIOUS
  <2>2. /\ resSB \in Seq(Threads \X (1..Parts))
        /\ messagesQueue \in Seq(Frame)
        /\ requests \in Seq(Threads)
        /\ wire \in Seq(Frame)
    OBVIOUS
  <2>3. ret \in [Threads -> Seq(Threads \X (1..Parts))]
    OBVIOUS
  <2>. QED
    BY <2>1, <2>2, <2>3 DEF TypeOK
<1>2. FramesAreOwn /\ CurrentIsOwn /\ CommandsAreOwn
  BY DEF FramesAreOwn, CurrentIsOwn, CommandsAreOwn
<1>3. ReturnsAreOwn /\ QueryingRuns
  BY DEF ReturnsAreOwn, QueryingRuns, InQueryMC, Threads, OwnPiece
<1>. QED
  BY <1>1, <1>2, <1>3 DEF IInv

LEMMA SyncedStepIInv ==
  ASSUME IInv, NEW t \in Threads, SyncedStep(t) PROVE IInv'
<1>. USE DEF IInv, FramesAreOwn, CurrentIsOwn, ReturnsAreOwn, QueryingRuns,
             InQueryMC, CommandsAreOwn, TypeOK, Goto, mngrVars, netVars,
             queueVars
<1>0. IdOf[t] \in Ids
  BY DEF Ids
<1>1. CASE Begin(t)
  BY <1>1 DEF Begin
<1>2. CASE Put(t)
  BY <1>0, <1>2 DEF Put, NewCommand, PendingCommand
<1>3. CASE ResetDone(t)
  <2>1. CASE commands[IdOf[t]] = NoCommand
    BY <1>3, <2>1 DEF ResetDone
  <2>2. CASE commands[IdOf[t]] # NoCommand
    <3>1. commands[IdOf[t]] \in PendingCommand
      BY <1>0, <2>2
    <3>2. commands' = [commands EXCEPT ![IdOf[t]].done = FALSE]
      BY <1>3, <2>2 DEF ResetDone
    <3>3. commands' \in [Ids -> PendingCommand \cup {NoCommand}]
      BY <1>0, <3>1, <3>2 DEF PendingCommand
    <3>4. CommandsAreOwn'
      BY <1>0, <2>2, <3>1, <3>2 DEF PendingCommand
    <3>. QED
      BY <1>3, <3>3, <3>4 DEF ResetDone
  <2>. QED
    BY <2>1, <2>2
<1>4. CASE SendSynced(t)
  BY <1>4 DEF SendSynced, Send
<1>10. CASE WriteSynced(t)
  BY <1>10 DEF WriteSynced, Write
<1>5. CASE Poll(t)
  BY <1>5 DEF Poll
<1>6. CASE IsDone(t)
  BY <1>6 DEF IsDone
<1>7. CASE After(t)
  BY <1>7 DEF After, Returned
<1>8. CASE Take(t)
  <2>1. CASE commands[IdOf[t]] = NoCommand
    <3>1. pc' = [pc EXCEPT ![t] = "npe"]
      BY <1>8, <2>1 DEF Take
    <3>2. UNCHANGED <<bContinue, mngrVars, commands, sockClient, netVars,
                      queueVars, ret>>
      BY <1>8, <2>1 DEF Take
    <3>. QED
      BY <3>1, <3>2
  <2>2. CASE commands[IdOf[t]] # NoCommand
    <3>1. commands[IdOf[t]].text \in Seq(Threads \X (1..Parts))
      BY <1>0, <2>2 DEF PendingCommand
    <3>2. ret' = [ret EXCEPT ![t] = commands[IdOf[t]].text]
      BY <1>8, <2>2 DEF Take
    <3>3. ret' \in [Threads -> Seq(Threads \X (1..Parts))]
      BY <3>1, <3>2
    <3>4. pc' = [pc EXCEPT ![t] = "remove"]
      BY <1>8, <2>2 DEF Take
    <3>5. UNCHANGED <<bContinue, mngrVars, commands, sockClient, netVars,
                      queueVars>>
      BY <1>8 DEF Take
    <3>6. TypeOK'
      BY <3>3, <3>4, <3>5
    <3>7. ReturnsAreOwn'
      <4>1. commands[IdOf[t]].text \in Seq(OwnPiece(IdOf[t]))
        BY <1>0, <2>2
      <4>. QED
        BY <3>2, <4>1 DEF Threads
    <3>. QED
      BY <3>4, <3>5, <3>6, <3>7
  <2>. QED
    BY <2>1, <2>2
<1>9. CASE Remove(t)
  BY <1>0, <1>9 DEF Remove, Returned
<1>. QED
  BY <1>1, <1>2, <1>3, <1>4, <1>5, <1>6, <1>7, <1>8, <1>9, <1>10,
     SyncedStep(t) DEF SyncedStep

LEMMA QueryStepIInv ==
  ASSUME IInv, NEW t \in Threads, QueryStep(t) PROVE IInv'
<1>. USE DEF IInv, FramesAreOwn, CurrentIsOwn, ReturnsAreOwn, QueryingRuns,
             InQueryMC, CommandsAreOwn, TypeOK, Goto, mngrVars, netVars,
             queueVars
<1>1. CASE QueryMC(t)
  BY <1>1 DEF QueryMC
<1>2. CASE SendQuery(t)
  BY <1>2 DEF SendQuery, Send
<1>5. CASE WriteQuery(t)
  BY <1>5 DEF WriteQuery, Write
<1>3. CASE WaitQuery(t)
  BY <1>3 DEF WaitQuery
<1>4. CASE ReturnQuery(t)
  <2>1. t \in Querying /\ t \notin Synced \cup Exiting
    BY <1>4, ThreadsAssumption DEF ReturnQuery
  <2>2. ReturnsAreOwn'
    BY <1>4, <2>1 DEF ReturnQuery, Threads
  <2>. QED
    BY <1>4, <2>2 DEF ReturnQuery
<1>. QED
  BY <1>1, <1>2, <1>3, <1>4, <1>5, QueryStep(t) DEF QueryStep

\* A step that only moves threads and sets flags keeps the invariant, if it
\* lets none but Querying into QueryMC.
LEMMA ControlStep ==
  ASSUME IInv,
         bContinue' \in BOOLEAN, isConnected' \in BOOLEAN,
         isQueryMode' \in BOOLEAN, mcUp' \in BOOLEAN,
         sockClient' \in {"open", "down", "null"},
         requests' \in Seq(Threads),
         pc' \in [Threads -> Locations],
         \A u \in Threads : InQueryMC(u)' => u \in Querying,
         UNCHANGED <<resSB, commands, messagesQueue, wire, qpc, cur, ret>>
  PROVE  IInv'
<1>1. TypeOK'
  BY DEF IInv, TypeOK, Locations
<1>2. FramesAreOwn' /\ CurrentIsOwn'
  BY DEF IInv, FramesAreOwn, CurrentIsOwn
<1>3. CommandsAreOwn' /\ ReturnsAreOwn'
  BY DEF IInv, CommandsAreOwn, ReturnsAreOwn
<1>. QED
  BY <1>1, <1>2, <1>3 DEF IInv, QueryingRuns

LEMMA CloseStepIInv ==
  ASSUME IInv, NEW t \in Threads, CloseStep(t) \/ BeginDisconnect(t)
  PROVE  IInv'
<1>0. /\ TypeOK
      /\ pc \in [Threads -> Locations]
      /\ \A u \in Threads : InQueryMC(u) => u \in Querying
  BY DEF IInv, TypeOK, QueryingRuns, Locations
<1>. USE <1>0 DEF Goto, mngrVars, netVars, queueVars, InQueryMC, Locations
<1>a. ASSUME NEW l \in Locations,
             l \notin {"qSend", "qWrite", "qWait", "qBlocked", "qAfter"},
             pc' = [pc EXCEPT ![t] = l]
      PROVE  /\ pc' \in [Threads -> Locations]
             /\ \A u \in Threads : InQueryMC(u)' => u \in Querying
  BY <1>a
<1>. HIDE DEF InQueryMC
<1>1. CASE BeginDisconnect(t)
  <2>1. PICK l \in {"returned", "put", "disc"} : pc' = [pc EXCEPT ![t] = l]
    BY <1>1 DEF BeginDisconnect
  <2>2. UNCHANGED <<bContinue, isConnected, isQueryMode, mcUp, sockClient,
                    requests, resSB, commands, messagesQueue, wire, qpc, cur,
                    ret>>
    BY <1>1 DEF BeginDisconnect
  <2>. QED
    BY <1>a, <2>1, <2>2, ControlStep DEF TypeOK
<1>2. CASE Disconnect(t)
  <2>1. PICK l \in {"returned", "dQuery"} : pc' = [pc EXCEPT ![t] = l]
    BY <1>2 DEF Disconnect
  <2>2. /\ isConnected' = FALSE
        /\ UNCHANGED <<bContinue, isQueryMode, mcUp, sockClient, requests,
                       resSB, commands, messagesQueue, wire, qpc, cur, ret>>
    BY <1>2 DEF Disconnect
  <2>. QED
    BY <1>a, <2>1, <2>2, ControlStep DEF TypeOK
<1>3. CASE AwaitQuery(t)
  <2>1. PICK l \in {"dBlocked", "dJoin"} : pc' = [pc EXCEPT ![t] = l]
    BY <1>3 DEF AwaitQuery
  <2>2. /\ bContinue' \in {bContinue, FALSE}
        /\ UNCHANGED <<isConnected, isQueryMode, mcUp, sockClient, requests,
                       resSB, commands, messagesQueue, wire, qpc, cur, ret>>
    BY <1>3 DEF AwaitQuery
  <2>. QED
    BY <1>a, <2>1, <2>2, ControlStep DEF TypeOK
<1>4. CASE EndQuery(t)
  <2>1. pc' = [Notified EXCEPT ![t] = "dQuery"]
    BY <1>4 DEF EndQuery
  <2>2. pc' \in [Threads -> Locations]
    BY <2>1, NotifiedType
  <2>3. \A u \in Threads : InQueryMC(u)' => InQueryMC(u)
    BY <2>1 DEF Notified, InQueryMC
  <2>4. /\ isQueryMode' = FALSE
        /\ bContinue' = FALSE
        /\ UNCHANGED <<isConnected, mcUp, sockClient, requests, resSB,
                       commands, messagesQueue, wire, qpc, cur, ret>>
    BY <1>4 DEF EndQuery
  <2>. QED
    BY <2>2, <2>3, <2>4, ControlStep DEF TypeOK
<1>5. CASE CloseSocket(t)
  <2>1. PICK l \in {"npe", "dSleep"} : pc' = [pc EXCEPT ![t] = l]
    BY <1>5 DEF CloseSocket
  <2>2. /\ sockClient' \in {sockClient, "down"}
        /\ UNCHANGED <<bContinue, isConnected, isQueryMode, mcUp, requests,
                       resSB, commands, messagesQueue, wire, qpc, cur, ret>>
    BY <1>5 DEF CloseSocket
  <2>. QED
    BY <1>a, <2>1, <2>2, ControlStep DEF TypeOK
<1>6. CASE DropSocket(t)
  <2>1. pc' = [pc EXCEPT ![t] = "returned"]
    BY <1>6 DEF DropSocket
  <2>2. /\ sockClient' = "null"
        /\ UNCHANGED <<bContinue, isConnected, isQueryMode, mcUp, requests,
                       resSB, commands, messagesQueue, wire, qpc, cur, ret>>
    BY <1>6 DEF DropSocket
  <2>. QED
    BY <1>a, <2>1, <2>2, ControlStep DEF TypeOK
<1>. QED
  BY <1>1, <1>2, <1>3, <1>4, <1>5, <1>6, CloseStep(t) \/ BeginDisconnect(t)
  DEF CloseStep

LEMMA QueueStepIInv == ASSUME IInv, QueueStep PROVE IInv'
<1>. USE DEF IInv, FramesAreOwn, CurrentIsOwn, ReturnsAreOwn, QueryingRuns,
             InQueryMC, CommandsAreOwn, TypeOK, mngrVars, netVars,
             queueVars, QueueThread, EndQueueThread, LeaveFrame
<1>0. CASE StartQueueThread
  BY <1>0 DEF StartQueueThread
<1>1. CASE LoopTop
  BY <1>1 DEF LoopTop
<1>2. CASE Woken
  BY <1>2 DEF Woken
<1>3. CASE TakeFrame
  <2>1. CASE messagesQueue = << >> \/ ~bContinue
    BY <1>3, <2>1 DEF TakeFrame
  <2>2. CASE messagesQueue # << >> /\ bContinue
    <3>1. /\ Head(messagesQueue) \in OwnFrame
          /\ Tail(messagesQueue) \in Seq(OwnFrame)
      BY <2>2
    <3>2. OwnFrame \subseteq Frame
      BY DEF OwnFrame
    <3>3. /\ cur' \in OwnFrame
          /\ messagesQueue' \in Seq(OwnFrame)
          /\ messagesQueue' \in Seq(Frame)
          /\ qpc' = "handle"
      <4>1. /\ cur' = Head(messagesQueue)
            /\ messagesQueue' = Tail(messagesQueue)
            /\ qpc' = "handle"
        BY <1>3, <2>2 DEF TakeFrame
      <4>2. messagesQueue' \in Seq(Frame)
        BY <2>2, <4>1
      <4>. QED
        BY <3>1, <4>1, <4>2
    <3>. QED
      BY <1>3, <3>2, <3>3 DEF TakeFrame
  <2>. QED
    BY <2>1, <2>2
<1>4. CASE Refresh
  BY <1>4 DEF Refresh
<1>5. CASE DropFrame
  BY <1>5 DEF DropFrame, Notified
<1>6. CASE HandleData
  BY <1>6 DEF HandleData, OwnFrame, Frame, DataFrame, PromptFrame
<1>7. CASE AppendData
  <2>1. CASE commands[cur.id] = NoCommand
    BY <1>7, <2>1 DEF AppendData
  <2>2. CASE commands[cur.id] # NoCommand
    <3>1. /\ cur \in OwnFrame
          /\ cur \in DataFrame
      BY <1>7 DEF AppendData
    <3>2. /\ cur.id \in Ids
          /\ cur.piece \in Threads \X (1..Parts)
          /\ cur.piece \in OwnPiece(cur.id)
      BY <3>1 DEF DataFrame, OwnFrame, OwnPiece
    <3>3. /\ commands[cur.id] \in PendingCommand
          /\ commands[cur.id].text \in Seq(Threads \X (1..Parts))
          /\ commands[cur.id].text \in Seq(OwnPiece(cur.id))
      BY <2>2, <3>2 DEF PendingCommand
    <3> DEFINE text == Append(commands[cur.id].text, cur.piece)
    <3>4. text \in Seq(Threads \X (1..Parts)) /\ text \in Seq(OwnPiece(cur.id))
      BY <3>2, <3>3
    <3> HIDE DEF text
    <3>5. commands' = [commands EXCEPT ![cur.id].text = text]
      BY <1>7, <2>2 DEF AppendData, text
    <3>6. commands' \in [Ids -> PendingCommand \cup {NoCommand}]
      BY <3>2, <3>3, <3>4, <3>5 DEF PendingCommand
    <3>7. \A i \in Ids : commands'[i] # NoCommand
                           => commands'[i].text \in Seq(OwnPiece(i))
      BY <3>2, <3>3, <3>4, <3>5 DEF PendingCommand
    <3>. QED
      BY <1>7, <2>2, <3>1, <3>6, <3>7 DEF AppendData
  <2>. QED
    BY <2>1, <2>2
<1>8. CASE DataInQueryMode
  BY <1>8 DEF DataInQueryMode
<1>13. CASE StoreData
  <2>1. cur.piece \in Threads \X (1..Parts)
    BY <1>13 DEF StoreData, DataFrame
  <2>2. resSB' \in Seq(Threads \X (1..Parts))
    BY <1>13, <2>1 DEF StoreData
  <2>. QED
    BY <1>13, <2>2 DEF StoreData
<1>9. CASE HandlePrompt
  BY <1>9 DEF HandlePrompt
<1>10. CASE NotifyQuery
  BY <1>10 DEF NotifyQuery, Notified
<1>11. CASE PromptPending
  BY <1>11 DEF PromptPending
<1>12. CASE SetDone
  <2>1. cur.id \in Ids
    BY <1>12 DEF SetDone, OwnFrame, Frame, DataFrame, PromptFrame
  <2>2. CASE commands[cur.id] = NoCommand
    BY <1>12, <2>2 DEF SetDone
  <2>3. CASE commands[cur.id] # NoCommand
    <3>1. commands[cur.id] \in PendingCommand
      BY <2>1, <2>3
    <3>2. commands' = [commands EXCEPT ![cur.id].done = TRUE]
      BY <1>12, <2>3 DEF SetDone
    <3>3. commands' \in [Ids -> PendingCommand \cup {NoCommand}]
      BY <2>1, <3>1, <3>2 DEF PendingCommand
    <3>4. CommandsAreOwn'
      BY <2>1, <2>3, <3>1, <3>2 DEF PendingCommand
    <3>. QED
      BY <1>12, <2>3, <3>3, <3>4 DEF SetDone
  <2>. QED
    BY <2>2, <2>3
<1>. QED
  BY <1>0, <1>1, <1>2, <1>3, <1>4, <1>5, <1>6, <1>7, <1>8, <1>9, <1>10,
     <1>11, <1>12, <1>13, QueueStep DEF QueueStep

LEMMA NetStepIInv ==
  ASSUME IInv, ReaderStep \/ MCReply \/ MCClose PROVE IInv'
<1>. USE DEF IInv, FramesAreOwn, CurrentIsOwn, ReturnsAreOwn, QueryingRuns,
             InQueryMC, CommandsAreOwn, TypeOK, mngrVars, netVars, queueVars
<1>1. CASE ReadBuffer
  BY <1>1 DEF ReadBuffer, OwnFrame
<1>2. CASE EndOfStream
  BY <1>2 DEF EndOfStream
<1>3. CASE MCReply
  <2>1. PICK k \in 1..Len(requests), last \in {"DATA", "ERROR"} :
          /\ wire' = wire \o Reply(requests[k], last)
          /\ requests' = SubSeq(requests, 1, k - 1)
                           \o SubSeq(requests, k + 1, Len(requests))
    BY <1>3 DEF MCReply
  <2>2. /\ requests[k] \in Threads
        /\ requests' \in Seq(Threads)
    BY <2>1
  <2>3. wire' \in Seq(OwnFrame)
    BY <2>1, <2>2, ReplyIsOwn
  <2>4. wire' \in Seq(Frame)
    BY <2>3 DEF OwnFrame
  <2>5. UNCHANGED <<bContinue, mngrVars, commands, sockClient, mcUp,
                    queueVars, pc, ret>>
    BY <1>3 DEF MCReply
  <2>. QED
    BY <2>2, <2>3, <2>4, <2>5
<1>4. CASE MCClose
  <2>1. PICK n \in 0..Len(wire) : wire' = SubSeq(wire, 1, n)
    BY <1>4 DEF MCClose
  <2>2. wire' \in Seq(Frame) /\ wire' \in Seq(OwnFrame)
    BY <2>1
  <2>3. /\ requests' \in Seq(Threads)
        /\ mcUp' = FALSE
        /\ UNCHANGED <<bContinue, mngrVars, commands, sockClient, queueVars,
                       pc, ret>>
    BY <1>4 DEF MCClose
  <2>4. TypeOK'
    BY <2>2, <2>3
  <2>5. FramesAreOwn' /\ CurrentIsOwn'
    BY <2>2, <2>3
  <2>6. CommandsAreOwn' /\ ReturnsAreOwn' /\ QueryingRuns'
    BY <2>3
  <2>. QED
    BY <2>4, <2>5, <2>6
<1>. QED
  BY <1>1, <1>2, <1>3, <1>4, ReaderStep \/ MCReply \/ MCClose DEF ReaderStep

LEMMA IInvInvariant == Spec => []IInv
<1>1. IInv /\ [Next]_vars => IInv'
  <2> SUFFICES ASSUME IInv, [Next]_vars PROVE IInv'
    OBVIOUS
  <2>1. CASE \E t \in Threads : SyncedStep(t)
    BY <2>1, SyncedStepIInv
  <2>2. CASE \E t \in Threads : QueryStep(t)
    BY <2>2, QueryStepIInv
  <2>3. CASE \E t \in Threads : BeginDisconnect(t) \/ CloseStep(t)
    BY <2>3, CloseStepIInv
  <2>4. CASE QueueStep
    BY <2>4, QueueStepIInv
  <2>5. CASE ReaderStep \/ MCReply \/ MCClose
    BY <2>5, NetStepIInv
  <2>6. CASE UNCHANGED vars
    BY <2>6 DEF vars, mngrVars, netVars, queueVars, IInv, TypeOK,
                FramesAreOwn, CurrentIsOwn, CommandsAreOwn, ReturnsAreOwn,
                QueryingRuns, InQueryMC
  <2>. QED
    BY <2>1, <2>2, <2>3, <2>4, <2>5, <2>6 DEF Next
<1>. QED
  BY InitIInv, <1>1, PTL DEF Spec

\* The fields, the queues and the locations keep their types.
THEOREM TypeCorrect == Spec => []TypeOK
<1>1. IInv => TypeOK
  BY DEF IInv
<1>. QED
  BY IInvInvariant, <1>1, PTL

\* A query is answered with text sent for its id and no other.
THEOREM OwnReply == Spec => []ReplyToItsId
<1>1. IInv => ReplyToItsId
  <2> SUFFICES ASSUME IInv, NEW t \in Synced \cup Exiting,
                      NEW k \in 1..Len(ret[t])
               PROVE  IdOf[ret[t][k][1]] = IdOf[t]
    BY DEF ReplyToItsId
  <2>1. ret[t][k] \in OwnPiece(IdOf[t])
    BY DEF IInv, ReturnsAreOwn
  <2>. QED
    BY <2>1 DEF OwnPiece
<1>. QED
  BY IInvInvariant, <1>1, PTL

-----------------------------------------------------------------------------

\* A thread blocked in QueryMC has its wake-up still to come.
THEOREM WakeUp == Spec => []NoLostWakeUp
<1>1. Init => NoLostWakeUp
  BY DEF Init, NoLostWakeUp, Threads
<1>2. IInv /\ NoLostWakeUp /\ [Next]_vars => NoLostWakeUp'
  <2> SUFFICES ASSUME IInv, NoLostWakeUp, [Next]_vars PROVE NoLostWakeUp'
    OBVIOUS
  <2>. USE DEF NoLostWakeUp, Goto, mngrVars, netVars, queueVars
  <2>0. /\ pc \in [Threads -> {pc[t] : t \in Threads}]
        /\ Querying \subseteq Threads
    BY DEF IInv, TypeOK, Threads
  <2>1. ASSUME NEW t \in Threads, SyncedStep(t) PROVE NoLostWakeUp'
    BY <2>0, <2>1 DEF SyncedStep, Begin, Put, ResetDone, SendSynced, Send,
                      WriteSynced, Write, Poll, IsDone, After, Take, Remove,
                      Returned
  <2>2. ASSUME NEW t \in Threads, QueryStep(t) PROVE NoLostWakeUp'
    BY <2>0, <2>2 DEF QueryStep, QueryMC, SendQuery, Send, WriteQuery,
                      Write, WaitQuery, ReturnQuery
  <2>3. ASSUME NEW t \in Threads, BeginDisconnect(t) \/ CloseStep(t)
        PROVE  NoLostWakeUp'
    <3>1. CASE EndQuery(t)
      BY <2>0, <3>1 DEF EndQuery, Notified
    <3>. QED
      BY <2>0, <2>3, <3>1 DEF BeginDisconnect, CloseStep, Disconnect,
                              AwaitQuery, CloseSocket, DropSocket
  <2>4. CASE QueueStep
    BY <2>0, <2>4 DEF QueueStep, StartQueueThread, LoopTop, Woken, TakeFrame,
                      Refresh, DropFrame, HandleData, AppendData,
                      DataInQueryMode, StoreData, HandlePrompt, NotifyQuery,
                      PromptPending, SetDone,
                      QueueThread, EndQueueThread, LeaveFrame, Notified
  <2>5. CASE ReaderStep \/ MCReply \/ MCClose \/ UNCHANGED vars
    <3>1. UNCHANGED <<pc, qpc, isQueryMode>>
      BY <2>5 DEF ReaderStep, ReadBuffer, EndOfStream, MCReply, MCClose, vars
    <3>. QED
      BY <3>1
  <2>. QED
    BY <2>1, <2>2, <2>3, <2>4, <2>5 DEF Next
<1>. QED
  BY IInvInvariant, <1>1, <1>2, PTL DEF Spec

=============================================================================
