--------------------------- MODULE MCJCommManager ---------------------------
(***************************************************************************)
(* The protocol client of one entry station (MCJCommLib/MCJCommManager and *)
(* MCJCommLib/MCJSocketClient): a TCP connection to the motion controller  *)
(* (MC), a socket reader thread that fills messagesQueue, a queue cleaning *)
(* thread that decodes the queue and files every frame under the id of its *)
(* command, and the threads that call QueryMC, QueryMCSynced or            *)
(* Disconnect on the manager.                                              *)
(*                                                                         *)
(* One step is what a thread does between two accesses of a field another  *)
(* thread writes.  A frame is whole here, as FrameChannel delivers it.     *)
(* The text of a reply is the sequence of its data and error frames, each  *)
(* named by the thread whose command it answers and its position in the    *)
(* reply.  Acknowledge and asynchronous frames are left out: they are only *)
(* passed on.  isConnected() and MCJSocketClient.Disconnect are one step.  *)
(***************************************************************************)
EXTENDS Naturals, Sequences, FiniteSets

CONSTANTS
  Synced,    \* threads that call QueryMCSynced (websocket message handlers)
  Querying,  \* threads that call QueryMC (the start-up of MCServer)
  Closers,   \* threads of MCConnection.disconnect that only call Disconnect
  Exiting,   \* threads of MCConnection.disconnect(1000): query tp_exit first
  IdOf,      \* the id a thread passes with its command
  Parts,     \* data frames of a reply
  PromptQueueThread, \* TRUE: the sleep(600) of Disconnect outlasts the queue
                     \* cleaning thread's last rounds (its period is 4 ms)
  NoCommand  \* commands.get(id) == null

Threads == Synced \cup Querying \cup Closers \cup Exiting
Ids == {IdOf[t] : t \in Threads}

ASSUME ThreadsAssumption ==
  /\ Synced \cap (Querying \cup Closers \cup Exiting) = {}
  /\ Querying \cap (Closers \cup Exiting) = {}
  /\ Closers \cap Exiting = {}
ASSUME PartsAssumption == Parts \in Nat
ASSUME PromptAssumption == PromptQueueThread \in BOOLEAN

VARIABLES
  bContinue,      \* MCJCommManager.bContinue
  isConnected,    \* MCJCommManager.isConnected (the field)
  isQueryMode,    \* MCJCommManager.isQueryMode
  resSB,          \* MCJCommManager.resSB
  commands,       \* id -> PendingCommand, or NoCommand
  messagesQueue,  \* frames the socket reader has queued
  sockClient,     \* "open", "down" (its bContinue is false), "null"
  mcUp,           \* the MC holds its side of the connection open
  requests,       \* external: commands the MC has received, not answered
  wire,           \* frames the MC has sent, the reader not yet read
  qpc, cur,       \* queue cleaning thread: location, frame it handles
  pc, ret         \* per thread: location, text its query returned

mngrVars == <<isConnected, isQueryMode, resSB>>
netVars == <<mcUp, requests, wire>>
queueVars == <<messagesQueue, qpc, cur>>
vars == <<bContinue, mngrVars, commands, sockClient, netVars, queueVars,
          pc, ret>>

-----------------------------------------------------------------------------
(* Data *)

Text(t) == [i \in 1..Parts |-> <<t, i>>]   \* the whole reply to t's command

DataFrame ==
  [type : {"DATA", "ERROR"}, id : Ids, piece : Threads \X (1..Parts)]
PromptFrame == [type : {"PROMPT"}, id : Ids, piece : Threads \X {0}]
Frame == DataFrame \cup PromptFrame

\* What the MC sends for t's command: data frames, or an error frame as the
\* last of them, then one prompt.
Reply(t, last) ==
  [i \in 1..(Parts + 1) |->
     IF i > Parts
     THEN [type |-> "PROMPT", id |-> IdOf[t], piece |-> <<t, 0>>]
     ELSE [type |-> IF i = Parts THEN last ELSE "DATA",
           id |-> IdOf[t], piece |-> <<t, i>>]]

PendingCommand == [text : Seq(Threads \X (1..Parts)), done : BOOLEAN]
NewCommand == [text |-> << >>, done |-> FALSE]
ASSUME NoCommandAssumption == NoCommand \notin PendingCommand

Init ==
  /\ bContinue = TRUE
  /\ isConnected = FALSE
  /\ isQueryMode = FALSE
  /\ resSB = << >>
  /\ commands = [i \in Ids |-> NoCommand]
  /\ messagesQueue = << >>
  /\ sockClient = "open"
  /\ mcUp = TRUE
  /\ requests = << >>
  /\ wire = << >>
  /\ qpc = "start"
  /\ cur = NoCommand
  /\ pc = [t \in Threads |-> "idle"]
  /\ ret = [t \in Threads |-> << >>]

Goto(t, l) == pc' = [pc EXCEPT ![t] = l]

\* qryAre.notifyAll(): every thread waiting in QueryMC looks again.
\* (Disconnect waits with a timeout and needs no wake-up.)
Notified == [u \in Threads |-> IF pc[u] = "qBlocked" THEN "qWait" ELSE pc[u]]

-----------------------------------------------------------------------------
(* Send: its result is ignored by both query methods.  sockClient is read *)
(* twice; Disconnect may set it to null in between.                        *)

Send(t, write, sent) ==
  /\ Goto(t, IF sockClient = "null" THEN sent ELSE write)
  /\ UNCHANGED <<bContinue, mngrVars, commands, sockClient, netVars,
                 queueVars, ret>>

Write(t, sent) ==
  /\ Goto(t, IF sockClient = "null" THEN "npe" ELSE sent)
  /\ requests' = IF sockClient = "open" /\ mcUp THEN Append(requests, t)
                                                ELSE requests
  /\ UNCHANGED <<bContinue, mngrVars, commands, sockClient, mcUp, wire,
                 queueVars, ret>>

-----------------------------------------------------------------------------
(* QueryMCSynced *)

Begin(t) ==
  /\ t \in Synced
  /\ pc[t] = "idle"
  /\ Goto(t, "put")
  /\ UNCHANGED <<bContinue, mngrVars, commands, sockClient, netVars,
                 queueVars, ret>>

Put(t) ==
  /\ pc[t] = "put"
  /\ commands' = [commands EXCEPT ![IdOf[t]] = NewCommand]
  /\ Goto(t, "reset")
  /\ UNCHANGED <<bContinue, mngrVars, sockClient, netVars, queueVars, ret>>

ResetDone(t) ==
  /\ pc[t] = "reset"
  /\ commands' = IF commands[IdOf[t]] = NoCommand THEN commands
                 ELSE [commands EXCEPT ![IdOf[t]].done = FALSE]
  /\ Goto(t, "send")
  /\ UNCHANGED <<bContinue, mngrVars, sockClient, netVars, queueVars, ret>>

SendSynced(t) == pc[t] = "send" /\ Send(t, "write", "poll")

WriteSynced(t) == pc[t] = "write" /\ Write(t, "poll")

\* while (bContinue && commands.get(id) != null && ...
Poll(t) ==
  /\ pc[t] = "poll"
  /\ Goto(t, IF bContinue /\ commands[IdOf[t]] # NoCommand
             THEN "isDone" ELSE "after")
  /\ UNCHANGED <<bContinue, mngrVars, commands, sockClient, netVars,
                 queueVars, ret>>

\* Mutant: a non-empty entry ends the wait, not only a done one.
IsDone_OnText(t) ==
  /\ pc[t] = "isDone"
  /\ Goto(t, IF commands[IdOf[t]] = NoCommand THEN "npe"
             ELSE IF commands[IdOf[t]].text # << >> THEN "after" ELSE "poll")
  /\ UNCHANGED <<bContinue, mngrVars, commands, sockClient, netVars,
                 queueVars, ret>>

\* ... && !commands.get(id).isDone()): the map is read a second time.
IsDone(t) ==
  /\ pc[t] = "isDone"
  /\ Goto(t, IF commands[IdOf[t]] = NoCommand THEN "npe"
             ELSE IF commands[IdOf[t]].done THEN "after" ELSE "poll")
  /\ UNCHANGED <<bContinue, mngrVars, commands, sockClient, netVars,
                 queueVars, ret>>

Returned(t) == IF t \in Exiting THEN "disc" ELSE "returned"

\* bContinue and the entry are looked at again; "" is returned without one.
After(t) ==
  /\ pc[t] = "after"
  /\ Goto(t, IF bContinue /\ commands[IdOf[t]] # NoCommand
             THEN "take" ELSE Returned(t))
  /\ UNCHANGED <<bContinue, mngrVars, commands, sockClient, netVars,
                 queueVars, ret>>

Take(t) ==
  /\ pc[t] = "take"
  /\ IF commands[IdOf[t]] = NoCommand
     THEN Goto(t, "npe") /\ UNCHANGED ret
     ELSE /\ ret' = [ret EXCEPT ![t] = commands[IdOf[t]].text]
          /\ Goto(t, "remove")
  /\ UNCHANGED <<bContinue, mngrVars, commands, sockClient, netVars,
                 queueVars>>

\* Mutant: commands.clear() instead of commands.remove(id).
Remove_All(t) ==
  /\ pc[t] = "remove"
  /\ commands' = [i \in Ids |-> NoCommand]
  /\ Goto(t, Returned(t))
  /\ UNCHANGED <<bContinue, mngrVars, sockClient, netVars, queueVars, ret>>

Remove(t) ==
  /\ pc[t] = "remove"
  /\ commands' = [commands EXCEPT ![IdOf[t]] = NoCommand]
  /\ Goto(t, Returned(t))
  /\ UNCHANGED <<bContinue, mngrVars, sockClient, netVars, queueVars, ret>>

-----------------------------------------------------------------------------
(* QueryMC, a synchronized method: one thread at a time is inside it *)

InQueryMC(t) ==
  pc[t] \in {"qSend", "qWrite", "qWait", "qBlocked", "qAfter"}

\* Mutant: resSB is not emptied.
QueryMC_KeepText(t) ==
  /\ t \in Querying
  /\ pc[t] = "idle"
  /\ \A u \in Querying : ~InQueryMC(u)
  /\ isQueryMode' = TRUE
  /\ Goto(t, "qSend")
  /\ UNCHANGED <<bContinue, isConnected, resSB, commands, sockClient, netVars,
                 queueVars, ret>>

QueryMC(t) ==
  /\ t \in Querying
  /\ pc[t] = "idle"
  /\ \A u \in Querying : ~InQueryMC(u)
  /\ resSB' = << >>
  /\ isQueryMode' = TRUE
  /\ Goto(t, "qSend")
  /\ UNCHANGED <<bContinue, isConnected, commands, sockClient, netVars,
                 queueVars, ret>>

SendQuery(t) == pc[t] = "qSend" /\ Send(t, "qWrite", "qWait")

WriteQuery(t) == pc[t] = "qWrite" /\ Write(t, "qWait")

\* Under qryAre: the test and wait() are one step of the monitor.
WaitQuery(t) ==
  /\ pc[t] = "qWait"
  /\ Goto(t, IF isQueryMode /\ bContinue THEN "qBlocked" ELSE "qAfter")
  /\ UNCHANGED <<bContinue, mngrVars, commands, sockClient, netVars,
                 queueVars, ret>>

ReturnQuery(t) ==
  /\ pc[t] = "qAfter"
  /\ ret' = [ret EXCEPT ![t] = IF bContinue THEN resSB ELSE << >>]
  /\ Goto(t, "returned")
  /\ UNCHANGED <<bContinue, mngrVars, commands, sockClient, netVars,
                 queueVars>>

-----------------------------------------------------------------------------
(* The thread of MCConnection.disconnect, and Disconnect *)

ConnectedToMC == isConnected \/ sockClient = "open"

\* The start-up disconnects when its own queries have returned; nobody else
\* calls QueryMC.
BeginDisconnect(t) ==
  /\ t \in Closers \cup Exiting
  /\ pc[t] = "idle"
  /\ t \in Exiting => \A u \in Querying : pc[u] = "returned"
  /\ Goto(t, IF ~ConnectedToMC THEN "returned"
             ELSE IF t \in Exiting THEN "put" ELSE "disc")
  /\ UNCHANGED <<bContinue, mngrVars, commands, sockClient, netVars,
                 queueVars, ret>>

Disconnect(t) ==
  /\ pc[t] = "disc"
  /\ isConnected' = FALSE
  /\ Goto(t, IF sockClient = "null" THEN "returned" ELSE "dQuery")
  /\ UNCHANGED <<bContinue, isQueryMode, resSB, commands, sockClient,
                 netVars, queueVars, ret>>

\* Under qryAre: wait(2000) while a QueryMC is under way, else go on.
AwaitQuery(t) ==
  /\ pc[t] = "dQuery"
  /\ IF isQueryMode
     THEN Goto(t, "dBlocked") /\ UNCHANGED bContinue
     ELSE Goto(t, "dJoin") /\ bContinue' = FALSE
  /\ UNCHANGED <<mngrVars, commands, sockClient, netVars, queueVars, ret>>

\* Notified or timed out: the query is ended either way.
EndQuery(t) ==
  /\ pc[t] = "dBlocked"
  /\ isQueryMode' = FALSE
  /\ bContinue' = FALSE
  /\ pc' = [Notified EXCEPT ![t] = "dQuery"]
  /\ UNCHANGED <<isConnected, resSB, commands, sockClient, netVars,
                 queueVars, ret>>

\* Mutant: the socket client is never told to disconnect.
CloseSocket_Forgotten(t) ==
  /\ pc[t] = "dJoin"
  /\ Goto(t, "dSleep")
  /\ UNCHANGED <<bContinue, mngrVars, commands, sockClient, netVars,
                 queueVars, ret>>

\* join(500) is over, by the end of the queue thread or by its timeout;
\* then MCJSocketClient.Disconnect.
CloseSocket(t) ==
  /\ pc[t] = "dJoin"
  /\ IF sockClient = "null"
     THEN Goto(t, "npe") /\ UNCHANGED sockClient
     ELSE Goto(t, "dSleep") /\ sockClient' = "down"
  /\ UNCHANGED <<bContinue, mngrVars, commands, netVars, queueVars, ret>>

DropSocket(t) ==
  /\ pc[t] = "dSleep"
  /\ PromptQueueThread => qpc = "dead"
  /\ sockClient' = "null"
  /\ Goto(t, "returned")
  /\ UNCHANGED <<bContinue, mngrVars, commands, netVars, queueVars, ret>>

-----------------------------------------------------------------------------
(* The queue cleaning thread *)

QueueThread(l) == qpc = l /\ UNCHANGED <<sockClient, netVars, ret>>

\* The catch block, and the end of the loop: tell the MCConnection.
EndQueueThread ==
  /\ isConnected' = FALSE
  /\ qpc' = "dead"
  /\ cur' = NoCommand

StartQueueThread ==
  /\ QueueThread("start")
  /\ isConnected' = TRUE
  /\ qpc' = "top"
  /\ UNCHANGED <<bContinue, isQueryMode, resSB, commands, messagesQueue, cur,
                 pc>>

LoopTop ==
  /\ QueueThread("top")
  /\ IF bContinue
     THEN qpc' = "waited" /\ UNCHANGED <<isConnected, cur>>
     ELSE EndQueueThread
  /\ UNCHANGED <<bContinue, isQueryMode, resSB, commands, messagesQueue, pc>>

\* After _monitor.wait(4).
Woken ==
  /\ QueueThread("waited")
  /\ qpc' = IF bContinue THEN "drain" ELSE "dead"
  /\ UNCHANGED <<bContinue, mngrVars, commands, messagesQueue, cur, pc>>

\* Mutant: the newest frame is polled first.
TakeFrame_Newest ==
  /\ QueueThread("drain")
  /\ LET n == Len(messagesQueue) IN
     IF n = 0
     THEN qpc' = "refresh" /\ UNCHANGED <<messagesQueue, cur>>
     ELSE IF ~bContinue
     THEN qpc' = "dead" /\ UNCHANGED <<messagesQueue, cur>>
     ELSE /\ cur' = messagesQueue[n]
          /\ messagesQueue' = SubSeq(messagesQueue, 1, n - 1)
          /\ qpc' = "handle"
  /\ UNCHANGED <<bContinue, mngrVars, commands, pc>>

TakeFrame ==
  /\ QueueThread("drain")
  /\ IF messagesQueue = << >>
     THEN qpc' = "refresh" /\ UNCHANGED <<messagesQueue, cur>>
     ELSE IF ~bContinue
     THEN qpc' = "dead" /\ UNCHANGED <<messagesQueue, cur>>
     ELSE /\ cur' = Head(messagesQueue)
          /\ messagesQueue' = Tail(messagesQueue)
          /\ qpc' = "handle"
  /\ UNCHANGED <<bContinue, mngrVars, commands, pc>>

\* Mutant: the state of the socket is not looked at.
Refresh_Blind ==
  /\ QueueThread("refresh")
  /\ qpc' = "top"
  /\ UNCHANGED <<bContinue, mngrVars, commands, messagesQueue, cur, pc>>

\* bContinue = sockClient.bContinue
Refresh ==
  /\ QueueThread("refresh")
  /\ IF sockClient = "null"
     THEN EndQueueThread /\ UNCHANGED bContinue
     ELSE /\ bContinue' = (sockClient = "open")
          /\ qpc' = "top"
          /\ UNCHANGED <<isConnected, cur>>
  /\ UNCHANGED <<isQueryMode, resSB, commands, messagesQueue, pc>>

\* DecodeMessage goes on with the next frame.
LeaveFrame == qpc' = "drain" /\ cur' = NoCommand

\* OnMultiPurpDataCallback.  Without bContinue the frame is dropped.
DropFrame ==
  /\ QueueThread("handle")
  /\ ~bContinue
  /\ pc' = Notified
  /\ LeaveFrame
  /\ UNCHANGED <<bContinue, mngrVars, commands, messagesQueue>>

\* Mutant: the type of the frame is not looked at, a prompt is text too.
HandleData_AnyType ==
  /\ QueueThread("handle")
  /\ bContinue
  /\ qpc' = IF commands[cur.id] = NoCommand THEN "mode" ELSE "append"
  /\ UNCHANGED <<bContinue, mngrVars, commands, messagesQueue, cur, pc>>

HandleData ==
  /\ QueueThread("handle")
  /\ bContinue
  /\ cur.type \in {"DATA", "ERROR"}
  /\ qpc' = IF commands[cur.id] = NoCommand THEN "mode" ELSE "append"
  /\ UNCHANGED <<bContinue, mngrVars, commands, messagesQueue, cur, pc>>

\* Mutant: the frame goes to every pending command, whatever its id.
AppendData_AnyId ==
  /\ QueueThread("append")
  /\ commands' = [i \in Ids |->
                    IF commands[i] = NoCommand THEN NoCommand
                    ELSE [commands[i] EXCEPT !.text = Append(@, cur.piece)]]
  /\ qpc' = "mode"
  /\ UNCHANGED <<bContinue, mngrVars, messagesQueue, cur, pc>>

\* Mutant: the frame is inserted at the front of the text.
AppendData_Front ==
  /\ QueueThread("append")
  /\ IF commands[cur.id] = NoCommand
     THEN LeaveFrame /\ UNCHANGED commands
     ELSE /\ commands' = [commands EXCEPT
                           ![cur.id].text = << cur.piece >> \o @]
          /\ qpc' = "mode"
          /\ UNCHANGED cur
  /\ UNCHANGED <<bContinue, mngrVars, messagesQueue, pc>>

\* The entry may be gone since it was looked up: DecodeMessage catches the
\* exception, and the rest of the callback does not run.
AppendData ==
  /\ QueueThread("append")
  /\ IF commands[cur.id] = NoCommand
     THEN LeaveFrame /\ UNCHANGED commands
     ELSE /\ commands' = [commands EXCEPT
                           ![cur.id].text = Append(@, cur.piece)]
          /\ qpc' = "mode"
          /\ UNCHANGED cur
  /\ UNCHANGED <<bContinue, mngrVars, messagesQueue, pc>>

DataInQueryMode ==
  /\ QueueThread("mode")
  /\ IF isQueryMode THEN qpc' = "store" /\ UNCHANGED cur ELSE LeaveFrame
  /\ UNCHANGED <<bContinue, mngrVars, commands, messagesQueue, pc>>

\* Whatever has become of the query since: resSB may be the next one's.
StoreData ==
  /\ QueueThread("store")
  /\ resSB' = Append(resSB, cur.piece)
  /\ LeaveFrame
  /\ UNCHANGED <<bContinue, isConnected, isQueryMode, commands,
                 messagesQueue, pc>>

\* Mutant: the prompt does not end the query mode.
HandlePrompt_KeepMode ==
  /\ QueueThread("handle")
  /\ bContinue
  /\ cur.type = "PROMPT"
  /\ qpc' = "pending"
  /\ UNCHANGED <<bContinue, mngrVars, commands, messagesQueue, cur, pc>>

\* A prompt ends the query mode, whatever command it belongs to.
HandlePrompt ==
  /\ QueueThread("handle")
  /\ bContinue
  /\ cur.type = "PROMPT"
  /\ isQueryMode' = FALSE
  /\ qpc' = IF isQueryMode THEN "notify" ELSE "pending"
  /\ UNCHANGED <<bContinue, isConnected, resSB, commands, messagesQueue,
                 cur, pc>>

\* Mutant: nobody is notified.
NotifyQuery_Nobody ==
  /\ QueueThread("notify")
  /\ qpc' = "pending"
  /\ UNCHANGED <<bContinue, mngrVars, commands, messagesQueue, cur, pc>>

NotifyQuery ==
  /\ QueueThread("notify")
  /\ pc' = Notified
  /\ qpc' = "pending"
  /\ UNCHANGED <<bContinue, mngrVars, commands, messagesQueue, cur>>

PromptPending ==
  /\ QueueThread("pending")
  /\ IF commands[cur.id] = NoCommand
     THEN qpc' = "drain" /\ cur' = NoCommand
     ELSE qpc' = "setDone" /\ UNCHANGED cur
  /\ UNCHANGED <<bContinue, mngrVars, commands, messagesQueue, pc>>

SetDone ==
  /\ QueueThread("setDone")
  /\ commands' = IF commands[cur.id] = NoCommand THEN commands
                 ELSE [commands EXCEPT ![cur.id].done = TRUE]
  /\ LeaveFrame
  /\ UNCHANGED <<bContinue, mngrVars, messagesQueue, pc>>

-----------------------------------------------------------------------------
(* The socket reader thread of MCJSocketClient *)

ReadBuffer ==
  /\ sockClient = "open"
  /\ wire # << >>
  /\ messagesQueue' = Append(messagesQueue, Head(wire))
  /\ wire' = Tail(wire)
  /\ UNCHANGED <<bContinue, mngrVars, commands, sockClient, mcUp, requests,
                 qpc, cur, pc, ret>>

\* read() returns -1, copyOf throws, MCJSocketClient.Disconnect
EndOfStream ==
  /\ sockClient = "open"
  /\ wire = << >>
  /\ ~mcUp
  /\ sockClient' = "down"
  /\ UNCHANGED <<bContinue, mngrVars, commands, netVars, queueVars, pc, ret>>

-----------------------------------------------------------------------------
(* External: the MC.  Commands with one id are answered in order.  A reply  *)
(* is on the wire at once, but the end of the connection may cut it.       *)

MCReply ==
  \E k \in 1..Len(requests), last \in {"DATA", "ERROR"} :
    /\ mcUp
    /\ \A j \in 1..(k - 1) : IdOf[requests[j]] # IdOf[requests[k]]
    /\ wire' = wire \o Reply(requests[k], last)
    /\ requests' = SubSeq(requests, 1, k - 1)
                     \o SubSeq(requests, k + 1, Len(requests))
    /\ UNCHANGED <<bContinue, mngrVars, commands, sockClient, mcUp,
                   queueVars, pc, ret>>

\* What has not left the MC is lost.
MCClose ==
  \E n \in 0..Len(wire) :
    /\ mcUp
    /\ mcUp' = FALSE
    /\ requests' = << >>
    /\ wire' = SubSeq(wire, 1, n)
    /\ UNCHANGED <<bContinue, mngrVars, commands, sockClient, queueVars, pc,
                   ret>>

-----------------------------------------------------------------------------

SyncedStep(t) ==
  \/ Begin(t) \/ Put(t) \/ ResetDone(t) \/ SendSynced(t) \/ WriteSynced(t)
  \/ Poll(t) \/ IsDone(t) \/ After(t) \/ Take(t) \/ Remove(t)

QueryStep(t) == \/ QueryMC(t) \/ SendQuery(t) \/ WriteQuery(t) \/ WaitQuery(t)
                \/ ReturnQuery(t)

CloseStep(t) == \/ Disconnect(t) \/ AwaitQuery(t) \/ EndQuery(t)
                \/ CloseSocket(t) \/ DropSocket(t)

QueueStep ==
  \/ StartQueueThread \/ LoopTop \/ Woken \/ TakeFrame \/ Refresh
  \/ DropFrame \/ HandleData \/ AppendData \/ DataInQueryMode \/ StoreData
  \/ HandlePrompt \/ NotifyQuery \/ PromptPending \/ SetDone

ReaderStep == ReadBuffer \/ EndOfStream

Next ==
  \/ \E t \in Threads : SyncedStep(t)
  \/ \E t \in Threads : QueryStep(t)
  \/ \E t \in Threads : BeginDisconnect(t)
  \/ \E t \in Threads : CloseStep(t)
  \/ QueueStep
  \/ ReaderStep
  \/ MCReply
  \/ MCClose

Spec == Init /\ [][Next]_vars

\* The JVM schedules every thread, the MC answers every command it holds
\* while the connection is up.  Nobody has to start a query or a disconnect,
\* and the MC never has to close; but a queue thread that ends with the
\* socket open makes OnConnectionStateChangeCallback start a disconnect.
Fairness ==
  /\ \A t \in Threads : /\ WF_vars(SyncedStep(t))
                        /\ WF_vars(QueryStep(t))
                        /\ WF_vars(CloseStep(t))
                        /\ WF_vars(qpc = "dead" /\ BeginDisconnect(t))
  /\ WF_vars(QueueStep)
  /\ WF_vars(ReaderStep)
  /\ WF_vars(MCReply)

FairSpec == Spec /\ Fairness

-----------------------------------------------------------------------------
(* Properties *)

DistinctIds == \A t, u \in Threads : IdOf[t] = IdOf[u] => t = u

\* No thread of MCConnection.disconnect has come to Disconnect.
NoDisconnect ==
  \A t \in Closers \cup Exiting :
    pc[t] \notin {"disc", "dQuery", "dBlocked", "dJoin", "dSleep", "returned"}

\* One type invariant: the fields, the queues and the threads' locations.
TypeOK ==
  /\ bContinue \in BOOLEAN
  /\ isConnected \in BOOLEAN
  /\ isQueryMode \in BOOLEAN
  /\ mcUp \in BOOLEAN
  /\ resSB \in Seq(Threads \X (1..Parts))
  /\ commands \in [Ids -> PendingCommand \cup {NoCommand}]
  /\ messagesQueue \in Seq(Frame)
  /\ sockClient \in {"open", "down", "null"}
  /\ requests \in Seq(Threads)
  /\ wire \in Seq(Frame)
  /\ qpc \in {"start", "top", "waited", "drain", "refresh", "handle", "append",
              "mode", "store", "notify", "pending", "setDone", "dead"}
  /\ cur \in Frame \cup {NoCommand}
  /\ pc \in [Threads -> {"idle", "put", "reset", "send", "write", "poll",
                         "isDone", "after", "take", "remove", "qSend",
                         "qWrite", "qWait", "qBlocked", "qAfter", "disc",
                         "dQuery", "dBlocked", "dJoin", "dSleep", "returned",
                         "npe"}]
  /\ ret \in [Threads -> Seq(Threads \X (1..Parts))]

\* What QueryMCSynced returns was sent in answer to a command with the
\* caller's id, in any interleaving and for any assignment of ids: the map
\* keyed by id is what keeps the replies of concurrent websocket messages
\* apart (MCWebSocketServer.handleMessage runs one thread per message).
ReplyToItsId ==
  \A t \in Synced \cup Exiting : \A k \in 1..Len(ret[t]) :
    IdOf[ret[t][k][1]] = IdOf[t]

\* With one id per query, a query returns pieces of its own reply only, each
\* at most once and in the order sent, even while other threads disconnect
\* the manager and the MC drops the connection.
ReplyInOrder ==
  DistinctIds =>
    \A t \in Synced \cup Exiting :
      /\ \A k \in 1..Len(ret[t]) : ret[t][k][1] = t
      /\ \A j, k \in 1..Len(ret[t]) : j < k => ret[t][j][2] < ret[t][k][2]

\* With one id per query a command is marked done only when its reply is
\* complete, so the polling loop never ends on a half-filled entry.
DoneIsComplete ==
  DistinctIds /\ NoDisconnect =>
    \A t \in Threads :
      commands[IdOf[t]] # NoCommand /\ commands[IdOf[t]].done
        => commands[IdOf[t]].text = Text(t)

\* A query returns its reply or "", never a part of the reply.
WholeOrNothing == \A t \in Threads : ret[t] \in {<< >>, Text(t)}

\* As long as nobody disconnects the manager that is so, also when the MC
\* closes the connection in the middle of the replies.
WholeUntilDisconnect == DistinctIds /\ NoDisconnect => WholeOrNothing

\* A QueryMC returns its reply or "", though the queries of the start-up and
\* the tp_exit of its disconnect all have the id 0, and though a reply that
\* the end of the connection has cut is in resSB.  Only a disconnect by the
\* pool or by the callback of the queue thread is excluded.
QueryIsWhole ==
  (\A u \in Closers : pc[u] = "idle") =>
    \A t \in Querying : ret[t] \in {<< >>, Text(t)}

\* With one id per query the repeated commands.get(id) never throws: not in
\* a caller, whose websocket would get no answer, and not in the queue thread,
\* which would drop the frame.
NoNullEntry ==
  DistinctIds /\ NoDisconnect =>
    /\ \A t \in Synced \cup Exiting : pc[t] # "npe"
    /\ qpc \in {"append", "setDone"} => commands[cur.id] # NoCommand

\* No lost wake-up: while a thread waits in QueryMC, the query mode is still
\* on or the notify is about to come.
NoLostWakeUp ==
  \A t \in Querying : pc[t] = "qBlocked" =>
    \/ isQueryMode
    \/ qpc = "notify"

\* Every query sent is answered or given up, also when the MC closes the
\* connection; no thread polls for ever.
SyncedReturns ==
  \A t \in Synced \cup Exiting :
    pc[t] = "send" ~> pc[t] \in {"returned", "disc", "npe"}

\* A thread that has begun to disconnect releases the socket and ends the
\* queue thread, whatever the other threads and the MC do meanwhile.
DisconnectReleases ==
  \A t \in Closers \cup Exiting :
    pc[t] = "disc" ~> sockClient = "null" /\ qpc = "dead"

\* While the MC keeps the connection and nobody disconnects, QueryMC ends.
QueryReturns ==
  [](mcUp /\ \A u \in Closers \cup Exiting : pc[u] = "idle")
    => \A t \in Querying : pc[t] = "qSend" ~> pc[t] = "returned"

=============================================================================
