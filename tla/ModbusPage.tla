----------------------------- MODULE ModbusPage -----------------------------
(***************************************************************************)
(* The websocket service of the modbus page, with its worker ConnWorker.   *)
(* The page and the worker run by themselves and post messages to each     *)
(* other.  Page actions are the functions of the service and its           *)
(* worker.onmessage; dialogs and the time-out that shows one are left out. *)
(*                                                                         *)
(* The page connects when it is built.  The service also offers repeated   *)
(* requests and clearInterval, and a page may connect again after it was   *)
(* told that its connection is closed.                                     *)
(***************************************************************************)
EXTENDS ConnWorker

VARIABLES
  connected,             \* _isConnected
  socketQueueId,         \* the id of the newest request
  socketQueue,           \* the request whose callback waits under an id
  socketQueueIntervals,  \* ids whose callback is kept after an answer
  sends,                 \* requests made
  connects,              \* how often the page has connected
  live,                  \* connected, and no ONCLOSE handled since
  asked                  \* requests made while connected

queueVars == <<socketQueueId, socketQueue, socketQueueIntervals>>
historyVars == <<sends, connects, live, asked>>
pageVars == <<connected, queueVars, historyVars, idOf>>
vars == <<workerVars, pageVars>>

Init ==
  /\ WorkerInit
  /\ idOf = [r \in Reqs |-> 0]
  /\ connected = FALSE
  /\ socketQueueId = 0
  /\ socketQueue = [i \in Reqs |-> 0]
  /\ socketQueueIntervals = {}
  /\ sends = 0
  /\ connects = 0
  /\ live = FALSE
  /\ asked = {}

\* postMessage to the worker
Ask(kind, r) == inbox' = Append(inbox, <<kind, r>>)

Connect ==
  /\ connects < MaxConnects
  /\ ~live
  /\ live' = TRUE
  /\ connects' = connects + 1
  /\ Ask("connect", 0)
  /\ UNCHANGED <<connVars, netVars, outbox, connected, queueVars, sends,
                 asked, idOf, stopped>>

\* Mutant: an id is used for two requests.
NextId_Same == IF socketQueueId = 0 THEN 1 ELSE socketQueueId

\* ++socketQueueId
NextId == socketQueueId + 1

\* send, with an interval or without
Send(repeated) ==
  /\ sends < MaxSends
  /\ sends' = sends + 1
  /\ socketQueueId' = NextId
  /\ socketQueue' = [socketQueue EXCEPT ![socketQueueId'] = sends']
  /\ socketQueueIntervals' =
       socketQueueIntervals \cup IF repeated THEN {socketQueueId'} ELSE {}
  /\ idOf' = [idOf EXCEPT ![sends'] = socketQueueId']
  /\ asked' = asked \cup IF connected THEN {sends'} ELSE {}
  /\ Ask(IF repeated THEN "interval" ELSE "send", sends')
  /\ UNCHANGED <<connVars, netVars, outbox, connected, connects, live,
                 stopped>>

\* clearInterval, once for a repeated request
ClearInterval(r) ==
  /\ r <= sends
  /\ idOf[r] \in socketQueueIntervals
  /\ <<"stop", r>> \notin {inbox[i] : i \in DOMAIN inbox}
  /\ r \notin stopped
  /\ Ask("stop", r)
  /\ UNCHANGED <<connVars, netVars, outbox, pageVars, stopped>>

-----------------------------------------------------------------------------
(* worker.onmessage *)

Told(kinds) ==
  /\ outbox # << >>
  /\ Head(outbox)[1] \in kinds
  /\ outbox' = Tail(outbox)
  /\ UNCHANGED <<connVars, netVars, idOf, sends, connects, asked, stopped>>

OnOpened ==
  /\ Told({"onopen"})
  /\ connected' = TRUE
  /\ UNCHANGED <<inbox, queueVars, live>>

\* ONERROR and ONCLOSE; reset starts the ids again.
OnEnded ==
  /\ Told({"onerror", "onclose"})
  /\ live' = (live /\ Head(outbox)[1] = "onerror")
  /\ connected' = FALSE
  /\ Ask("reset", 0)
  /\ socketQueueId' = 0
  /\ socketQueue' = [i \in Reqs |-> 0]
  /\ UNCHANGED socketQueueIntervals

\* The TIMEOUT message is not looked at.
OnTimeout ==
  Told({"timeout"}) /\ UNCHANGED <<inbox, connected, queueVars, live>>

\* Mutant: the callback of the newest request is called.
HandleMessage_Newest ==
  /\ Told({"data"})
  /\ socketQueue' = [i \in Reqs |-> IF i = socketQueueId THEN 0
                                    ELSE socketQueue[i]]
  /\ UNCHANGED <<inbox, connected, socketQueueId, socketQueueIntervals, live>>

\* handleMessage: the callback under the id of the answer is called.
HandleMessage ==
  /\ Told({"data"})
  /\ LET id == idOf[Head(outbox)[2]] IN
       socketQueue' = IF id \in socketQueueIntervals THEN socketQueue
                      ELSE [socketQueue EXCEPT ![id] = 0]
  /\ UNCHANGED <<inbox, connected, socketQueueId, socketQueueIntervals, live>>

-----------------------------------------------------------------------------

WorkerStep == WorkerNext /\ UNCHANGED pageVars

PageReads == OnOpened \/ OnEnded \/ OnTimeout \/ HandleMessage

Next ==
  \/ WorkerStep
  \/ PageReads
  \/ Connect
  \/ \E repeated \in BOOLEAN : Send(repeated)
  \/ \E r \in Reqs : ClearInterval(r)

Spec == Init /\ [][Next]_vars

\* Both sides read their messages, timers fire and a closing websocket gets
\* closed.  The server owes nobody an answer.
Fairness ==
  /\ WF_vars(Handle /\ UNCHANGED pageVars)
  /\ WF_vars(PageReads)
  /\ \A r \in Reqs : WF_vars(TimerFires(r) /\ UNCHANGED pageVars)
  /\ \A s \in Sockets :
       /\ WF_vars(PostOpen(s) /\ UNCHANGED pageVars)
       /\ WF_vars(TimeIsUp(s) /\ UNCHANGED pageVars)
       /\ WF_vars(sock[s] = "closing" /\ OnClose(s) /\ UNCHANGED pageVars)

FairSpec == Spec /\ Fairness

-----------------------------------------------------------------------------

Message == ({"connect", "reset", "stop", "send", "interval"} \X (0..MaxSends))
Report == ({"onopen", "onerror", "onclose", "timeout", "data"}
             \X (0..MaxSends))

TypeOK ==
  /\ ws \in Sockets \cup {Null}
  /\ reset \in BOOLEAN
  /\ intervals \in SUBSET Reqs
  /\ timers \in [Reqs -> {"none", "kept", "lost"}]
  /\ opened \in SUBSET Sockets
  /\ watched \in SUBSET Sockets
  /\ sock \in [Sockets -> {"none", "connecting", "open", "closing", "closed"}]
  /\ server \in SUBSET (Sockets \X Reqs)
  /\ idOf \in [Reqs -> 0..MaxSends]
  /\ inbox \in Seq(Message)
  /\ outbox \in Seq(Report)
  /\ stopped \in SUBSET Reqs
  /\ connected \in BOOLEAN
  /\ socketQueueId \in 0..sends
  /\ socketQueue \in [Reqs -> 0..MaxSends]
  /\ socketQueueIntervals \in SUBSET Reqs
  /\ sends \in 0..MaxSends
  /\ connects \in 0..MaxConnects
  /\ live \in BOOLEAN
  /\ asked \in SUBSET Reqs

\* Until the page connects again, the callback that an answer meets is that
\* of its own request, or is gone: ids that a reset starts again are not yet
\* in use when an old answer arrives.
AnswerIsOwn ==
  connects <= 1 /\ outbox # << >> /\ Head(outbox)[1] = "data"
    => LET r == Head(outbox)[2] IN socketQueue[idOf[r]] \in {0, r}

\* Until the page connects again, a repeated request is not sent any more
\* once the worker has handled its STOP INTERVAL.
StoppedIsSilent ==
  [][connects <= 1 => \A s \in Sockets, r \in stopped :
                        <<s, r>> \in server' => <<s, r>> \in server]_vars

\* The page comes to know of every websocket that stays open.
OpenIsKnown ==
  \A s \in Sockets : sock[s] = "open" ~> connected \/ sock[s] # "open"

\* No websocket keeps connecting for ever: the 5000 ms end it.
ConnectingEnds ==
  \A s \in Sockets : sock[s] = "connecting" ~> sock[s] # "connecting"

Waits(r) == idOf[r] # 0 /\ socketQueue[idOf[r]] = r

\* A request made by a page that is connected is answered, unless the server
\* leaves it without an answer (handleMessage returns while the connection is
\* not set up) or its connection ends: neither page nor worker loses it.
QueryAnswered ==
  \A r \in Reqs :
    r \in asked /\ connects <= 1 /\ Waits(r)
      ~> \/ ~Waits(r) \/ ~WsOpen \/ idOf[r] \in socketQueueIntervals
         \/ [](<<ws, r>> \in server)

\* ONOPEN MESSAGE, ONCLOSE MESSAGE: a page that has heard everything does not
\* take a closed connection for an open one.
ConnectedIsOpen ==
  connected /\ inbox = << >> /\ outbox = << >> /\ opened = {} => WsOpen
=============================================================================
