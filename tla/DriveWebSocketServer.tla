------------------------ MODULE DriveWebSocketServer ------------------------
(***************************************************************************)
(* The telnet bridge to the drives: DriveWebSocketServer, the map of       *)
(* DriveConnectionManager and one DriveCommManager per websocket.  The     *)
(* worker threads of the websocket library run onMessage, its selector     *)
(* thread runs onClose, and every DriveCommManager has a watchdog thread   *)
(* that disconnects it when a reply takes too long.                        *)
(*                                                                         *)
(* A websocket's first message is "set_ip", which opens the telnet         *)
(* session; "cmd" stands for an ordinary command and "lua" for one that    *)
(* starts with "lua".  A DriveCommManager is named by the websocket whose  *)
(* set_ip created it.  A message is named by its websocket and its         *)
(* position, and the drive's text up to the prompt by the message it       *)
(* answers.  Rejected tokens and ill-formed messages are left out: they    *)
(* reach no state of the bridge.                                           *)
(***************************************************************************)
EXTENDS Naturals, Sequences

CONSTANTS
  Websockets,
  Workers,     \* worker threads of the library
  WorkerOf,    \* the worker a websocket is bound to
  PortOf,      \* the remote port of a websocket, the key of the map
  AddressLost, \* websockets whose remote address may be null once they close
  Messages,    \* the messages a websocket sends, in order
  Opened, Failed, NoReply,  \* the answers "0", "-1" and "N/A"
  None

ASSUME NamesAssumption ==
  /\ None \notin Websockets \cup Workers
  /\ Opened \notin {Failed, NoReply, None}
  /\ \A a \in {Opened, Failed, NoReply, None} : a \notin Websockets \X Nat
ASSUME WorkerAssumption == WorkerOf \in [Websockets -> Workers]
ASSUME AddressAssumption == AddressLost \subseteq Websockets
ASSUME MessagesAssumption ==
  Messages \in [Websockets -> Seq({"set_ip", "cmd", "lua"})]

Ports == {PortOf[w] : w \in Websockets}

VARIABLES
  connectionMap,  \* port -> manager, or None
  mapLock,        \* worker inside initDriveCommManager, or None
  connected,      \* DriveCommManager.connected
  isSending,      \* DriveCommManager.isSending
  tc,             \* the telnet client: "new", "open", "closed"
  owed,           \* external: what the drive has received, not answered
  in,             \* answers on their way, not yet read
  driveUp,        \* external: the drive holds its side of the session open
  watchdog,       \* "new", "sleep", "late" (the time is up), "dead"
  reading,        \* worker inside readUntil of a manager, or None
  wsState,        \* "open", "closing", "closed"
  sent,           \* messages of a websocket its worker has begun
  answers,        \* answers the client of a websocket was sent
  wpc, ws, conn,  \* per worker: location, websocket, manager
  ans,            \* per worker: the answer to give
  selector, spc   \* selector thread: websocket it closes, location

drives == <<connected, isSending, tc, owed, in, driveUp, watchdog, reading>>
workers == <<wpc, ws, conn, ans>>
clients == <<wsState, sent, answers>>
closing == <<selector, spc>>
vars == <<connectionMap, mapLock, drives, workers, clients, closing>>

Greeting(m) == <<m, 0>>
Texts == (Websockets \X Nat) \cup {None, Opened, Failed, NoReply}

Init ==
  /\ connectionMap = [p \in Ports |-> None]
  /\ mapLock = None
  /\ connected = [m \in Websockets |-> FALSE]
  /\ isSending = [m \in Websockets |-> FALSE]
  /\ tc = [m \in Websockets |-> "new"]
  /\ owed = [m \in Websockets |-> << >>]
  /\ in = [m \in Websockets |-> << >>]
  /\ driveUp = [m \in Websockets |-> FALSE]
  /\ watchdog = [m \in Websockets |-> "new"]
  /\ reading = [m \in Websockets |-> None]
  /\ wsState = [w \in Websockets |-> "open"]
  /\ sent = [w \in Websockets |-> 0]
  /\ answers = [w \in Websockets |-> << >>]
  /\ wpc = [k \in Workers |-> "idle"]
  /\ ws = [k \in Workers |-> None]
  /\ conn = [k \in Workers |-> None]
  /\ ans = [k \in Workers |-> None]
  /\ selector = None
  /\ spc = "idle"

-----------------------------------------------------------------------------
(* DriveCommManager *)

\* disconnect(): connected = false, tc.disconnect()
Disconnect(m) ==
  /\ connected' = [connected EXCEPT ![m] = FALSE]
  /\ tc' = [tc EXCEPT ![m] = "closed"]

\* read() has nothing more to return: the socket is closed on either side.
EndOfStream(m) == tc[m] = "closed" \/ (in[m] = << >> /\ ~driveUp[m])

\* What the telnet client has received stays readable when it is closed.
Prompted(m) == in[m] # << >>

Goto(k, l) == wpc' = [wpc EXCEPT ![k] = l]
Give(k, a) == ans' = [ans EXCEPT ![k] = a]
Kind(k) == Messages[ws[k]][sent[ws[k]]]
Message(k) == <<ws[k], sent[ws[k]]>>

\* Mutant: the time is never up.
WatchdogLooks_Blind(m) ==
  /\ watchdog[m] = "sleep"
  /\ ~connected[m]
  /\ watchdog' = [watchdog EXCEPT ![m] = "dead"]
  /\ UNCHANGED <<connectionMap, mapLock, connected, isSending, tc, owed, in,
                 driveUp, reading, workers, clients, closing>>

\* while (connected) if (isSending && the time is up): how long a reply
\* takes is left open.
WatchdogLooks(m) ==
  /\ watchdog[m] = "sleep"
  /\ \/ /\ ~connected[m]
        /\ watchdog' = [watchdog EXCEPT ![m] = "dead"]
     \/ /\ connected[m] /\ isSending[m]
        /\ watchdog' = [watchdog EXCEPT ![m] = "late"]
  /\ UNCHANGED <<connectionMap, mapLock, connected, isSending, tc, owed, in,
                 driveUp, reading, workers, clients, closing>>

\* The reply may have come since; the session is closed all the same.
WatchdogFires(m) ==
  /\ watchdog[m] = "late"
  /\ Disconnect(m)
  /\ watchdog' = [watchdog EXCEPT ![m] = "sleep"]
  /\ UNCHANGED <<connectionMap, mapLock, isSending, owed, in, driveUp,
                 reading, workers, clients, closing>>

-----------------------------------------------------------------------------
(* onMessage, on the worker of the websocket *)

TakeMessage(k) ==
  /\ wpc[k] = "idle"
  /\ \E w \in Websockets :
       /\ WorkerOf[w] = k
       /\ wsState[w] = "open"
       /\ sent[w] < Len(Messages[w])
       /\ sent' = [sent EXCEPT ![w] = @ + 1]
       /\ ws' = [ws EXCEPT ![k] = w]
  /\ Give(k, None)
  /\ Goto(k, "lookup")
  /\ UNCHANGED <<connectionMap, mapLock, drives, conn, wsState, answers,
                 closing>>

\* ws.getRemoteSocketAddress() == null: closeConnection has closed the channel.
MayLose(w) == w \in AddressLost /\ (selector = w \/ wsState[w] = "closed")

\* Mutant: a command uses the manager without looking whether there is one.
LookupConn_NoNullCheck(k) ==
  /\ wpc[k] = "lookup"
  /\ mapLock = None
  /\ LET m == connectionMap[PortOf[ws[k]]] IN
       /\ conn' = [conn EXCEPT ![k] = m]
       /\ Goto(k, IF Kind(k) = "set_ip"
                  THEN IF m = None THEN "init" ELSE "answer" ELSE "send")
  /\ UNCHANGED <<connectionMap, mapLock, drives, ws, ans, clients, closing>>

\* getDriveCommManager(ws).  A set_ip that finds a manager does nothing more.
LookupConn(k) ==
  /\ wpc[k] = "lookup"
  /\ mapLock = None
  /\ LET m == connectionMap[PortOf[ws[k]]] IN
       /\ conn' = [conn EXCEPT ![k] = m]
       /\ Goto(k, IF Kind(k) = "set_ip"
                  THEN IF m = None THEN "init" ELSE "answer"
                  ELSE IF m = None THEN "answer" ELSE "send")
  /\ UNCHANGED <<connectionMap, mapLock, drives, ws, ans, clients, closing>>

\* Without an address getDriveCommManager(ws) throws, and nobody is answered.
LookupThrows(k) ==
  /\ wpc[k] = "lookup"
  /\ mapLock = None
  /\ MayLose(ws[k])
  /\ Goto(k, "idle")
  /\ UNCHANGED <<connectionMap, mapLock, drives, ws, conn, ans, clients,
                 closing>>

\* initDriveCommManager: the map stays locked until the drive has greeted.
ConnectDrive(k) ==
  /\ wpc[k] = "init"
  /\ mapLock = None
  /\ mapLock' = k
  /\ LET m == ws[k] IN
       /\ conn' = [conn EXCEPT ![k] = m]
       /\ connected' = [connected EXCEPT ![m] = TRUE]
       /\ tc' = [tc EXCEPT ![m] = "open"]
       /\ driveUp' = [driveUp EXCEPT ![m] = TRUE]
       /\ owed' = [owed EXCEPT ![m] = << Greeting(m) >>]
       /\ in' = [in EXCEPT ![m] = << >>]
       /\ watchdog' = [watchdog EXCEPT ![m] = "sleep"]
       /\ isSending' = [isSending EXCEPT ![m] = TRUE]
  /\ Goto(k, "greet")
  /\ UNCHANGED <<connectionMap, reading, ws, ans, clients, closing>>

ConnectFails(k) ==
  /\ wpc[k] = "init"
  /\ mapLock = None
  /\ mapLock' = k
  /\ Goto(k, "close")
  /\ UNCHANGED <<connectionMap, drives, ws, conn, ans, clients, closing>>

Greeted(k) ==
  LET m == conn[k] IN
  /\ wpc[k] = "greet"
  /\ Prompted(m)
  /\ in' = [in EXCEPT ![m] = Tail(@)]
  /\ isSending' = [isSending EXCEPT ![m] = FALSE]
  /\ connectionMap' = [connectionMap EXCEPT ![PortOf[ws[k]]] = m]
  /\ mapLock' = None
  /\ Give(k, Opened)
  /\ Goto(k, "answer")
  /\ UNCHANGED <<connected, tc, owed, driveUp, watchdog, reading, ws, conn,
                 clients, closing>>

\* Without an address the manager gets no place in the map.
PutThrows(k) ==
  LET m == conn[k] IN
  /\ wpc[k] = "greet"
  /\ Prompted(m)
  /\ MayLose(ws[k])
  /\ in' = [in EXCEPT ![m] = Tail(@)]
  /\ isSending' = [isSending EXCEPT ![m] = FALSE]
  /\ mapLock' = None
  /\ Goto(k, "idle")
  /\ UNCHANGED <<connectionMap, connected, tc, owed, driveUp, watchdog,
                 reading, ws, conn, ans, clients, closing>>

\* The IOException of readUntil ends connect with false; isSending stays on.
GreetingFails(k) ==
  /\ wpc[k] = "greet"
  /\ EndOfStream(conn[k])
  /\ Disconnect(conn[k])
  /\ Goto(k, "close")
  /\ UNCHANGED <<connectionMap, mapLock, isSending, owed, in, driveUp,
                 watchdog, reading, ws, conn, ans, clients, closing>>

\* ws.close() is synchronized on the websocket, as is the close under way.
CloseWebsocket(k) ==
  /\ wpc[k] = "close"
  /\ selector # ws[k]
  /\ wsState' = [wsState EXCEPT ![ws[k]] = IF @ = "open" THEN "closing" ELSE @]
  /\ mapLock' = None
  /\ Give(k, Failed)
  /\ Goto(k, "answer")
  /\ UNCHANGED <<connectionMap, drives, ws, conn, sent, answers, closing>>

\* send: without a connection the answer is empty.
Send(k) ==
  /\ wpc[k] = "send"
  /\ Goto(k, IF connected[conn[k]] THEN "write" ELSE "answer")
  /\ UNCHANGED <<connectionMap, mapLock, drives, ws, conn, ans, clients,
                 closing>>

\* A PrintStream throws nothing when the socket is closed.
Write(k) ==
  LET m == conn[k] IN
  /\ wpc[k] = "write"
  /\ reading[m] = None
  /\ owed' = IF tc[m] = "open" /\ driveUp[m]
             THEN [owed EXCEPT ![m] = Append(@, Message(k))] ELSE owed
  /\ Goto(k, IF Kind(k) = "lua" THEN "lua" ELSE "wait")
  /\ UNCHANGED <<connectionMap, mapLock, connected, isSending, tc, in,
                 driveUp, watchdog, reading, ws, conn, ans, clients, closing>>

\* readUntil is synchronized on the manager.
BeginRead(k) ==
  LET m == conn[k] IN
  /\ wpc[k] = "wait"
  /\ reading[m] = None
  /\ reading' = [reading EXCEPT ![m] = k]
  /\ isSending' = [isSending EXCEPT ![m] = TRUE]
  /\ Goto(k, "read")
  /\ UNCHANGED <<connectionMap, mapLock, connected, tc, owed, in, driveUp,
                 watchdog, ws, conn, ans, clients, closing>>

ReadPrompt(k) ==
  LET m == conn[k] IN
  /\ wpc[k] = "read"
  /\ Prompted(m)
  /\ Give(k, Head(in[m]))
  /\ in' = [in EXCEPT ![m] = Tail(@)]
  /\ isSending' = [isSending EXCEPT ![m] = FALSE]
  /\ reading' = [reading EXCEPT ![m] = None]
  /\ Goto(k, "answer")
  /\ UNCHANGED <<connectionMap, mapLock, connected, tc, owed, driveUp,
                 watchdog, ws, conn, clients, closing>>

\* Mutant: the session is kept when the reply does not come.
ReadFails_KeepSession(k) ==
  LET m == conn[k] IN
  /\ wpc[k] = "read"
  /\ EndOfStream(m) \/ watchdog[m] = "late"
  /\ reading' = [reading EXCEPT ![m] = None]
  /\ Give(k, NoReply)
  /\ Goto(k, "answer")
  /\ UNCHANGED <<connectionMap, mapLock, connected, tc, isSending, owed, in,
                 driveUp, watchdog, ws, conn, clients, closing>>

ReadFails(k) ==
  LET m == conn[k] IN
  /\ wpc[k] = "read"
  /\ EndOfStream(m)
  /\ Disconnect(m)
  /\ reading' = [reading EXCEPT ![m] = None]
  /\ Give(k, NoReply)
  /\ Goto(k, "answer")
  /\ UNCHANGED <<connectionMap, mapLock, isSending, owed, in, driveUp,
                 watchdog, ws, conn, clients, closing>>

\* handleLua: what the drive prints goes to the manager's websocket, and the
\* answer is the command itself.  No watchdog looks after it.
ReadLua(k) ==
  LET m == conn[k] IN
  /\ wpc[k] = "lua"
  /\ Prompted(m)
  /\ answers' = IF wsState[m] # "open" THEN answers
                ELSE [answers EXCEPT ![m] =
                        Append(@, [to |-> Message(k), text |-> Head(in[m])])]
  /\ in' = [in EXCEPT ![m] = Tail(@)]
  /\ Give(k, Message(k))
  /\ Goto(k, "answer")
  /\ UNCHANGED <<connectionMap, mapLock, connected, isSending, tc, owed,
                 driveUp, watchdog, reading, ws, conn, wsState, sent, closing>>

LuaFails(k) ==
  /\ wpc[k] = "lua"
  /\ EndOfStream(conn[k])
  /\ Disconnect(conn[k])
  /\ Give(k, Message(k))
  /\ Goto(k, "answer")
  /\ UNCHANGED <<connectionMap, mapLock, isSending, owed, in, driveUp,
                 watchdog, reading, ws, conn, clients, closing>>

Answer(k) ==
  /\ wpc[k] = "answer"
  /\ answers' = IF wsState[ws[k]] # "open" THEN answers
                ELSE [answers EXCEPT ![ws[k]] =
                        Append(@, [to |-> Message(k), text |-> ans[k]])]
  /\ Goto(k, "idle")
  /\ UNCHANGED <<connectionMap, mapLock, drives, ws, conn, ans, wsState, sent,
                 closing>>

-----------------------------------------------------------------------------
(* onClose, on the selector thread, which holds the websocket's monitor *)

CloseConnection(w) ==
  /\ selector = None
  /\ wsState[w] # "closed"
  /\ wsState' = [wsState EXCEPT ![w] = "closing"]
  /\ selector' = w
  /\ spc' = "lookup"
  /\ UNCHANGED <<connectionMap, mapLock, drives, workers, sent, answers>>

EndClose ==
  /\ selector' = None
  /\ spc' = "idle"
  /\ wsState' = [wsState EXCEPT ![selector] = "closed"]

\* Without an address the manager is not looked for.
SkipClose ==
  /\ spc = "lookup"
  /\ MayLose(selector)
  /\ EndClose
  /\ UNCHANGED <<connectionMap, mapLock, drives, workers, sent, answers>>

LookupClose ==
  /\ spc = "lookup"
  /\ mapLock = None
  /\ IF connectionMap[PortOf[selector]] = None
     THEN EndClose
     ELSE spc' = "disconnect" /\ UNCHANGED <<selector, wsState>>
  /\ UNCHANGED <<connectionMap, mapLock, drives, workers, sent, answers>>

\* Mutant: the manager is removed from the map and not disconnected.
DisconnectClose_RemoveOnly ==
  /\ spc = "disconnect"
  /\ connectionMap' = [connectionMap EXCEPT ![PortOf[selector]] = None]
  /\ EndClose
  /\ UNCHANGED <<mapLock, drives, workers, sent, answers>>

\* The manager stays in the map.
DisconnectClose ==
  /\ spc = "disconnect"
  /\ Disconnect(connectionMap[PortOf[selector]])
  /\ EndClose
  /\ UNCHANGED <<connectionMap, mapLock, isSending, owed, in, driveUp,
                 watchdog, reading, workers, sent, answers>>

-----------------------------------------------------------------------------
(* External: the drive *)

DriveReplies(m) ==
  /\ driveUp[m] /\ tc[m] = "open" /\ owed[m] # << >>
  /\ in' = [in EXCEPT ![m] = Append(@, Head(owed[m]))]
  /\ owed' = [owed EXCEPT ![m] = Tail(@)]
  /\ UNCHANGED <<connectionMap, mapLock, connected, isSending, tc, driveUp,
                 watchdog, reading, workers, clients, closing>>

DriveCloses(m) ==
  /\ driveUp[m]
  /\ driveUp' = [driveUp EXCEPT ![m] = FALSE]
  /\ UNCHANGED <<connectionMap, mapLock, connected, isSending, tc, owed, in,
                 watchdog, reading, workers, clients, closing>>

-----------------------------------------------------------------------------

WorkerStep(k) ==
  \/ TakeMessage(k) \/ LookupConn(k) \/ LookupThrows(k)
  \/ ConnectDrive(k) \/ ConnectFails(k)
  \/ Greeted(k) \/ PutThrows(k) \/ GreetingFails(k) \/ CloseWebsocket(k)
  \/ Send(k) \/ Write(k) \/ BeginRead(k) \/ ReadPrompt(k) \/ ReadFails(k)
  \/ ReadLua(k) \/ LuaFails(k) \/ Answer(k)

SelectorStep == SkipClose \/ LookupClose \/ DisconnectClose

WatchdogStep(m) == WatchdogLooks(m) \/ WatchdogFires(m)

Next ==
  \/ \E k \in Workers : WorkerStep(k)
  \/ \E w \in Websockets : CloseConnection(w)
  \/ SelectorStep
  \/ \E m \in Websockets : WatchdogStep(m) \/ DriveReplies(m) \/ DriveCloses(m)

Spec == Init /\ [][Next]_vars

\* The JVM schedules every thread.  The drive owes nobody an answer, and no
\* client has to close its websocket.
Fairness ==
  /\ \A k \in Workers : WF_vars(WorkerStep(k))
  /\ WF_vars(SelectorStep)
  /\ \A m \in Websockets : WF_vars(WatchdogStep(m))

FairSpec == Spec /\ Fairness

-----------------------------------------------------------------------------
(* Properties *)

\* One type invariant; a worker past the lookup has a manager to work with.
TypeOK ==
  /\ connectionMap \in [Ports -> Websockets \cup {None}]
  /\ mapLock \in Workers \cup {None}
  /\ connected \in [Websockets -> BOOLEAN]
  /\ isSending \in [Websockets -> BOOLEAN]
  /\ tc \in [Websockets -> {"new", "open", "closed"}]
  /\ owed \in [Websockets -> Seq(Websockets \X Nat)]
  /\ in \in [Websockets -> Seq(Websockets \X Nat)]
  /\ driveUp \in [Websockets -> BOOLEAN]
  /\ watchdog \in [Websockets -> {"new", "sleep", "late", "dead"}]
  /\ reading \in [Websockets -> Workers \cup {None}]
  /\ wsState \in [Websockets -> {"open", "closing", "closed"}]
  /\ sent \in [Websockets -> Nat]
  /\ answers \in [Websockets -> Seq([to : Websockets \X Nat, text : Texts])]
  /\ wpc \in [Workers -> {"idle", "lookup", "init", "greet", "close", "send",
                          "write", "wait", "read", "lua", "answer"}]
  /\ ws \in [Workers -> Websockets \cup {None}]
  /\ conn \in [Workers -> Websockets \cup {None}]
  /\ ans \in [Workers -> Texts]
  /\ selector \in Websockets \cup {None}
  /\ spc \in {"idle", "lookup", "disconnect"}
  /\ \A k \in Workers :
       /\ wpc[k] # "idle" => ws[k] # None
       /\ wpc[k] \in {"greet", "send", "write", "wait", "read", "lua"}
            => conn[k] # None

\* Websockets have ports of their own: the map's key tells them apart.
DistinctPorts == \A v, w \in Websockets : PortOf[v] = PortOf[w] => v = w

\* The text a client receives for a command is what the drive printed for
\* this command, whatever replies came too late for the watchdog before and
\* whatever other websockets do.
AnswerIsOwn ==
  DistinctPorts =>
    \A w \in Websockets : \A i \in 1..Len(answers[w]) :
      answers[w][i].text \in Websockets \X Nat
        => answers[w][i].text = answers[w][i].to

Told(w, a) == \E i \in 1..Len(answers[w]) : answers[w][i].text = a

\* A client that was told its session is open leaves none behind when its
\* websocket is closed, unless its remote address is gone by then: the drive
\* accepts few telnet sessions.
SessionReleased ==
  DistinctPorts =>
    \A w \in Websockets \ AddressLost :
      wsState[w] = "closed" /\ Told(w, Opened)
        => tc[w] = "closed" /\ ~connected[w]

\* No websocket closes while its worker is inside initDriveCommManager.
NoCloseInSetIp ==
  \A k \in Workers : wpc[k] \in {"init", "greet", "close"} => selector # ws[k]

\* onMessage ends although the drive may never answer, greet or close: the
\* watchdog ends every read of a command, and with it the lock on the map
\* that other workers and the selector thread wait for.
CommandEnds ==
  []NoCloseInSetIp =>
    \A k \in Workers :
      wpc[k] = "lookup" /\ Kind(k) # "lua" ~> wpc[k] = "idle"

=============================================================================
