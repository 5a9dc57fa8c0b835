------------------------ MODULE MCConnectionManager ------------------------
(***************************************************************************)
(* The pool of entry stations (com/servotronix/mcwebserver):               *)
(* MCConnectionManager with its connectionMap, one MCConnection per        *)
(* websocket, and the callbacks of MCWebSocketServer and of MCJCommManager *)
(* that open, look up, check and close them.                               *)
(*                                                                         *)
(* Every websocket w has an open thread (started by onOpen), a close       *)
(* thread (the library's, in WebSocketImpl.closeConnection, which holds    *)
(* the monitor of w while it calls onClose) and, once connected, the       *)
(* threads of its MCJCommManager.  The connection of w is named w.  The    *)
(* start-up of MCServer connects too, without a websocket.                 *)
(*                                                                         *)
(* From MCJCommManager this module takes that Disconnect closes the socket *)
(* and that a lost socket ends the queue thread: DisconnectReleases there. *)
(***************************************************************************)
EXTENDS Naturals, FiniteSets

CONSTANTS
  Clients,      \* websockets
  Boots,        \* the start-up thread: a set with at most one element
  KeyOf,        \* remote port of a websocket; -1 for the start-up thread
  N,            \* number of entry stations (ports 5001 to 5005)
  AddressLost,  \* websockets whose remote address may be null once they close
  None          \* connectionMap.get(key) == null, no target

Owners == Clients \cup Boots
Keys == {KeyOf[o] : o \in Owners}

ASSUME ClientsAssumption == Clients \cap Boots = {}
ASSUME BootsAssumption ==
  \A b \in Boots : \A o \in Owners : KeyOf[o] = KeyOf[b] => o = b
ASSUME NAssumption == N \in Nat
ASSUME AddressAssumption == AddressLost \subseteq Clients
ASSUME NoneAssumption == None \notin Owners
ASSUME ThreadsAssumption ==
  \A o \in Owners : None \notin {<<"open", o>>, <<"close", o>>}

VARIABLES
  wsState,        \* ready state of a websocket
  code,           \* how its closing began: by the client or with a code
  opc, scan,      \* open threads: location, next station to try
  cpc, target,    \* close threads: location, connection being closed,
  visited, cme,   \*   keys seen by a check, checks whose map has changed
  lock,           \* the thread inside a synchronized method that takes time
  connectionMap,  \* key -> connection, or None
  es, station,    \* connections: state of the socket, station it occupies
  ending,         \* connections with a "MCConn Disconnect" thread to run
  cb              \* OnConnectionStateChangeCallback: location

wsVars == <<wsState, code>>
closeVars == <<cpc, target, visited>>
esVars == <<es, station>>
vars == <<wsVars, opc, scan, closeVars, cme, lock, connectionMap, esVars,
          ending, cb>>

Codes == {"none", "client", "4000", "4002", "4003", "1000", "1006"}

-----------------------------------------------------------------------------

Opener(o) == <<"open", o>>
Closer(w) == <<"close", w>>

WsOpen(c) == c \in Clients /\ wsState[c] = "open"
EsUp(c) == es[c] \in {"open", "dropped"}       \* mngr.isConnected()
Busy(s) == \E o \in Owners : station[o] = s

\* A synchronized method of a websocket waits while onClose runs, unless it
\* is called by the thread that runs it.
MonitorFree(w) == cpc[w] \in {"idle", "done"}
Waits(w, v) == v # w /\ ~MonitorFree(v)

\* ws.getRemoteSocketAddress() == null
MayLose(o) == o \in AddressLost /\ cpc[o] # "idle"

\* Mutant: only two closed ends are a valid state.
Test_BothClosed(c) == ~WsOpen(c) /\ ~EsUp(c)

\* MCConnection.test
Test(c) == WsOpen(c) <=> EsUp(c)

\* ws.close(reason): only an open websocket starts to close.
CloseWs(c, reason) ==
  IF WsOpen(c)
  THEN /\ wsState' = [wsState EXCEPT ![c] = "closing"]
       /\ code' = [code EXCEPT ![c] = reason]
  ELSE UNCHANGED wsVars

\* connectionMap.values().remove(c)
Without(c) == [k \in Keys |-> IF connectionMap[k] = c THEN None
                              ELSE connectionMap[k]]

\* A check that does not hold the lock fails when the map has changed.
SetMap(map) ==
  /\ connectionMap' = map
  /\ cme' = IF map = connectionMap THEN cme
            ELSE cme \cup {w \in Clients : /\ cpc[w] = "check"
                                           /\ lock # Closer(w)}

Init ==
  /\ wsState = [w \in Clients |-> "none"]
  /\ code = [w \in Clients |-> "none"]
  /\ opc = [o \in Owners |-> IF o \in Boots THEN "init" ELSE "idle"]
  /\ scan = [o \in Owners |-> 1]
  /\ cpc = [w \in Clients |-> "idle"]
  /\ target = [w \in Clients |-> None]
  /\ visited = [w \in Clients |-> {}]
  /\ cme = {}
  /\ lock = None
  /\ connectionMap = [k \in Keys |-> None]
  /\ es = [o \in Owners |-> "none"]
  /\ station = [o \in Owners |-> 0]
  /\ ending = {}
  /\ cb = [o \in Owners |-> "none"]

-----------------------------------------------------------------------------
(* onOpen, its thread, and initMCConnection *)

OpenGoto(o, l) == opc' = [opc EXCEPT ![o] = l]

OnOpen(w) ==
  /\ wsState[w] = "none"
  /\ wsState' = [wsState EXCEPT ![w] = "open"]
  /\ OpenGoto(w, "get")
  /\ UNCHANGED <<code, scan, closeVars, cme, lock, connectionMap, esVars,
                 ending, cb>>

GetMCConnection(w) ==
  /\ opc[w] = "get"
  /\ lock = None
  /\ \/ OpenGoto(w, IF connectionMap[KeyOf[w]] = None THEN "init"
                    ELSE "exists")
     \/ MayLose(w) /\ OpenGoto(w, "init")
  /\ UNCHANGED <<wsVars, scan, closeVars, cme, lock, connectionMap, esVars,
                 ending, cb>>

CloseExisting(w) ==
  /\ opc[w] = "exists"
  /\ MonitorFree(w)
  /\ CloseWs(w, "4000")
  /\ OpenGoto(w, "done")
  /\ UNCHANGED <<scan, closeVars, cme, lock, connectionMap, esVars, ending,
                 cb>>

InitMCConnection(o) ==
  /\ opc[o] = "init"
  /\ lock = None
  /\ lock' = Opener(o)
  /\ OpenGoto(o, "scan")
  /\ UNCHANGED <<wsVars, scan, closeVars, cme, connectionMap, esVars, ending,
                 cb>>

\* An exception in the open thread: the address it asks for is null.
OpenFails(o) ==
  /\ opc[o] \in {"scan", "put"}
  /\ MayLose(o)
  /\ OpenGoto(o, "done")
  /\ lock' = None
  /\ UNCHANGED <<wsVars, scan, closeVars, cme, connectionMap, esVars, ending,
                 cb>>

\* Mutant: port++ is forgotten.
TryStation_NoNext(o) ==
  /\ opc[o] = "scan"
  /\ scan[o] <= N
  /\ ~Busy(scan[o])
  /\ station' = [station EXCEPT ![o] = scan[o]]
  /\ es' = [es EXCEPT ![o] = "open"]
  /\ OpenGoto(o, "put")
  /\ UNCHANGED <<wsVars, scan, closeVars, cme, lock, connectionMap, ending,
                 cb>>

\* One round of the while loop: try to connect to the next station.
TryStation(o) ==
  /\ opc[o] = "scan"
  /\ scan[o] <= N
  /\ IF Busy(scan[o])
     THEN /\ scan' = [scan EXCEPT ![o] = @ + 1]
          /\ UNCHANGED <<opc, esVars>>
     ELSE /\ station' = [station EXCEPT ![o] = scan[o]]
          /\ es' = [es EXCEPT ![o] = "open"]
          /\ OpenGoto(o, "put")
          /\ UNCHANGED scan
  /\ UNCHANGED <<wsVars, closeVars, cme, lock, connectionMap, ending, cb>>

\* Mutant: while (port < 5005).
NoStation_OneShort(o) ==
  /\ opc[o] = "scan"
  /\ scan[o] >= N
  /\ IF o \in Boots THEN OpenGoto(o, "done") /\ lock' = None
                    ELSE OpenGoto(o, "full") /\ UNCHANGED lock
  /\ UNCHANGED <<wsVars, scan, closeVars, cme, connectionMap, esVars, ending,
                 cb>>

NoStation(o) ==
  /\ opc[o] = "scan"
  /\ scan[o] > N
  /\ IF o \in Boots THEN OpenGoto(o, "done") /\ lock' = None
                    ELSE OpenGoto(o, "full") /\ UNCHANGED lock
  /\ UNCHANGED <<wsVars, scan, closeVars, cme, connectionMap, esVars, ending,
                 cb>>

\* connectionMap.put(...)
PutConnection(o) ==
  /\ opc[o] = "put"
  /\ SetMap([connectionMap EXCEPT ![KeyOf[o]] = o])
  /\ OpenGoto(o, IF o \in Boots THEN "queries" ELSE "done")
  /\ lock' = None
  /\ UNCHANGED <<wsVars, scan, closeVars, esVars, ending, cb>>

\* Mutant: the websocket is not closed.
CloseFull_NoClose(w) ==
  /\ opc[w] = "full"
  /\ OpenGoto(w, "done")
  /\ lock' = None
  /\ UNCHANGED <<wsVars, scan, closeVars, cme, connectionMap, esVars, ending,
                 cb>>

\* ws.close(WS_ENTRYSTATION_FULL), inside the synchronized method.
CloseFull(w) ==
  /\ opc[w] = "full"
  /\ MonitorFree(w)
  /\ CloseWs(w, "4003")
  /\ OpenGoto(w, "done")
  /\ lock' = None
  /\ UNCHANGED <<scan, closeVars, cme, connectionMap, esVars, ending, cb>>

\* Mutant: the start-up only removes its connection from the map.
BootDisconnect_NoThread(b) ==
  /\ opc[b] = "queries"
  /\ OpenGoto(b, "remove")
  /\ UNCHANGED <<wsVars, scan, closeVars, cme, lock, connectionMap, esVars,
                 ending, cb>>

\* The start-up has asked the MC what it needs and disconnects.
BootDisconnect(b) ==
  /\ opc[b] = "queries"
  /\ ending' = ending \cup {b}
  /\ OpenGoto(b, "remove")
  /\ UNCHANGED <<wsVars, scan, closeVars, cme, lock, connectionMap, esVars,
                 cb>>

BootRemove(b) ==
  /\ opc[b] = "remove"
  /\ lock = None
  /\ SetMap(Without(b))
  /\ OpenGoto(b, "done")
  /\ UNCHANGED <<wsVars, scan, closeVars, lock, esVars, ending, cb>>

-----------------------------------------------------------------------------
(* onClose, in the close thread of a websocket *)

CloseGoto(w, l) == cpc' = [cpc EXCEPT ![w] = l]

EndClose(w) ==
  /\ CloseGoto(w, "done")
  /\ wsState' = [wsState EXCEPT ![w] = "closed"]
  /\ lock' = IF lock = Closer(w) THEN None ELSE lock
  /\ UNCHANGED <<code, target, visited>>

\* External: the client closes, or is gone.
ClientClose(w) ==
  /\ WsOpen(w)
  /\ CloseWs(w, "client")
  /\ UNCHANGED <<opc, scan, closeVars, cme, lock, connectionMap, esVars,
                 ending, cb>>

CloseConnection(w) ==
  /\ wsState[w] = "closing"
  /\ cpc[w] = "idle"
  /\ CloseGoto(w, "lookup")
  /\ UNCHANGED <<wsVars, opc, scan, target, visited, cme, lock,
                 connectionMap, esVars, ending, cb>>

\* Mutant: no thread is started.
StartDisconnect_NoThread(w, c, closeAt, removeAt) ==
  /\ target' = [target EXCEPT ![w] = c]
  /\ UNCHANGED ending
  /\ CloseGoto(w, IF WsOpen(c) THEN closeAt ELSE removeAt)

\* Mutant: ws.close is called without a look at the state of the websocket.
StartDisconnect_AnyState(w, c, closeAt, removeAt) ==
  /\ target' = [target EXCEPT ![w] = c]
  /\ ending' = ending \cup {c}
  /\ CloseGoto(w, IF c \in Clients THEN closeAt ELSE removeAt)

\* The first steps of MCConnection.disconnect in the close thread of w.
StartDisconnect(w, c, closeAt, removeAt) ==
  /\ target' = [target EXCEPT ![w] = c]
  /\ ending' = ending \cup {c}
  /\ CloseGoto(w, IF WsOpen(c) THEN closeAt ELSE removeAt)

\* Mutant: the connection found is not compared with null.
Lookup_NoNullCheck(w) ==
  /\ cpc[w] = "lookup"
  /\ lock = None
  /\ StartDisconnect(w, connectionMap[KeyOf[w]], "wsClose", "remove")
  /\ UNCHANGED <<wsVars, opc, scan, visited, cme, lock, connectionMap,
                 esVars, cb>>

Lookup(w) ==
  /\ cpc[w] = "lookup"
  /\ lock = None
  /\ LET c == connectionMap[KeyOf[w]] IN
     IF c = None
     THEN CloseGoto(w, "check") /\ UNCHANGED <<target, ending>>
     ELSE StartDisconnect(w, c, "wsClose", "remove")
  /\ UNCHANGED <<wsVars, opc, scan, visited, cme, lock, connectionMap,
                 esVars, cb>>

\* No remote address: removeMCConnection(ws, code) checks under the lock.
LookupNoAddress(w) ==
  /\ cpc[w] = "lookup"
  /\ MayLose(w)
  /\ lock = None
  /\ lock' = Closer(w)
  /\ CloseGoto(w, "check")
  /\ UNCHANGED <<wsVars, opc, scan, target, visited, cme, connectionMap,
                 esVars, ending, cb>>

\* The address disappears between two calls: an exception in onClose.
LookupFails(w) ==
  /\ cpc[w] = "lookup"
  /\ MayLose(w)
  /\ lock = None
  /\ EndClose(w)
  /\ UNCHANGED <<opc, scan, cme, connectionMap, esVars, ending, cb>>

DisconnectClose(w) ==
  /\ cpc[w] = "wsClose"
  /\ ~Waits(w, target[w])
  /\ CloseWs(target[w], "1000")
  /\ CloseGoto(w, "remove")
  /\ UNCHANGED <<opc, scan, target, visited, cme, lock, connectionMap,
                 esVars, ending, cb>>

DisconnectRemove(w) ==
  /\ cpc[w] = "remove"
  /\ lock = None
  /\ SetMap(Without(target[w]))
  /\ EndClose(w)
  /\ UNCHANGED <<opc, scan, esVars, ending, cb>>

-----------------------------------------------------------------------------
(* checkForInvalidConnections, in the close thread of a websocket *)

CheckNext(w) ==
  /\ cpc[w] = "check"
  /\ w \notin cme
  /\ \E k \in Keys \ visited[w] :
       /\ connectionMap[k] # None
       /\ IF Test(connectionMap[k])
          THEN /\ visited' = [visited EXCEPT ![w] = @ \cup {k}]
               /\ UNCHANGED <<cpc, target, ending>>
          ELSE /\ StartDisconnect(w, connectionMap[k], "chkClose",
                                  "chkRemove")
               /\ UNCHANGED visited
  /\ UNCHANGED <<wsVars, opc, scan, cme, lock, connectionMap, esVars, cb>>

CheckClose(w) ==
  /\ cpc[w] = "chkClose"
  /\ ~Waits(w, target[w])
  /\ CloseWs(target[w], "1006")
  /\ CloseGoto(w, "chkRemove")
  /\ UNCHANGED <<opc, scan, target, visited, cme, lock, connectionMap,
                 esVars, ending, cb>>

\* disconnect has removed the connection; removeMCConnection(conn, true)
\* takes the lock and starts a new check of the whole map.
CheckRemove(w) ==
  /\ cpc[w] = "chkRemove"
  /\ lock \in {None, Closer(w)}
  /\ lock' = Closer(w)
  /\ SetMap(Without(target[w]))
  /\ CloseGoto(w, "check")
  /\ visited' = [visited EXCEPT ![w] = {}]
  /\ UNCHANGED <<wsVars, opc, scan, target, esVars, ending, cb>>

\* Every entry was seen, or next() throws.
CheckEnd(w) ==
  /\ cpc[w] = "check"
  /\ w \in cme \/ \A k \in Keys \ visited[w] : connectionMap[k] = None
  /\ EndClose(w)
  /\ UNCHANGED <<opc, scan, cme, connectionMap, esVars, ending, cb>>

-----------------------------------------------------------------------------
(* The threads of a connection's MCJCommManager *)

\* A "MCConn Disconnect" thread: tp_exit if asked for, then Disconnect.
DisconnectMngr(c) ==
  /\ c \in ending
  /\ ending' = ending \ {c}
  /\ IF EsUp(c)
     THEN /\ es' = [es EXCEPT ![c] = "closed"]
          /\ cb' = IF WsOpen(c) THEN [cb EXCEPT ![c] = "wsClose"] ELSE cb
     ELSE UNCHANGED <<es, cb>>
  /\ UNCHANGED <<wsVars, opc, scan, closeVars, cme, lock, connectionMap,
                 station>>

\* Mutant: the MCConnection is not told.
QueueThreadEnds_Silent(c) ==
  /\ es[c] = "dropped"
  /\ es' = [es EXCEPT ![c] = "lost"]
  /\ UNCHANGED <<wsVars, opc, scan, closeVars, cme, lock, connectionMap,
                 station, ending, cb>>

\* The socket was closed by the MC: the queue thread ends and tells the
\* MCConnection, which disconnects if its websocket is open.
QueueThreadEnds(c) ==
  /\ es[c] = "dropped"
  /\ es' = [es EXCEPT ![c] = "lost"]
  /\ cb' = IF WsOpen(c) THEN [cb EXCEPT ![c] = "wsClose"] ELSE cb
  /\ UNCHANGED <<wsVars, opc, scan, closeVars, cme, lock, connectionMap,
                 station, ending>>

\* Mutant: the connection is removed, the websocket stays open.
CallbackClose_Skipped(c) ==
  /\ cb[c] = "wsClose"
  /\ cb' = [cb EXCEPT ![c] = "remove"]
  /\ UNCHANGED <<wsVars, opc, scan, closeVars, cme, lock, connectionMap,
                 esVars, ending>>

CallbackClose(c) ==
  /\ cb[c] = "wsClose"
  /\ MonitorFree(c)
  /\ CloseWs(c, "4002")
  /\ cb' = [cb EXCEPT ![c] = "remove"]
  /\ UNCHANGED <<opc, scan, closeVars, cme, lock, connectionMap, esVars,
                 ending>>

CallbackRemove(c) ==
  /\ cb[c] = "remove"
  /\ lock = None
  /\ SetMap(Without(c))
  /\ cb' = [cb EXCEPT ![c] = "none"]
  /\ UNCHANGED <<wsVars, opc, scan, closeVars, lock, esVars, ending>>

-----------------------------------------------------------------------------
(* External: the MC accepts one connection per entry station. *)

MCFrees(c) ==
  /\ es[c] = "closed"
  /\ station[c] # 0
  /\ station' = [station EXCEPT ![c] = 0]
  /\ UNCHANGED <<wsVars, opc, scan, closeVars, cme, lock, connectionMap, es,
                 ending, cb>>

MCDrops(c) ==
  /\ es[c] = "open"
  /\ es' = [es EXCEPT ![c] = "dropped"]
  /\ station' = [station EXCEPT ![c] = 0]
  /\ UNCHANGED <<wsVars, opc, scan, closeVars, cme, lock, connectionMap,
                 ending, cb>>

-----------------------------------------------------------------------------

OpenStep(o) == \/ GetMCConnection(o) \/ CloseExisting(o)
               \/ InitMCConnection(o) \/ OpenFails(o) \/ TryStation(o)
               \/ NoStation(o) \/ PutConnection(o) \/ CloseFull(o)
               \/ BootDisconnect(o) \/ BootRemove(o)

CloseStep(w) == \/ CloseConnection(w) \/ Lookup(w) \/ LookupNoAddress(w)
                \/ LookupFails(w) \/ DisconnectClose(w)
                \/ DisconnectRemove(w) \/ CheckNext(w) \/ CheckClose(w)
                \/ CheckRemove(w) \/ CheckEnd(w)

CallbackStep(c) == CallbackClose(c) \/ CallbackRemove(c)

Next ==
  \/ \E w \in Clients : OnOpen(w)
  \/ \E o \in Owners : OpenStep(o)
  \/ \E w \in Clients : CloseStep(w)
  \/ \E c \in Owners : DisconnectMngr(c)
  \/ \E c \in Owners : QueueThreadEnds(c)
  \/ \E c \in Owners : CallbackStep(c)
  \/ \E w \in Clients : ClientClose(w)
  \/ \E c \in Owners : MCFrees(c)
  \/ \E c \in Owners : MCDrops(c)

Spec == Init /\ [][Next]_vars

\* Every thread runs; a thread that waits for a lock nobody holds gets it.
\* The library reports the end of every closing websocket, and the MC frees
\* the station of a closed connection.  No client has to open or close, and
\* the MC never has to drop a connection.
Fairness ==
  /\ \A o \in Owners : /\ WF_vars(OpenStep(o))
                       /\ WF_vars(DisconnectMngr(o))
                       /\ WF_vars(QueueThreadEnds(o))
                       /\ WF_vars(CallbackStep(o))
                       /\ WF_vars(MCFrees(o))
  /\ \A w \in Clients : WF_vars(CloseStep(w))

FairSpec == Spec /\ Fairness

-----------------------------------------------------------------------------
(* Properties *)

DistinctKeys == \A o, p \in Owners : KeyOf[o] = KeyOf[p] => o = p

\* One type invariant: websockets, threads, the map and the connections.
TypeOK ==
  /\ wsState \in [Clients -> {"none", "open", "closing", "closed"}]
  /\ code \in [Clients -> Codes]
  /\ opc \in [Owners -> {"idle", "get", "exists", "init", "scan", "put",
                         "full", "queries", "remove", "done"}]
  /\ scan \in [Owners -> 1..(N + 1)]
  /\ cpc \in [Clients -> {"idle", "lookup", "wsClose", "remove", "check",
                          "chkClose", "chkRemove", "done"}]
  /\ target \in [Clients -> Owners \cup {None}]
  /\ visited \in [Clients -> SUBSET Keys]
  /\ cme \in SUBSET Clients
  /\ lock \in {None} \cup {Opener(o) : o \in Owners}
                     \cup {Closer(w) : w \in Clients}
  /\ connectionMap \in [Keys -> Owners \cup {None}]
  /\ es \in [Owners -> {"none", "open", "dropped", "lost", "closed"}]
  /\ station \in [Owners -> 0..N]
  /\ ending \in SUBSET Owners
  /\ cb \in [Owners -> {"none", "wsClose", "remove"}]

\* What a websocket's client can tell: "limbo" is an open websocket whose
\* open thread is done and which has no connection.
Session(w) ==
  IF wsState[w] = "none" THEN "none"
  ELSE IF ~WsOpen(w) THEN "ended"
  ELSE IF connectionMap[KeyOf[w]] = w THEN "served"
  ELSE IF opc[w] # "done" THEN "waiting" ELSE "limbo"

Sessions == INSTANCE WebsocketSessions
              WITH session <- [w \in Clients |-> Session(w)]

\* The pool implements WebsocketSessions: no thread of another websocket, of
\* a check or of a lost station takes the connection of an open websocket
\* out of the map before the websocket is closing.
ServesSessions == Sessions!Spec

\* A disconnect is only begun for a websocket that has closed or whose entry
\* station is gone; no check takes a working connection for a broken one.
HealthyIsKept ==
  DistinctKeys =>
    \A c \in ending \cap Clients : ~(WsOpen(c) /\ EsUp(c))

\* With a station for everybody no websocket is closed with
\* WS_ENTRYSTATION_FULL: the scan tries all of them.
NoRefusalWithRoom ==
  N >= Cardinality(Owners) => \A w \in Clients : code[w] # "4003"

\* The deadly embrace of the pool.  A thread that holds the lock of the
\* manager closes a websocket and waits for its monitor, and that websocket's
\* close thread waits for the lock, or for a monitor whose holder does.
Closes(v) ==
  \/ v \in Clients /\ lock = Opener(v) /\ opc[v] = "full" /\ ~MonitorFree(v)
  \/ \E w \in Clients : /\ lock = Closer(w) /\ cpc[w] = "chkClose"
                         /\ target[w] = v /\ Waits(w, v)
NeedsLock(w) == /\ cpc[w] \in {"lookup", "remove", "chkRemove"}
                /\ lock \notin {None, Closer(w)}
NeedsMonitor(w, v) == /\ cpc[w] \in {"wsClose", "chkClose"}
                      /\ target[w] = v /\ Waits(w, v)
Embrace ==
  \E stuck \in SUBSET Clients :
    /\ \E v \in stuck : Closes(v)
    /\ \A w \in stuck : NeedsLock(w) \/ \E v \in stuck : NeedsMonitor(w, v)

\* An open websocket gets an entry station or is closed; it waits for ever
\* only in the embrace.
NobodyWaits ==
  \A w \in Clients :
    Session(w) = "waiting" ~> Session(w) \in {"served", "ended"} \/ Embrace

\* onClose of a websocket with a connection gives its station back, although
\* only a thread nobody waits for disconnects the manager; unless its remote
\* address is gone, or the pool is in the embrace.
StationReleased ==
  \A w \in Clients \ AddressLost :
    cpc[w] = "lookup" /\ connectionMap[KeyOf[w]] = w
      ~> station[w] = 0 \/ Embrace

\* onClose ends; it keeps the monitor of its websocket for ever only in the
\* embrace, the one deadlock of close threads, open threads and callbacks.
CloseEnds ==
  \A w \in Clients : cpc[w] = "lookup" ~> cpc[w] = "done" \/ Embrace

\* When the MC closes an entry station, its websocket is closed too, or the
\* pool is in the embrace.
DropClosesWebsocket ==
  \A w \in Clients :
    es[w] = "dropped" ~> wsState[w] = "closed" \/ Embrace

\* The start-up gives its entry station back when it has asked its questions.
BootReleases ==
  \A b \in Boots : opc[b] = "queries" ~> station[b] = 0

\* A websocket that is refused, because its remote port has a connection or
\* no entry station is left, ends closed, with the code of its refusal unless
\* its client was faster; or the pool is in the embrace.
ClosedWith(w, reason) ==
  wsState[w] = "closed" /\ code[w] \in {reason, "client"}
RefusedIsClosed ==
  \A w \in Clients :
    /\ opc[w] = "exists" ~> ClosedWith(w, "4000") \/ Embrace
    /\ opc[w] = "full" ~> ClosedWith(w, "4003") \/ Embrace

\* tests/Websockets.js: a websocket is closed if no station is available.
TurnedAway ==
  \A w \in Clients : opc[w] = "get" ~> Session(w) # "waiting"

=============================================================================
