----------------------------- MODULE ConnWorker -----------------------------
(***************************************************************************)
(* conn.js: the web worker through which a page of the web interface talks *)
(* to MCWebSocketServer, with the browser's websockets and its timers.     *)
(*                                                                         *)
(* Time is left out: a timer may fire whenever it is pending, timers of    *)
(* one delay fire in the order they were set.  A request stands for the    *)
(* text of a command, idOf for the cmd_id in it; the lines of its answer   *)
(* are one message.  A request that is repeated before the page has read   *)
(* the answer is answered once: this bounds server and outbox.             *)
(*                                                                         *)
(* sendData's catch branch is not reached: send of an open websocket does  *)
(* not throw.  startLBN is empty.                                          *)
(***************************************************************************)
EXTENDS Naturals, Sequences

CONSTANTS
  MaxConnects,  \* bound: how often the page connects
  MaxSends      \* bound: how many requests the page makes

ASSUME MaxConnectsAssumption == MaxConnects \in Nat
ASSUME MaxSendsAssumption == MaxSends \in Nat

Null == 0
Sockets == 1..MaxConnects
Reqs == 1..MaxSends

VARIABLES
  ws,         \* the websocket of MCConnection
  reset,      \* its flag: nothing to reset
  intervals,  \* the ids whose entry is true
  timers,     \* the timer of a repeated request: its closure has the text or
              \* has lost it
  opened,     \* websockets whose ONOPEN message waits for its 100 ms
  watched,    \* websockets whose 5000 ms are not over
  sock,       \* ready state of each websocket
  server,     \* requests sent and not answered, by websocket
  idOf,       \* the id the page gave a request
  stopped,    \* history: requests whose stop was handled
  inbox,      \* messages posted to the worker
  outbox      \* messages posted to the page

connVars == <<ws, reset, intervals, timers>>
netVars == <<opened, watched, sock, server>>
workerVars == <<connVars, netVars, inbox, outbox, stopped>>

WorkerInit ==
  /\ ws = Null
  /\ reset = TRUE
  /\ intervals = {}
  /\ timers = [r \in Reqs |-> "none"]
  /\ opened = {}
  /\ watched = {}
  /\ sock = [s \in Sockets |-> "none"]
  /\ server = {}
  /\ stopped = {}
  /\ inbox = << >>
  /\ outbox = << >>

WsOpen == ws # Null /\ sock[ws] = "open"

\* close() of a websocket
Closed(s) == IF sock[s] \in {"connecting", "open"}
             THEN [sock EXCEPT ![s] = "closing"] ELSE sock

\* postMessage to the page
Post(kind, r) == outbox' = Append(outbox, <<kind, r>>)

-----------------------------------------------------------------------------
(* onmessage *)

Received(kind) ==
  /\ inbox # << >>
  /\ Head(inbox)[1] = kind
  /\ inbox' = Tail(inbox)

\* connect; new WebSocket may throw, which is only logged.
HandleConnect ==
  /\ Received("connect")
  /\ \/ \E s \in Sockets :
          /\ sock[s] = "none"
          /\ \A q \in 1..(s - 1) : sock[q] # "none"
          /\ ws' = s
          /\ sock' = [sock EXCEPT ![s] = "connecting"]
          /\ watched' = watched \cup {s}
     \/ UNCHANGED <<ws, sock, watched>>
  /\ UNCHANGED <<reset, intervals, timers, opened, server, outbox, stopped>>

HandleReset ==
  /\ Received("reset")
  /\ IF reset
     THEN UNCHANGED <<ws, reset, intervals, sock>>
     ELSE /\ intervals' = {}
          /\ sock' = IF ws = Null THEN sock ELSE Closed(ws)
          /\ ws' = Null
          /\ reset' = TRUE
  /\ UNCHANGED <<timers, opened, watched, server, outbox, stopped>>

\* Mutant: an id is not looked at when its interval is stopped.
HandleStop_Ignored ==
  /\ Received("stop")
  /\ stopped' = stopped \cup {Head(inbox)[2]}
  /\ UNCHANGED <<connVars, netVars, outbox>>

\* The ids of the page start with 1, so the test of e.data.id passes.
HandleStop ==
  /\ Received("stop")
  /\ intervals' = intervals \ {idOf[Head(inbox)[2]]}
  /\ stopped' = stopped \cup {Head(inbox)[2]}
  /\ UNCHANGED <<ws, reset, timers, netVars, outbox>>

\* Mutant: ws and its ready state are not looked at.
SendData_NoCheck(r) == server' = server \cup {<<ws, r>>}

\* sendData: without an open websocket the request is dropped.
SendData(r) == server' = IF WsOpen THEN server \cup {<<ws, r>>} ELSE server

HandleSend ==
  /\ Received("send")
  /\ SendData(Head(inbox)[2])
  /\ UNCHANGED <<connVars, opened, watched, sock, outbox, stopped>>

\* The timer is set again before the request is sent; when sending takes
\* longer than the interval a timer without the text takes its place.
Rearm(r) ==
  \E text \in {"lost", IF timers[r] = "lost" THEN "lost" ELSE "kept"} :
    timers' = [timers EXCEPT ![r] = text]

HandleInterval ==
  /\ Received("interval")
  /\ LET r == Head(inbox)[2] IN
       /\ intervals' = intervals \cup {idOf[r]}
       /\ Rearm(r)
       /\ SendData(r)
  /\ UNCHANGED <<ws, reset, opened, watched, sock, outbox, stopped>>

-----------------------------------------------------------------------------
(* Timers *)

\* timer(id, interval, msg); without its text it sends "undefined", which the
\* server does not answer.
TimerFires(r) ==
  /\ timers[r] # "none"
  /\ IF idOf[r] \in intervals
     THEN /\ Rearm(r)
          /\ IF timers[r] = "kept" THEN SendData(r) ELSE UNCHANGED server
     ELSE timers' = [timers EXCEPT ![r] = "none"] /\ UNCHANGED server
  /\ UNCHANGED <<ws, reset, intervals, opened, watched, sock, inbox, outbox,
                 stopped>>

\* 100 ms after onopen
PostOpen(s) ==
  /\ s \in opened
  /\ opened' = opened \ {s}
  /\ Post("onopen", 0)
  /\ UNCHANGED <<connVars, watched, sock, server, inbox, stopped>>

\* Mutant: the TIMEOUT message is posted and the websocket is not closed.
TimeIsUp_NoClose(s) ==
  /\ s \in watched
  /\ watched' = watched \ {s}
  /\ IF ws # Null /\ ~WsOpen THEN Post("timeout", 0) ELSE UNCHANGED outbox
  /\ UNCHANGED <<connVars, opened, sock, server, inbox, stopped>>

\* 5000 ms after connect: the websocket looked at is the current one.
TimeIsUp(s) ==
  /\ s \in watched
  /\ \A q \in watched : s <= q
  /\ watched' = watched \ {s}
  /\ IF ws # Null /\ ~WsOpen
     THEN sock' = Closed(ws) /\ Post("timeout", 0)
     ELSE UNCHANGED <<sock, outbox>>
  /\ UNCHANGED <<connVars, opened, server, inbox, stopped>>

-----------------------------------------------------------------------------
(* The callbacks of a websocket *)

\* Mutant: the page is not told.
OnOpen_Silent(s) ==
  /\ sock[s] = "connecting"
  /\ sock' = [sock EXCEPT ![s] = "open"]
  /\ reset' = FALSE
  /\ UNCHANGED <<ws, intervals, timers, opened, watched, server, inbox, outbox,
                 stopped>>

OnOpen(s) ==
  /\ sock[s] = "connecting"
  /\ sock' = [sock EXCEPT ![s] = "open"]
  /\ opened' = opened \cup {s}
  /\ reset' = FALSE
  /\ UNCHANGED <<ws, intervals, timers, watched, server, inbox, outbox,
                 stopped>>

\* The connection is refused, lost, closed by the server or closed at last:
\* the browser calls onerror, if the websocket failed, and onclose.
OnClose(s) ==
  /\ sock[s] \in {"connecting", "open", "closing"}
  /\ sock' = [sock EXCEPT ![s] = "closed"]
  /\ server' = {p \in server : p[1] # s}
  /\ \/ Post("onclose", 0) /\ sock[s] # "connecting"
     \/ outbox' = Append(Append(outbox, <<"onerror", 0>>), <<"onclose", 0>>)
  /\ UNCHANGED <<connVars, opened, watched, inbox, stopped>>

\* An answer; a closing websocket delivers none.  Without a connection to the
\* MC the server gives none.
OnMessage(s, r) ==
  /\ sock[s] = "open"
  /\ <<s, r>> \in server
  /\ \A i \in DOMAIN outbox : outbox[i] # <<"data", r>>
  /\ server' = server \ {<<s, r>>}
  /\ Post("data", r)
  /\ UNCHANGED <<connVars, opened, watched, sock, inbox, stopped>>

-----------------------------------------------------------------------------

Handle == \/ HandleConnect \/ HandleReset \/ HandleStop \/ HandleSend
          \/ HandleInterval

WorkerNext ==
  \/ Handle
  \/ \E r \in Reqs : TimerFires(r)
  \/ \E s \in Sockets : \/ PostOpen(s) \/ TimeIsUp(s) \/ OnOpen(s)
                        \/ OnClose(s) \/ \E r \in Reqs : OnMessage(s, r)
=============================================================================
