# Verification of the softMC web server

TLA+ models, TLC runs and TLAPS proofs about the softMC web server, the Java
program that connects browsers to a Servotronix motion controller (MC), its
drives and its cyclic task, and about the JavaScript client of its modbus page.
Paths below are relative to `src/src/main/java`; `mcwebserver/` stands for
`com/servotronix/mcwebserver/`, `conn.js` for
`src/src/main/resources/web/modbus/assets/scripts/conn.js`.

## 1. The system

    page <--postMessage--> conn.js, a web worker of the browser
                              |
                              +--websocket 3010--> MCWebSocketServer
    browser --websocket 3010--> MCWebSocketServer --> MCConnectionManager
                                     |                     | one MCConnection
                                     |                     v  per websocket
                                     |               MCJCommManager --TCP 5001..5005--> MC
                                     +--> CyclicTaskHandler --TCP 8132--> cyclic task
    browser --websocket--> DriveWebSocketServer --> DriveCommManager --telnet--> drive
    browser --websocket--> CabinetUpdateWebSocketServer --> CabinetUpdateCommManager
    browser --HTTP 1207--> REST handlers (MapCS, MapFileOperations, ...) --> HSQLDB, files

| part | state | operations | correct when |
|---|---|---|---|
| protocol client: `MCJCommManager`, `MCJSocketClient`, `PendingCommand` | `bContinue`, `isQueryMode`, `resSB`, `commands` (id -> reply so far), `messagesQueue`, the socket | `Connect`, `QueryMC`, `QueryMCSynced`, `Disconnect`, reader and queue threads | a query returns its own whole reply or nothing; every query ends; a disconnect frees the socket |
| frame codec: `MCJMessageUtils` | phase of the decoder, header, frame, message so far | `MakeMessage`, `DecodeMessage` | messages arrive once, in order, as the text their bytes are read as (UTF-8); damage is survived |
| pool: `MCConnectionManager`, `MCConnection`, callbacks of `MCWebSocketServer` | `connectionMap` (remote port -> connection), one entry station per connection | `onOpen`, `onClose`, `initMCConnection`, `checkForInvalidConnections`, `disconnect`, callbacks of a lost station | every open websocket is served by its own connection or turned away; stations come back |
| cyclic task client: `CyclicTaskHandler` | one static socket, its two streams, `isConnected`, the lock `qryAre` | `connect`, `QueryMC`, `disconnect` | no answer taken from who waits for it, nothing sent twice, the lock comes back |
| drive bridge: `DriveWebSocketServer`, `DriveConnectionManager`, `DriveCommManager` | map remote port -> manager; per manager a telnet client, `connected`, `isSending`, a watchdog | `onMessage` (`set_ip`, commands, lua), `onClose`, watchdog | own answers only, every message ends, sessions are closed |
| users and database: `MCUserManager`, `DatabaseOperations`, `TokenManager` | tables `users`, `log`, `safety`; list of tokens; one static connection | sign-up, edit, delete, safety password, log, start-up | unique names, a user table that survives a crash at any point |
| web client: `conn.js`, the websocket service of the modbus page | worker: `ws`, `reset`, `intervals`, timers; page: `_isConnected`, `socketQueueId`, `socketQueue` (id -> callback), `socketQueueIntervals` | connect, send, repeat, stop and reset an interval, the websocket's four handlers, the timers of 100 ms and 5000 ms; the page's handlers | an answer meets its own callback, a stopped request is silent, the page knows whether it is connected |
| cabinet bridge | as the drive bridge, connected in `onOpen` | `onOpen`, `onMessage`, `onClose` | as the drive bridge |
| files: `MapFileOperations`, `ZipMaker`, `MapTP` | `stopSearch`, one zip file, the MC's folder | search and abort, backup and restore, move, delete | an abort stops the search it is for; archives are not mixed |
| REST: `MapCS` | none of its own | one handler per request | - |
| start-up: `MCServer` | `MCInfo`, the servers | boot connection and its four queries, then the web server, then the users | - |

Not listed: `MCInfo`, licence, themes, templates, discovery (pure functions,
one file, or never called) and the vendored `org/java_websocket` and `spark`.

What makes the code hard: every websocket message of the main server runs in a
thread of its own; the library calls `onClose` holding the monitor of the
websocket; connections are closed by detached threads; fields are shared
without locks; peers (the MC, the cyclic task, drives) close connections, stay
silent or answer late. The client has no threads, but two event loops: what the
worker posts is handled later than it was true, and ids start again after a
connection has ended. `PROJECT.json` lists the hazards one by one, with the
line where each bites and the properties that cover it.

## 2. Modules

| module | models | composed with |
|---|---|---|
| `MCJCommManager` | protocol client | relies on `FrameChannel` (frames arrive whole and in order) |
| `MCJMessageUtils`, `FrameCRC` | frame codec and its CRC table | implements `FrameChannel` |
| `FrameLayout` | what a sound stream of frames is: the premise of the theorems about the codec | extends `MCJMessageUtils` |
| `FrameChannel` | abstract: a FIFO channel of messages, lossy only if bytes are damaged | |
| `MCConnectionManager` | pool | relies on `DisconnectReleases` of `MCJCommManager`; implements `WebsocketSessions` |
| `WebsocketSessions` | abstract: none -> waiting -> served -> ended, per websocket | |
| `CyclicTaskHandler` | cyclic task client | |
| `DriveWebSocketServer` | drive bridge | |
| `ConnWorker` | the worker `conn.js`, with websockets, timers and the server's answers | |
| `ModbusPage` | the page's websocket service | extends `ConnWorker`: two processes that post messages to each other |
| `MC<module>` | the small instances TLC checks | |
| `MCJCommManager_Proofs`, `MCConnectionManager_Proofs`, `CyclicTaskHandler_Proofs`, `DriveWebSocketServer_Proofs`, `ModbusPage_Proofs` | theorems and proofs | each extends its module |
| `MCJReplies_Proofs` | order and completeness of replies | extends `MCJCommManager_Proofs` |
| `MCJMessageUtils_Proofs` | the decoder on sound streams | extends `FrameLayout` |

On the server the composition is by contract. The pool does not contain the
protocol client again: it takes from it that a disconnect closes the socket and that a lost
socket ends the queue thread, which is the property `DisconnectReleases` of
`MCJCommManager`. The protocol client does not decode bytes: it takes from the
codec that frames arrive whole and in order, which is `FrameChannel`,
implemented by `MCJMessageUtils` (property `DeliversFrames`). The web client is
composed for real: worker and page are in one state space, because what goes
wrong between them is the order of their messages. The server is what `conn.js`
sees of it: it may answer a request, leave it unanswered or close the websocket.

How state and actions correspond to the code:

- A variable has the name of the field where there is one (`bContinue`,
  `connectionMap`, `totalMessage`). Program counters (`pc`, `opc`, `cpc`,
  `wpc`, `qpc`) hold the location of a thread inside a method.
- A step is what a thread does between two accesses to fields of other
  threads. `if (commands.get(id) != null) commands.get(id).append(msg)` is two
  actions, `HandleData` and `AppendData`; the retest of `sockClient` in `Send`
  is `Send` and `Write`; `synchronized` is a lock variable where the region
  takes time or calls out (`lock`, `mapLock`, `reading`), and one action where
  it does not. Sequential consistency is assumed: the fields are not volatile,
  and the memory model of Java would allow more.
- Time is abstract. `wait(2000)`, `join(500)`, a watchdog period or a
  `SoTimeout` may or may not run out before the other side acts. The one
  exception is the constant `PromptQueueThread` of `MCJCommManager`: TRUE says
  that the 600 ms sleep of `Disconnect` outlasts a queue thread that wakes up
  every 4 ms. It is TRUE in all runs.
- Texts are named by what they are: the piece of a reply by the command it
  answers and its position, a websocket message by its websocket and position.
  Only the codec works on bytes. There a String is given by its UTF-8 bytes,
  and `UTF8` says what `new String(bytes, UTF_8)` (`MCJMessageUtils.java:173`)
  makes of any bytes: a byte that is part of no character becomes U+FFFD. The
  JDK may put one U+FFFD for several such bytes; the model puts one for each.
- In `ConnWorker` an event handler is one action, as in the browser: a message
  of the page (`HandleConnect`, `HandleSend`, ... under `Handle`), a websocket
  event (`OnOpen`, `OnClose` with the `onerror` before it, `OnMessage`) or a
  timer (`PostOpen`,
  `TimeIsUp`, `TimerFires`). `inbox` and `outbox` are the two `postMessage`
  queues. Timers of one delay fire in the order they were set; whether one
  fires before an answer is left open.
- The MC, the cyclic task, drives and clients are external; their actions
  (`MCReply`, `MCClose`, `MCDrops`, `TaskCloses`, `DriveCloses`,
  `ClientClose`, ...) come at any time.

## 3. What TLC checks

Deadlock checking is off everywhere because threads and streams are finite:
every model stops when its threads are done. Liveness properties say instead
that nobody is left waiting. Numbers are distinct states.

| run | instance | checks |
|---|---|---|
| `mngr_queries` (57 026) | one `QueryMCSynced`, one `disconnect(1000)` that queries `?tp_exit` first and then disconnects, ids of their own, two data frames per reply, MC closes at any time | `ReplyInOrder`, `DoneIsComplete`, `WholeUntilDisconnect`, `NoNullEntry`, `SyncedReturns`, `DisconnectReleases` |
| `mngr_shared_ids` (4 786 773) | three `QueryMCSynced`, one of them the `?tp_exit` of a `disconnect(1000)`; that one and a page have the id 0, another page the id 5 | `ReplyToItsId` |
| `mngr_boot` (292 033) | the boot connection: two `QueryMC`, the `?tp_exit` of its disconnect, all with the id 0, another disconnect in between, MC closes | `NoLostWakeUp`, `QueryIsWhole`, `QueryReturns`, `DisconnectReleases` |
| `mngr_partial_reply` | `QueryMC` and one disconnect | violation of `WholeOrNothing` |
| `pool_sessions` (129 709) | three websockets with own ports, three stations, two stations lost, one client leaves, one address lost | `HealthyIsKept`, `NoRefusalWithRoom`, `ServesSessions`, `NobodyWaits`, `StationReleased`, `CloseEnds`, `DropClosesWebsocket` |
| `pool_refusals` (259 916) | two websockets with one port and the start-up compete for one station, addresses may be lost | `RefusedIsClosed`, `BootReleases` |
| `pool_full` | two websockets and the start-up, one station | violation of `TurnedAway` |
| `cyc_queries` (641 468) | two handlers with commands of one kind, one `onClose`, answers of two lines, three sockets, slow answers | `AnswerIsFree`, `SentOnce`, `QueryEnds` |
| `frames` (16 824) | 189 byte streams: five sound ones and every change, loss or insertion of one byte in the first frame | `DeliversFrames`, `LaterFramesArrive` |
| `drives` (335 302) | two websockets on two workers: `set_ip`, command, lua; and command, `set_ip`; the address of one may be lost | `AnswerIsOwn`, `SessionReleased`, `CommandEnds` |
| `conn_page` (95 706) | one connect, two requests, repeated or not, stopped at any time, the server closes at any time or leaves requests unanswered | `AnswerIsOwn`, `StoppedIsSilent`, `OpenIsKnown`, `ConnectingEnds`, `QueryAnswered` |
| `conn_late_open` | one connect, one request | violation of `ConnectedIsOpen` |

Every module has one type invariant, `TypeOK`, in one of these runs.

Why the bounds are enough to be interesting.

- Protocol client: a reply of two frames is the smallest that can be
  half-filled and reordered. Distinct ids are the premise of the properties
  about order and completeness, so a run of its own has shared ids, with frames
  that fit in one piece and with a third id, whose text must not get in. On the
  boot connection two queries are the least that lets what is left of one reach
  the next.
- Pool: two websockets are not enough. The check that a close thread makes
  without the lock ends a third websocket's connection and then takes the lock;
  while it holds it, it may wait for the monitor of a websocket whose close
  thread waits for the lock. `pool_sessions` has three for this, and with it
  `Embrace` occurs. One station makes the pool full, a station for everybody
  leaves room.
- Cyclic task: two sockets beyond the first let a reconnect mix streams; both
  callers send one id, as pages do that poll the same state.
- Codec: the streams contain a message in three packages with a full one, text
  that looks like the start of a frame and is no UTF-8, the same answer twice
  with a character cut between packages, noise between frames and both
  directions.
- Web client: two requests are the least that lets an answer meet a callback of
  another request and an interval meet the timer of another; one connect is
  what the properties are about.

Remote ports are distinct where a property says so (`DistinctKeys`,
`DistinctPorts`).

Three runs bound what happens outside with an action constraint. A constraint
of this kind must not forbid for ever a step that fairness asks for, or it would
hide behaviours from the liveness properties; these forbid steps that nobody has
to take, or put off a step until another thread has moved.

- `InOrder` (`mngr_boot`): the start-up's two queries come one after the other,
  which is one order of two alike; the other disconnect begins when the second
  query has, or when the queue thread has ended; the MC closes before `?tp_exit`
  is asked; no reply has an error frame, which is handled as a data frame is.
- `FewEvents` (`pool_sessions`): a websocket opens when the open threads of
  those before have ended (open threads that race are in `pool_refusals` and
  `pool_full`); the MC drops the stations of the first two, and only the
  second's client leaves.
- `NoDrops` (`pool_refusals`): the MC drops no station.

### Conditions that are part of a property

- `ReplyInOrder`, `DoneIsComplete`, `WholeUntilDisconnect` and `NoNullEntry`
  are about distinct ids. A shared id shares an entry: then a query may get the
  reply to another command with its id, or end with an exception, because the
  entry is removed between two `commands.get(id)`.
- `DoneIsComplete`, `WholeUntilDisconnect` and `NoNullEntry` hold until some
  thread has come to `Disconnect`. After that a query may be cut off: that is
  the finding of `mngr_partial_reply` for `QueryMC`, and the same reset of
  `bContinue` reaches `QueryMCSynced`. An MC that closes in the middle of a
  reply (`MCClose` keeps any prefix of what is on the wire) is not excluded.
- `QueryIsWhole` is the same for the boot connection, with the shared id 0. It
  excludes only a disconnect by somebody else than the start-up.
- `QueryReturns` holds while the MC is up and nobody disconnects: when the MC
  drops the connection in the middle of `QueryMC` nobody notifies, and the
  thread waits for ever.
- `NobodyWaits`, `StationReleased`, `CloseEnds`, `DropClosesWebsocket` and
  `RefusedIsClosed` end in "or `Embrace`". `Embrace` is a deadlock of the code:
  a thread inside a synchronized method of the pool closes a websocket and
  waits for its monitor, and a set of close threads holds that monitor, each
  waiting for the lock of the pool or for a monitor of the set. Two threads
  come to be the holder: an open thread that closes a refused websocket
  (`MCConnectionManager.java:59`), and a check that found a broken connection
  (`:116`, `MCConnection.java:82`). The properties say that no other wait is
  for ever. That it happens is the finding of `pool_full`.
- `StationReleased` is about websockets that keep their remote address. Whether
  `getRemoteSocketAddress()` of a closed channel is null depends on the JDK and
  the moment; where it is, `onClose` only checks, and the station comes back
  with the next check.
- `SessionReleased` (drives) likewise: `onClose` does nothing for a websocket
  without an address (`DriveWebSocketServer.java:36`), and its telnet session
  stays open. `AddressLost` says which websockets may lose theirs.
- `AnswerIsFree` (cyclic task) does not promise an own answer. Commands of one
  kind are equal, so what a query that timed out has left in the stream is
  returned by a later one, and may be stale. It says that this is the worst: no
  answer is returned twice, and none is taken from a caller that waits for it.
- `QueryEnds` excepts a `readLine` on a socket without a time-out. `connect`
  runs without the lock and reads `clientSocket` again to set the time-out
  (`CyclicTaskHandler.java:130`); when another thread has replaced it, the first
  socket has none, and a silent task then keeps a thread and `qryAre` for ever.
  TLC reaches this (`Hangs`).
- `CommandEnds` (drives) has the premise that no websocket closes while its
  own `set_ip` is being handled. Without it TLC finds a deadlock:
  `DriveConnectionManager.java:34` calls `ws.close()` inside a synchronized
  method and waits for the monitor of the websocket, which the selector thread
  holds while its `onClose` waits for the map. Lua commands are not included:
  no watchdog looks after them.
- `AnswerIsOwn`, `StoppedIsSilent` and `QueryAnswered` (web client) hold until
  the page connects again. A page that is told of the end starts its ids again,
  and `conn.js` keeps intervals and pending timers of the time before: with a
  second connect, a repeated request of the first one may be sent on the new
  websocket under an id that the new requests use.
- `QueryAnswered` is about requests made while the page is connected: `sendData`
  drops the others without a word (`conn.js:93`), and their promises stay
  pending. It excepts requests that the server never answers: as long as a
  connection is not set up, and for ever when it never is,
  `MCWebSocketServer.java:98-101` returns without an answer and without closing
  the websocket. What is left is that neither worker nor page loses a request or
  an answer that was given.
- `OpenIsKnown` says that the page is told of an open websocket, not that it
  never takes a closed one for open: that is the finding of `conn_late_open`.

### Fairness

Weak fairness of every thread of the server: the JVM schedules them, and each
continuing location is a step of the thread. For the rest:

- `MCJCommManager`: the MC answers each command it holds while the connection
  is up (`MCReply`), which is the protocol's contract; it never has to close. A
  queue thread that has ended makes `OnConnectionStateChangeCallback` start a
  disconnect (`MCConnection.java:114`), so `BeginDisconnect` is fair then.
- `MCConnectionManager`: the library closes a closing websocket in the end,
  and the MC frees the station of a closed connection.
- `CyclicTaskHandler`: only the threads. A read on a socket with a time-out ends
  by it, a read without one need not end. The task owes nothing.
- `DriveWebSocketServer`: the threads and the watchdogs. A drive owes nothing.
- `ModbusPage`: both event loops read their messages, timers fire and a closing
  websocket is closed by the browser. The server owes no answer.

No client has to open, send or close anything, and no page has to make, stop or
repeat a request.

### Findings

Three runs show code that does not do what a comment or a test of the
repository says; `PROJECT.json` quotes the lines.

- `pool_full`: with the pool full, a websocket may wait for ever instead of
  being closed with 4003, by a deadlock between the monitor of the pool and the
  monitor of a websocket.
- `mngr_partial_reply`: `QueryMC` may return a part of its reply.
- `conn_late_open`: the page takes a connection for open that was closed within
  100 ms of its opening. `conn.js` delays "ONOPEN MESSAGE" by 100 ms and posts
  "ONCLOSE MESSAGE" at once, and a full pool closes a websocket at once.

## 4. What TLAPS proves

The theorems hold for every value of the constants that satisfies the named
assumptions (disjoint sets of threads, `Parts` and `N` natural numbers, an
absent entry of `commands` different from every entry, the start-up's key -1
different from every port, a package of at least one byte).

`MCJCommManager_Proofs`

- `TypeCorrect`: `Spec => []TypeOK`.
- `OwnReply`: `Spec => []ReplyToItsId`, for any assignment of ids. A reply in
  `ret` says nothing of how it came there, so the invariant follows the id
  along its way: `FramesAreOwn` (frames on the wire and in the queue answer a
  command with the id they carry), `CurrentIsOwn` (so does the frame being
  handled), `CommandsAreOwn` (so does all text filed under an id) and
  `ReturnsAreOwn`.
- `WakeUp`: `Spec => []NoLostWakeUp`. `QueryingRuns` adds that `QueryMC` is
  synchronized, so that at most one thread is inside and none resets
  `isQueryMode` behind the back of a waiting one.

`MCJReplies_Proofs`

The four invariants about replies relate what has been filed to what is still
on its way, and neither part is inductive alone. `Flow` is the one line that
frames move along: the wire, the message queue, the frame the queue thread has
in hand and not filed.

- `FlowInv` says what the line looks like: replies are not mixed (`Blocks`), a
  frame does not come twice and the frames of a reply come in order
  (`Ordered`), and a command is sent once and answered once (`AskedOnce`). The
  lemmas `QueueStepMoves`, `ReaderStepMoves` and `ReplyMoves` reduce the steps to
  three: the line stays, loses its head or gains a whole reply.
- `RepliesInOrder`: `Spec => []ReplyInOrder`. `TextFits`: the pieces filed under
  an id increase, and come before those of the line.
- `DoneComplete`: `Spec => []DoneIsComplete`. Until a disconnect the line goes
  on exactly where the text ends (`Filed`), so a prompt finds the whole text.
  This needs that no frame is dropped, that is that the entry is there as long
  as frames may come (`Waits`), and that the queue thread stops only at the top
  of its loop (`StopsOnce`), not between two frames.
- `EntriesFound`: `Spec => []NoNullEntry`, from the same invariant: only the
  owner of an id removes its entry, and only when it is done, when nothing of
  its reply is left in the line (`EntryInHand`).
- `WholeReplies`: `Spec => []WholeUntilDisconnect` for the connection of a
  websocket, that is without threads that call `QueryMC`: from the invariant of
  `DoneComplete`, since a reply is taken from an entry that is done.
- `WholeQueries`: `Spec => []QueryIsWhole` for the boot connection, that is
  without message handlers, but with the `QueryMCSynced("?tp_exit", 0)` that
  its own disconnect makes and with any ids. A prompt ends the query mode
  whatever command it answers, so what matters is when the two kinds meet:
  `AskingInv` holds while the start-up asks (no entry in the map, one thread
  inside, its reply collected in the one `resSB` (`Collects`), and between two
  queries no frame of the first is left (`Quiet`)); `ExitingInv` once a
  disconnect has begun: if it is that of the start-up, the queries have
  returned and nothing changes what they returned.

`MCJMessageUtils_Proofs`

- `TypeCorrect`: `Spec => []TypeOK`, on any stream of bytes, damaged or not, for
  any checksum.
- `SoundFramesArrive`: on a sound stream, `[]LaterFramesArrive`, which says
  there that every message has been delivered at the end.
- `SoundRefines`: on a sound stream the decoder implements `FrameChannel`: it
  delivers the String of every message, once and in order, equal messages
  included. The refinement mapping (`Passed`) matches the messages sent with
  those delivered, from the first on.
- `CommandRoundTrip`: what `MakeMessage` makes of a command of one package
  (any text, any id) is a sound stream, and at its end exactly the String of
  that command with its newline has been delivered, with id 0: a command has its id where no
  answer has one.

A stream is sound (`Sound` of `FrameLayout`) if it is frames one after the
other, with bytes between them that cannot start a serial number; each message
is cut into packages that count from 1; and nothing is damaged. Texts, ids, the
checksum, the package size and the number of messages are free, and a text may
contain what looks like a frame. `SoundAssumption` of `MCMCJMessageUtils` makes
TLC confirm that the five clean streams of the run are sound, so the premise is
not empty. The premises are as weak as the code allows: a package has at most
`PackageSize` bytes, because `DecodeMessage` copies into a buffer of packages
times that size, and the length of a frame fits a signed short.

The invariant `Reading` says where the decoder is: the first i frames are
decoded, and it is in the gap before the next frame, in its header or in its
data, and holds exactly the bytes read of it (`InGap`, `InHeader`, `InData`),
the packages of the message so far (`Gathered`) and all messages that have
ended (`Arrived`). That a byte in the gap cannot be taken for the start of a
frame, and that the start is not missed, is the lemma `WaitingAt`; that a
frame's own header and checksum are accepted, `HeaderRead` and `FrameRead`.
`TypeCorrect` and TLC on the run's streams came first.

`MCConnectionManager_Proofs`

- `TypeCorrect`: `Spec => []TypeOK`.
- `HealthyKept`: `Spec => []HealthyIsKept`.
- `ImplementsSessions`: with distinct ports, `Spec => ServesSessions`; each
  step is a step of `WebsocketSessions` or leaves all sessions alone.
- The invariant behind both: `MapIsOwn` (an entry of the map is the connection
  of its key's owner), `OpenThreads` and `CloseThreads` (what each location
  implies about the websocket, the station and the lock), `Removals` (a thread
  about to remove a connection has closed its websocket), `NoLimbo` (an open
  websocket whose open thread is done is in the map) and `Endings`
  (`HealthyIsKept` with the location of the open thread). `HealthyIsKept`
  alone is not inductive: a check decides by the state of the websocket, and
  what it decides must still hold when it acts.
- `RoomForAll`: for a finite number of websockets,
  `Spec => []NoRefusalWithRoom`, whatever the ports. The step to be excluded is
  a scan that passes a station it could have had. A busy station is the last
  one that another owner tried (`TriedLast`), that owner had its turn before
  (`ScanSees`), and only the holder of the lock scans (`ScanLocked`), so a scan
  that has passed all N stations has seen N other owners (a pigeonhole over
  `Taken`).

`CyclicTaskHandler_Proofs`

- `TypeCorrect`: `Spec => []TypeOK`. `connect` and `disconnect` run in any
  thread without the lock, so `Fields` says at which locations, and while
  `isConnected` holds, the three shared fields are set; `Locations` says where
  a closer can be.
- `OnceOnly`: `Spec => []SentOnce`. A command is sent again after a failed
  send, and a reconnect in between may put it on another socket. `NotSentYet`
  names the locations at which a command has not left, those of a `connect`
  that will come back to the send among them; `InOnePlace` says that a command
  that has left is at one place of one socket.
- `NoStolenAnswer`: `Spec => []AnswerIsFree`, whatever ids the commands share.
  A command leaves once (`OnceOnly`), so of each caller's answer there is one
  last line, which ends the query that reads it; `OneLastLine` says that it is
  at one place of one stream or with the one query that has returned it, and
  that the caller it was for has ended by then if that is another one. `HoldsLock` (who
  is between the lock and the unlock has `qryAre`) keeps a caller that waits for
  its answer from meeting another reader.

`DriveWebSocketServer_Proofs`

- `TypeCorrect`: `Spec => []TypeOK`.
- `OwnAnswer`: `Spec => []AnswerIsOwn`. The bridge takes the next text up to a
  prompt for the answer of the command it has written, so what matters is that
  nothing older is on its way. `Ownership` (with distinct ports a manager is
  used by its own websocket and worker only) makes `Backlog` inductive: of a
  session at most one text is on its way, it answers the command being read,
  and a session that is connected and that nobody reads from owes nothing. The
  watchdog may close a session whose reply has come; it never makes one with a
  late reply usable.
- `Release`: `Spec => []SessionReleased`, for the websockets outside
  `AddressLost`. `ToldSessions` (the map has the manager of a client that was
  told so, for good), `WorkerSessions` (a session is opened only for a port the
  map does not have, and the lock on the map keeps it so until the greeting) and
  `Closing` (where the selector thread is) make `Released` inductive.

`ModbusPage_Proofs`

- `TypeCorrect`: `Spec => []TypeOK`. `sock`, `idOf` and the two queues are
  indexed by what messages carry, so the invariant says of every message,
  timer, request and id that it stands for a request the page has made.
- `OwnAnswer`: `Spec => []AnswerIsOwn`. Until the page connects again, ids are
  the numbers of the requests (`IdsOwn`), unless the one websocket is closed
  (`OneConnect`, `EndsDone`), and then no answer is behind the message that
  starts the ids again (`Fresh`).
- `Silence`: `Spec => [][...]_vars` for `StoppedIsSilent`. The page posts a
  STOP INTERVAL after every call with that id (`StopsLast`); once the worker
  has handled it no call of that id is in the inbox (`StoppedNotCalled`), and a
  pending timer finds the id gone.

Every safety property that a passing run checks is stated by a theorem, with
one exception: the codec on damaged streams. There a damaged frame can have the
checksum of another one, so what arrives depends on the values of the real
table `FrameCRC` and not on the constant `makeCRC`; `DeliversFrames` and
`LaterFramesArrive` are checked on every one-byte damage of the run's streams.
Only model-checked are also all liveness properties (fairness and `ENABLED` are
outside the prover) and the recursive CRC itself (a fold over bytes: induction
over data).

## 5. Further hazards

Seen while reading, not covered by a property, less central than those of
`PROJECT.json`, and kept here for later work:

- `MCJCommLib/MCJCommManager.java:30`: a `HashMap` and plain fields shared without locks;
  `:251`: `sockClient` tested at 244 and used here.
- `mcwebserver/MCWebSocketServer.java:179`: a thread per message, so commands
  of one client may overtake each other; `:43`, `:62`: `clients++` and
  `clients--` without a lock; `:104`: `getMCInfo()` is null during the start-up.
- `mcwebserver/MCConnectionManager.java:52`: a null address after a long
  connect leaves a station connected and in no map; `:53`: so does a websocket
  that closes while `initMCConnection` connects;
  `DriveCommLib/DriveConnectionManager.java:31`: the same for a telnet session.
- `MCJCommLib/MCJMessageUtils.java:37`: a short overflows for commands of 32745
  bytes or more; `:128`: an asynchronous frame between two packages of a reply
  would start a new message; `:151`: after a damaged package of a longer message
  the later packages are collected from index 0 on, and the message that is
  delivered lacks its start.
- `mcwebserver/CyclicTaskHandler.java:100`: answers are matched by a prefix of
  the command; `:127`: a socket may be replaced without being closed.
- `DriveCommLib/DriveCommManager.java:211`: two websockets of one port share a
  manager, and `write` and `readUntil` are synchronized separately; `:107`:
  `handleLua` reads without `isSending`, so no watchdog ends it, and a silent
  drive keeps a worker thread.
- `CabinetUpdateCommLib/CabinetUpdateCommManager.java:108`: at the end of the
  stream every later command is answered with "";
  `mcwebserver/CabinetUpdateWebSocketServer.java:35`: managers are never
  removed, so a later websocket of the same port is closed with 4001.
- `MCAuth/MCUserManager.java:152`: two concurrent changes leave two safety
  passwords; `MCAuth/DatabaseOperations.java:114`: a `destroy` that fails
  half-way; `MCAuth/TokenManager.java:37`: a list that only grows.
- `com/servotronix/serverMapping/MapFileOperations.java:703`: a new search
  clears the abort of another; `mcwebserver/ZipMaker.java:42`: one zip file for
  all; `com/servotronix/serverMapping/MapTP.java:33`: PLT_99 is never used.
- `mcwebserver/MCServer.java:103`: websockets are accepted before the boot
  connection is made, and five of them leave it no entry station; `:117`:
  requests before the users are initialised.
- `com/servotronix/serverMapping/MapFileOperations.java:1265`: a search in a
  subfolder that meets the abort clears it, and the search in the folder above
  goes on.

## 6. Not modelled

`PROJECT.json` gives the reason for every component. In short: users,
database, cabinet bridge, token check, searches and archives are planned; FTP
and plain file handlers are I/O; parsing and encryption are functions of
strings; discovery is never called; the rest of the page (forms, dialogs and
the Angular application) and the other bundles of the web interface are
generated and minified; `startLBN` of `conn.js` is empty, and the catch branch
of its `sendData` is not reached (`send` of an open websocket does not throw);
libraries appear only through the monitors
and threads they bring. Acknowledge and asynchronous frames and `sendToAll`
are passed on without a change of state.

## 7. Plan

Done, in the order of importance: protocol client, pool, codec, cyclic task
client, drive bridge, web client; and the proofs of section 4. Next:

1. `MCUserManager` with `DatabaseOperations`: rows with identities, statements
   as steps, crash and restart between any two, concurrent requests. To state:
   a name has one row (comment at 176), admin keeps permission 0 (comment at
   244), a changed safety password replaces the old one, the start-up repairs
   what a crash left. An abstract `UserTable` with atomic operations as the
   specification to implement where the code does.
2. `CabinetUpdateWebSocketServer`, sharing the shape of the drive bridge, with
   the end of the stream and the later websocket of the same port.
3. Searches and aborts in `MapFileOperations`, the one zip file of `ZipMaker`.
4. The token check of `handleMessage` composed with the pool, and the order of
   the start-up of `MCServer`.
5. Proofs: what holds of a damaged stream for any checksum that tells the
   damaged frame from a sound one.
6. Streams with losses inside a message of several packages.
7. The web client with more than one connect: what of the old connection can
   reach the new one, stated as what still holds (an answer is at worst that of
   an older request with the same id).
