------------------------- MODULE CyclicTaskHandler -------------------------
(***************************************************************************)
(* The client of the cyclic task of the MC (CyclicTaskHandler): one static *)
(* socket that all websockets share.  A message handler that gets a "cyc"  *)
(* command connects if it must (without the lock) and calls QueryMC, which *)
(* sends the command and reads lines up to the last one of an answer.  The *)
(* onClose that counts no more clients disconnects, without the lock.      *)
(*                                                                         *)
(* A step is what a thread does between two accesses of the shared fields; *)
(* isConnected() is one step.  A line is named by the caller whose command *)
(* it answers; callers may send commands with one id.  Time is abstract: a *)
(* readLine begun with a time-out may end while nothing is there to read,  *)
(* and an answer may come so slowly that the time is over between two      *)
(* lines.                                                                  *)
(***************************************************************************)
EXTENDS Naturals, Sequences, FiniteSets

CONSTANTS
  Callers,     \* message handlers with a cyc command
  Closers,     \* onClose threads that have counted down to 0 clients
  SameId,      \* SameId[t]: callers whose id is a prefix of t's
  Lines,       \* lines of an answer
  MaxSockets,  \* bound: sockets that may be opened
  SlowAnswers, \* TRUE: TIMEOUT may be over before the last line is read
  None         \* null, no thread

ASSUME NoneAssumption == None \notin Nat \cup Callers
ASSUME ThreadsAssumption == Callers \cap Closers = {}
ASSUME SameIdAssumption == \A t \in Callers : t \in SameId[t]
ASSUME LinesAssumption == Lines \in Nat \ {0}
ASSUME SocketsAssumption == MaxSockets \in Nat
ASSUME SlowAssumption == SlowAnswers \in BOOLEAN

VARIABLES
  clientSocket, outToServer, inFromServer, \* the socket behind each field
  isConnected,  \* CyclicTaskHandler.isConnected (the field)
  timed,        \* sockets with a time-out for reading
  qryAre,       \* the thread that holds the lock
  reader,       \* the socket its readLine reads from
  resSB,        \* the lines the current query has read
  sockets,      \* state of every socket opened so far
  requests,     \* commands the cyclic task has received, per socket
  answered,     \* how many of them it has answered
  stream,       \* lines to read, per socket
  pc,           \* location of every thread
  retried,      \* callers whose first send has failed
  reconnecting, \* threads whose disconnect was called by connect
  ret           \* what QueryMC returns: a caller (its answer) or None

fieldVars == <<clientSocket, outToServer, inFromServer>>
socketVars == <<timed, sockets, requests, answered, stream>>
localVars == <<retried, reconnecting, ret>>
vars == <<fieldVars, isConnected, qryAre, reader, resSB, socketVars, pc,
          localVars>>

Threads == Callers \cup Closers
Line == [of : Callers, nr : 1..Lines]
Answer(t) == [i \in 1..Lines |-> [of |-> t, nr |-> i]]

Opened == 1..Len(sockets)
Closed(s) == s # None /\ sockets[s] = "closed"

Init ==
  /\ clientSocket = None
  /\ outToServer = None
  /\ inFromServer = None
  /\ isConnected = FALSE
  /\ timed = {}
  /\ qryAre = None
  /\ reader = None
  /\ resSB = << >>
  /\ sockets = << >>
  /\ requests = << >>
  /\ answered = << >>
  /\ stream = << >>
  /\ pc = [t \in Threads |-> "idle"]
  /\ retried = {}
  /\ reconnecting = {}
  /\ ret = [t \in Callers |-> None]

Goto(t, l) == pc' = [pc EXCEPT ![t] = l]

-----------------------------------------------------------------------------
(* isConnected(): it corrects the field, then returns it *)

Connected == isConnected /\ ~Closed(clientSocket)

\* Read the field through isConnected() and go to one of two locations.
IfConnected(t, yes, no) ==
  /\ isConnected' = Connected
  /\ Goto(t, IF Connected THEN yes ELSE no)
  /\ UNCHANGED <<fieldVars, qryAre, reader, resSB, socketVars, localVars>>

-----------------------------------------------------------------------------
(* handleMessage of MCWebSocketServer, and connect *)

ConnectToESBP(t) ==
  /\ t \in Callers
  /\ pc[t] = "idle"
  /\ IfConnected(t, "query", "connect")

InQuery(t) == qryAre = t   \* connect and disconnect are called by QueryMC

BeginConnect(t) ==
  /\ pc[t] = "connect"
  /\ IfConnected(t, IF InQuery(t) THEN "send" ELSE "query", "old")

\* connect returns false.
NotConnected(t) ==
  /\ isConnected' = FALSE
  /\ Goto(t, IF InQuery(t) THEN "giveUp" ELSE "done")

\* new Socket("localhost", 8132) when no task listens.
ConnectFails(t) ==
  /\ pc[t] = "socket"
  /\ NotConnected(t)
  /\ UNCHANGED <<fieldVars, qryAre, reader, resSB, socketVars, localVars>>

NewSocket(t) ==
  /\ pc[t] = "socket"
  /\ Len(sockets) < MaxSockets
  /\ sockets' = Append(sockets, "open")
  /\ requests' = Append(requests, << >>)
  /\ answered' = Append(answered, 0)
  /\ stream' = Append(stream, << >>)
  /\ clientSocket' = Len(sockets) + 1
  /\ Goto(t, "timeout")
  /\ UNCHANGED <<outToServer, inFromServer, isConnected, timed, qryAre,
                 reader, resSB, localVars>>

\* clientSocket is read again, here and in the next two steps: another thread
\* may have replaced it, and a closed socket takes no time-out and has no
\* streams.
SetTimeout(t) ==
  /\ pc[t] = "timeout"
  /\ \/ /\ Closed(clientSocket)
        /\ NotConnected(t)
        /\ UNCHANGED timed
     \/ /\ ~Closed(clientSocket)
        /\ timed' = timed \cup {clientSocket}
        /\ Goto(t, "out")
        /\ UNCHANGED isConnected
  /\ UNCHANGED <<fieldVars, qryAre, reader, resSB, sockets, requests,
                 answered, stream, localVars>>

SetOut(t) ==
  /\ pc[t] = "out"
  /\ \/ /\ Closed(clientSocket)
        /\ NotConnected(t)
        /\ UNCHANGED outToServer
     \/ /\ ~Closed(clientSocket)
        /\ outToServer' = clientSocket
        /\ Goto(t, "in")
        /\ UNCHANGED isConnected
  /\ UNCHANGED <<clientSocket, inFromServer, qryAre, reader, resSB, socketVars,
                 localVars>>

SetIn(t) ==
  /\ pc[t] = "in"
  /\ \/ /\ Closed(clientSocket)
        /\ NotConnected(t)
        /\ UNCHANGED inFromServer
     \/ /\ ~Closed(clientSocket)
        /\ inFromServer' = clientSocket
        /\ Goto(t, "up")
        /\ UNCHANGED isConnected
  /\ UNCHANGED <<clientSocket, outToServer, qryAre, reader, resSB, socketVars,
                 localVars>>

EndConnect(t) ==
  /\ pc[t] = "up"
  /\ isConnected' = TRUE
  /\ Goto(t, IF InQuery(t) THEN "send" ELSE "query")
  /\ UNCHANGED <<fieldVars, qryAre, reader, resSB, socketVars, localVars>>

-----------------------------------------------------------------------------
(* QueryMC *)

BeginQuery(t) ==
  /\ pc[t] = "query"
  /\ IfConnected(t, "lock", "done")

\* Mutant: the lock is not taken.
LockQuery_NoWait(t) ==
  /\ pc[t] = "lock"
  /\ qryAre' = t
  /\ Goto(t, "send")
  /\ UNCHANGED <<fieldVars, isConnected, reader, resSB, socketVars,
                 localVars>>

LockQuery(t) ==
  /\ pc[t] = "lock"
  /\ qryAre = None
  /\ qryAre' = t
  /\ Goto(t, "send")
  /\ UNCHANGED <<fieldVars, isConnected, reader, resSB, socketVars,
                 localVars>>

\* send throws on a closed socket, and on one that the task has closed once
\* the kernel knows; the first failure makes QueryMC connect.
SendFails(t) ==
  /\ pc[t] = "send"
  /\ sockets[outToServer] \in {"closed", "ended"}
  /\ isConnected' = FALSE
  /\ Goto(t, IF t \in retried THEN "giveUp" ELSE "connect")
  /\ retried' = retried \cup {t}
  /\ UNCHANGED <<fieldVars, qryAre, reader, resSB, socketVars, reconnecting,
                 ret>>

SendQuery(t) ==
  /\ pc[t] = "send"
  /\ ~Closed(outToServer)
  /\ requests' = IF sockets[outToServer] = "open"
                 THEN [requests EXCEPT ![outToServer] = Append(@, t)]
                 ELSE requests
  /\ resSB' = << >>
  /\ Goto(t, "read")
  /\ UNCHANGED <<fieldVars, isConnected, timed, qryAre, reader, sockets,
                 answered, stream, localVars>>

\* The loop ends because another thread has disconnected, or because the
\* time is over after a line that was not the last.
StopReading(t) ==
  /\ pc[t] = "read"
  /\ ~isConnected \/ (SlowAnswers /\ resSB # << >>)
  /\ Goto(t, "result")
  /\ UNCHANGED <<fieldVars, isConnected, qryAre, reader, resSB, socketVars,
                 localVars>>

\* The call of readLine.  A time-out set later does not end it.
BeginRead(t) ==
  /\ pc[t] = "read"
  /\ isConnected
  /\ reader' = inFromServer
  /\ Goto(t, IF inFromServer \in timed THEN "timedRead" ELSE "endlessRead")
  /\ UNCHANGED <<fieldVars, isConnected, qryAre, resSB, socketVars,
                 localVars>>

Reading(t) == pc[t] \in {"timedRead", "endlessRead"}

\* Mutant: the answer is returned as a list of lines.
HandleMessage_Text(t, text) == text

\* handleMessage: text that is no whole answer does not parse.
HandleMessage(t, text) ==
  LET of == text[Len(text)].of IN
  IF text = Answer(of) /\ of \in SameId[t] THEN of ELSE None

\* readLine returns a line; the last one ends the loop, whatever it answers.
ReadLine(t) ==
  /\ Reading(t)
  /\ ~Closed(reader)
  /\ stream[reader] # << >>
  /\ LET text == Append(resSB, Head(stream[reader])) IN
     /\ resSB' = text
     /\ IF text[Len(text)].nr = Lines
        THEN /\ ret' = [ret EXCEPT ![t] = HandleMessage(t, text)]
             /\ Goto(t, "result")
        ELSE Goto(t, "read") /\ UNCHANGED ret
  /\ stream' = [stream EXCEPT ![reader] = Tail(@)]
  /\ UNCHANGED <<fieldVars, isConnected, timed, qryAre, reader, sockets,
                 requests, answered, retried, reconnecting>>

\* A closed socket, or the end of the stream.
NothingToCome(s) ==
  Closed(s) \/ (sockets[s] = "ended" /\ stream[s] = << >>)

\* Mutant: a failed read sends the command again, as a failed send does.
ReadFails_Resend(t) ==
  /\ Reading(t)
  /\ \/ NothingToCome(reader)
     \/ pc[t] = "timedRead" /\ stream[reader] = << >>
  /\ Goto(t, "connect")
  /\ isConnected' = FALSE
  /\ UNCHANGED <<fieldVars, qryAre, reader, resSB, socketVars, localVars>>

\* readLine throws: nothing more can come, or nothing has come for TIMEOUT.
ReadFails(t) ==
  /\ Reading(t)
  /\ \/ NothingToCome(reader)
     \/ pc[t] = "timedRead" /\ stream[reader] = << >>
  /\ Goto(t, "giveUp")
  /\ UNCHANGED <<fieldVars, isConnected, qryAre, reader, resSB, socketVars,
                 localVars>>

\* An answer is dropped when another thread has disconnected meanwhile.
EndQuery(t) ==
  /\ pc[t] = "result"
  /\ qryAre' = None
  /\ ret' = [ret EXCEPT ![t] = IF isConnected THEN @ ELSE None]
  /\ Goto(t, "done")
  /\ UNCHANGED <<fieldVars, isConnected, reader, resSB, socketVars, retried,
                 reconnecting>>

-----------------------------------------------------------------------------
(* disconnect, called by connect, by QueryMC and by onClose *)

Disconnect(t) ==
  /\ pc[t] \in {"old", "giveUp"} \/ (t \in Closers /\ pc[t] = "idle")
  /\ reconnecting' = IF pc[t] = "old" THEN reconnecting \cup {t}
                     ELSE reconnecting
  /\ Goto(t, IF isConnected THEN "closeOut" ELSE "end")
  /\ isConnected' = FALSE
  /\ UNCHANGED <<fieldVars, qryAre, reader, resSB, socketVars, retried, ret>>

CloseStream(t, s, next) ==
  /\ sockets' = [sockets EXCEPT ![s] = "closed"]
  /\ Goto(t, next)
  /\ UNCHANGED <<fieldVars, isConnected, timed, qryAre, reader, resSB,
                 requests, answered, stream, localVars>>

CloseOut(t) ==
  /\ pc[t] = "closeOut"
  /\ CloseStream(t, outToServer, "closeIn")

\* A reader is closed when no readLine holds its lock.
CloseIn(t) ==
  /\ pc[t] = "closeIn"
  /\ \A u \in Callers : Reading(u) => reader # inFromServer
  /\ CloseStream(t, inFromServer, "closeClient")

CloseClient(t) ==
  /\ pc[t] = "closeClient"
  /\ CloseStream(t, clientSocket, "end")

\* Mutant: the catch of readLine returns without qryAre.unlock().
EndDisconnect_KeepLock(t) ==
  /\ pc[t] = "end"
  /\ reconnecting' = reconnecting \ {t}
  /\ Goto(t, IF t \in reconnecting THEN "socket" ELSE "done")
  /\ UNCHANGED <<fieldVars, isConnected, qryAre, reader, resSB, socketVars,
                 retried, ret>>

EndDisconnect(t) ==
  /\ pc[t] = "end"
  /\ reconnecting' = reconnecting \ {t}
  /\ IF t \in reconnecting
     THEN Goto(t, "socket") /\ UNCHANGED qryAre
     ELSE Goto(t, "done") /\ qryAre' = IF InQuery(t) THEN None ELSE qryAre
  /\ UNCHANGED <<fieldVars, isConnected, reader, resSB, socketVars, retried,
                 ret>>

-----------------------------------------------------------------------------
(* External: the cyclic task answers in order; it may close a socket. *)

TaskAnswers(s) ==
  /\ sockets[s] = "open"
  /\ answered[s] < Len(requests[s])
  /\ answered' = [answered EXCEPT ![s] = @ + 1]
  /\ stream' =
       [stream EXCEPT ![s] = @ \o Answer(requests[s][answered[s] + 1])]
  /\ UNCHANGED <<fieldVars, isConnected, timed, qryAre, reader, resSB,
                 sockets, requests, pc, localVars>>

TaskCloses(s) ==
  /\ sockets[s] = "open"
  /\ sockets' = [sockets EXCEPT ![s] = "ended"]
  /\ UNCHANGED <<fieldVars, isConnected, timed, qryAre, reader, resSB,
                 requests, answered, stream, pc, localVars>>

-----------------------------------------------------------------------------

CallerStep(t) ==
  \/ BeginConnect(t) \/ ConnectFails(t) \/ NewSocket(t) \/ SetTimeout(t)
  \/ SetOut(t) \/ SetIn(t) \/ EndConnect(t) \/ BeginQuery(t)
  \/ LockQuery(t) \/ SendQuery(t) \/ SendFails(t) \/ StopReading(t)
  \/ BeginRead(t) \/ ReadLine(t) \/ ReadFails(t) \/ EndQuery(t)

CloseStep(t) == CloseOut(t) \/ CloseIn(t) \/ CloseClient(t) \/ EndDisconnect(t)

Next ==
  \/ \E t \in Threads : ConnectToESBP(t)
  \/ \E t \in Threads : CallerStep(t)
  \/ \E t \in Threads : Disconnect(t)
  \/ \E t \in Threads : CloseStep(t)
  \/ \E s \in Opened : TaskAnswers(s)
  \/ \E s \in Opened : TaskCloses(s)

Spec == Init /\ [][Next]_vars

\* Every thread that has begun runs on, and a time-out that is set comes.  The
\* task never has to answer.
Fairness ==
  \A t \in Threads : /\ WF_vars(CallerStep(t))
                     /\ WF_vars(pc[t] # "idle" /\ Disconnect(t))
                     /\ WF_vars(CloseStep(t))

FairSpec == Spec /\ Fairness

-----------------------------------------------------------------------------
(* Properties *)

\* Types of the variables.
TypeOK ==
  /\ {clientSocket, outToServer, inFromServer} \subseteq Opened \cup {None}
  /\ isConnected \in BOOLEAN
  /\ timed \subseteq Opened
  /\ qryAre \in Callers \cup {None}
  /\ reader \in Opened \cup {None}
  /\ resSB \in Seq(Line)
  /\ sockets \in Seq({"open", "ended", "closed"})
  /\ requests \in [Opened -> Seq(Callers)]
  /\ answered \in [Opened -> Nat]
  /\ stream \in [Opened -> Seq(Line)]
  /\ retried \subseteq Callers
  /\ reconnecting \subseteq Callers
  /\ ret \in [Callers -> Callers \cup {None}]

\* Commands of one kind share an id, so a query may return what an earlier one
\* has left in the stream.  But it is never the answer of a query that is under
\* way or has got it: no answer is given to two callers, and none is taken from
\* a caller that still waits for it (qryAre in QueryMC), whatever the unlocked
\* connect and disconnect do to the streams.
AnswerIsFree ==
  \A t, u \in Callers :
    ret[t] = u /\ u # t => pc[u] = "done" /\ ret[u] # u

\* The task receives a command at most once: QueryMC sends it again only if
\* the first send has failed, and never after a failed read.
Received(t) == {p \in Opened \X (1..Cardinality(Callers) + 1) :
                  p[2] <= Len(requests[p[1]]) /\ requests[p[1]][p[2]] = t}
SentOnce == \A t \in Callers : Cardinality(Received(t)) <= 1

\* A query that has begun ends and gives the lock back, in spite of failed
\* sends, lost connections, time-outs and other threads that disconnect: all
\* callers share the lock, one that kept it would stop them all.  The one
\* exception is a readLine on a socket that had no time-out when it began.
Hangs(t) == pc[t] = "endlessRead" /\ sockets[reader] = "open"
                                 /\ stream[reader] = << >>
QueryEnds ==
  \A t \in Callers :
    pc[t] # "idle" ~> \/ pc[t] = "done" /\ qryAre # t
                      \/ \E u \in Callers : Hangs(u)

=============================================================================
