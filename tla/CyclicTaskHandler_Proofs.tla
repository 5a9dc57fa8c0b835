---------------------- MODULE CyclicTaskHandler_Proofs ----------------------
(***************************************************************************)
(* Proofs about CyclicTaskHandler, for any number of callers, closers and  *)
(* sockets and any length of an answer: its types, that the task receives  *)
(* a command at most once, and that no caller takes the answer of another  *)
(* that still waits for it.                                                *)
(*                                                                         *)
(* connect and disconnect are called from three places, and where they     *)
(* return to depends on the caller.  A caller may come to the send again,  *)
(* as long as its command has not left; the invariant says at which        *)
(* locations that is so.                                                   *)
(***************************************************************************)
EXTENDS CyclicTaskHandler, FiniteSetTheorems, SequenceTheorems, TLAPS

CloserCodes == {"idle", "closeOut", "closeIn", "closeClient", "end", "done"}

\* The command has not left yet.
BeforeSend == {"idle", "connect", "old", "socket", "timeout", "out", "in",
               "up", "query", "lock", "send"}

ReadCodes == {"timedRead", "endlessRead"}

Codes == CloserCodes \cup BeforeSend \cup ReadCodes
           \cup {"read", "result", "giveUp"}

Locations ==
  /\ pc \in [Threads -> Codes]
  /\ \A t \in Threads : t \notin Callers => pc[t] \in CloserCodes

FieldsSet == None \notin {clientSocket, outToServer, inFromServer}

\* What a location or isConnected says about the fields.
Fields ==
  /\ isConnected => FieldsSet
  /\ \A t \in Threads :
       /\ pc[t] \in {"timeout", "out", "in", "up"} => clientSocket # None
       /\ pc[t] \in {"in", "up"} => outToServer # None
       /\ pc[t] = "up" => inFromServer # None
       /\ pc[t] \in {"query", "lock", "send", "read"} \cup ReadCodes
            => FieldsSet
       /\ pc[t] \in ReadCodes => reader # None

TInv == TypeOK /\ Locations /\ Fields

-----------------------------------------------------------------------------

LEMMA SeqFunction ==
  ASSUME NEW S, NEW f \in Seq(S)
  PROVE  f \in [1..Len(f) -> S] /\ Len(f) \in Nat
OBVIOUS

\* One more socket.
LEMMA OneMore ==
  ASSUME NEW S, NEW n \in Nat, NEW f \in [1..n -> S], NEW e \in S
  PROVE  /\ Append(f, e) \in [1..(n + 1) -> S]
         /\ \A i \in 1..n : Append(f, e)[i] = f[i]
         /\ Append(f, e)[n + 1] = e
<1>1. f \in Seq(S) /\ Len(f) = n
  BY SeqDef
<1>2. /\ Append(f, e) \in Seq(S)
      /\ Len(Append(f, e)) = n + 1
      /\ \A i \in 1..n : Append(f, e)[i] = f[i]
      /\ Append(f, e)[n + 1] = e
  BY <1>1, AppendProperties
<1>3. Append(f, e) \in [1..Len(Append(f, e)) -> S]
  BY <1>2, SeqFunction
<1>. QED
  BY <1>2, <1>3

\* A change of one socket.
LEMMA OneChanged ==
  ASSUME NEW f \in Seq({"open", "ended", "closed"}), NEW i,
         NEW e \in {"open", "ended", "closed"}
  PROVE  /\ [f EXCEPT ![i] = e] \in Seq({"open", "ended", "closed"})
         /\ Len([f EXCEPT ![i] = e]) = Len(f)
<1>1. f \in [1..Len(f) -> {"open", "ended", "closed"}] /\ Len(f) \in Nat
  BY SeqFunction
<1>2. [f EXCEPT ![i] = e] \in [1..Len(f) -> {"open", "ended", "closed"}]
  BY <1>1
<1>. QED
  BY <1>1, <1>2, SeqDef

LEMMA InitType == Init => TInv
<1>. SUFFICES ASSUME Init PROVE TInv
  OBVIOUS
<1>1. Len(sockets) = 0 /\ Opened = {}
  BY DEF Init, Opened
<1>2. TypeOK
  <2>1. requests \in [Opened -> Seq(Callers)] /\ answered \in [Opened -> Nat]
        /\ stream \in [Opened -> Seq(Line)]
    BY <1>1 DEF Init
  <2>2. resSB \in Seq(Line) /\ sockets \in Seq({"open", "ended", "closed"})
    BY DEF Init
  <2>3. ret \in [Callers -> Callers \cup {None}]
    BY DEF Init
  <2>. QED
    BY <2>1, <2>2, <2>3 DEF Init, TypeOK
<1>3. Locations
  BY DEF Init, Locations, Codes, CloserCodes, BeforeSend
<1>4. Fields
  BY DEF Init, Fields, Threads, ReadCodes
<1>. QED
  BY <1>2, <1>3, <1>4 DEF TInv

LEMMA CallerType ==
  ASSUME TInv, NEW t \in Threads, CallerStep(t) \/ ConnectToESBP(t)
  PROVE  TInv'
<1>. USE DEF Goto, InQuery, Threads, fieldVars, socketVars, localVars, TInv,
        ReadCodes
<1>0. /\ TypeOK /\ Locations /\ Fields
      /\ pc[t] \notin CloserCodes => t \in Callers
  BY DEF Locations
<1>a. ASSUME UNCHANGED <<fieldVars, reader, resSB, socketVars, localVars>>,
             isConnected' \in {isConnected, FALSE}, NEW l \in Codes,
             qryAre' \in {qryAre, t, None}, t \in Callers,
             pc' = [pc EXCEPT ![t] = l],
             l \notin {"timeout", "out", "in", "up"} \cup ReadCodes,
             l \in {"query", "lock", "send", "read"} => FieldsSet
      PROVE  TInv'
  <2>1. TypeOK'
    BY <1>0, <1>a DEF TypeOK, Opened
  <2>2. Locations'
    BY <1>0, <1>a DEF Locations
  <2>3. Fields'
    <3>1. FieldsSet' <=> FieldsSet
      BY <1>a DEF FieldsSet
    <3>2. isConnected' => FieldsSet
      BY <1>0, <1>a DEF Fields
    <3>3. \A u \in Threads : pc'[u] = pc[u] \/ (u = t /\ pc'[u] = l)
      BY <1>0, <1>a DEF Locations
    <3>. QED
      BY <1>0, <1>a, <3>1, <3>2, <3>3 DEF Fields
  <2>. QED
    BY <2>1, <2>2, <2>3
<1>1. ASSUME NEW yes \in Codes, NEW no \in Codes, IfConnected(t, yes, no),
             no \notin {"timeout", "out", "in", "up", "query", "lock", "send",
                       "read"},
             yes \notin {"timeout", "out", "in", "up"},
             {yes, no} \cap ReadCodes = {}, t \in Callers
      PROVE  TInv'
  <2>1. Connected => FieldsSet
    BY <1>0 DEF Connected, Fields
  <2>2. Connected \in {isConnected, FALSE}
    BY <1>0 DEF Connected, TypeOK
  <2>3. CASE Connected
    BY <1>1, <1>a, <2>1, <2>2, <2>3 DEF IfConnected
  <2>4. CASE ~Connected
    BY <1>1, <1>a, <2>2, <2>4 DEF IfConnected
  <2>. QED
    BY <2>3, <2>4
<1>2. CASE ConnectToESBP(t)
  BY <1>1, <1>2 DEF ConnectToESBP, Codes, BeforeSend
<1>3. CASE BeginConnect(t)
  <2>1. t \in Callers
    BY <1>0, <1>3 DEF BeginConnect, CloserCodes
  <2>2. CASE InQuery(t)
    BY <1>1, <1>3, <2>1, <2>2 DEF BeginConnect, Codes, BeforeSend
  <2>3. CASE ~InQuery(t)
    BY <1>1, <1>3, <2>1, <2>3 DEF BeginConnect, Codes, BeforeSend
  <2>. QED
    BY <2>2, <2>3
<1>4. CASE ConnectFails(t)
  <2>1. t \in Callers
    BY <1>0, <1>4 DEF ConnectFails, CloserCodes
  <2>2. PICK l \in {"giveUp", "done"} : pc' = [pc EXCEPT ![t] = l]
    BY <1>4 DEF ConnectFails, NotConnected
  <2>. QED
    BY <1>4, <1>a, <2>1, <2>2
       DEF ConnectFails, NotConnected, Codes, CloserCodes
<1>5. CASE NewSocket(t)
  <2>1. t \in Callers
    BY <1>0, <1>5 DEF NewSocket, CloserCodes
  <2>2. /\ Len(sockets) \in Nat
        /\ sockets' \in Seq({"open", "ended", "closed"})
        /\ Len(sockets') = Len(sockets) + 1
    BY <1>0, <1>5 DEF NewSocket, TypeOK
  <2>a. << >> \in Seq(Callers) /\ << >> \in Seq(Line)
    OBVIOUS
  <2>3. requests' \in [Opened' -> Seq(Callers)]
    <3>1. requests \in [1..Len(sockets) -> Seq(Callers)]
          /\ requests' = Append(requests, << >>)
      BY <1>0, <1>5 DEF NewSocket, TypeOK, Opened
    <3>. QED
      BY <2>2, <2>a, <3>1, OneMore DEF Opened
  <2>4. answered' \in [Opened' -> Nat]
    BY <1>0, <1>5, <2>2, OneMore DEF NewSocket, TypeOK, Opened
  <2>5. stream' \in [Opened' -> Seq(Line)]
    <3>1. stream \in [1..Len(sockets) -> Seq(Line)]
          /\ stream' = Append(stream, << >>)
      BY <1>0, <1>5 DEF NewSocket, TypeOK, Opened
    <3>. QED
      BY <2>2, <2>a, <3>1, OneMore DEF Opened
  <2>6. /\ {clientSocket', outToServer', inFromServer', reader'}
             \subseteq Opened' \cup {None}
        /\ timed' \subseteq Opened'
    BY <1>0, <1>5, <2>2 DEF NewSocket, TypeOK, Opened
  <2>7. TypeOK'
    BY <1>0, <1>5, <2>2, <2>3, <2>4, <2>5, <2>6 DEF NewSocket, TypeOK
  <2>8. Locations'
    BY <1>0, <1>5, <2>1 DEF NewSocket, Locations, Codes, BeforeSend
  <2>9. Fields'
    <3>1. clientSocket' # None
      BY <1>5, <2>2, NoneAssumption DEF NewSocket
    <3>. QED
      BY <1>0, <1>5, <3>1 DEF NewSocket, Locations, Fields, FieldsSet
  <2>. QED
    BY <2>7, <2>8, <2>9
<1>5a. CASE SetTimeout(t)
  <2>1. t \in Callers /\ clientSocket # None
    BY <1>0, <1>5a DEF SetTimeout, CloserCodes, Fields
  <2>2. CASE NotConnected(t) /\ UNCHANGED timed
    BY <1>5a, <1>a, <2>1, <2>2
       DEF SetTimeout, NotConnected, Codes, CloserCodes, ReadCodes
  <2>3. CASE timed' = timed \cup {clientSocket} /\ Goto(t, "out")
             /\ UNCHANGED isConnected
    <3>1. TypeOK'
      BY <1>0, <1>5a, <2>1, <2>3 DEF SetTimeout, TypeOK, Opened
    <3>2. Locations'
      BY <1>0, <2>1, <2>3 DEF Locations, Codes, BeforeSend
    <3>3. Fields'
      BY <1>0, <1>5a, <2>1, <2>3
         DEF SetTimeout, Locations, Fields, FieldsSet, ReadCodes
    <3>. QED
      BY <3>1, <3>2, <3>3
  <2>. QED
    BY <1>5a, <2>2, <2>3 DEF SetTimeout
<1>6. CASE SetOut(t)
  <2>1. t \in Callers /\ clientSocket # None
    BY <1>0, <1>6 DEF SetOut, CloserCodes, Fields
  <2>2. CASE NotConnected(t) /\ UNCHANGED outToServer
    BY <1>6, <1>a, <2>1, <2>2 DEF SetOut, NotConnected, Codes, CloserCodes
  <2>3. CASE outToServer' = clientSocket /\ Goto(t, "in")
             /\ UNCHANGED isConnected
    <3>1. TypeOK'
      BY <1>0, <1>6, <2>3 DEF SetOut, TypeOK, Opened
    <3>2. Locations'
      BY <1>0, <2>1, <2>3 DEF Locations, Codes, BeforeSend
    <3>3. Fields'
      BY <1>0, <1>6, <2>1, <2>3 DEF SetOut, Locations, Fields, FieldsSet
    <3>. QED
      BY <3>1, <3>2, <3>3
  <2>. QED
    BY <1>6, <2>2, <2>3 DEF SetOut
<1>7. CASE SetIn(t)
  <2>1. t \in Callers /\ clientSocket # None
    BY <1>0, <1>7 DEF SetIn, CloserCodes, Fields
  <2>2. CASE NotConnected(t) /\ UNCHANGED inFromServer
    BY <1>7, <1>a, <2>1, <2>2 DEF SetIn, NotConnected, Codes, CloserCodes
  <2>3. CASE inFromServer' = clientSocket /\ Goto(t, "up")
             /\ UNCHANGED isConnected
    <3>1. TypeOK'
      BY <1>0, <1>7, <2>3 DEF SetIn, TypeOK, Opened
    <3>2. Locations'
      BY <1>0, <2>1, <2>3 DEF Locations, Codes, BeforeSend
    <3>3. Fields'
      BY <1>0, <1>7, <2>1, <2>3 DEF SetIn, Locations, Fields, FieldsSet
    <3>. QED
      BY <3>1, <3>2, <3>3
  <2>. QED
    BY <1>7, <2>2, <2>3 DEF SetIn
<1>8. CASE EndConnect(t)
  <2>1. t \in Callers /\ FieldsSet
    BY <1>0, <1>8 DEF EndConnect, CloserCodes, Fields, FieldsSet
  <2>2. PICK l \in {"send", "query"} : Goto(t, l)
    BY <1>8 DEF EndConnect
  <2>3. TypeOK'
    BY <1>0, <1>8 DEF EndConnect, TypeOK, Opened
  <2>4. Locations'
    BY <1>0, <2>1, <2>2 DEF Locations, Codes, BeforeSend
  <2>5. Fields'
    BY <1>0, <1>8, <2>1, <2>2 DEF EndConnect, Locations, Fields, FieldsSet
  <2>. QED
    BY <2>3, <2>4, <2>5
<1>9. CASE BeginQuery(t)
  <2>1. t \in Callers
    BY <1>0, <1>9 DEF BeginQuery, CloserCodes
  <2>. QED
    BY <1>1, <1>9, <2>1 DEF BeginQuery, Codes, BeforeSend, CloserCodes
<1>10. CASE LockQuery(t)
  <2>1. t \in Callers /\ FieldsSet
    BY <1>0, <1>10 DEF LockQuery, CloserCodes, Fields
  <2>. QED
    BY <1>10, <1>a, <2>1 DEF LockQuery, Codes, BeforeSend
<1>11. CASE SendFails(t)
  <2>1. t \in Callers
    BY <1>0, <1>11 DEF SendFails, CloserCodes
  <2>2. PICK l \in {"giveUp", "connect"} : Goto(t, l)
    BY <1>11 DEF SendFails
  <2>3. TypeOK'
    BY <1>0, <1>11, <2>1 DEF SendFails, TypeOK, Opened
  <2>4. Locations'
    BY <1>0, <2>1, <2>2 DEF Locations, Codes, BeforeSend
  <2>5. Fields'
    BY <1>0, <1>11, <2>2 DEF SendFails, Locations, Fields, FieldsSet
  <2>. QED
    BY <2>3, <2>4, <2>5
<1>12. CASE SendQuery(t)
  <2>1. t \in Callers /\ FieldsSet
    BY <1>0, <1>12 DEF SendQuery, CloserCodes, Fields
  <2>2. requests' \in [Opened -> Seq(Callers)]
    <3>1. /\ outToServer \in Opened
          /\ requests \in [Opened -> Seq(Callers)]
      BY <1>0, <2>1 DEF FieldsSet, TypeOK
    <3>2. Append(requests[outToServer], t) \in Seq(Callers)
      BY <2>1, <3>1
    <3>. QED
      BY <1>12, <3>1, <3>2 DEF SendQuery
  <2>3. resSB' \in Seq(Line)
    BY <1>12 DEF SendQuery
  <2>4. TypeOK'
    BY <1>0, <1>12, <2>2, <2>3 DEF SendQuery, TypeOK, Opened
  <2>5. Locations'
    BY <1>0, <1>12, <2>1 DEF SendQuery, Locations, Codes
  <2>6. Fields'
    BY <1>0, <1>12, <2>1 DEF SendQuery, Locations, Fields, FieldsSet
  <2>. QED
    BY <2>4, <2>5, <2>6
<1>13. CASE StopReading(t)
  <2>1. t \in Callers
    BY <1>0, <1>13 DEF StopReading, CloserCodes
  <2>. QED
    BY <1>13, <1>a, <2>1 DEF StopReading, Codes
<1>13a. CASE BeginRead(t)
  <2>1. t \in Callers /\ inFromServer # None
    BY <1>0, <1>13a DEF BeginRead, CloserCodes, Fields, FieldsSet
  <2>2. PICK l \in ReadCodes : Goto(t, l)
    BY <1>13a DEF BeginRead, ReadCodes
  <2>3. TypeOK'
    BY <1>0, <1>13a DEF BeginRead, TypeOK, Opened
  <2>4. Locations'
    BY <1>0, <2>1, <2>2 DEF Locations, Codes
  <2>5. Fields'
    BY <1>0, <1>13a, <2>1, <2>2
       DEF BeginRead, Locations, Fields, FieldsSet, ReadCodes
  <2>. QED
    BY <2>3, <2>4, <2>5
<1>14. CASE ReadLine(t)
  <2>. DEFINE text == Append(resSB, Head(stream[reader]))
  <2>1. t \in Callers /\ reader # None /\ pc[t] \in ReadCodes
    BY <1>0, <1>14 DEF ReadLine, Reading, CloserCodes, Fields, ReadCodes
  <2>2. reader \in Opened
    BY <1>0, <2>1 DEF TypeOK
  <2>3. /\ stream[reader] \in Seq(Line)
        /\ stream[reader] # << >>
        /\ resSB \in Seq(Line)
    BY <1>0, <1>14, <2>2 DEF ReadLine, TypeOK
  <2>4. /\ Head(stream[reader]) \in Line
        /\ Tail(stream[reader]) \in Seq(Line)
    BY <2>3
  <2>5. text \in Seq(Line) /\ text[Len(text)] \in Line
    BY <2>3, <2>4
  <2>6. HandleMessage(t, text) \in Callers \cup {None}
    <3>. HIDE DEF text
    <3>. QED
      BY <2>5 DEF HandleMessage, Line
  <2>7. /\ resSB' = text
        /\ stream' = [stream EXCEPT ![reader] = Tail(@)]
        /\ \/ ret' = [ret EXCEPT ![t] = HandleMessage(t, text)]
              /\ Goto(t, "result")
           \/ UNCHANGED ret /\ Goto(t, "read")
        /\ UNCHANGED <<fieldVars, isConnected, timed, qryAre, reader, sockets,
                       requests, answered, retried, reconnecting>>
    BY <1>14 DEF ReadLine
  <2>. HIDE DEF text
  <2>8. ret' \in [Callers -> Callers \cup {None}]
    BY <1>0, <2>6, <2>7 DEF TypeOK
  <2>9. stream' \in [Opened -> Seq(Line)]
    BY <1>0, <2>4, <2>7 DEF TypeOK
  <2>10. TypeOK'
    BY <1>0, <2>5, <2>7, <2>8, <2>9 DEF TypeOK, Opened
  <2>11. Locations'
    BY <1>0, <2>1, <2>7 DEF Locations, Codes
  <2>12. Fields'
    BY <1>0, <2>1, <2>7 DEF Locations, Fields, FieldsSet
  <2>. QED
    BY <2>10, <2>11, <2>12
<1>15. CASE ReadFails(t)
  <2>1. t \in Callers
    BY <1>0, <1>15 DEF ReadFails, Reading, CloserCodes
  <2>. QED
    BY <1>15, <1>a, <2>1 DEF ReadFails, Codes
<1>16. CASE EndQuery(t)
  <2>1. t \in Callers
    BY <1>0, <1>16 DEF EndQuery, CloserCodes
  <2>2. TypeOK'
    BY <1>0, <1>16 DEF EndQuery, TypeOK, Opened
  <2>3. Locations'
    BY <1>0, <1>16 DEF EndQuery, Locations, Codes, CloserCodes
  <2>4. Fields'
    BY <1>0, <1>16 DEF EndQuery, Locations, Fields, FieldsSet
  <2>. QED
    BY <2>2, <2>3, <2>4
<1>. QED
  BY <1>2, <1>3, <1>4, <1>5, <1>5a, <1>6, <1>7, <1>8, <1>9, <1>10, <1>11,
     <1>12, <1>13, <1>13a, <1>14, <1>15, <1>16 DEF CallerStep

LEMMA DisconnectType ==
  ASSUME TInv, NEW t \in Threads, Disconnect(t) \/ CloseStep(t)
  PROVE  TInv'
<1>. USE DEF Goto, InQuery, Threads, fieldVars, socketVars, localVars, TInv,
        ReadCodes
<1>0. /\ TypeOK /\ Locations /\ Fields
      /\ pc[t] \notin CloserCodes => t \in Callers
  BY DEF Locations
<1>1. CASE Disconnect(t)
  <2>1. PICK l \in {"closeOut", "end"} : Goto(t, l)
    BY <1>1 DEF Disconnect
  <2>2. TypeOK'
    BY <1>0, <1>1 DEF Disconnect, TypeOK, Opened, CloserCodes
  <2>3. Locations'
    BY <1>0, <2>1 DEF Locations, Codes, CloserCodes
  <2>4. Fields'
    BY <1>0, <1>1, <2>1 DEF Disconnect, Locations, Fields, FieldsSet
  <2>. QED
    BY <2>2, <2>3, <2>4
<1>2. ASSUME NEW s, NEW l \in CloserCodes, CloseStream(t, s, l)
      PROVE  TInv'
  <2>1. /\ sockets' \in Seq({"open", "ended", "closed"})
        /\ Len(sockets') = Len(sockets)
    <3>1. sockets' = [sockets EXCEPT ![s] = "closed"]
      BY <1>2 DEF CloseStream
    <3>2. sockets \in Seq({"open", "ended", "closed"})
      BY <1>0 DEF TypeOK
    <3>. QED
      BY <3>1, <3>2, OneChanged
  <2>2. TypeOK'
    BY <1>0, <1>2, <2>1 DEF CloseStream, TypeOK, Opened
  <2>3. Locations'
    BY <1>0, <1>2 DEF CloseStream, Locations, Codes
  <2>4. Fields'
    BY <1>0, <1>2 DEF CloseStream, Locations, Fields, FieldsSet, CloserCodes
  <2>. QED
    BY <2>2, <2>3, <2>4
<1>3. CASE CloseOut(t) \/ CloseIn(t) \/ CloseClient(t)
  BY <1>2, <1>3 DEF CloseOut, CloseIn, CloseClient, CloserCodes
<1>4. CASE EndDisconnect(t)
  <2>1. PICK l \in {"socket", "done"} :
          Goto(t, l) /\ (l = "socket" => t \in reconnecting)
    BY <1>4 DEF EndDisconnect
  <2>2. TypeOK'
    BY <1>0, <1>4 DEF EndDisconnect, TypeOK, Opened
  <2>3. Locations'
    BY <1>0, <2>1 DEF TypeOK, Locations, Codes, CloserCodes, BeforeSend
  <2>4. Fields'
    BY <1>0, <1>4, <2>1 DEF EndDisconnect, Locations, Fields, FieldsSet
  <2>. QED
    BY <2>2, <2>3, <2>4
<1>. QED
  BY <1>1, <1>3, <1>4 DEF CloseStep

LEMMA TaskType ==
  ASSUME TInv, NEW s \in Opened, TaskAnswers(s) \/ TaskCloses(s)
  PROVE  TInv'
<1>. USE DEF fieldVars, localVars, TInv, ReadCodes
<1>1. Locations' /\ Fields'
  <2>1. UNCHANGED <<fieldVars, isConnected, reader, pc>>
    BY DEF TaskAnswers, TaskCloses
  <2>. QED
    BY <2>1 DEF Locations, Fields, FieldsSet
<1>2. CASE TaskAnswers(s)
  <2>. DEFINE t == requests[s][answered[s] + 1]
  <2>1. t \in Callers
    <3>1. requests[s] \in Seq(Callers) /\ answered[s] \in Nat
      BY DEF TypeOK
    <3>2. answered[s] < Len(requests[s])
      BY <1>2 DEF TaskAnswers
    <3>3. answered[s] + 1 \in 1..Len(requests[s])
      BY <3>1, <3>2
    <3>. QED
      BY <3>1, <3>3, ElementOfSeq
  <2>2. Answer(t) \in Seq(Line)
    <3>1. Answer(t) \in [1..Lines -> Line]
      BY <2>1, LinesAssumption DEF Answer, Line
    <3>. QED
      BY <3>1, LinesAssumption, SeqDef
  <2>3. stream' \in [Opened -> Seq(Line)]
    <3>1. stream \in [Opened -> Seq(Line)]
          /\ stream[s] \o Answer(t) \in Seq(Line)
      BY <2>2 DEF TypeOK
    <3>2. stream' = [stream EXCEPT ![s] = stream[s] \o Answer(t)]
      BY <1>2 DEF TaskAnswers
    <3>. HIDE DEF t
    <3>. QED
      BY <3>1, <3>2
  <2>4. answered' \in [Opened -> Nat]
    <3>1. answered \in [Opened -> Nat]
      BY DEF TypeOK
    <3>2. answered' = [answered EXCEPT ![s] = answered[s] + 1]
      BY <1>2 DEF TaskAnswers
    <3>. QED
      BY <3>1, <3>2
  <2>5. TypeOK'
    BY <1>2, <2>3, <2>4 DEF TaskAnswers, TypeOK, Opened
  <2>. QED
    BY <1>1, <2>5
<1>3. CASE TaskCloses(s)
  <2>1. /\ sockets' \in Seq({"open", "ended", "closed"})
        /\ Len(sockets') = Len(sockets)
    <3>1. sockets' = [sockets EXCEPT ![s] = "ended"]
      BY <1>3 DEF TaskCloses
    <3>2. sockets \in Seq({"open", "ended", "closed"})
      BY DEF TypeOK
    <3>. QED
      BY <3>1, <3>2, OneChanged
  <2>2. TypeOK'
    BY <1>3, <2>1 DEF TaskCloses, TypeOK, Opened
  <2>. QED
    BY <1>1, <2>2
<1>. QED
  BY <1>2, <1>3

LEMMA NextType == TInv /\ [Next]_vars => TInv'
<1>. SUFFICES ASSUME TInv, [Next]_vars PROVE TInv'
  OBVIOUS
<1>1. CASE UNCHANGED vars
  BY <1>1 DEF vars, fieldVars, socketVars, localVars, TInv, TypeOK, Opened,
              Locations, Fields, FieldsSet
<1>. QED
  BY <1>1, CallerType, DisconnectType, TaskType DEF Next

LEMMA Typed == Spec => []TInv
BY InitType, NextType, PTL DEF Spec

\* Sockets, streams and threads keep their types, and a thread that uses a
\* field of the shared socket finds it set.
THEOREM TypeCorrect == Spec => []TypeOK
<1>1. TInv => TypeOK
  BY DEF TInv
<1>. QED
  BY <1>1, Typed, PTL
-----------------------------------------------------------------------------
(* A command is sent once *)

Has(t, s, i) == i \in 1..Len(requests[s]) /\ requests[s][i] = t

\* A thread that connects again before the command has left has sent nothing,
\* and connect comes back to the send only then.
NotSentYet ==
  \A t \in Callers :
    /\ t \in reconnecting
         => pc[t] \in {"closeOut", "closeIn", "closeClient", "end"}
    /\ pc[t] \in BeforeSend \/ t \in reconnecting
         => \A s \in Opened, i \in Nat : ~Has(t, s, i)

InOnePlace ==
  \A t \in Callers : \A s1, s2 \in Opened, i1, i2 \in Nat :
    Has(t, s1, i1) /\ Has(t, s2, i2) => s1 = s2 /\ i1 = i2

OInv == TInv /\ NotSentYet /\ InOnePlace

LEMMA InitSent == Init => OInv
<1>. SUFFICES ASSUME Init PROVE OInv
  OBVIOUS
<1>1. TInv
  BY InitType
<1>2. Opened = {}
  BY DEF Init, Opened
<1>3. NotSentYet
  BY <1>2 DEF Init, NotSentYet
<1>4. InOnePlace
  BY <1>2 DEF InOnePlace
<1>. QED
  BY <1>1, <1>3, <1>4 DEF OInv

\* A step of a thread that sends nothing.
LEMMA SilentStep ==
  ASSUME OInv, NEW t \in Threads, Locations',
         requests' = requests /\ Opened' = Opened,
         \A u \in Threads : u # t => pc'[u] = pc[u],
         \A u \in Callers : u # t
           => (u \in reconnecting' <=> u \in reconnecting),
         t \in Callers
           => /\ t \in reconnecting'
                   => pc'[t] \in {"closeOut", "closeIn", "closeClient", "end"}
              /\ pc'[t] \in BeforeSend \/ t \in reconnecting'
                   => pc[t] \in BeforeSend \/ t \in reconnecting
  PROVE  NotSentYet' /\ InOnePlace'
<1>1. \A u \in Callers : \A s, i : Has(u, s, i)' <=> Has(u, s, i)
  BY DEF Has
<1>2. InOnePlace'
  BY <1>1 DEF OInv, InOnePlace
<1>3. ASSUME NEW u \in Callers
      PROVE  /\ u \in reconnecting'
                  => pc'[u] \in {"closeOut", "closeIn", "closeClient", "end"}
             /\ pc'[u] \in BeforeSend \/ u \in reconnecting'
                  => pc[u] \in BeforeSend \/ u \in reconnecting
  BY DEF OInv, NotSentYet, Threads
<1>4. NotSentYet'
  BY <1>1, <1>3 DEF OInv, NotSentYet
<1>. QED
  BY <1>2, <1>4

LEMMA NextSent == OInv /\ [Next]_vars => OInv'
<1>. SUFFICES ASSUME OInv, [Next]_vars PROVE NotSentYet' /\ InOnePlace'
  BY NextType DEF OInv
<1>0. TInv /\ TInv' /\ TypeOK /\ Locations /\ Locations' /\ NotSentYet
      /\ InOnePlace
  BY NextType DEF OInv, TInv
<1>. USE DEF Goto, fieldVars, socketVars, localVars
<1>1. ASSUME NEW t \in Threads, NewSocket(t)
      PROVE  NotSentYet' /\ InOnePlace'
  <2>1. t \in Callers
    BY <1>0, <1>1 DEF NewSocket, Locations, CloserCodes
  <2>2. /\ Len(sockets) \in Nat
        /\ requests \in [1..Len(sockets) -> Seq(Callers)]
        /\ requests' = Append(requests, << >>)
        /\ Opened' = 1..(Len(sockets) + 1)
    BY <1>0, <1>1 DEF NewSocket, TypeOK, Opened
  <2>3. << >> \in Seq(Callers)
    OBVIOUS
  <2>4. /\ \A s \in Opened : requests'[s] = requests[s]
        /\ requests'[Len(sockets) + 1] = << >>
    BY <2>2, <2>3, OneMore DEF Opened
  <2>5. ASSUME NEW u \in Callers, NEW s \in Opened', NEW i \in Nat,
               Has(u, s, i)'
        PROVE  s \in Opened /\ Has(u, s, i)
    <3>1. CASE s = Len(sockets) + 1
      BY <2>4, <2>5, <3>1 DEF Has
    <3>2. CASE s \in Opened
      BY <2>4, <2>5, <3>2 DEF Has
    <3>. QED
      BY <2>2, <3>1, <3>2 DEF Opened
  <2>6. InOnePlace'
    BY <1>0, <2>5 DEF InOnePlace
  <2>7. \A u \in Callers : /\ pc'[u] \in BeforeSend <=> pc[u] \in BeforeSend
                           /\ u # t => pc'[u] = pc[u]
    BY <1>0, <1>1 DEF NewSocket, Locations, BeforeSend, Threads
  <2>8. t \notin reconnecting /\ reconnecting' = reconnecting
    BY <1>0, <1>1, <2>1 DEF NewSocket, NotSentYet
  <2>9. NotSentYet'
    BY <1>0, <2>5, <2>7, <2>8 DEF NotSentYet
  <2>. QED
    BY <2>6, <2>9
<1>2. ASSUME NEW t \in Threads, SendQuery(t)
      PROVE  NotSentYet' /\ InOnePlace'
  <2>1. t \in Callers /\ pc[t] = "send" /\ t \notin reconnecting
    BY <1>0, <1>2 DEF SendQuery, Locations, CloserCodes, NotSentYet
  <2>. DEFINE o == outToServer
  <2>2. o \in Opened /\ requests[o] \in Seq(Callers)
    BY <1>0, <1>2, <2>1 DEF TInv, Fields, FieldsSet, TypeOK
  <2>3. Opened' = Opened /\ reconnecting' = reconnecting
    BY <1>2 DEF SendQuery, Opened
  <2>4. \A s \in Opened, i \in Nat : ~Has(t, s, i)
    BY <1>0, <2>1 DEF NotSentYet, BeforeSend
  <2>5. ASSUME NEW u \in Callers, NEW s \in Opened, NEW i \in Nat,
               Has(u, s, i)'
        PROVE  \/ Has(u, s, i)
               \/ u = t /\ s = o /\ i = Len(requests[o]) + 1
    <3>1. CASE requests' = requests
      BY <2>5, <3>1 DEF Has
    <3>2. CASE requests' = [requests EXCEPT ![o] = Append(@, t)]
      <4>1. CASE s # o
        BY <1>0, <2>2, <2>5, <3>2, <4>1 DEF Has, TypeOK
      <4>2. CASE s = o
        <5>1. requests'[o] = Append(requests[o], t)
          BY <1>0, <2>2, <3>2 DEF TypeOK
        <5>2. /\ Len(requests'[o]) = Len(requests[o]) + 1
              /\ Len(requests[o]) \in Nat
              /\ \A j \in 1..Len(requests[o]) :
                   requests'[o][j] = requests[o][j]
              /\ requests'[o][Len(requests[o]) + 1] = t
          BY <2>1, <2>2, <5>1, AppendProperties
        <5>. QED
          BY <2>5, <4>2, <5>2 DEF Has
      <4>. QED
        BY <4>1, <4>2
    <3>. QED
      BY <1>2, <3>1, <3>2 DEF SendQuery
  <2>. HIDE DEF o
  <2>6. InOnePlace'
    <3>. SUFFICES ASSUME NEW u \in Callers, NEW s1 \in Opened,
                         NEW s2 \in Opened, NEW i1 \in Nat, NEW i2 \in Nat,
                         Has(u, s1, i1)', Has(u, s2, i2)'
                  PROVE  s1 = s2 /\ i1 = i2
      BY <2>3 DEF InOnePlace
    <3>1. CASE u = t
      BY <2>4, <2>5, <3>1
    <3>2. CASE u # t
      BY <1>0, <2>5, <3>2 DEF InOnePlace
    <3>. QED
      BY <3>1, <3>2
  <2>7. /\ pc'[t] = "read"
        /\ \A u \in Callers : u # t => pc'[u] = pc[u]
    BY <1>0, <1>2 DEF SendQuery, Locations, Threads
  <2>8. NotSentYet'
    <3>. SUFFICES ASSUME NEW u \in Callers
                  PROVE  /\ u \in reconnecting
                              => pc'[u] \in {"closeOut", "closeIn",
                                             "closeClient", "end"}
                         /\ pc'[u] \in BeforeSend \/ u \in reconnecting
                              => \A s \in Opened, i \in Nat : ~Has(u, s, i)'
      BY <2>3 DEF NotSentYet
    <3>1. CASE u = t
      BY <2>1, <2>7, <3>1 DEF BeforeSend
    <3>2. CASE u # t
      BY <1>0, <2>5, <2>7, <3>2 DEF NotSentYet
    <3>. QED
      BY <3>1, <3>2
  <2>. QED
    BY <2>6, <2>8
<1>3. ASSUME NEW t \in Threads,
             \/ ConnectToESBP(t) \/ BeginConnect(t) \/ ConnectFails(t)
             \/ SetTimeout(t) \/ SetOut(t) \/ SetIn(t) \/ EndConnect(t)
             \/ BeginQuery(t) \/ LockQuery(t) \/ SendFails(t)
             \/ StopReading(t) \/ BeginRead(t) \/ ReadLine(t)
             \/ ReadFails(t) \/ EndQuery(t)
      PROVE  NotSentYet' /\ InOnePlace'
  <2>1. requests' = requests /\ sockets' = sockets
        /\ reconnecting' = reconnecting
    BY <1>3
       DEF ConnectToESBP, BeginConnect, ConnectFails, SetTimeout, SetOut,
           SetIn, EndConnect, BeginQuery, LockQuery, SendFails, StopReading,
           BeginRead, ReadLine, ReadFails, EndQuery, IfConnected
  <2>2. PICK l : pc' = [pc EXCEPT ![t] = l]
    <3>1. CASE ReadLine(t)
      BY <3>1 DEF ReadLine
    <3>2. CASE ~ReadLine(t)
      BY <1>3, <3>2
         DEF ConnectToESBP, BeginConnect, ConnectFails, SetTimeout, SetOut,
             SetIn, EndConnect, BeginQuery, LockQuery, SendFails, StopReading,
             BeginRead, ReadFails, EndQuery, IfConnected, NotConnected
    <3>. QED
      BY <3>1, <3>2
  <2>3. \A u \in Threads : u # t => pc'[u] = pc[u]
    BY <1>0, <2>2 DEF Locations
  <2>4. pc[t] \notin {"closeOut", "closeIn", "closeClient", "end"}
    BY <1>3
       DEF ConnectToESBP, BeginConnect, ConnectFails, SetTimeout, SetOut,
           SetIn, EndConnect, BeginQuery, LockQuery, SendFails, StopReading,
           BeginRead, Reading, ReadLine, ReadFails, EndQuery
  <2>5. t \in Callers => t \notin reconnecting
    BY <1>0, <2>4 DEF NotSentYet
  <2>6. pc[t] \in BeforeSend \/ pc'[t] \notin BeforeSend
    <3>1. CASE pc[t] \in BeforeSend
      BY <3>1
    <3>2. CASE StopReading(t) \/ BeginRead(t) \/ ReadLine(t)
               \/ ReadFails(t) \/ EndQuery(t)
      BY <1>0, <3>2
         DEF StopReading, BeginRead, Reading, ReadLine, ReadFails, EndQuery,
             Locations, BeforeSend
    <3>3. pc[t] \in BeforeSend
          \/ StopReading(t) \/ BeginRead(t) \/ ReadLine(t)
          \/ ReadFails(t) \/ EndQuery(t)
      BY <1>3
         DEF ConnectToESBP, BeginConnect, ConnectFails, SetTimeout, SetOut,
             SetIn, EndConnect, BeginQuery, LockQuery, SendFails, BeforeSend
    <3>. QED
      BY <3>1, <3>2, <3>3
  <2>. QED
    BY <1>0, <2>1, <2>3, <2>5, <2>6, SilentStep DEF Opened
<1>4. ASSUME NEW t \in Threads, Disconnect(t)
      PROVE  NotSentYet' /\ InOnePlace'
  <2>1. requests' = requests /\ Opened' = Opened
    BY <1>4 DEF Disconnect, Opened
  <2>2. /\ \A u \in Threads : u # t => pc'[u] = pc[u]
        /\ pc'[t] \in {"closeOut", "end"}
    BY <1>0, <1>4 DEF Disconnect, Locations
  <2>3. t \in Callers => t \notin reconnecting
    BY <1>0, <1>4, ThreadsAssumption DEF Disconnect, NotSentYet
  <2>4. CASE pc[t] = "old"
    <3>1. reconnecting' = reconnecting \cup {t}
      BY <1>4, <2>4 DEF Disconnect
    <3>. QED
      BY <1>0, <2>1, <2>2, <2>4, <3>1, SilentStep DEF BeforeSend
  <2>5. CASE pc[t] # "old"
    <3>1. reconnecting' = reconnecting
      BY <1>4, <2>5 DEF Disconnect
    <3>. QED
      BY <1>0, <2>1, <2>2, <2>3, <3>1, SilentStep DEF BeforeSend
  <2>. QED
    BY <2>4, <2>5
<1>a. ASSUME NEW t \in Threads, NEW s,
             NEW l \in {"closeIn", "closeClient", "end"}, CloseStream(t, s, l)
      PROVE  NotSentYet' /\ InOnePlace'
  <2>1. requests' = requests /\ reconnecting' = reconnecting
    BY <1>a DEF CloseStream
  <2>2. Opened' = Opened
    <3>1. sockets \in Seq({"open", "ended", "closed"})
      BY <1>0 DEF TypeOK
    <3>2. sockets' = [sockets EXCEPT ![s] = "closed"]
      BY <1>a DEF CloseStream
    <3>. QED
      BY <3>1, <3>2, OneChanged DEF Opened
  <2>3. /\ \A u \in Threads : u # t => pc'[u] = pc[u]
        /\ pc'[t] = l
    BY <1>0, <1>a DEF CloseStream, Locations
  <2>. QED
    BY <1>0, <2>1, <2>2, <2>3, SilentStep DEF BeforeSend
<1>5. ASSUME NEW t \in Threads, CloseOut(t) \/ CloseIn(t) \/ CloseClient(t)
      PROVE  NotSentYet' /\ InOnePlace'
  <2>1. CASE CloseOut(t)
    BY <1>a, <2>1 DEF CloseOut
  <2>2. CASE CloseIn(t)
    BY <1>a, <2>2 DEF CloseIn
  <2>3. CASE CloseClient(t)
    BY <1>a, <2>3 DEF CloseClient
  <2>. QED
    BY <1>5, <2>1, <2>2, <2>3
<1>6. ASSUME NEW t \in Threads, EndDisconnect(t)
      PROVE  NotSentYet' /\ InOnePlace'
  <2>1. requests' = requests /\ Opened' = Opened
        /\ reconnecting' = reconnecting \ {t}
    BY <1>6 DEF EndDisconnect, Opened
  <2>2. /\ \A u \in Threads : u # t => pc'[u] = pc[u]
        /\ pc'[t] = IF t \in reconnecting THEN "socket" ELSE "done"
    BY <1>0, <1>6 DEF EndDisconnect, Locations
  <2>. QED
    BY <1>0, <2>1, <2>2, SilentStep DEF BeforeSend
<1>7. ASSUME NEW s \in Opened, TaskAnswers(s) \/ TaskCloses(s)
      PROVE  NotSentYet' /\ InOnePlace'
  <2>1. /\ requests' = requests /\ UNCHANGED <<pc, reconnecting>>
    BY <1>7 DEF TaskAnswers, TaskCloses
  <2>2. Opened' = Opened
    <3>1. sockets \in Seq({"open", "ended", "closed"})
      BY <1>0 DEF TypeOK
    <3>2. sockets' = sockets \/ sockets' = [sockets EXCEPT ![s] = "ended"]
      BY <1>7 DEF TaskAnswers, TaskCloses
    <3>. QED
      BY <3>1, <3>2, OneChanged DEF Opened
  <2>. QED
    BY <1>0, <2>1, <2>2 DEF NotSentYet, InOnePlace, Has
<1>8. CASE UNCHANGED vars
  <2>1. UNCHANGED <<requests, sockets, pc, reconnecting>>
    BY <1>8 DEF vars
  <2>2. \A u \in Callers : \A s, i : Has(u, s, i)' <=> Has(u, s, i)
    BY <2>1 DEF Has
  <2>3. Opened' = Opened
    BY <2>1 DEF Opened
  <2>4. InOnePlace'
    BY <1>0, <2>2, <2>3 DEF InOnePlace
  <2>. QED
    BY <1>0, <2>1, <2>2, <2>3, <2>4 DEF NotSentYet
<1>. QED
  BY <1>1, <1>2, <1>3, <1>4, <1>5, <1>6, <1>7, <1>8
     DEF Next, CallerStep, CloseStep

LEMMA Sent == Spec => []OInv
BY InitSent, NextSent, PTL DEF Spec

\* The task receives a command at most once, however often connect fails,
\* others disconnect, and a failed send is repeated.
THEOREM OnceOnly == Spec => []SentOnce
<1>1. OInv => SentOnce
  <2>. SUFFICES ASSUME OInv, NEW t \in Callers
                PROVE  Cardinality(Received(t)) <= 1
    BY DEF SentOnce
  <2>1. \A p \in Received(t) : /\ p[1] \in Opened /\ p[2] \in Nat
                               /\ p = <<p[1], p[2]>>
                               /\ p[2] >= 1
                               /\ p[2] <= Len(requests[p[1]])
                               /\ requests[p[1]][p[2]] = t
    BY DEF Received
  <2>2. \A p \in Received(t) : Has(t, p[1], p[2])
    BY <2>1 DEF Has, OInv, TInv, TypeOK
  <2>3. \A p, q \in Received(t) : p = q
    BY <2>1, <2>2 DEF OInv, InOnePlace
  <2>4. CASE Received(t) = {}
    BY <2>4, FS_EmptySet
  <2>5. ASSUME NEW p \in Received(t)
        PROVE  Cardinality(Received(t)) <= 1
    <3>1. Received(t) = {p}
      BY <2>3
    <3>. QED
      <4>1. Cardinality({p}) = 1
        BY FS_Singleton
      <4>. QED
        BY <3>1, <4>1
  <2>. QED
    BY <2>4, <2>5
<1>. QED
  BY <1>1, Sent, PTL

-----------------------------------------------------------------------------
(* The lock *)

CloseCodes == {"closeOut", "closeIn", "closeClient", "end"}
QueryCodes == {"send", "read", "result", "giveUp"} \cup ReadCodes

InQueryMC(t) == \/ pc[t] \in QueryCodes
                \/ pc[t] \in CloseCodes /\ t \notin reconnecting

\* A caller in a query that does not connect holds the lock.
HoldsLock == \A t \in Callers : InQueryMC(t) => qryAre = t

LEMMA LockStep ==
  ASSUME HoldsLock, NEW t \in Threads,
         \A u \in Threads : u # t => pc'[u] = pc[u],
         \A u \in Callers : u # t
           => (u \in reconnecting' <=> u \in reconnecting),
         qryAre' = qryAre \/ qryAre = None \/ qryAre = t,
         t \in Callers /\ InQueryMC(t)' => qryAre' = t
  PROVE  HoldsLock'
<1>. SUFFICES ASSUME NEW u \in Callers, u # t, InQueryMC(u)'
              PROVE  qryAre' = u
  BY DEF HoldsLock
<1>1. qryAre = u
  BY DEF HoldsLock, InQueryMC, Threads
<1>2. u # None
  BY NoneAssumption
<1>. QED
  BY <1>1, <1>2

LEMMA NextLock == OInv /\ HoldsLock /\ [Next]_vars => HoldsLock'
<1>. SUFFICES ASSUME OInv, HoldsLock, [Next]_vars PROVE HoldsLock'
  OBVIOUS
<1>0. Locations /\ Callers \cap Closers = {}
  BY ThreadsAssumption DEF OInv, TInv
<1>. USE DEF Goto, InQuery, InQueryMC, fieldVars, socketVars, localVars
<1>1. ASSUME NEW t \in Threads, ConnectToESBP(t) \/ CallerStep(t)
      PROVE  HoldsLock'
  <2>1. PICK l : pc' = [pc EXCEPT ![t] = l]
    BY <1>1 DEF ConnectToESBP, CallerStep, BeginConnect, ConnectFails,
         NewSocket, SetTimeout, SetOut, SetIn, EndConnect, BeginQuery,
         LockQuery, SendQuery, SendFails, StopReading, BeginRead, ReadLine,
         ReadFails, EndQuery, IfConnected, NotConnected
  <2>2. pc'[t] = l /\ \A u \in Threads : u # t => pc'[u] = pc[u]
    BY <1>0, <2>1 DEF Locations
  <2>3. reconnecting' = reconnecting
    BY <1>1 DEF ConnectToESBP, CallerStep, BeginConnect, ConnectFails,
         NewSocket, SetTimeout, SetOut, SetIn, EndConnect, BeginQuery,
         LockQuery, SendQuery, SendFails, StopReading, BeginRead, ReadLine,
         ReadFails, EndQuery, IfConnected, NotConnected
  <2>4. pc[t] \in QueryCodes /\ t \in Callers => qryAre = t
    BY DEF HoldsLock
  <2>5. t \in Callers
    BY <1>0, <1>1 DEF Locations, CloserCodes, ConnectToESBP, CallerStep,
         BeginConnect, ConnectFails, NewSocket, SetTimeout, SetOut, SetIn,
         EndConnect, BeginQuery, LockQuery, SendQuery, SendFails, StopReading,
         BeginRead, Reading, ReadLine, ReadFails, EndQuery
  <2>6. qryAre' = qryAre \/ qryAre = None \/ qryAre = t
    BY <1>1, <2>4, <2>5
       DEF ConnectToESBP, CallerStep, BeginConnect, ConnectFails,
         NewSocket, SetTimeout, SetOut, SetIn, EndConnect, BeginQuery,
         LockQuery, SendQuery, SendFails, StopReading, BeginRead, ReadLine,
         ReadFails, EndQuery, IfConnected, NotConnected, QueryCodes
  <2>7. CASE LockQuery(t) \/ EndQuery(t)
    <3>1. LockQuery(t) => qryAre' = t
      BY DEF LockQuery
    <3>2. EndQuery(t) => l = "done"
      BY <1>0, <2>2 DEF EndQuery, Locations
    <3>. QED
      BY <2>2, <2>3, <2>6, <2>7, <3>1, <3>2, LockStep
         DEF QueryCodes, CloseCodes, ReadCodes
  <2>8. CASE ~(LockQuery(t) \/ EndQuery(t))
    <3>1. qryAre' = qryAre
      BY <1>1, <2>8 DEF ConnectToESBP, CallerStep, BeginConnect,
           ConnectFails, NewSocket, SetTimeout, SetOut, SetIn, EndConnect,
           BeginQuery, SendQuery, SendFails, StopReading, BeginRead,
           ReadLine, ReadFails, IfConnected, NotConnected
    <3>2. l \notin CloseCodes
          /\ (l \in QueryCodes => pc[t] \in QueryCodes \/ qryAre = t)
      BY <1>0, <1>1, <2>2, <2>8
         DEF ConnectToESBP, CallerStep, BeginConnect, ConnectFails, NewSocket,
           SetTimeout, SetOut, SetIn, EndConnect, BeginQuery, SendQuery,
           SendFails, StopReading, BeginRead, ReadLine, ReadFails, Reading,
           IfConnected, NotConnected, QueryCodes, CloseCodes, ReadCodes,
           Locations
    <3>. QED
      BY <2>2, <2>3, <2>4, <2>5, <3>1, <3>2, LockStep
  <2>. QED
    BY <2>7, <2>8
<1>2. ASSUME NEW t \in Threads, Disconnect(t)
      PROVE  HoldsLock'
  <2>1. /\ pc'[t] \in {"closeOut", "end"}
        /\ \A u \in Threads : u # t => pc'[u] = pc[u]
        /\ qryAre' = qryAre
        /\ pc[t] # "old" => reconnecting' = reconnecting
        /\ pc[t] = "old" => reconnecting' = reconnecting \cup {t}
        /\ t \in Callers /\ pc[t] # "old" => pc[t] \in QueryCodes
    BY <1>0, <1>2 DEF Disconnect, Locations, QueryCodes
  <2>2. t \in Callers /\ pc[t] # "old" => qryAre = t
    BY <2>1 DEF HoldsLock
  <2>. QED
    BY <2>1, <2>2, LockStep DEF QueryCodes, ReadCodes
<1>3. ASSUME NEW t \in Threads, CloseOut(t) \/ CloseIn(t) \/ CloseClient(t)
      PROVE  HoldsLock'
  <2>1. /\ pc[t] \in CloseCodes /\ pc'[t] \in CloseCodes
        /\ \A u \in Threads : u # t => pc'[u] = pc[u]
        /\ qryAre' = qryAre /\ reconnecting' = reconnecting
    BY <1>0, <1>3 DEF CloseOut, CloseIn, CloseClient, CloseStream, Locations,
                      CloseCodes
  <2>2. t \in Callers /\ t \notin reconnecting => qryAre = t
    BY <2>1 DEF HoldsLock
  <2>. QED
    BY <2>1, <2>2, LockStep DEF CloseCodes, QueryCodes, ReadCodes
<1>4. ASSUME NEW t \in Threads, EndDisconnect(t)
      PROVE  HoldsLock'
  <2>1. /\ pc'[t] \in {"socket", "done"}
        /\ \A u \in Threads : u # t => pc'[u] = pc[u]
        /\ qryAre' = qryAre \/ qryAre = t
        /\ reconnecting' = reconnecting \ {t}
    BY <1>0, <1>4 DEF EndDisconnect, Locations
  <2>. QED
    BY <2>1, LockStep DEF CloseCodes, QueryCodes, ReadCodes
<1>5. ASSUME NEW s \in Opened, TaskAnswers(s) \/ TaskCloses(s)
      PROVE  HoldsLock'
  BY <1>5 DEF TaskAnswers, TaskCloses, HoldsLock
<1>6. CASE UNCHANGED vars
  BY <1>6 DEF vars, HoldsLock
<1>. QED
  BY <1>1, <1>2, <1>3, <1>4, <1>5, <1>6 DEF Next, CloseStep

-----------------------------------------------------------------------------
(* Answers: they are handed on by their last line *)

Answered(t) == \E s \in Opened : \E i \in 1..answered[s] : Has(t, s, i)

\* The j-th line to read from s is the last one of t's answer.
Left(t, s, j) == /\ s \in Opened
                 /\ j \in 1..Len(stream[s])
                 /\ stream[s][j] = [of |-> t, nr |-> Lines]

\* The task writes an answer once, and its last line is in a stream or with
\* the one caller that has returned it.
OneLastLine ==
  \A t \in Callers :
    /\ \A s \in Opened, j \in Nat : Left(t, s, j) => Answered(t)
    /\ \A s1, s2 \in Opened, j1, j2 \in Nat :
         Left(t, s1, j1) /\ Left(t, s2, j2) => s1 = s2 /\ j1 = j2
    /\ \A u \in Callers : ret[u] = t =>
         /\ Answered(t)
         /\ \A s \in Opened, j \in Nat : ~Left(t, s, j)
         /\ \A v \in Callers : ret[v] = t => u = v
         /\ u # t => pc[t] = "done"

AInv == OInv /\ HoldsLock /\ OneLastLine

\* A step that answers nothing and returns nothing.
LEMMA NoAnswer ==
  ASSUME OneLastLine,
         \A t \in Callers : Answered(t) => Answered(t)',
         \A t \in Callers : \A s \in Opened', j \in Nat :
           Left(t, s, j)' => s \in Opened /\ Left(t, s, j),
         \A t \in Callers : ret'[t] \in {ret[t], None},
         \A t \in Callers : pc[t] = "done" => pc'[t] = "done"
  PROVE  OneLastLine'
<1>1. \A t \in Callers : t # None
  BY NoneAssumption
<1>2. \A t, u \in Callers : ret'[u] = t => ret[u] = t
  BY <1>1
<1>. QED
  BY <1>2 DEF OneLastLine

\* What the task has answered it has answered.
LEMMA AnsweredMono ==
  ASSUME TypeOK, NEW t \in Callers, Answered(t), Opened \subseteq Opened',
         \A s \in Opened :
           /\ \A i \in 1..Len(requests[s]) :
                /\ i \in 1..Len(requests'[s])
                /\ requests'[s][i] = requests[s][i]
           /\ answered[s] <= answered'[s] /\ answered'[s] \in Nat
  PROVE  Answered(t)'
<1>1. PICK s \in Opened : \E i \in 1..answered[s] : Has(t, s, i)
  BY DEF Answered
<1>2. PICK i \in 1..answered[s] : Has(t, s, i)
  BY <1>1
<1>3. answered[s] \in Nat
  BY <1>1 DEF TypeOK
<1>4. i \in 1..answered'[s] /\ s \in Opened'
  BY <1>1, <1>2, <1>3
<1>5. Has(t, s, i)'
  BY <1>1, <1>2 DEF Has
<1>. QED
  BY <1>4, <1>5 DEF Answered

\* A caller whose command is answered has sent it: it reads, or is done.
LEMMA AnsweredInQuery ==
  ASSUME OInv, HoldsLock, NEW t \in Callers, Answered(t)
  PROVE  qryAre = t \/ pc[t] = "done"
<1>1. \E s \in Opened, i \in Nat : Has(t, s, i)
  <2>1. PICK s \in Opened : \E i \in 1..answered[s] : Has(t, s, i)
    BY DEF Answered
  <2>2. PICK i \in 1..answered[s] : Has(t, s, i)
    BY <2>1
  <2>3. answered[s] \in Nat
    BY <2>1 DEF OInv, TInv, TypeOK
  <2>. QED
    BY <2>1, <2>2, <2>3
<1>2. pc[t] \notin BeforeSend /\ t \notin reconnecting
  BY <1>1 DEF OInv, NotSentYet
<1>3. pc[t] \in Codes
  BY DEF OInv, TInv, Locations, Threads
<1>4. InQueryMC(t) \/ pc[t] = "done"
  BY <1>2, <1>3 DEF Codes, CloserCodes, BeforeSend, InQueryMC, QueryCodes,
                    CloseCodes
<1>. QED
  BY <1>4 DEF HoldsLock

LEMMA ReadAnswer ==
  ASSUME AInv, NEW t \in Threads, ReadLine(t)
  PROVE  OneLastLine'
<1>. DEFINE q == stream[reader]
            text == Append(resSB, Head(q))
<1>0. TypeOK /\ Locations /\ Fields /\ OneLastLine /\ OInv /\ HoldsLock
  BY DEF AInv, OInv, TInv
<1>1. t \in Callers /\ reader \in Opened /\ q \in Seq(Line) /\ q # << >>
  <2>1. pc[t] \in ReadCodes
    BY DEF ReadLine, Reading, ReadCodes
  <2>2. t \in Callers /\ reader \in Opened
    BY <1>0, <2>1 DEF Locations, CloserCodes, ReadCodes, Fields, TypeOK
  <2>. QED
    BY <1>0, <2>2 DEF ReadLine, TypeOK
<1>2. /\ Head(q) \in Line /\ Head(q) = q[1]
      /\ Len(q) \in Nat /\ Len(q) >= 1
      /\ Len(Tail(q)) = Len(q) - 1
      /\ \A j \in 1..Len(Tail(q)) : Tail(q)[j] = q[j + 1]
  BY <1>1, HeadTailProperties
<1>3. text[Len(text)] = Head(q) /\ text # << >>
  <2>1. resSB \in Seq(Line)
    BY <1>0 DEF TypeOK
  <2>. QED
    BY <1>2, <2>1, AppendProperties
<1>4. /\ stream' = [stream EXCEPT ![reader] = Tail(q)]
      /\ IF Head(q).nr = Lines
         THEN ret' = [ret EXCEPT ![t] = HandleMessage(t, text)]
         ELSE ret' = ret
      /\ UNCHANGED <<sockets, requests, answered>>
      /\ pc' = [pc EXCEPT ![t] = "result"] \/ pc' = [pc EXCEPT ![t] = "read"]
  BY <1>3 DEF ReadLine, Goto
<1>5. pc[t] \in ReadCodes
  BY DEF ReadLine, Reading, ReadCodes
<1>6. qryAre = t
  BY <1>0, <1>1, <1>5 DEF HoldsLock, InQueryMC, QueryCodes
<1>7. Opened' = Opened /\ \A u \in Callers : Answered(u)' <=> Answered(u)
  BY <1>4 DEF Opened, Answered, Has
<1>8. \A u \in Callers : pc[u] = "done" => pc'[u] = "done"
  BY <1>0, <1>1, <1>4, <1>5 DEF Locations, Threads, ReadCodes
<1>9. ASSUME NEW u \in Callers, NEW s \in Opened, NEW j \in Nat,
             Left(u, s, j)'
      PROVE  Left(u, s, IF s = reader THEN j + 1 ELSE j)
  <2>1. CASE s = reader
    <3>1. stream'[s] = Tail(q)
      BY <1>0, <1>1, <1>4, <2>1 DEF TypeOK
    <3>2. j \in 1..Len(Tail(q)) /\ Tail(q)[j] = [of |-> u, nr |-> Lines]
      BY <1>9, <3>1 DEF Left
    <3>3. j + 1 \in 1..Len(q) /\ q[j + 1] = [of |-> u, nr |-> Lines]
      BY <1>2, <3>2
    <3>. QED
      BY <1>1, <2>1, <3>3 DEF Left
  <2>2. CASE s # reader
    <3>1. stream'[s] = stream[s]
      BY <1>0, <1>4, <2>2 DEF TypeOK
    <3>. QED
      BY <1>9, <2>2, <3>1 DEF Left
  <2>. QED
    BY <2>1, <2>2
<1>. HIDE DEF q
<1>10. ASSUME NEW u \in Callers
       PROVE  /\ \A s \in Opened, j \in Nat : Left(u, s, j)' => Answered(u)'
              /\ \A s1, s2 \in Opened, j1, j2 \in Nat :
                   Left(u, s1, j1)' /\ Left(u, s2, j2)' => s1 = s2 /\ j1 = j2
  <2>1. \A s \in Opened, j \in Nat : Left(u, s, j)' => Answered(u)'
    <3>. SUFFICES ASSUME NEW s \in Opened, NEW j \in Nat, Left(u, s, j)'
                  PROVE  Answered(u)
      BY <1>7
    <3>1. Left(u, s, IF s = reader THEN j + 1 ELSE j)
      BY <1>9
    <3>. QED
      BY <1>0, <3>1 DEF OneLastLine
  <2>2. ASSUME NEW s1 \in Opened, NEW s2 \in Opened, NEW j1 \in Nat,
               NEW j2 \in Nat, Left(u, s1, j1)', Left(u, s2, j2)'
        PROVE  s1 = s2 /\ j1 = j2
    <3>1. /\ Left(u, s1, IF s1 = reader THEN j1 + 1 ELSE j1)
          /\ Left(u, s2, IF s2 = reader THEN j2 + 1 ELSE j2)
      BY <1>9, <2>2
    <3>2. /\ s1 = s2
          /\ (IF s1 = reader THEN j1 + 1 ELSE j1)
               = (IF s2 = reader THEN j2 + 1 ELSE j2)
      BY <1>0, <3>1 DEF OneLastLine
    <3>. QED
      BY <3>2
  <2>. QED
    BY <2>1, <2>2
<1>11. ASSUME NEW u \in Callers, NEW v \in Callers, ret[v] = u
       PROVE  \A s \in Opened, j \in Nat : ~Left(u, s, j)'
  BY <1>0, <1>9, <1>11 DEF OneLastLine
<1>12. ASSUME ret' = ret PROVE OneLastLine'
  BY <1>0, <1>7, <1>8, <1>10, <1>11, <1>12 DEF OneLastLine
<1>13. ASSUME NEW x \in {Head(q).of, None},
              ret' = [ret EXCEPT ![t] = x], Head(q).nr = Lines
       PROVE  OneLastLine'
  <2>1. PICK o \in Callers : Head(q) = [of |-> o, nr |-> Lines]
    BY <1>2, <1>13 DEF Line
  <2>2. Left(o, reader, 1)
    BY <1>1, <1>2, <2>1 DEF Left, q
  <2>3. Answered(o) /\ \A v \in Callers : ret[v] # o
    BY <1>0, <1>1, <2>1, <2>2 DEF OneLastLine
  <2>4. \A s \in Opened, j \in Nat : ~Left(o, s, j)'
    <3>. SUFFICES ASSUME NEW s \in Opened, NEW j \in Nat, Left(o, s, j)'
                  PROVE  FALSE
      OBVIOUS
    <3>1. Left(o, s, IF s = reader THEN j + 1 ELSE j)
      BY <1>9, <2>1
    <3>2. s = reader /\ (IF s = reader THEN j + 1 ELSE j) = 1
      BY <1>0, <1>1, <2>1, <2>2, <3>1 DEF OneLastLine
    <3>3. j = 0
      BY <3>2
    <3>. QED
      BY <3>3 DEF Left
  <2>5. o # t => pc'[o] = "done"
    BY <1>0, <1>6, <1>8, <2>1, <2>3, AnsweredInQuery
  <2>6. o # None /\ \A u \in Callers : u # None
    BY <2>1, NoneAssumption
  <2>7. \A v \in Callers : ret'[v] = IF v = t THEN x ELSE ret[v]
    BY <1>0, <1>13 DEF TypeOK
  <2>8. ASSUME NEW u \in Callers, NEW v \in Callers, ret'[v] = u
        PROVE  \/ u = o /\ v = t
               \/ u # o /\ ret[v] = u
    BY <1>13, <2>1, <2>3, <2>6, <2>7, <2>8
  <2>9. ASSUME NEW u \in Callers, NEW v \in Callers, ret'[v] = u
        PROVE  /\ Answered(u)'
               /\ \A s \in Opened, j \in Nat : ~Left(u, s, j)'
               /\ \A w \in Callers : ret'[w] = u => v = w
               /\ v # u => pc'[u] = "done"
    <3>1. CASE u = o /\ v = t
      BY <1>7, <2>1, <2>3, <2>4, <2>5, <2>8, <3>1
    <3>2. CASE u # o /\ ret[v] = u
      BY <1>0, <1>7, <1>8, <1>11, <2>8, <3>2 DEF OneLastLine
    <3>. QED
      BY <2>8, <2>9, <3>1, <3>2
  <2>. QED
    BY <1>7, <1>10, <2>9 DEF OneLastLine
<1>14. HandleMessage(t, text) \in {Head(q).of, None}
  BY <1>3 DEF HandleMessage, q
<1>. QED
  BY <1>4, <1>12, <1>13, <1>14

LEMMA TaskAnswer ==
  ASSUME AInv, NEW s0 \in Opened, TaskAnswers(s0)
  PROVE  OneLastLine'
<1>. DEFINE q == stream[s0]
            n == Len(stream[s0]) + Lines
<1>0. TypeOK /\ OneLastLine /\ InOnePlace
  BY DEF AInv, OInv, TInv
<1>1. /\ requests[s0] \in Seq(Callers) /\ answered[s0] \in Nat
      /\ q \in Seq(Line) /\ Len(q) \in Nat
      /\ answered[s0] < Len(requests[s0])
  BY <1>0 DEF TypeOK, TaskAnswers
<1>2. PICK i \in Nat : i = answered[s0] + 1 /\ i \in 1..Len(requests[s0])
  BY <1>1
<1>3. PICK t \in Callers : t = requests[s0][i]
  BY <1>1, <1>2, ElementOfSeq
<1>4. /\ stream' = [stream EXCEPT ![s0] = q \o Answer(t)]
      /\ answered' = [answered EXCEPT ![s0] = i]
      /\ UNCHANGED <<sockets, requests, ret, pc>>
  BY <1>2, <1>3 DEF TaskAnswers, localVars
<1>5. Answer(t) \in [1..Lines -> Line] /\ Answer(t) \in Seq(Line)
      /\ Len(Answer(t)) = Lines /\ Lines \in Nat /\ Lines >= 1
  <2>1. Answer(t) \in [1..Lines -> Line]
    BY LinesAssumption DEF Answer, Line
  <2>. QED
    BY <2>1, LinesAssumption, SeqDef
<1>6. /\ Len(q \o Answer(t)) = Len(q) + Lines
      /\ \A j \in 1..(Len(q) + Lines) : (q \o Answer(t))[j] =
                 IF j <= Len(q) THEN q[j] ELSE Answer(t)[j - Len(q)]
  BY <1>1, <1>5, ConcatProperties
<1>7. Opened' = Opened /\ \A u, s, k : Has(u, s, k)' <=> Has(u, s, k)
  BY <1>4 DEF Opened, Has
<1>8. \A s \in Opened : answered[s] <= answered'[s] /\ answered'[s] \in Nat
  <2>1. answered \in [Opened -> Nat]
    BY <1>0 DEF TypeOK
  <2>. QED
    BY <1>2, <1>4, <2>1
<1>9. \A u \in Callers : Answered(u) => Answered(u)'
  BY <1>0, <1>4, <1>7, <1>8, AnsweredMono
<1>10. Answered(t)'
  <2>1. Has(t, s0, i) /\ i \in 1..answered'[s0]
    BY <1>0, <1>2, <1>3, <1>4 DEF Has, TypeOK
  <2>. QED
    BY <1>7, <2>1 DEF Answered
<1>11. ~Answered(t)
  <2>. SUFFICES ASSUME NEW s \in Opened, NEW k \in 1..answered[s],
                       Has(t, s, k)
                PROVE  FALSE
    BY DEF Answered
  <2>1. answered[s] \in Nat /\ k \in Nat
    BY <1>0 DEF TypeOK
  <2>2. Has(t, s0, i)
    BY <1>2, <1>3 DEF Has
  <2>3. s = s0 /\ k = i
    BY <1>0, <2>1, <2>2 DEF InOnePlace
  <2>. QED
    BY <1>2, <2>1, <2>3
<1>12. ASSUME NEW u \in Callers, NEW s \in Opened, NEW j \in Nat,
              Left(u, s, j)'
       PROVE  Left(u, s, j) \/ (u = t /\ s = s0 /\ j = n)
  <2>1. CASE s # s0
    <3>1. stream'[s] = stream[s]
      BY <1>0, <1>4, <2>1 DEF TypeOK
    <3>. QED
      BY <1>12, <3>1 DEF Left
  <2>2. CASE s = s0
    <3>1. stream'[s] = q \o Answer(t)
      BY <1>0, <1>4, <2>2 DEF TypeOK
    <3>2. /\ j \in 1..(Len(q) + Lines)
          /\ (q \o Answer(t))[j] = [of |-> u, nr |-> Lines]
      BY <1>6, <1>12, <3>1 DEF Left
    <3>3. CASE j <= Len(q)
      <4>1. q[j] = [of |-> u, nr |-> Lines] /\ j \in 1..Len(q)
        BY <1>1, <1>6, <3>2, <3>3
      <4>. QED
        BY <2>2, <4>1 DEF Left
    <3>4. CASE ~(j <= Len(q))
      <4>1. PICK k \in 1..Lines : k = j - Len(q)
        BY <1>1, <1>5, <3>2, <3>4
      <4>2. Answer(t)[k] = [of |-> t, nr |-> k]
        BY DEF Answer
      <4>3. Answer(t)[k] = [of |-> u, nr |-> Lines]
        BY <1>6, <3>2, <3>4, <4>1
      <4>4. u = t /\ k = Lines
        BY <4>2, <4>3
      <4>. QED
        BY <1>1, <1>5, <2>2, <4>1, <4>4
    <3>. QED
      BY <3>3, <3>4
  <2>. QED
    BY <2>1, <2>2
<1>. HIDE DEF n
<1>13. \A s \in Opened, j \in Nat : ~Left(t, s, j)
  BY <1>0, <1>11 DEF OneLastLine
<1>14. \A u \in Callers : ret[u] # t
  BY <1>0, <1>11 DEF OneLastLine
<1>15. PICK m : m = n
  OBVIOUS
<1>16. ASSUME NEW u \in Callers, u # t
       PROVE  \A s \in Opened, j \in Nat : Left(u, s, j)' => Left(u, s, j)
  BY <1>12, <1>16
<1>17. \A s \in Opened, j \in Nat : Left(t, s, j)' => s = s0 /\ j = m
  BY <1>12, <1>13, <1>15
<1>18. ASSUME NEW u \in Callers
       PROVE  /\ \A s \in Opened, j \in Nat : Left(u, s, j)' => Answered(u)'
              /\ \A s1, s2 \in Opened, j1, j2 \in Nat :
                   Left(u, s1, j1)' /\ Left(u, s2, j2)' => s1 = s2 /\ j1 = j2
  <2>1. CASE u = t
    BY <1>10, <1>17, <2>1
  <2>2. CASE u # t
    BY <1>0, <1>9, <1>16, <2>2 DEF OneLastLine
  <2>. QED
    BY <2>1, <2>2
<1>19. ASSUME NEW u \in Callers, NEW v \in Callers, ret[v] = u
       PROVE  /\ Answered(u)'
              /\ \A s \in Opened, j \in Nat : ~Left(u, s, j)'
              /\ \A w \in Callers : ret[w] = u => v = w
              /\ v # u => pc[u] = "done"
  <2>1. u # t
    BY <1>14, <1>19
  <2>. QED
    BY <1>0, <1>9, <1>16, <1>19, <2>1 DEF OneLastLine
<1>20. UNCHANGED <<ret, pc>>
  BY <1>4
<1>. QED
  BY <1>7, <1>18, <1>19, <1>20 DEF OneLastLine

LEMMA NewSocketAnswer ==
  ASSUME AInv, NEW t \in Threads, NewSocket(t)
  PROVE  OneLastLine'
<1>0. TypeOK /\ Locations /\ OneLastLine
  BY DEF AInv, OInv, TInv
<1>1. /\ Len(sockets) \in Nat
      /\ stream \in [1..Len(sockets) -> Seq(Line)]
      /\ requests \in [1..Len(sockets) -> Seq(Callers)]
      /\ answered \in [1..Len(sockets) -> Nat]
      /\ Opened' = 1..(Len(sockets) + 1)
      /\ requests' = Append(requests, << >>)
      /\ answered' = Append(answered, 0)
      /\ stream' = Append(stream, << >>)
  BY <1>0 DEF NewSocket, TypeOK, Opened
<1>2. << >> \in Seq(Callers) /\ << >> \in Seq(Line)
  OBVIOUS
<1>3. /\ \A s \in Opened : /\ requests'[s] = requests[s]
                           /\ answered'[s] = answered[s]
                           /\ stream'[s] = stream[s]
      /\ stream'[Len(sockets) + 1] = << >>
  <2>1. \A s \in Opened : requests'[s] = requests[s]
    BY <1>1, <1>2, OneMore DEF Opened
  <2>2. \A s \in Opened : answered'[s] = answered[s]
    BY <1>1, OneMore DEF Opened
  <2>3. /\ \A s \in Opened : stream'[s] = stream[s]
        /\ stream'[Len(sockets) + 1] = << >>
    BY <1>1, <1>2, OneMore DEF Opened
  <2>. QED
    BY <2>1, <2>2, <2>3
<1>4. \A u \in Callers : Answered(u) => Answered(u)'
  <2>1. \A s \in Opened : answered[s] <= answered'[s] /\ answered'[s] \in Nat
    BY <1>0, <1>3 DEF TypeOK
  <2>2. Opened \subseteq Opened'
    BY <1>1 DEF Opened
  <2>. QED
    BY <1>0, <1>3, <2>1, <2>2, AnsweredMono
<1>5. ASSUME NEW u \in Callers, NEW s \in Opened', NEW j \in Nat,
             Left(u, s, j)'
      PROVE  s \in Opened /\ Left(u, s, j)
  <2>1. s # Len(sockets) + 1
    BY <1>3, <1>5 DEF Left
  <2>2. s \in Opened
    BY <1>1, <2>1 DEF Opened
  <2>. QED
    BY <1>3, <1>5, <2>2 DEF Left
<1>6. UNCHANGED ret /\ \A u \in Callers : pc[u] = "done" => pc'[u] = "done"
  BY <1>0 DEF NewSocket, localVars, Goto, Locations, Threads
<1>. QED
  BY <1>0, <1>4, <1>5, <1>6, NoAnswer

LEMMA OtherAnswer ==
  ASSUME AInv, [Next]_vars,
         ~ \E t \in Threads : ReadLine(t) \/ NewSocket(t),
         ~ \E s \in Opened : TaskAnswers(s)
  PROVE  OneLastLine'
<1>0. TypeOK /\ TypeOK' /\ Locations /\ OneLastLine /\ Fields
  BY NextType DEF AInv, OInv, TInv
<1>. USE DEF fieldVars, socketVars, localVars
<1>1. UNCHANGED <<answered, stream>>
  BY DEF Next, CallerStep, CloseStep, ConnectToESBP, BeginConnect,
         ConnectFails, SetTimeout, SetOut, SetIn, EndConnect, BeginQuery,
         LockQuery, SendQuery, SendFails, StopReading, BeginRead, ReadFails,
         EndQuery, Disconnect, CloseOut, CloseIn, CloseClient, CloseStream,
         EndDisconnect, TaskCloses, IfConnected, vars
<1>2. Opened' = Opened
  <2>1. DOMAIN answered = Opened /\ DOMAIN answered' = Opened'
    BY <1>0 DEF TypeOK
  <2>. QED
    BY <1>1, <2>1
<1>3. ASSUME NEW s \in Opened, NEW i \in 1..Len(requests[s])
      PROVE  i \in 1..Len(requests'[s]) /\ requests'[s][i] = requests[s][i]
  <2>1. CASE \E t \in Threads : SendQuery(t)
    <3>1. PICK t \in Threads : SendQuery(t)
      BY <2>1
    <3>2. t \in Callers
      BY <1>0, <3>1 DEF SendQuery, Locations, CloserCodes
    <3>3. \/ requests' = requests
          \/ requests' = [requests EXCEPT ![outToServer] = Append(@, t)]
      BY <3>1 DEF SendQuery
    <3>4. requests'[s] = requests[s]
          \/ requests'[s] = Append(requests[s], t)
      BY <1>0, <3>3 DEF TypeOK
    <3>5. requests[s] \in Seq(Callers) /\ Len(requests[s]) \in Nat
      BY <1>0 DEF TypeOK
    <3>6. CASE requests'[s] = Append(requests[s], t)
      <4>1. /\ Len(requests'[s]) = Len(requests[s]) + 1
            /\ requests'[s][i] = requests[s][i]
        BY <3>2, <3>5, <3>6, AppendProperties
      <4>. QED
        BY <3>5, <4>1
    <3>. QED
      BY <3>4, <3>6
  <2>2. CASE ~ \E t \in Threads : SendQuery(t)
    <3>1. UNCHANGED requests
      BY <2>2 DEF Next, CallerStep, CloseStep, ConnectToESBP, BeginConnect,
         ConnectFails, SetTimeout, SetOut, SetIn, EndConnect, BeginQuery,
         LockQuery, SendFails, StopReading, BeginRead, ReadFails, EndQuery,
         Disconnect, CloseOut, CloseIn, CloseClient, CloseStream,
         EndDisconnect, TaskCloses, IfConnected, vars
    <3>. QED
      BY <3>1
  <2>. QED
    BY <2>1, <2>2
<1>4. \A t \in Callers : Answered(t) => Answered(t)'
  <2>1. \A s \in Opened : answered[s] <= answered'[s] /\ answered'[s] \in Nat
    BY <1>0, <1>1, <1>2 DEF TypeOK
  <2>. QED
    BY <1>0, <1>2, <1>3, <2>1, AnsweredMono
<1>5. \A t \in Callers : \A s \in Opened', j \in Nat :
        Left(t, s, j)' => s \in Opened /\ Left(t, s, j)
  BY <1>1, <1>2 DEF Left
<1>6. \A u \in Callers : ret'[u] \in {ret[u], None}
  <2>1. CASE \E t \in Threads : EndQuery(t)
    BY <1>0, <2>1 DEF EndQuery, TypeOK
  <2>2. CASE ~ \E t \in Threads : EndQuery(t)
    <3>1. UNCHANGED ret
      BY <2>2 DEF Next, CallerStep, CloseStep, ConnectToESBP, BeginConnect,
         ConnectFails, SetTimeout, SetOut, SetIn, EndConnect, BeginQuery,
         LockQuery, SendQuery, SendFails, StopReading, BeginRead, ReadFails,
         Disconnect, CloseOut, CloseIn, CloseClient, CloseStream,
         EndDisconnect, TaskCloses, IfConnected, vars
    <3>. QED
      BY <3>1
  <2>. QED
    BY <2>1, <2>2
<1>7. \A u \in Callers : pc[u] = "done" => pc'[u] = "done"
  <2>1. CASE UNCHANGED pc
    BY <2>1
  <2>2. CASE \E t \in Threads : ConnectToESBP(t) \/ CallerStep(t)
                                \/ Disconnect(t) \/ CloseStep(t)
    <3>1. PICK t \in Threads : ConnectToESBP(t) \/ CallerStep(t)
                               \/ Disconnect(t) \/ CloseStep(t)
      BY <2>2
    <3>2. pc[t] # "done"
      BY <3>1 DEF CallerStep, CloseStep, ConnectToESBP, BeginConnect,
         ConnectFails, SetTimeout, SetOut, SetIn, EndConnect, BeginQuery,
         LockQuery, SendQuery, SendFails, StopReading, BeginRead, Reading,
         ReadLine, ReadFails, EndQuery, NewSocket, Disconnect, CloseOut,
         CloseIn, CloseClient, EndDisconnect
    <3>3. PICK l : pc' = [pc EXCEPT ![t] = l]
      BY <3>1 DEF CallerStep, CloseStep, ConnectToESBP, BeginConnect,
         ConnectFails, SetTimeout, SetOut, SetIn, EndConnect, BeginQuery,
         LockQuery, SendQuery, SendFails, StopReading, BeginRead, ReadLine,
         ReadFails, EndQuery, NewSocket, Disconnect, CloseOut, CloseIn,
         CloseClient, CloseStream, EndDisconnect, IfConnected, NotConnected,
         Goto
    <3>. QED
      BY <1>0, <3>2, <3>3 DEF Locations, Threads
  <2>3. CASE \E s \in Opened : TaskCloses(s)
    BY <2>3 DEF TaskCloses
  <2>. QED
    BY <2>1, <2>2, <2>3 DEF Next, vars
<1>. QED
  BY <1>0, <1>4, <1>5, <1>6, <1>7, NoAnswer

LEMMA NextAnswer == AInv /\ [Next]_vars => AInv'
<1>. SUFFICES ASSUME AInv, [Next]_vars PROVE OneLastLine'
  BY NextSent, NextLock DEF AInv
<1>1. CASE \E t \in Threads : ReadLine(t) \/ NewSocket(t)
  BY <1>1, ReadAnswer, NewSocketAnswer
<1>2. CASE \E s \in Opened : TaskAnswers(s)
  BY <1>2, TaskAnswer
<1>. QED
  BY <1>1, <1>2, OtherAnswer

LEMMA InitAnswer == Init => AInv
<1>. SUFFICES ASSUME Init PROVE AInv
  OBVIOUS
<1>1. OInv
  BY InitSent
<1>2. HoldsLock
  BY DEF Init, HoldsLock, InQueryMC, QueryCodes, CloseCodes, ReadCodes,
         Threads
<1>3. OneLastLine
  <2>1. Opened = {} /\ \A u \in Callers : ret[u] = None
    BY DEF Init, Opened
  <2>. QED
    BY <2>1, NoneAssumption DEF OneLastLine
<1>. QED
  BY <1>1, <1>2, <1>3 DEF AInv

\* An answer that a query returns though it was for another's command was
\* left over by that other, which has ended without it: whatever ids the
\* commands share, the lock keeps the two apart.
THEOREM NoStolenAnswer == Spec => []AnswerIsFree
<1>1. AInv => AnswerIsFree
  BY DEF AInv, OneLastLine, AnswerIsFree
<1>. QED
  BY <1>1, InitAnswer, NextAnswer, PTL DEF Spec
=============================================================================
