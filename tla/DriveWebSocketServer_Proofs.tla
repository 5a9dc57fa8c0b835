--------------------- MODULE DriveWebSocketServer_Proofs ---------------------
(***************************************************************************)
(* Proofs about DriveWebSocketServer, for any number of websockets, worker *)
(* threads and messages: its types and, with ports that are distinct, that *)
(* a text goes to the client whose command made the drive print it, and    *)
(* that a closed websocket leaves no session behind.                       *)
(*                                                                         *)
(* An answer is the next text in a stream, so it is the reader's own only  *)
(* if nothing older can be there.  Backlog counts what is on its way: a    *)
(* manager that is connected and that nobody reads from owes nothing, and  *)
(* one whose reply did not come is disconnected.                           *)
(***************************************************************************)
EXTENDS DriveWebSocketServer, TLAPS

LEMMA InitType == Init => TypeOK
<1>. SUFFICES ASSUME Init PROVE TypeOK
  OBVIOUS
<1>1. /\ owed \in [Websockets -> Seq(Websockets \X Nat)]
      /\ in \in [Websockets -> Seq(Websockets \X Nat)]
  BY DEF Init
<1>2. answers \in [Websockets -> Seq([to : Websockets \X Nat, text : Texts])]
  BY DEF Init
<1>3. ans \in [Workers -> Texts]
  BY DEF Init, Texts
<1>. QED
  BY <1>1, <1>2, <1>3 DEF Init, TypeOK

\* A worker's message, and the answer it gives.
LEMMA MessageType ==
  ASSUME TypeOK, NEW k \in Workers, wpc[k] # "idle"
  PROVE  ws[k] \in Websockets /\ Message(k) \in Websockets \X Nat
BY DEF TypeOK, Message

\* Where the workers are, and what they then have.
Located ==
  /\ wpc \in [Workers -> {"idle", "lookup", "init", "greet", "close", "send",
                          "write", "wait", "read", "lua", "answer"}]
  /\ \A k \in Workers :
       /\ wpc[k] # "idle" => ws[k] # None
       /\ wpc[k] \in {"greet", "send", "write", "wait", "read", "lua"}
            => conn[k] # None

LEMMA LocatedStep ==
  ASSUME TypeOK, NEW k \in Workers,
         NEW l \in {"lookup", "write", "wait", "lua", "answer"},
         wpc' = [wpc EXCEPT ![k] = l], conn' = conn,
         l \notin {"lookup", "answer"} => conn[k] # None,
         ws'[k] # None, \A j \in Workers \ {k} : ws'[j] = ws[j]
  PROVE  Located'
<1>1. wpc' \in [Workers -> {"idle", "lookup", "init", "greet", "close", "send",
                           "write", "wait", "read", "lua", "answer"}]
  BY DEF TypeOK
<1>2. ASSUME NEW j \in Workers
      PROVE  /\ wpc'[j] # "idle" => ws'[j] # None
             /\ wpc'[j] \in {"greet", "send", "write", "wait", "read", "lua"}
                  => conn'[j] # None
  <2>1. CASE j = k
    BY <2>1 DEF TypeOK
  <2>2. CASE j # k
    BY <2>2 DEF TypeOK
  <2>. QED
    BY <2>1, <2>2
<1>. QED
  BY <1>1, <1>2 DEF Located

LEMMA TakeType ==
  ASSUME TypeOK, NEW k \in Workers, TakeMessage(k)
  PROVE  TypeOK'
<1>1. PICK w \in Websockets : /\ sent' = [sent EXCEPT ![w] = @ + 1]
                              /\ ws' = [ws EXCEPT ![k] = w]
  BY DEF TakeMessage
<1>2. sent' \in [Websockets -> Nat]
  BY <1>1 DEF TypeOK
<1>3. ans' \in [Workers -> Texts]
  BY DEF TakeMessage, Give, TypeOK, Texts
<1>4. /\ ws' \in [Workers -> Websockets \cup {None}]
      /\ ws'[k] # None /\ \A j \in Workers \ {k} : ws'[j] = ws[j]
  BY <1>1, NamesAssumption DEF TypeOK
<1>5. wpc' = [wpc EXCEPT ![k] = "lookup"]
      /\ UNCHANGED <<connectionMap, mapLock, drives, conn, wsState, answers,
                     closing>>
  BY DEF TakeMessage, Goto
<1>6. Located'
  BY <1>4, <1>5, LocatedStep
<1>. QED
  BY <1>2, <1>3, <1>4, <1>5, <1>6 DEF drives, closing, Located, TypeOK

LEMMA ConnectType ==
  ASSUME TypeOK, NEW k \in Workers,
         \/ LookupConn(k) \/ ConnectDrive(k) \/ ConnectFails(k) \/ Greeted(k)
         \/ GreetingFails(k) \/ CloseWebsocket(k)
         \/ LookupThrows(k) \/ PutThrows(k)
  PROVE  TypeOK'
<1>. USE DEF Goto, Give, drives, workers, clients, closing
<1>0. wpc[k] # "idle" /\ ws[k] \in Websockets
  BY DEF TypeOK, LookupConn, ConnectDrive, ConnectFails, Greeted,
         GreetingFails, CloseWebsocket, LookupThrows, PutThrows
<1>1. CASE LookupConn(k)
  <2>. DEFINE m == connectionMap[PortOf[ws[k]]]
  <2>1. m \in Websockets \cup {None}
    BY <1>0 DEF TypeOK, Ports
  <2>2. PICK l \in {"init", "answer", "send"} :
          wpc' = [wpc EXCEPT ![k] = l] /\ (l = "send" => m # None)
    BY <1>1 DEF LookupConn
  <2>3. conn' = [conn EXCEPT ![k] = m]
    BY <1>1 DEF LookupConn
  <2>. HIDE DEF m
  <2>4. /\ conn' \in [Workers -> Websockets \cup {None}]
        /\ wpc' \in [Workers -> {"idle", "lookup", "init", "greet", "close",
                                 "send", "write", "wait", "read", "lua",
                                 "answer"}]
    BY <2>1, <2>2, <2>3 DEF TypeOK
  <2>5. UNCHANGED <<connectionMap, mapLock, drives, ws, ans, clients, closing>>
    BY <1>1 DEF LookupConn
  <2>6. \A j \in Workers :
          /\ wpc'[j] # "idle" => ws'[j] # None
          /\ wpc'[j] \in {"greet", "send", "write", "wait", "read", "lua"}
               => conn'[j] # None
    BY <1>0, <2>2, <2>3, <2>5, NamesAssumption DEF TypeOK
  <2>. QED
    BY <2>4, <2>5, <2>6 DEF TypeOK
<1>2. CASE ConnectDrive(k)
  <2>. DEFINE m == ws[k]
  <2>1. << Greeting(m) >> \in Seq(Websockets \X Nat)
        /\ << >> \in Seq(Websockets \X Nat)
    BY <1>0 DEF Greeting
  <2>2. /\ owed' = [owed EXCEPT ![m] = << Greeting(m) >>]
        /\ in' = [in EXCEPT ![m] = << >>]
    BY <1>2 DEF ConnectDrive
  <2>3. /\ owed' \in [Websockets -> Seq(Websockets \X Nat)]
        /\ in' \in [Websockets -> Seq(Websockets \X Nat)]
    BY <2>1, <2>2 DEF TypeOK
  <2>4. conn' = [conn EXCEPT ![k] = m] /\ m # None
    BY <1>0, <1>2, NamesAssumption DEF ConnectDrive
  <2>. QED
    BY <1>0, <1>2, <2>3, <2>4 DEF ConnectDrive, TypeOK
<1>3. CASE ConnectFails(k)
  BY <1>3 DEF ConnectFails, TypeOK
<1>4. CASE Greeted(k)
  <2>1. conn[k] \in Websockets
    BY <1>4 DEF Greeted, TypeOK
  <2>2. Tail(in[conn[k]]) \in Seq(Websockets \X Nat)
    BY <1>4, <2>1 DEF Greeted, Prompted, TypeOK
  <2>3. in' \in [Websockets -> Seq(Websockets \X Nat)]
    BY <1>4, <2>2 DEF Greeted, TypeOK
  <2>4. ans' \in [Workers -> Texts]
    BY <1>4 DEF Greeted, TypeOK, Texts
  <2>. QED
    BY <1>0, <1>4, <2>1, <2>3, <2>4 DEF Greeted, TypeOK
<1>5. CASE GreetingFails(k)
  BY <1>5 DEF GreetingFails, Disconnect, TypeOK
<1>6. CASE CloseWebsocket(k)
  <2>1. ans' \in [Workers -> Texts]
    BY <1>6 DEF CloseWebsocket, TypeOK, Texts
  <2>2. wsState' \in [Websockets -> {"open", "closing", "closed"}]
    BY <1>6 DEF CloseWebsocket, TypeOK
  <2>3. mapLock' = None /\ wpc' = [wpc EXCEPT ![k] = "answer"]
        /\ UNCHANGED <<connectionMap, drives, ws, conn, sent, answers,
                       closing>>
    BY <1>6 DEF CloseWebsocket
  <2>4. Located'
    BY <1>0, <2>3, NamesAssumption, LocatedStep
  <2>. QED
    BY <2>1, <2>2, <2>3, <2>4 DEF Located, TypeOK
<1>7. CASE LookupThrows(k)
  BY <1>7 DEF LookupThrows, TypeOK
<1>8. CASE PutThrows(k)
  <2>1. conn[k] \in Websockets
    BY <1>8 DEF PutThrows, TypeOK
  <2>2. Tail(in[conn[k]]) \in Seq(Websockets \X Nat)
    BY <1>8, <2>1 DEF PutThrows, Prompted, TypeOK
  <2>3. in' \in [Websockets -> Seq(Websockets \X Nat)]
    BY <1>8, <2>2 DEF PutThrows, TypeOK
  <2>. QED
    BY <1>0, <1>8, <2>1, <2>3 DEF PutThrows, TypeOK
<1>. QED
  BY <1>1, <1>2, <1>3, <1>4, <1>5, <1>6, <1>7, <1>8

LEMMA CommandType ==
  ASSUME TypeOK, NEW k \in Workers,
         \/ Send(k) \/ Write(k) \/ BeginRead(k) \/ ReadPrompt(k)
         \/ ReadFails(k) \/ ReadLua(k) \/ LuaFails(k) \/ Answer(k)
  PROVE  TypeOK'
<1>. USE DEF Goto, Give, drives, workers, clients, closing
<1>0. /\ wpc[k] # "idle" /\ ws[k] \in Websockets
      /\ Message(k) \in Websockets \X Nat
  BY MessageType DEF Send, Write, BeginRead, ReadPrompt, ReadFails, ReadLua,
                     LuaFails, Answer
<1>a. wpc[k] # "answer" => conn[k] \in Websockets
  BY DEF TypeOK, Send, Write, BeginRead, ReadPrompt, ReadFails, ReadLua,
         LuaFails, Answer
<1>b. ASSUME NEW w \in Websockets, NEW a \in Texts,
             answers' = [answers EXCEPT ![w] =
                           Append(@, [to |-> Message(k), text |-> a])]
      PROVE  answers' \in [Websockets ->
                             Seq([to : Websockets \X Nat, text : Texts])]
  <2>. DEFINE S == [to : Websockets \X Nat, text : Texts]
  <2>. DEFINE e == [to |-> Message(k), text |-> a]
  <2>1. e \in S /\ answers \in [Websockets -> Seq(S)]
    BY <1>0 DEF TypeOK
  <2>2. answers' = [answers EXCEPT ![w] = Append(@, e)]
    BY <1>b
  <2>3. answers' \in [Websockets -> Seq(S)]
    <3>. HIDE DEF S, e
    <3>1. Append(answers[w], e) \in Seq(S)
      BY <2>1
    <3>. QED
      BY <2>1, <2>2, <3>1
  <2>. QED
    BY <2>3
<1>1. CASE Send(k)
  <2>1. PICK l \in {"write", "answer"} : wpc' = [wpc EXCEPT ![k] = l]
    BY <1>1 DEF Send
  <2>2. conn[k] # None
    BY <1>1 DEF Send, TypeOK
  <2>3. UNCHANGED <<connectionMap, mapLock, drives, ws, conn, ans, clients,
                    closing>>
    BY <1>1 DEF Send
  <2>4. Located'
    BY <1>0, <2>1, <2>2, <2>3, NamesAssumption, LocatedStep
  <2>. QED
    BY <2>3, <2>4 DEF Located, TypeOK
<1>2. CASE Write(k)
  <2>1. PICK l \in {"lua", "wait"} : wpc' = [wpc EXCEPT ![k] = l]
    BY <1>2 DEF Write
  <2>2. conn[k] \in Websockets
    BY <1>2, <1>a DEF Write
  <2>3. Append(owed[conn[k]], Message(k)) \in Seq(Websockets \X Nat)
    BY <1>0, <2>2 DEF TypeOK
  <2>4. owed' \in [Websockets -> Seq(Websockets \X Nat)]
    BY <1>2, <2>3 DEF Write, TypeOK
  <2>5. UNCHANGED <<connectionMap, mapLock, connected, isSending, tc, in,
                    driveUp, watchdog, reading, ws, conn, ans, clients,
                    closing>>
    BY <1>2 DEF Write
  <2>6. Located'
    BY <1>0, <2>1, <2>2, <2>5, NamesAssumption, LocatedStep
  <2>. QED
    BY <2>4, <2>5, <2>6 DEF Located, TypeOK
<1>3. CASE BeginRead(k)
  <2>1. conn[k] \in Websockets
    BY <1>3, <1>a DEF BeginRead
  <2>. QED
    BY <1>0, <1>3, <2>1, NamesAssumption DEF BeginRead, TypeOK
<1>4. CASE ReadPrompt(k)
  <2>. DEFINE m == conn[k]
  <2>1. m \in Websockets
    BY <1>4, <1>a DEF ReadPrompt
  <2>2. /\ Head(in[m]) \in Websockets \X Nat
        /\ Tail(in[m]) \in Seq(Websockets \X Nat)
    BY <1>4, <2>1 DEF ReadPrompt, Prompted, TypeOK
  <2>3. in' \in [Websockets -> Seq(Websockets \X Nat)]
    BY <1>4, <2>2 DEF ReadPrompt, TypeOK
  <2>4. ans' \in [Workers -> Texts]
    BY <1>4, <2>2 DEF ReadPrompt, TypeOK, Texts
  <2>. QED
    BY <1>0, <1>4, <2>3, <2>4 DEF ReadPrompt, TypeOK
<1>5. CASE ReadFails(k)
  <2>1. ans' \in [Workers -> Texts]
    BY <1>5 DEF ReadFails, TypeOK, Texts
  <2>. QED
    BY <1>0, <1>5, <2>1 DEF ReadFails, Disconnect, TypeOK
<1>6. CASE ReadLua(k)
  <2>. DEFINE m == conn[k]
  <2>1. m \in Websockets
    BY <1>6, <1>a DEF ReadLua
  <2>2. /\ Head(in[m]) \in Websockets \X Nat
        /\ Tail(in[m]) \in Seq(Websockets \X Nat)
    BY <1>6, <2>1 DEF ReadLua, Prompted, TypeOK
  <2>3. in' \in [Websockets -> Seq(Websockets \X Nat)]
    BY <1>6, <2>2 DEF ReadLua, TypeOK
  <2>4. ans' \in [Workers -> Texts]
    BY <1>0, <1>6 DEF ReadLua, TypeOK, Texts
  <2>5. Head(in[m]) \in Texts
    BY <2>2 DEF Texts
  <2>6. answers' \in [Websockets ->
                        Seq([to : Websockets \X Nat, text : Texts])]
    <3>1. CASE wsState[m] = "open"
      BY <1>6, <1>b, <2>1, <2>5, <3>1 DEF ReadLua
    <3>2. CASE wsState[m] # "open"
      BY <1>6, <3>2 DEF ReadLua, TypeOK
    <3>. QED
      BY <3>1, <3>2
  <2>. QED
    BY <1>0, <1>6, <2>3, <2>4, <2>6 DEF ReadLua, TypeOK
<1>7. CASE LuaFails(k)
  <2>1. ans' \in [Workers -> Texts]
    BY <1>0, <1>7 DEF LuaFails, TypeOK, Texts
  <2>. QED
    BY <1>0, <1>7, <2>1 DEF LuaFails, Disconnect, TypeOK
<1>8. CASE Answer(k)
  <2>1. answers' \in [Websockets ->
                        Seq([to : Websockets \X Nat, text : Texts])]
    <3>1. CASE wsState[ws[k]] = "open"
      <4>1. ans[k] \in Texts
        BY DEF TypeOK
      <4>. QED
        BY <1>0, <1>8, <1>b, <3>1, <4>1 DEF Answer
    <3>2. CASE wsState[ws[k]] # "open"
      BY <1>8, <3>2 DEF Answer, TypeOK
    <3>. QED
      BY <3>1, <3>2
  <2>. QED
    BY <1>8, <2>1 DEF Answer, TypeOK
<1>. QED
  BY <1>1, <1>2, <1>3, <1>4, <1>5, <1>6, <1>7, <1>8

LEMMA OtherType ==
  ASSUME TypeOK,
         \/ \E w \in Websockets : CloseConnection(w)
         \/ SelectorStep
         \/ \E m \in Websockets :
              WatchdogStep(m) \/ DriveReplies(m) \/ DriveCloses(m)
  PROVE  TypeOK'
<1>. USE DEF drives, workers, clients, closing
<1>1. ASSUME NEW w \in Websockets, CloseConnection(w)
      PROVE  TypeOK'
  BY <1>1 DEF CloseConnection, TypeOK
<1>2. CASE SkipClose \/ LookupClose
  <2>1. CASE SkipClose
    <3>1. UNCHANGED <<connectionMap, mapLock, drives, workers, sent, answers>>
      BY <2>1 DEF SkipClose
    <3>2. /\ selector' \in Websockets \cup {None}
          /\ spc' \in {"idle", "lookup", "disconnect"}
          /\ wsState' \in [Websockets -> {"open", "closing", "closed"}]
      BY <2>1 DEF SkipClose, EndClose, TypeOK
    <3>. QED
      BY <3>1, <3>2 DEF TypeOK
  <2>2. CASE LookupClose
    <3>1. UNCHANGED <<connectionMap, mapLock, drives, workers, sent, answers>>
      BY <2>2 DEF LookupClose
    <3>2. CASE connectionMap[PortOf[selector]] = None
      <4>1. /\ selector' \in Websockets \cup {None}
            /\ spc' \in {"idle", "lookup", "disconnect"}
            /\ wsState' \in [Websockets -> {"open", "closing", "closed"}]
        BY <2>2, <3>2 DEF LookupClose, EndClose, TypeOK
      <4>. QED
        BY <3>1, <4>1 DEF TypeOK
    <3>3. CASE connectionMap[PortOf[selector]] # None
      BY <2>2, <3>1, <3>3 DEF LookupClose, TypeOK
    <3>. QED
      BY <3>2, <3>3
  <2>. QED
    BY <1>2, <2>1, <2>2
<1>3. CASE DisconnectClose
  BY <1>3 DEF DisconnectClose, Disconnect, EndClose, TypeOK
<1>4. ASSUME NEW m \in Websockets, WatchdogLooks(m)
      PROVE  TypeOK'
  BY <1>4 DEF WatchdogLooks, TypeOK
<1>5. ASSUME NEW m \in Websockets, WatchdogFires(m)
      PROVE  TypeOK'
  BY <1>5 DEF WatchdogFires, Disconnect, TypeOK
<1>6. ASSUME NEW m \in Websockets, DriveReplies(m)
      PROVE  TypeOK'
  <2>1. /\ Append(in[m], Head(owed[m])) \in Seq(Websockets \X Nat)
        /\ Tail(owed[m]) \in Seq(Websockets \X Nat)
    BY <1>6 DEF DriveReplies, TypeOK
  <2>2. /\ in' \in [Websockets -> Seq(Websockets \X Nat)]
        /\ owed' \in [Websockets -> Seq(Websockets \X Nat)]
    BY <1>6, <2>1 DEF DriveReplies, TypeOK
  <2>. QED
    BY <1>6, <2>2 DEF DriveReplies, TypeOK
<1>7. ASSUME NEW m \in Websockets, DriveCloses(m)
      PROVE  TypeOK'
  BY <1>7 DEF DriveCloses, TypeOK
<1>. QED
  BY <1>1, <1>2, <1>3, <1>4, <1>5, <1>6, <1>7 DEF SelectorStep, WatchdogStep

LEMMA NextType == TypeOK /\ [Next]_vars => TypeOK'
<1>. SUFFICES ASSUME TypeOK, [Next]_vars PROVE TypeOK'
  OBVIOUS
<1>1. CASE UNCHANGED vars
  BY <1>1 DEF vars, drives, workers, clients, closing, TypeOK
<1>. QED
  BY <1>1, TakeType, ConnectType, CommandType, OtherType DEF Next, WorkerStep

\* The state of managers, workers and clients keeps its types, and a worker
\* that sends or reads has a manager.
THEOREM TypeCorrect == Spec => []TypeOK
BY InitType, NextType, PTL DEF Spec
-----------------------------------------------------------------------------
(* The text a client receives *)

Reading == {"wait", "read", "lua"}

Busy == Reading \cup {"greet"}

\* With ports of their own, websockets share no manager.
Ownership ==
  /\ \A w \in Websockets : connectionMap[PortOf[w]] \in {w, None}
  /\ \A k \in Workers : wpc[k] # "idle" => WorkerOf[ws[k]] = k
  /\ \A k \in Workers :
       wpc[k] \in Busy \cup {"send", "write"} => conn[k] = ws[k]

OnItsWay(m) == Len(in[m]) + Len(owed[m])

OnlyFor(m, a) ==
  /\ \A i \in 1..Len(in[m]) : in[m][i] = a
  /\ \A i \in 1..Len(owed[m]) : owed[m][i] = a

\* At most one text is on its way; while nobody waits for one, a session that
\* is connected has none.
Backlog ==
  /\ \A k \in Workers :
       /\ wpc[k] \in Busy => OnItsWay(ws[k]) <= 1
       /\ wpc[k] \in Reading => OnlyFor(ws[k], Message(k))
       /\ wpc[k] = "write" => OnItsWay(ws[k]) = 0
  /\ \A m \in Websockets :
       connected[m] => \/ OnItsWay(m) = 0
                       \/ \E k \in Workers : wpc[k] \in Busy /\ ws[k] = m

Given ==
  \A k \in Workers :
    wpc[k] # "idle" /\ ans[k] \in Websockets \X Nat => ans[k] = Message(k)

OwnText(a) == a.text \in Websockets \X Nat => a.text = a.to

OwnTexts ==
  \A w \in Websockets : \A i \in 1..Len(answers[w]) : OwnText(answers[w][i])

RInv == TypeOK /\ Ownership /\ Backlog /\ Given /\ OwnTexts

\* What a worker's step leaves to the others.
OthersKept(k) ==
  /\ sent' = sent /\ ws' = ws
  /\ \A j \in Workers \ {k} :
       wpc'[j] = wpc[j] /\ ans'[j] = ans[j] /\ conn'[j] = conn[j]
  /\ \A n \in Websockets \ {ws[k]} :
       in'[n] = in[n] /\ owed'[n] = owed[n] /\ connected'[n] = connected[n]

\* Two sequences that are short together.
LEMMA NoneLeft ==
  ASSUME NEW S, NEW s \in Seq(S), NEW t \in Seq(S), Len(s) + Len(t) = 0
  PROVE  s = << >> /\ t = << >>
OBVIOUS

LEMMA LastTaken ==
  ASSUME NEW S, NEW s \in Seq(S), NEW t \in Seq(S), Len(s) + Len(t) <= 1,
         s # << >>
  PROVE  Len(Tail(s)) + Len(t) = 0
OBVIOUS

LEMMA OneMoved ==
  ASSUME NEW S, NEW s \in Seq(S), NEW t \in Seq(S), t # << >>
  PROVE  Len(Append(s, Head(t))) + Len(Tail(t)) = Len(s) + Len(t)
OBVIOUS

LEMMA AtMostOne ==
  ASSUME NEW a
  PROVE  Len(<< >>) + Len(<< >>) <= 1 /\ Len(<< >>) + Len(<< a >>) <= 1
OBVIOUS

LEMMA OtherWebsocket ==
  ASSUME Ownership, NEW k \in Workers, NEW j \in Workers, j # k,
         wpc[k] # "idle", wpc[j] # "idle"
  PROVE  ws[j] # ws[k]
BY DEF Ownership

LEMMA InitReplies == Init => RInv
<1>. SUFFICES ASSUME Init PROVE RInv
  OBVIOUS
<1>1. TypeOK
  BY InitType
<1>2. Ownership
  <2>1. \A w \in Websockets : connectionMap[PortOf[w]] = None
    BY DEF Init, Ports
  <2>. QED
    BY <2>1 DEF Init, Ownership, Busy, Reading
<1>3. Backlog /\ Given /\ OwnTexts
  BY DEF Init, Backlog, Given, OwnTexts, Busy, Reading
<1>. QED
  BY <1>1, <1>2, <1>3 DEF RInv

LEMMA BacklogStep ==
  ASSUME RInv, NEW k \in Workers, wpc[k] # "idle", OthersKept(k),
         wpc'[k] \in Busy => OnItsWay(ws[k])' <= 1,
         wpc'[k] \in Reading => OnlyFor(ws[k], Message(k))',
         wpc'[k] = "write" => OnItsWay(ws[k])' = 0,
         connected'[ws[k]] => OnItsWay(ws[k])' = 0 \/ wpc'[k] \in Busy
  PROVE  Backlog'
<1>0. TypeOK /\ Ownership /\ Backlog /\ ws[k] \in Websockets /\ ws' = ws
  BY DEF RInv, TypeOK, OthersKept
<1>1. \A n \in Websockets \ {ws[k]} :
        /\ OnItsWay(n)' = OnItsWay(n)
        /\ \A a : OnlyFor(n, a)' <=> OnlyFor(n, a)
  BY DEF OthersKept, OnItsWay, OnlyFor
<1>2. ASSUME NEW j \in Workers, j # k
      PROVE  /\ wpc'[j] \in Busy => OnItsWay(ws[j])' <= 1
             /\ wpc'[j] \in Reading => OnlyFor(ws[j], Message(j))'
             /\ wpc'[j] = "write" => OnItsWay(ws[j])' = 0
  <2>1. wpc'[j] = wpc[j] /\ Message(j)' = Message(j)
    BY <1>2 DEF OthersKept, Message
  <2>2. CASE wpc[j] = "idle"
    BY <2>1, <2>2 DEF Busy, Reading
  <2>3. CASE wpc[j] # "idle"
    <3>1. ws[j] \in Websockets \ {ws[k]}
      BY <1>0, <1>2, <2>3, OtherWebsocket DEF TypeOK
    <3>2. /\ wpc[j] \in Busy => OnItsWay(ws[j]) <= 1
          /\ wpc[j] \in Reading => OnlyFor(ws[j], Message(j))
          /\ wpc[j] = "write" => OnItsWay(ws[j]) = 0
      BY <1>0 DEF Backlog
    <3>3. /\ ws'[j] = ws[j]
          /\ in'[ws[j]] = in[ws[j]] /\ owed'[ws[j]] = owed[ws[j]]
      BY <1>0, <3>1 DEF OthersKept
    <3>4. OnItsWay(ws[j])' = OnItsWay(ws[j])
      BY <3>3 DEF OnItsWay
    <3>5. OnlyFor(ws[j], Message(j)) => OnlyFor(ws[j], Message(j))'
      BY <2>1, <3>3 DEF OnlyFor
    <3>. QED
      BY <2>1, <3>2, <3>4, <3>5
  <2>. QED
    BY <2>2, <2>3
<1>3. ASSUME NEW m \in Websockets, connected'[m]
      PROVE  \/ OnItsWay(m)' = 0
             \/ \E j \in Workers : wpc'[j] \in Busy /\ ws'[j] = m
  <2>1. CASE m = ws[k]
    BY <1>0, <1>3, <2>1 DEF OnItsWay
  <2>2. CASE m # ws[k]
    <3>1. connected[m] /\ OnItsWay(m)' = OnItsWay(m)
      BY <1>1, <1>3, <2>2 DEF OthersKept
    <3>2. CASE OnItsWay(m) = 0
      BY <3>1, <3>2
    <3>3. ASSUME NEW j \in Workers, wpc[j] \in Busy, ws[j] = m
          PROVE  wpc'[j] \in Busy /\ ws'[j] = m
      BY <1>0, <2>2, <3>3 DEF OthersKept
    <3>. QED
      BY <1>0, <3>1, <3>2, <3>3 DEF Backlog
  <2>. QED
    BY <2>1, <2>2
<1>4. /\ wpc'[k] \in Busy => OnItsWay(ws[k])' <= 1
      /\ wpc'[k] \in Reading => OnlyFor(ws[k], Message(k))'
      /\ wpc'[k] = "write" => OnItsWay(ws[k])' = 0
  OBVIOUS
<1>. QED
  BY <1>2, <1>3, <1>4 DEF Backlog

\* A step that leaves what is on its way alone.
LEMMA BacklogKept ==
  ASSUME RInv, NEW k \in Workers, wpc[k] # "idle", OthersKept(k),
         in' = in, owed' = owed, wpc'[k] \notin Busy \cup {"write"},
         wpc[k] \in Busy => ~connected'[ws[k]],
         connected'[ws[k]] => connected[ws[k]]
  PROVE  Backlog'
<1>0. TypeOK /\ Ownership /\ Backlog /\ ws[k] \in Websockets
  BY DEF RInv, TypeOK
<1>1. OnItsWay(ws[k])' = OnItsWay(ws[k])
  BY DEF OnItsWay, OthersKept
<1>2. connected'[ws[k]] => OnItsWay(ws[k])' = 0
  <2>. SUFFICES ASSUME connected'[ws[k]] PROVE OnItsWay(ws[k]) = 0
    BY <1>1
  <2>1. wpc[k] \notin Busy /\ connected[ws[k]]
    OBVIOUS
  <2>2. \A j \in Workers : wpc[j] \in Busy => ws[j] # ws[k]
    BY <1>0, <2>1, OtherWebsocket DEF Busy, Reading
  <2>. QED
    BY <1>0, <2>1, <2>2 DEF Backlog
<1>. QED
  BY <1>2, BacklogStep DEF Busy

LEMMA OwnershipStep ==
  ASSUME DistinctPorts, RInv, NEW k \in Workers, wpc[k] # "idle",
         OthersKept(k),
         wpc'[k] \in Busy \cup {"send", "write"} => conn'[k] = ws[k],
         \/ UNCHANGED connectionMap
         \/ connectionMap' = [connectionMap EXCEPT ![PortOf[ws[k]]] = ws[k]]
  PROVE  Ownership'
<1>0. TypeOK /\ Ownership /\ ws[k] \in Websockets /\ ws' = ws
  BY DEF RInv, TypeOK, OthersKept
<1>1. ASSUME NEW w \in Websockets
      PROVE  connectionMap'[PortOf[w]] \in {w, None}
  <2>1. CASE UNCHANGED connectionMap
    BY <1>0, <2>1 DEF Ownership
  <2>2. CASE connectionMap' = [connectionMap EXCEPT ![PortOf[ws[k]]] = ws[k]]
    <3>1. connectionMap \in [Ports -> Websockets \cup {None}]
          /\ PortOf[w] \in Ports /\ PortOf[ws[k]] \in Ports
      BY <1>0 DEF TypeOK, Ports
    <3>2. CASE w = ws[k]
      BY <2>2, <3>1, <3>2
    <3>3. CASE w # ws[k]
      <4>1. PortOf[w] # PortOf[ws[k]]
        BY <1>0, <3>3 DEF DistinctPorts
      <4>. QED
        BY <1>0, <2>2, <3>1, <4>1 DEF Ownership
    <3>. QED
      BY <3>2, <3>3
  <2>. QED
    BY <2>1, <2>2
<1>2. \A j \in Workers : wpc'[j] # "idle" => WorkerOf[ws[j]] = j
  BY <1>0 DEF Ownership, OthersKept
<1>3. \A j \in Workers : wpc'[j] \in Busy \cup {"send", "write"}
                           => conn'[j] = ws[j]
  BY <1>0 DEF Ownership, OthersKept
<1>. QED
  BY <1>0, <1>1, <1>2, <1>3 DEF Ownership

LEMMA GivenStep ==
  ASSUME RInv, NEW k \in Workers, OthersKept(k),
         ans'[k] \in Websockets \X Nat => ans'[k] \in {ans[k], Message(k)},
         wpc[k] # "idle"
  PROVE  Given'
<1>1. \A j \in Workers : Message(j)' = Message(j)
  BY DEF OthersKept, Message
<1>. QED
  BY <1>1 DEF RInv, Given, OthersKept

LEMMA TextsStep ==
  ASSUME RInv, NEW k \in Workers, NEW w \in Websockets, NEW a \in Texts,
         wpc[k] # "idle",
         a \in Websockets \X Nat => a = Message(k),
         \/ UNCHANGED answers
         \/ answers' = [answers EXCEPT ![w] =
                          Append(@, [to |-> Message(k), text |-> a])]
  PROVE  OwnTexts'
<1>1. CASE UNCHANGED answers
  BY <1>1 DEF RInv, OwnTexts
<1>2. CASE answers' = [answers EXCEPT ![w] =
                         Append(@, [to |-> Message(k), text |-> a])]
  <2>. DEFINE S == [to : Websockets \X Nat, text : Texts]
  <2>. DEFINE e == [to |-> Message(k), text |-> a]
  <2>1. /\ answers \in [Websockets -> Seq(S)]
        /\ Message(k) \in Websockets \X Nat
    BY MessageType DEF RInv, TypeOK
  <2>2. e \in S /\ OwnText(e)
    BY <2>1 DEF OwnText
  <2>3. answers' = [answers EXCEPT ![w] = Append(@, e)]
    BY <1>2
  <2>. HIDE DEF S, e
  <2>4. ASSUME NEW v \in Websockets, NEW i \in 1..Len(answers'[v])
        PROVE  OwnText(answers'[v][i])
    <3>1. CASE v # w
      BY <2>1, <2>3, <2>4, <3>1 DEF RInv, OwnTexts
    <3>2. CASE v = w
      <4>1. answers'[v] = Append(answers[w], e) /\ answers[w] \in Seq(S)
        BY <2>1, <2>3, <3>2
      <4>2. /\ Len(answers'[v]) = Len(answers[w]) + 1
            /\ Len(answers[w]) \in Nat
            /\ \A j \in 1..(Len(answers[w]) + 1) :
                 answers'[v][j] = IF j = Len(answers[w]) + 1 THEN e
                                  ELSE answers[w][j]
        BY <2>2, <4>1
      <4>3. CASE i = Len(answers[w]) + 1
        BY <2>2, <4>2, <4>3
      <4>4. CASE i # Len(answers[w]) + 1
        <5>1. i \in 1..Len(answers[w]) /\ answers'[v][i] = answers[w][i]
          BY <2>4, <4>2, <4>4
        <5>. QED
          BY <5>1 DEF RInv, OwnTexts
      <4>. QED
        BY <4>3, <4>4
    <3>. QED
      BY <3>1, <3>2
  <2>. QED
    BY <2>4 DEF OwnTexts
<1>. QED
  BY <1>1, <1>2

LEMMA TakeReplies ==
  ASSUME RInv, NEW k \in Workers, TakeMessage(k)
  PROVE  Ownership' /\ Backlog' /\ Given' /\ OwnTexts'
<1>0. TypeOK /\ Ownership /\ Backlog /\ Given /\ wpc[k] = "idle"
  BY DEF RInv, TakeMessage
<1>1. PICK w \in Websockets : /\ WorkerOf[w] = k
                              /\ sent' = [sent EXCEPT ![w] = @ + 1]
                              /\ ws' = [ws EXCEPT ![k] = w]
  BY DEF TakeMessage
<1>2. /\ UNCHANGED <<connectionMap, connected, in, owed, conn, answers>>
      /\ wpc' = [wpc EXCEPT ![k] = "lookup"]
      /\ ans' = [ans EXCEPT ![k] = None]
  BY DEF TakeMessage, Give, Goto, drives
<1>3. wpc'[k] = "lookup" /\ ws'[k] = w /\ ans'[k] = None
  BY <1>0, <1>1, <1>2 DEF TypeOK
<1>4. \A j \in Workers \ {k} :
        /\ wpc'[j] = wpc[j] /\ ws'[j] = ws[j] /\ ans'[j] = ans[j]
        /\ wpc[j] # "idle" => Message(j)' = Message(j)
  <2>1. \A j \in Workers \ {k} : wpc[j] # "idle" => ws[j] # w
    BY <1>0, <1>1 DEF Ownership
  <2>2. \A v \in Websockets : v # w => sent'[v] = sent[v]
    BY <1>0, <1>1 DEF TypeOK
  <2>. QED
    BY <1>0, <1>1, <1>2, <2>1, <2>2 DEF TypeOK, Message
<1>5. Ownership'
  BY <1>0, <1>1, <1>2, <1>3, <1>4 DEF Ownership, Busy, Reading
<1>6. Backlog'
  <2>1. \A m : OnItsWay(m)' = OnItsWay(m)
               /\ \A a : OnlyFor(m, a)' <=> OnlyFor(m, a)
    BY <1>2 DEF OnItsWay, OnlyFor
  <2>2. ASSUME NEW j \in Workers
        PROVE  /\ wpc'[j] \in Busy => OnItsWay(ws'[j]) <= 1
               /\ wpc'[j] \in Reading => OnlyFor(ws'[j], Message(j)')
               /\ wpc'[j] = "write" => OnItsWay(ws'[j]) = 0
    <3>1. CASE j = k \/ wpc[j] = "idle"
      BY <1>3, <1>4, <3>1 DEF Busy, Reading
    <3>2. CASE j # k /\ wpc[j] # "idle"
      BY <1>0, <1>4, <3>2 DEF Backlog
    <3>. QED
      BY <3>1, <3>2
  <2>3. ASSUME NEW m \in Websockets, connected[m]
        PROVE  \/ OnItsWay(m) = 0
               \/ \E j \in Workers : wpc'[j] \in Busy /\ ws'[j] = m
    <3>1. \A j \in Workers : wpc[j] \in Busy => j # k
      BY <1>0 DEF Busy, Reading
    <3>. QED
      BY <1>0, <1>4, <2>3, <3>1 DEF Backlog
  <2>4. ASSUME NEW j \in Workers
        PROVE  /\ wpc'[j] \in Busy => OnItsWay(ws[j])' <= 1
               /\ wpc'[j] \in Reading => OnlyFor(ws[j], Message(j))'
               /\ wpc'[j] = "write" => OnItsWay(ws[j])' = 0
    BY <1>2, <2>2 DEF OnItsWay, OnlyFor
  <2>5. ASSUME NEW m \in Websockets, connected'[m]
        PROVE  \/ OnItsWay(m)' = 0
               \/ \E j \in Workers : wpc'[j] \in Busy /\ ws'[j] = m
    BY <1>2, <2>1, <2>3, <2>5
  <2>. QED
    BY <2>4, <2>5 DEF Backlog
<1>7. Given'
  BY <1>0, <1>3, <1>4, NamesAssumption DEF Given
<1>8. OwnTexts'
  BY <1>2 DEF RInv, OwnTexts
<1>. QED
  BY <1>5, <1>6, <1>7, <1>8

LEMMA OthersStep ==
  ASSUME RInv, NEW k \in Workers, WorkerStep(k), ~TakeMessage(k)
  PROVE  OthersKept(k) /\ wpc[k] # "idle"
<1>. USE DEF Goto, Give, drives, workers, clients
<1>0. TypeOK /\ Ownership
  BY DEF RInv
<1>1. wpc[k] \in Busy \cup {"send", "write"} => conn[k] = ws[k]
  BY <1>0 DEF Ownership
<1>2. CASE LookupConn(k) \/ ConnectFails(k) \/ CloseWebsocket(k) \/ Send(k)
           \/ BeginRead(k) \/ Answer(k) \/ LookupThrows(k)
  BY <1>0, <1>2 DEF LookupConn, ConnectFails, CloseWebsocket, Send, BeginRead,
                    Answer, LookupThrows, OthersKept, TypeOK
<1>3. CASE ConnectDrive(k)
  BY <1>0, <1>3 DEF ConnectDrive, OthersKept, TypeOK
<1>4. CASE Greeted(k) \/ PutThrows(k)
  BY <1>0, <1>1, <1>4 DEF Greeted, PutThrows, OthersKept, TypeOK, Busy
<1>5. CASE GreetingFails(k)
  BY <1>0, <1>1, <1>5 DEF GreetingFails, Disconnect, OthersKept, TypeOK, Busy
<1>6. CASE Write(k)
  BY <1>0, <1>1, <1>6 DEF Write, OthersKept, TypeOK
<1>7. CASE ReadPrompt(k)
  BY <1>0, <1>1, <1>7 DEF ReadPrompt, OthersKept, TypeOK, Busy, Reading
<1>8. CASE ReadFails(k)
  BY <1>0, <1>1, <1>8 DEF ReadFails, Disconnect, OthersKept, TypeOK, Busy,
                          Reading
<1>9. CASE ReadLua(k)
  BY <1>0, <1>1, <1>9 DEF ReadLua, OthersKept, TypeOK, Busy, Reading
<1>10. CASE LuaFails(k)
  BY <1>0, <1>1, <1>10 DEF LuaFails, Disconnect, OthersKept, TypeOK, Busy,
                           Reading
<1>. QED
  BY <1>2, <1>3, <1>4, <1>5, <1>6, <1>7, <1>8, <1>9, <1>10 DEF WorkerStep

\* The steps that neither read from the drive nor write to it.
LEMMA QuietReplies ==
  ASSUME DistinctPorts, RInv, NEW k \in Workers,
         \/ LookupConn(k) \/ ConnectFails(k) \/ CloseWebsocket(k)
         \/ GreetingFails(k) \/ ReadFails(k) \/ LuaFails(k) \/ Answer(k)
         \/ LookupThrows(k)
  PROVE  Ownership' /\ Backlog' /\ Given' /\ OwnTexts'
<1>. USE DEF Goto, Give, drives, workers, clients
<1>0. TypeOK /\ Ownership /\ Given /\ ws[k] \in Websockets
      /\ wpc[k] # "idle" /\ OthersKept(k)
  <2>1. WorkerStep(k) /\ ~TakeMessage(k)
    BY DEF WorkerStep, TakeMessage, LookupConn, LookupThrows, ConnectFails,
           CloseWebsocket, GreetingFails, ReadFails, LuaFails, Answer
  <2>. QED
    BY <2>1, OthersStep DEF RInv, TypeOK
<1>1. UNCHANGED <<connectionMap, in, owed>>
  BY DEF LookupConn, ConnectFails, CloseWebsocket, GreetingFails, ReadFails,
         LuaFails, Answer, LookupThrows
<1>2. /\ wpc'[k] \notin Busy \cup {"write"}
      /\ wpc[k] \in Busy => ~connected'[ws[k]]
      /\ connected'[ws[k]] => connected[ws[k]]
      /\ wpc'[k] = "send" => conn'[k] = ws[k]
  <2>1. CASE LookupConn(k)
    <3>1. connectionMap[PortOf[ws[k]]] \in {ws[k], None}
      BY <1>0 DEF Ownership
    <3>2. wpc[k] = "lookup" /\ connected' = connected
          /\ conn' = [conn EXCEPT ![k] = connectionMap[PortOf[ws[k]]]]
      BY <2>1 DEF LookupConn
    <3>3. wpc' = [wpc EXCEPT ![k] = "init"]
          \/ wpc' = [wpc EXCEPT ![k] = "answer"]
          \/ /\ wpc' = [wpc EXCEPT ![k] = "send"]
             /\ connectionMap[PortOf[ws[k]]] # None
      BY <2>1 DEF LookupConn
    <3>. QED
      BY <1>0, <3>1, <3>2, <3>3 DEF TypeOK, Busy, Reading
  <2>2. CASE \/ ConnectFails(k) \/ CloseWebsocket(k) \/ Answer(k)
             \/ LookupThrows(k)
    <3>1. connected' = connected /\ wpc[k] \notin Busy
      BY <2>2 DEF ConnectFails, CloseWebsocket, Answer, LookupThrows, Busy,
                  Reading
    <3>2. \E l \in {"close", "answer", "idle"} : wpc' = [wpc EXCEPT ![k] = l]
      BY <2>2 DEF ConnectFails, CloseWebsocket, Answer, LookupThrows
    <3>3. wpc'[k] \in {"close", "answer", "idle"}
      BY <1>0, <3>2 DEF TypeOK
    <3>. QED
      BY <3>1, <3>3 DEF Busy, Reading
  <2>3. CASE GreetingFails(k) \/ ReadFails(k) \/ LuaFails(k)
    <3>1. conn[k] = ws[k] /\ Disconnect(ws[k])
      BY <1>0, <2>3 DEF GreetingFails, ReadFails, LuaFails, Ownership, Busy,
                        Reading
    <3>2. wpc' = [wpc EXCEPT ![k] = "close"]
          \/ wpc' = [wpc EXCEPT ![k] = "answer"]
      BY <2>3 DEF GreetingFails, ReadFails, LuaFails
    <3>. QED
      BY <1>0, <3>1, <3>2 DEF Disconnect, TypeOK, Busy, Reading
  <2>. QED
    BY <2>1, <2>2, <2>3
<1>3. Ownership'
  BY <1>0, <1>1, <1>2, OwnershipStep
<1>4. Backlog'
  BY <1>0, <1>1, <1>2, BacklogKept
<1>5. Given'
  <2>1. ans'[k] \in {ans[k], Message(k), NoReply, Failed}
    BY <1>0 DEF LookupConn, ConnectFails, CloseWebsocket, GreetingFails,
                ReadFails, LuaFails, Answer, LookupThrows, TypeOK
  <2>. QED
    BY <1>0, <2>1, NamesAssumption, GivenStep
<1>6. OwnTexts'
  <2>1. CASE Answer(k)
    <3>1. ans[k] \in Texts
          /\ (ans[k] \in Websockets \X Nat => ans[k] = Message(k))
      BY <1>0 DEF TypeOK, Given
    <3>2. \/ UNCHANGED answers
          \/ answers' = [answers EXCEPT ![ws[k]] =
                           Append(@, [to |-> Message(k), text |-> ans[k]])]
      BY <2>1 DEF Answer
    <3>. QED
      BY <1>0, <3>1, <3>2, TextsStep
  <2>2. CASE ~Answer(k)
    BY <2>2 DEF LookupConn, ConnectFails, CloseWebsocket, GreetingFails,
                ReadFails, LuaFails, LookupThrows, RInv, OwnTexts
  <2>. QED
    BY <2>1, <2>2
<1>. QED
  BY <1>3, <1>4, <1>5, <1>6

\* Opening the session: the greeting is the one text on its way.
LEMMA OpenReplies ==
  ASSUME DistinctPorts, RInv, NEW k \in Workers,
         ConnectDrive(k) \/ Greeted(k) \/ PutThrows(k)
  PROVE  Ownership' /\ Backlog' /\ Given' /\ OwnTexts'
<1>. USE DEF Goto, Give, drives, workers, clients
<1>0. TypeOK /\ Ownership /\ Backlog /\ Given /\ ws[k] \in Websockets
      /\ wpc[k] # "idle" /\ OthersKept(k)
  <2>1. WorkerStep(k) /\ ~TakeMessage(k)
    BY DEF WorkerStep, TakeMessage, ConnectDrive, Greeted, PutThrows
  <2>. QED
    BY <2>1, OthersStep DEF RInv, TypeOK
<1>1. CASE ConnectDrive(k)
  <2>1. /\ in'[ws[k]] = << >> /\ owed'[ws[k]] = << Greeting(ws[k]) >>
        /\ wpc'[k] = "greet" /\ conn'[k] = ws[k] /\ connected'[ws[k]]
        /\ UNCHANGED <<connectionMap, ans>>
    BY <1>0, <1>1 DEF ConnectDrive, TypeOK
  <2>2. OnItsWay(ws[k])' = 1
    BY <1>0, <2>1 DEF OnItsWay, OthersKept
  <2>3. Ownership'
    BY <1>0, <2>1, OwnershipStep
  <2>4. Backlog'
    BY <1>0, <2>1, <2>2, BacklogStep DEF Busy, Reading
  <2>5. Given'
    BY <1>0, <2>1, GivenStep
  <2>6. OwnTexts'
    BY <1>1 DEF ConnectDrive, RInv, OwnTexts
  <2>. QED
    BY <2>3, <2>4, <2>5, <2>6
<1>2. CASE Greeted(k)
  <2>1. conn[k] = ws[k]
    BY <1>0, <1>2 DEF Greeted, Ownership, Busy
  <2>2. /\ in[ws[k]] # << >> /\ in'[ws[k]] = Tail(in[ws[k]])
        /\ owed'[ws[k]] = owed[ws[k]] /\ wpc'[k] = "answer"
        /\ connectionMap' = [connectionMap EXCEPT ![PortOf[ws[k]]] = ws[k]]
        /\ ans'[k] = Opened
    BY <1>0, <1>2, <2>1 DEF Greeted, Prompted, TypeOK
  <2>3. OnItsWay(ws[k]) <= 1
    BY <1>0, <1>2 DEF Greeted, Backlog, Busy
  <2>4. OnItsWay(ws[k])' = 0
    BY <1>0, <2>2, <2>3 DEF OnItsWay, OthersKept, TypeOK
  <2>5. Ownership'
    BY <1>0, <2>2, OwnershipStep DEF Busy, Reading
  <2>6. Backlog'
    BY <1>0, <2>2, <2>4, BacklogStep DEF Busy, Reading
  <2>7. Given'
    BY <1>0, <2>2, NamesAssumption, GivenStep
  <2>8. OwnTexts'
    BY <1>2 DEF Greeted, RInv, OwnTexts
  <2>. QED
    BY <2>5, <2>6, <2>7, <2>8
<1>3. CASE PutThrows(k)
  <2>1. conn[k] = ws[k]
    BY <1>0, <1>3 DEF PutThrows, Ownership, Busy
  <2>2. /\ in[ws[k]] # << >> /\ in'[ws[k]] = Tail(in[ws[k]])
        /\ owed'[ws[k]] = owed[ws[k]] /\ wpc'[k] = "idle"
        /\ connectionMap' = connectionMap
    BY <1>0, <1>3, <2>1 DEF PutThrows, Prompted, TypeOK
  <2>3. OnItsWay(ws[k]) <= 1
    BY <1>0, <1>3 DEF PutThrows, Backlog, Busy
  <2>4. OnItsWay(ws[k])' = 0
    BY <1>0, <2>2, <2>3 DEF OnItsWay, OthersKept, TypeOK
  <2>5. Ownership'
    BY <1>0, <2>2, OwnershipStep DEF Busy, Reading
  <2>6. Backlog'
    BY <1>0, <2>2, <2>4, BacklogStep DEF Busy, Reading
  <2>7. Given'
    <3>1. ans' = ans
      BY <1>3 DEF PutThrows
    <3>. QED
      BY <1>0, <3>1, GivenStep
  <2>8. OwnTexts'
    BY <1>3 DEF PutThrows, RInv, OwnTexts
  <2>. QED
    BY <2>5, <2>6, <2>7, <2>8
<1>. QED
  BY <1>1, <1>2, <1>3

\* Sending: nothing is on its way when the command is written.
LEMMA SendReplies ==
  ASSUME DistinctPorts, RInv, NEW k \in Workers,
         Send(k) \/ Write(k) \/ BeginRead(k)
  PROVE  Ownership' /\ Backlog' /\ Given' /\ OwnTexts'
<1>. USE DEF Goto, drives, workers, clients
<1>0. TypeOK /\ Ownership /\ Backlog /\ Given /\ ws[k] \in Websockets
      /\ wpc[k] # "idle" /\ OthersKept(k)
  <2>1. WorkerStep(k) /\ ~TakeMessage(k)
    BY DEF WorkerStep, TakeMessage, Send, Write, BeginRead
  <2>. QED
    BY <2>1, OthersStep DEF RInv, TypeOK
<1>1. /\ conn[k] = ws[k]
      /\ UNCHANGED <<connectionMap, conn, ans, answers, in, connected>>
  BY <1>0 DEF Send, Write, BeginRead, Ownership, Busy, Reading
<1>2. Ownership' /\ Given' /\ OwnTexts'
  BY <1>0, <1>1, OwnershipStep, GivenStep DEF RInv, OwnTexts
<1>3. CASE Send(k)
  <2>1. /\ owed' = owed /\ wpc'[k] \in {"write", "answer"}
        /\ wpc'[k] = "write" => connected[ws[k]]
    BY <1>0, <1>1, <1>3 DEF Send, TypeOK
  <2>2. \A j \in Workers : wpc[j] \in Busy => ws[j] # ws[k]
    <3>1. wpc[k] \notin Busy
      BY <1>3 DEF Send, Busy, Reading
    <3>. QED
      BY <1>0, <3>1, OtherWebsocket DEF Busy, Reading
  <2>3. connected[ws[k]] => OnItsWay(ws[k]) = 0
    BY <1>0, <2>2 DEF Backlog
  <2>4. OnItsWay(ws[k])' = OnItsWay(ws[k])
    BY <1>0, <1>1, <2>1 DEF OnItsWay, OthersKept
  <2>5. connected'[ws[k]] => connected[ws[k]]
    BY <1>1
  <2>. QED
    BY <1>0, <1>2, <2>1, <2>3, <2>4, <2>5, BacklogStep DEF Busy, Reading
<1>4. CASE Write(k)
  <2>1. OnItsWay(ws[k]) = 0 /\ wpc'[k] \in Reading
    BY <1>0, <1>4 DEF Write, Backlog, TypeOK, Reading
  <2>2. /\ in[ws[k]] \in Seq(Websockets \X Nat)
        /\ owed[ws[k]] \in Seq(Websockets \X Nat)
    BY <1>0 DEF TypeOK
  <2>3. in[ws[k]] = << >> /\ owed[ws[k]] = << >>
    <3>1. Len(in[ws[k]]) + Len(owed[ws[k]]) = 0
      BY <2>1 DEF OnItsWay
    <3>. QED
      BY <2>2, <3>1, NoneLeft
  <2>4. /\ in'[ws[k]] = << >>
        /\ \/ owed'[ws[k]] = << >>
           \/ owed'[ws[k]] = << Message(k) >>
    BY <1>0, <1>1, <1>4, <2>3 DEF Write, TypeOK
  <2>5. OnItsWay(ws[k])' <= 1
    <3>1. Len(in'[ws[k]]) + Len(owed'[ws[k]]) <= 1
      BY <2>4, AtMostOne
    <3>2. ws' = ws
      BY <1>0 DEF OthersKept
    <3>. QED
      BY <3>1, <3>2 DEF OnItsWay
  <2>6. OnlyFor(ws[k], Message(k))'
    BY <1>0, <2>4 DEF OnlyFor, OthersKept, Message
  <2>. QED
    BY <1>0, <1>2, <2>1, <2>5, <2>6, BacklogStep DEF Busy, Reading
<1>5. CASE BeginRead(k)
  <2>1. /\ owed' = owed /\ wpc'[k] = "read"
        /\ wpc[k] = "wait"
    BY <1>0, <1>5 DEF BeginRead, TypeOK
  <2>2. OnItsWay(ws[k]) <= 1 /\ OnlyFor(ws[k], Message(k))
    BY <1>0, <2>1 DEF Backlog, Busy, Reading
  <2>3. OnItsWay(ws[k])' <= 1
    BY <1>0, <1>1, <2>1, <2>2 DEF OnItsWay, OthersKept
  <2>4. OnlyFor(ws[k], Message(k))'
    BY <1>0, <1>1, <2>1, <2>2 DEF OnlyFor, OthersKept, Message
  <2>. QED
    BY <1>0, <1>2, <2>1, <2>3, <2>4, BacklogStep DEF Busy, Reading
<1>. QED
  BY <1>3, <1>4, <1>5

\* Reading: the text that arrives is the reader's own, and the last one.
LEMMA ReadReplies ==
  ASSUME DistinctPorts, RInv, NEW k \in Workers, ReadPrompt(k) \/ ReadLua(k)
  PROVE  Ownership' /\ Backlog' /\ Given' /\ OwnTexts'
<1>. USE DEF Goto, Give, drives, workers, clients
<1>0. TypeOK /\ Ownership /\ Backlog /\ Given /\ ws[k] \in Websockets
      /\ wpc[k] # "idle" /\ OthersKept(k)
  <2>1. WorkerStep(k) /\ ~TakeMessage(k)
    BY DEF WorkerStep, TakeMessage, ReadPrompt, ReadLua
  <2>. QED
    BY <2>1, OthersStep DEF RInv, TypeOK
<1>1. wpc[k] \in Reading /\ conn[k] = ws[k]
  BY <1>0 DEF ReadPrompt, ReadLua, Ownership, Busy, Reading
<1>2. /\ in[ws[k]] # << >> /\ in' = [in EXCEPT ![ws[k]] = Tail(@)]
      /\ UNCHANGED <<connectionMap, conn, owed, connected>>
      /\ wpc'[k] = "answer" /\ wpc[k] # "idle"
  BY <1>0, <1>1 DEF ReadPrompt, ReadLua, Prompted, TypeOK
<1>3. /\ in[ws[k]] \in Seq(Websockets \X Nat)
      /\ owed[ws[k]] \in Seq(Websockets \X Nat)
      /\ in'[ws[k]] = Tail(in[ws[k]])
  BY <1>0, <1>2 DEF TypeOK
<1>4. OnItsWay(ws[k]) <= 1 /\ OnlyFor(ws[k], Message(k))
  BY <1>0, <1>1 DEF Backlog, Busy
<1>5. OnItsWay(ws[k])' = 0
  <2>1. Len(in[ws[k]]) + Len(owed[ws[k]]) <= 1
    BY <1>4 DEF OnItsWay
  <2>2. Len(in'[ws[k]]) + Len(owed'[ws[k]]) = 0
    BY <1>2, <1>3, <2>1, LastTaken
  <2>3. ws' = ws
    BY <1>0 DEF OthersKept
  <2>. QED
    BY <1>2, <2>2, <2>3 DEF OnItsWay
<1>6. Head(in[ws[k]]) = Message(k)
  <2>1. 1 \in 1..Len(in[ws[k]]) /\ Head(in[ws[k]]) = in[ws[k]][1]
    BY <1>2, <1>3
  <2>. QED
    BY <1>4, <2>1 DEF OnlyFor
<1>7. Ownership'
  BY <1>0, <1>2, OwnershipStep DEF Busy, Reading
<1>8. Backlog'
  BY <1>0, <1>2, <1>5, BacklogStep DEF Busy, Reading
<1>9. Given'
  <2>1. ans'[k] = Message(k)
    BY <1>0, <1>1, <1>6 DEF ReadPrompt, ReadLua, TypeOK
  <2>. QED
    BY <1>0, <2>1, GivenStep
<1>10. OwnTexts'
  <2>1. \/ UNCHANGED answers
        \/ answers' = [answers EXCEPT ![ws[k]] =
                         Append(@, [to |-> Message(k), text |-> Message(k)])]
    BY <1>1, <1>6 DEF ReadPrompt, ReadLua
  <2>2. Message(k) \in Texts
    BY <1>0, MessageType DEF Texts
  <2>. QED
    BY <1>0, <2>1, <2>2, TextsStep
<1>. QED
  BY <1>7, <1>8, <1>9, <1>10

\* The selector thread, the watchdogs and the drives.
LEMMA OtherReplies ==
  ASSUME RInv,
         \/ \E w \in Websockets : CloseConnection(w)
         \/ SelectorStep
         \/ \E m \in Websockets :
              WatchdogStep(m) \/ DriveReplies(m) \/ DriveCloses(m)
  PROVE  Ownership' /\ Backlog' /\ Given' /\ OwnTexts'
<1>. USE DEF drives, workers, clients, closing
<1>0. TypeOK /\ Ownership /\ Backlog /\ Given /\ OwnTexts
  BY DEF RInv
<1>1. /\ UNCHANGED <<connectionMap, wpc, ws, conn, ans, sent, answers>>
      /\ \A m \in Websockets : connected'[m] => connected[m]
  <2>1. /\ UNCHANGED <<connectionMap, wpc, ws, conn, ans, sent, answers>>
        /\ connected' = connected \/ \E n : Disconnect(n)
    BY DEF CloseConnection, SelectorStep, SkipClose, LookupClose,
           DisconnectClose, WatchdogStep, WatchdogLooks, WatchdogFires,
           DriveReplies, DriveCloses
  <2>2. ASSUME NEW n, Disconnect(n), NEW m \in Websockets, connected'[m]
        PROVE  connected[m]
    <3>1. connected' = [connected EXCEPT ![n] = FALSE]
      BY <2>2 DEF Disconnect
    <3>2. m # n
      BY <1>0, <2>2, <3>1 DEF TypeOK
    <3>. QED
      BY <1>0, <2>2, <3>1, <3>2 DEF TypeOK
  <2>. QED
    BY <2>1, <2>2
<1>2. \A k \in Workers : Message(k)' = Message(k)
  BY <1>1 DEF Message
<1>3. Ownership' /\ Given' /\ OwnTexts'
  BY <1>0, <1>1, <1>2 DEF Ownership, Given, OwnTexts
<1>4. \A m \in Websockets :
        /\ Len(in'[m]) + Len(owed'[m]) = OnItsWay(m)
        /\ \A a : OnlyFor(m, a) => /\ \A i \in 1..Len(in'[m]) : in'[m][i] = a
                                   /\ \A i \in 1..Len(owed'[m]) :
                                        owed'[m][i] = a
  <2>1. CASE UNCHANGED <<in, owed>>
    BY <2>1 DEF OnItsWay, OnlyFor
  <2>2. ASSUME NEW n \in Websockets, DriveReplies(n), NEW m \in Websockets
        PROVE  /\ Len(in'[m]) + Len(owed'[m]) = OnItsWay(m)
               /\ \A a : OnlyFor(m, a)
                           => /\ \A i \in 1..Len(in'[m]) : in'[m][i] = a
                              /\ \A i \in 1..Len(owed'[m]) : owed'[m][i] = a
    <3>1. CASE m # n
      <4>1. in'[m] = in[m] /\ owed'[m] = owed[m]
        BY <1>0, <2>2, <3>1 DEF DriveReplies, TypeOK
      <4>. QED
        BY <4>1 DEF OnItsWay, OnlyFor
    <3>2. CASE m = n
      <4>. DEFINE S == Websockets \X Nat
      <4>1. /\ in[m] \in Seq(S) /\ owed[m] \in Seq(S) /\ owed[m] # << >>
            /\ in'[m] = Append(in[m], Head(owed[m]))
            /\ owed'[m] = Tail(owed[m])
        BY <1>0, <2>2, <3>2 DEF DriveReplies, TypeOK
      <4>. HIDE DEF S
      <4>2. /\ Head(owed[m]) = owed[m][1]
            /\ Len(owed[m]) \in Nat /\ Len(owed[m]) >= 1
            /\ Len(owed'[m]) = Len(owed[m]) - 1
            /\ \A i \in 1..(Len(owed[m]) - 1) :
                 owed'[m][i] = owed[m][i + 1]
        BY <4>1
      <4>3. /\ Len(in[m]) \in Nat
            /\ Len(in'[m]) = Len(in[m]) + 1
            /\ \A i \in 1..(Len(in[m]) + 1) :
                 in'[m][i] = IF i = Len(in[m]) + 1 THEN owed[m][1]
                             ELSE in[m][i]
        <5>1. Head(owed[m]) \in S
          BY <4>1
        <5>. QED
          BY <4>1, <4>2, <5>1
      <4>4. ASSUME NEW a, OnlyFor(m, a)
            PROVE  /\ \A i \in 1..Len(in'[m]) : in'[m][i] = a
                   /\ \A i \in 1..Len(owed'[m]) : owed'[m][i] = a
        <5>1. owed[m][1] = a
          BY <4>2, <4>4 DEF OnlyFor
        <5>2. ASSUME NEW i \in 1..Len(in'[m])
              PROVE  in'[m][i] = a
          BY <4>3, <4>4, <5>1 DEF OnlyFor
        <5>3. ASSUME NEW i \in 1..Len(owed'[m])
              PROVE  owed'[m][i] = a
          <6>1. i + 1 \in 1..Len(owed[m]) /\ owed'[m][i] = owed[m][i + 1]
            BY <4>2
          <6>. QED
            BY <4>4, <6>1 DEF OnlyFor
        <5>. QED
          BY <5>2, <5>3
      <4>5. Len(in'[m]) + Len(owed'[m]) = OnItsWay(m)
        BY <4>1, OneMoved DEF OnItsWay
      <4>. QED
        BY <4>4, <4>5
    <3>. QED
      BY <3>1, <3>2
  <2>3. UNCHANGED <<in, owed>> \/ \E n \in Websockets : DriveReplies(n)
    BY DEF CloseConnection, SelectorStep, SkipClose, LookupClose,
           DisconnectClose, WatchdogStep, WatchdogLooks, WatchdogFires,
           DriveCloses
  <2>. QED
    BY <2>1, <2>2, <2>3
<1>5. ASSUME NEW k \in Workers
      PROVE  /\ wpc'[k] \in Busy => OnItsWay(ws[k])' <= 1
             /\ wpc'[k] \in Reading => OnlyFor(ws[k], Message(k))'
             /\ wpc'[k] = "write" => OnItsWay(ws[k])' = 0
  <2>1. CASE wpc[k] = "idle"
    BY <1>1, <2>1 DEF Busy, Reading
  <2>2. CASE wpc[k] # "idle"
    <3>1. ws[k] \in Websockets
      BY <1>0, <2>2 DEF TypeOK
    <3>2. OnItsWay(ws[k])' = OnItsWay(ws[k])
      BY <1>1, <1>4, <3>1 DEF OnItsWay
    <3>3. OnlyFor(ws[k], Message(k)) => OnlyFor(ws[k], Message(k))'
      <4>1. ws'[k] = ws[k] /\ Message(k)' = Message(k)
        BY <1>1, <1>2
      <4>2. OnlyFor(ws[k], Message(k))
              => /\ \A i \in 1..Len(in'[ws[k]]) : in'[ws[k]][i] = Message(k)
                 /\ \A i \in 1..Len(owed'[ws[k]]) :
                      owed'[ws[k]][i] = Message(k)
        BY <1>4, <3>1
      <4>. QED
        BY <4>1, <4>2 DEF OnlyFor
    <3>. QED
      BY <1>0, <1>1, <3>2, <3>3 DEF Backlog
  <2>. QED
    BY <2>1, <2>2
<1>6. ASSUME NEW m \in Websockets, connected'[m]
      PROVE  \/ OnItsWay(m)' = 0
             \/ \E k \in Workers : wpc'[k] \in Busy /\ ws'[k] = m
  <2>1. OnItsWay(m)' = OnItsWay(m)
    BY <1>4 DEF OnItsWay
  <2>2. connected[m]
    BY <1>1, <1>6
  <2>. QED
    BY <1>0, <1>1, <2>1, <2>2 DEF Backlog
<1>7. Backlog'
  BY <1>5, <1>6 DEF Backlog
<1>. QED
  BY <1>3, <1>7

LEMMA NextReplies == DistinctPorts /\ RInv /\ [Next]_vars => RInv'
<1>. SUFFICES ASSUME DistinctPorts, RInv, [Next]_vars PROVE RInv'
  OBVIOUS
<1>1. TypeOK'
  BY NextType DEF RInv
<1>2. CASE UNCHANGED vars
  <2>1. UNCHANGED <<connectionMap, connected, owed, in, sent, answers, wpc, ws,
                    conn, ans>>
    BY <1>2 DEF vars, drives, workers, clients
  <2>2. Ownership' /\ Given' /\ OwnTexts'
    BY <2>1 DEF RInv, Ownership, Given, Message, OwnTexts
  <2>3. Backlog'
    BY <2>1 DEF RInv, Backlog, OnItsWay, OnlyFor, Message
  <2>. QED
    BY <1>1, <2>2, <2>3 DEF RInv
<1>3. ASSUME NEW k \in Workers, WorkerStep(k)
      PROVE  Ownership' /\ Backlog' /\ Given' /\ OwnTexts'
  BY <1>3, TakeReplies, QuietReplies, OpenReplies, SendReplies, ReadReplies
     DEF WorkerStep
<1>. QED
  BY <1>1, <1>2, <1>3, OtherReplies DEF Next, RInv

\* The text a client receives for a command is what the drive printed for it,
\* whatever the watchdog cut short before and whatever other websockets do.
THEOREM OwnAnswer == Spec => []AnswerIsOwn
<1>1. RInv => AnswerIsOwn
  BY DEF RInv, OwnTexts, OwnText, AnswerIsOwn
<1>2. CASE DistinctPorts
  BY <1>1, <1>2, InitReplies, NextReplies, PTL DEF Spec
<1>3. CASE ~DistinctPorts
  <2>1. AnswerIsOwn
    BY <1>3 DEF AnswerIsOwn
  <2>. QED
    BY <2>1, PTL
<1>. QED
  BY <1>2, <1>3
-----------------------------------------------------------------------------
(* The telnet session of a websocket that was told it has one *)

\* While a worker opens the session of its websocket, the map has none for it.
WorkerSessions ==
  \A k \in Workers :
    /\ wpc[k] \in {"init", "greet"} => connectionMap[PortOf[ws[k]]] = None
    /\ wpc[k] # "idle" /\ ans[k] = Opened
         => connectionMap[PortOf[ws[k]]] # None

ToldSessions ==
  \A w \in Websockets : Told(w, Opened) => connectionMap[PortOf[w]] # None

Closing ==
  /\ spc # "idle" => selector \in Websockets
  /\ spc = "disconnect" => connectionMap[PortOf[selector]] # None

Released ==
  \A w \in Websockets \ AddressLost :
    wsState[w] = "closed" /\ Told(w, Opened)
      => tc[w] = "closed" /\ ~connected[w]

SInv == WorkerSessions /\ ToldSessions /\ Closing /\ Released

LEMMA InitSessions == Init => SInv
<1>. SUFFICES ASSUME Init PROVE SInv
  OBVIOUS
<1>1. \A w \in Websockets : ~Told(w, Opened)
  <2>. SUFFICES ASSUME NEW w \in Websockets, NEW i \in 1..Len(answers[w])
                PROVE  FALSE
    BY DEF Told
  <2>1. answers[w] = << >>
    BY DEF Init
  <2>2. i \in 1..0
    BY <2>1
  <2>. QED
    BY <2>2
<1>. QED
  BY <1>1 DEF Init, SInv, WorkerSessions, ToldSessions, Closing, Released

\* The map is written when the drive has greeted, and never emptied.
LEMMA MapStep ==
  ASSUME RInv, [Next]_vars
  PROVE  \/ UNCHANGED connectionMap
         \/ \E k \in Workers :
              Greeted(k) /\ conn[k] = ws[k] /\ ws[k] \in Websockets
<1>1. ASSUME NEW k \in Workers, WorkerStep(k), ~Greeted(k)
      PROVE  UNCHANGED connectionMap
  BY <1>1 DEF WorkerStep, TakeMessage, LookupConn, LookupThrows, PutThrows,
              ConnectDrive, ConnectFails, GreetingFails, CloseWebsocket, Send,
              Write, BeginRead, ReadPrompt, ReadFails, ReadLua, LuaFails,
              Answer
<1>2. ASSUME NEW k \in Workers, Greeted(k)
      PROVE  conn[k] = ws[k] /\ ws[k] \in Websockets
  BY <1>2 DEF Greeted, RInv, Ownership, Busy, TypeOK
<1>3. CASE UNCHANGED vars
  BY <1>3 DEF vars
<1>4. CASE \/ \E w \in Websockets : CloseConnection(w)
           \/ SelectorStep
           \/ \E m \in Websockets :
                WatchdogStep(m) \/ DriveReplies(m) \/ DriveCloses(m)
  BY <1>4 DEF CloseConnection, SelectorStep, SkipClose, LookupClose,
              DisconnectClose, WatchdogStep, WatchdogLooks, WatchdogFires,
              DriveReplies, DriveCloses
<1>. QED
  BY <1>1, <1>2, <1>3, <1>4 DEF Next

LEMMA MapGrows ==
  ASSUME RInv, [Next]_vars, NEW w \in Websockets,
         connectionMap[PortOf[w]] # None
  PROVE  connectionMap'[PortOf[w]] # None
<1>1. ASSUME NEW k \in Workers, Greeted(k), conn[k] = ws[k],
             ws[k] \in Websockets
      PROVE  connectionMap'[PortOf[w]] # None
  <2>1. /\ connectionMap \in [Ports -> Websockets \cup {None}]
        /\ PortOf[w] \in Ports
    BY DEF RInv, TypeOK, Ports
  <2>2. connectionMap' = [connectionMap EXCEPT ![PortOf[ws[k]]] = ws[k]]
    BY <1>1 DEF Greeted
  <2>. QED
    BY <1>1, <2>1, <2>2, NamesAssumption
<1>. QED
  BY <1>1, MapStep

AnswerRecords == [to : Websockets \X Nat, text : Texts]

LEMMA ToldAppend ==
  ASSUME RInv, NEW v \in Websockets, NEW w \in Websockets,
         NEW e \in AnswerRecords,
         answers' = [answers EXCEPT ![v] = Append(@, e)],
         Told(w, Opened)'
  PROVE  Told(w, Opened) \/ (w = v /\ e.text = Opened)
<1>. DEFINE S == AnswerRecords
<1>1. answers \in [Websockets -> Seq(S)] /\ e \in S
  BY DEF RInv, TypeOK, AnswerRecords
<1>. HIDE DEF S
<1>2. PICK i \in 1..Len(answers'[w]) : answers'[w][i].text = Opened
  BY DEF Told
<1>3. CASE w # v
  <2>1. answers'[w] = answers[w]
    BY <1>1, <1>3
  <2>. QED
    BY <1>2, <2>1 DEF Told
<1>4. CASE w = v
  <2>1. /\ answers[w] \in Seq(S) /\ answers'[w] = Append(answers[w], e)
    BY <1>1, <1>4
  <2>2. /\ Len(answers[w]) \in Nat
        /\ Len(answers'[w]) = Len(answers[w]) + 1
        /\ \A j \in 1..(Len(answers[w]) + 1) :
             answers'[w][j] = IF j = Len(answers[w]) + 1 THEN e
                              ELSE answers[w][j]
    BY <1>1, <2>1
  <2>3. CASE i = Len(answers[w]) + 1
    BY <1>2, <1>4, <2>2, <2>3
  <2>4. CASE i # Len(answers[w]) + 1
    <3>1. i \in 1..Len(answers[w]) /\ answers'[w][i] = answers[w][i]
      BY <1>2, <2>2, <2>4
    <3>. QED
      BY <1>2, <3>1 DEF Told
  <2>. QED
    BY <2>3, <2>4
<1>. QED
  BY <1>3, <1>4

\* A client is told that its session is open by its worker, while its
\* websocket is open.
LEMMA ToldStep ==
  ASSUME RInv, [Next]_vars, NEW w \in Websockets, Told(w, Opened)'
  PROVE  \/ Told(w, Opened)
         \/ /\ wsState[w] = "open" /\ wsState' = wsState
            /\ \E k \in Workers : wpc[k] # "idle" /\ ws[k] = w
                                  /\ ans[k] = Opened
<1>0. TypeOK
  BY DEF RInv
<1>1. CASE UNCHANGED answers
  BY <1>1 DEF Told
<1>2. ASSUME NEW k \in Workers, ReadLua(k), answers' # answers
      PROVE  Told(w, Opened)
  <2>1. conn[k] \in Websockets /\ Message(k) \in Websockets \X Nat
    BY <1>0, <1>2, MessageType DEF ReadLua, TypeOK
  <2>2. Head(in[conn[k]]) \in Websockets \X Nat
    BY <1>0, <1>2, <2>1 DEF ReadLua, Prompted, TypeOK
  <2>. DEFINE e == [to |-> Message(k), text |-> Head(in[conn[k]])]
  <2>3. e \in AnswerRecords /\ e.text # Opened
    BY <2>1, <2>2, NamesAssumption DEF Texts, AnswerRecords
  <2>4. answers' = [answers EXCEPT ![conn[k]] = Append(@, e)]
    BY <1>2 DEF ReadLua
  <2>. HIDE DEF e
  <2>. QED
    BY <2>1, <2>3, <2>4, ToldAppend
<1>3. ASSUME NEW k \in Workers, Answer(k), answers' # answers, ~Told(w, Opened)
      PROVE  /\ wsState[w] = "open" /\ wsState' = wsState
             /\ wpc[k] # "idle" /\ ws[k] = w /\ ans[k] = Opened
  <2>1. ws[k] \in Websockets /\ Message(k) \in Websockets \X Nat
    BY <1>0, <1>3, MessageType DEF Answer
  <2>. DEFINE e == [to |-> Message(k), text |-> ans[k]]
  <2>2. e \in AnswerRecords /\ e.text = ans[k]
    BY <1>0, <2>1 DEF TypeOK, AnswerRecords
  <2>3. /\ answers' = [answers EXCEPT ![ws[k]] = Append(@, e)]
        /\ wsState[ws[k]] = "open" /\ wsState' = wsState /\ wpc[k] # "idle"
    BY <1>3 DEF Answer
  <2>. HIDE DEF e
  <2>4. w = ws[k] /\ e.text = Opened
    <3>1. Told(w, Opened) \/ (w = ws[k] /\ e.text = Opened)
      BY <2>1, <2>2, <2>3, ToldAppend
    <3>. QED
      BY <1>3, <3>1
  <2>. QED
    BY <2>2, <2>3, <2>4
<1>4. ASSUME NEW k \in Workers, WorkerStep(k), ~ReadLua(k), ~Answer(k)
      PROVE  UNCHANGED answers
  BY <1>4 DEF WorkerStep, TakeMessage, LookupConn, LookupThrows, PutThrows,
              ConnectDrive, ConnectFails, Greeted, GreetingFails,
              CloseWebsocket, Send, Write, BeginRead, ReadPrompt, ReadFails,
              LuaFails, clients
<1>5. CASE UNCHANGED vars
  BY <1>1, <1>5 DEF vars, clients
<1>6. CASE \/ \E v \in Websockets : CloseConnection(v)
           \/ SelectorStep
           \/ \E m \in Websockets :
                WatchdogStep(m) \/ DriveReplies(m) \/ DriveCloses(m)
  BY <1>1, <1>6 DEF CloseConnection, SelectorStep, SkipClose, LookupClose,
                    DisconnectClose, WatchdogStep, WatchdogLooks,
                    WatchdogFires, DriveReplies, DriveCloses, clients
<1>. QED
  BY <1>1, <1>2, <1>3, <1>4, <1>5, <1>6 DEF Next

LEMMA ToldSessionsStep ==
  ASSUME RInv, SInv, [Next]_vars
  PROVE  ToldSessions'
<1>. SUFFICES ASSUME NEW w \in Websockets, Told(w, Opened)'
              PROVE  connectionMap'[PortOf[w]] # None
  BY DEF ToldSessions, Told
<1>1. connectionMap[PortOf[w]] # None
  BY ToldStep DEF SInv, ToldSessions, WorkerSessions
<1>. QED
  BY <1>1, MapGrows

LEMMA ClosingStep ==
  ASSUME RInv, SInv, [Next]_vars
  PROVE  Closing'
<1>1. CASE UNCHANGED closing
  BY <1>1, MapGrows DEF SInv, Closing, closing
<1>2. ASSUME NEW w \in Websockets, CloseConnection(w)
      PROVE  Closing'
  BY <1>2 DEF CloseConnection, Closing
<1>3. CASE LookupClose
  <2>1. selector \in Websockets /\ UNCHANGED connectionMap
    BY <1>3 DEF LookupClose, SInv, Closing
  <2>. QED
    BY <1>3, <2>1 DEF LookupClose, EndClose, Closing
<1>4. CASE SkipClose \/ DisconnectClose
  BY <1>4 DEF SkipClose, DisconnectClose, EndClose, Closing
<1>5. ASSUME NEW k \in Workers, WorkerStep(k)
      PROVE  UNCHANGED closing
  BY <1>5 DEF WorkerStep, TakeMessage, LookupConn, LookupThrows, PutThrows,
              ConnectDrive, ConnectFails, Greeted, GreetingFails,
              CloseWebsocket, Send, Write, BeginRead, ReadPrompt, ReadFails,
              ReadLua, LuaFails, Answer
<1>6. ASSUME NEW m \in Websockets,
             WatchdogStep(m) \/ DriveReplies(m) \/ DriveCloses(m)
      PROVE  UNCHANGED closing
  BY <1>6 DEF WatchdogStep, WatchdogLooks, WatchdogFires, DriveReplies,
              DriveCloses
<1>7. CASE UNCHANGED vars
  BY <1>1, <1>7 DEF vars
<1>. QED
  BY <1>1, <1>2, <1>3, <1>4, <1>5, <1>6, <1>7 DEF Next, SelectorStep

\* A session is opened for a websocket that has none in the map only.
LEMMA SessionKept ==
  ASSUME RInv, SInv, [Next]_vars, NEW w \in Websockets, Told(w, Opened)
  PROVE  /\ connected'[w] => connected[w]
         /\ tc[w] = "closed" => tc'[w] = "closed"
<1>0. TypeOK /\ ToldSessions /\ WorkerSessions
  BY DEF RInv, SInv
<1>1. ASSUME NEW k \in Workers, ConnectDrive(k)
      PROVE  connected'[w] = connected[w] /\ tc'[w] = tc[w]
  <2>1. ws[k] # w
    BY <1>0, <1>1 DEF ConnectDrive, ToldSessions, WorkerSessions
  <2>2. /\ connected' = [connected EXCEPT ![ws[k]] = TRUE]
        /\ tc' = [tc EXCEPT ![ws[k]] = "open"]
    BY <1>1 DEF ConnectDrive
  <2>. QED
    BY <1>0, <2>1, <2>2 DEF TypeOK
<1>2. ASSUME NEW m, Disconnect(m)
      PROVE  /\ connected'[w] => connected[w]
             /\ tc[w] = "closed" => tc'[w] = "closed"
  BY <1>0, <1>2 DEF Disconnect, TypeOK
<1>3. \/ UNCHANGED <<connected, tc>>
      \/ \E m : Disconnect(m)
      \/ \E k \in Workers : ConnectDrive(k)
  <2>1. ASSUME NEW k \in Workers, WorkerStep(k)
        PROVE  \/ UNCHANGED <<connected, tc>>
               \/ \E m : Disconnect(m)
               \/ ConnectDrive(k)
    BY <2>1 DEF WorkerStep, TakeMessage, LookupConn, LookupThrows, PutThrows,
                ConnectFails, Greeted, GreetingFails, CloseWebsocket, Send,
                Write, BeginRead, ReadPrompt, ReadFails, ReadLua, LuaFails,
                Answer, drives
  <2>2. CASE UNCHANGED vars
    BY <2>2 DEF vars, drives
  <2>3. CASE \/ \E v \in Websockets : CloseConnection(v)
             \/ SelectorStep
             \/ \E m \in Websockets :
                  WatchdogStep(m) \/ DriveReplies(m) \/ DriveCloses(m)
    BY <2>3 DEF CloseConnection, SelectorStep, SkipClose, LookupClose,
                DisconnectClose, WatchdogStep, WatchdogLooks, WatchdogFires,
                DriveReplies, DriveCloses, drives
  <2>. QED
    BY <2>1, <2>2, <2>3 DEF Next
<1>. QED
  BY <1>1, <1>2, <1>3

\* A websocket is closed by the selector thread alone.
LEMMA ClosedStep ==
  ASSUME RInv, [Next]_vars, NEW w \in Websockets, wsState'[w] = "closed"
  PROVE  \/ wsState[w] = "closed"
         \/ selector = w /\ LookupClose /\ connectionMap[PortOf[w]] = None
         \/ selector = w /\ DisconnectClose
         \/ selector = w /\ w \in AddressLost
<1>0. wsState \in [Websockets -> {"open", "closing", "closed"}]
  BY DEF RInv, TypeOK
<1>1. CASE UNCHANGED wsState
  BY <1>1
<1>2. ASSUME NEW k \in Workers, WorkerStep(k), ~CloseWebsocket(k)
      PROVE  UNCHANGED wsState
  BY <1>2 DEF WorkerStep, TakeMessage, LookupConn, LookupThrows, PutThrows,
              ConnectDrive, ConnectFails, Greeted, GreetingFails, Send, Write,
              BeginRead, ReadPrompt, ReadFails, ReadLua, LuaFails, Answer,
              clients
<1>3. ASSUME NEW k \in Workers, CloseWebsocket(k)
      PROVE  wsState[w] = "closed"
  BY <1>0, <1>3 DEF CloseWebsocket
<1>4. ASSUME NEW v \in Websockets, CloseConnection(v)
      PROVE  wsState[w] = "closed"
  BY <1>0, <1>4 DEF CloseConnection
<1>5. CASE LookupClose
  BY <1>0, <1>5 DEF LookupClose, EndClose
<1>6. CASE DisconnectClose
  BY <1>0, <1>6 DEF DisconnectClose, EndClose
<1>7. ASSUME NEW m \in Websockets,
             WatchdogStep(m) \/ DriveReplies(m) \/ DriveCloses(m)
      PROVE  UNCHANGED wsState
  BY <1>7 DEF WatchdogStep, WatchdogLooks, WatchdogFires, DriveReplies,
              DriveCloses, clients
<1>8. CASE UNCHANGED vars
  BY <1>1, <1>8 DEF vars, clients
<1>9. CASE SkipClose
  <2>1. PICK v : v = selector
    OBVIOUS
  <2>2. wsState' = [wsState EXCEPT ![v] = "closed"]
        /\ (v \in AddressLost)
    BY <1>9, <2>1 DEF SkipClose, EndClose, MayLose
  <2>. QED
    BY <1>0, <2>1, <2>2
<1>. QED
  BY <1>1, <1>2, <1>3, <1>4, <1>5, <1>6, <1>7, <1>8, <1>9
     DEF Next, SelectorStep

LEMMA ReleasedStep ==
  ASSUME RInv, SInv, [Next]_vars
  PROVE  Released'
<1>. SUFFICES ASSUME NEW w \in Websockets \ AddressLost,
                     wsState'[w] = "closed",
                     Told(w, Opened)'
              PROVE  tc'[w] = "closed" /\ ~connected'[w]
  BY DEF Released, Told
<1>0. TypeOK /\ Ownership /\ ToldSessions /\ Closing /\ Released
      /\ WorkerSessions
  BY DEF RInv, SInv
<1>1. Told(w, Opened)
  <2>. SUFFICES ASSUME wsState[w] = "open", wsState' = wsState
                PROVE  FALSE
    BY ToldStep
  <2>. QED
    OBVIOUS
<1>2. CASE wsState[w] = "closed"
  BY <1>0, <1>1, <1>2, SessionKept DEF Released
<1>3. CASE selector = w /\ DisconnectClose
  <2>1. connectionMap[PortOf[w]] = w
    BY <1>0, <1>3 DEF DisconnectClose, Closing, Ownership
  <2>2. Disconnect(w)
    BY <1>3, <2>1 DEF DisconnectClose
  <2>. QED
    BY <1>0, <2>2 DEF Disconnect, TypeOK
<1>4. connectionMap[PortOf[w]] # None
  BY <1>0, <1>1 DEF ToldSessions
<1>. QED
  BY <1>2, <1>3, <1>4, ClosedStep

\* A worker's own step.
LEMMA OwnSession ==
  ASSUME RInv, SInv, NEW k \in Workers, WorkerStep(k)
  PROVE  /\ wpc'[k] \in {"init", "greet"}
              => connectionMap'[PortOf[ws'[k]]] = None
         /\ wpc'[k] # "idle" /\ ans'[k] = Opened
              => connectionMap'[PortOf[ws'[k]]] # None
<1>. USE DEF Goto, Give
<1>0. TypeOK /\ Ownership /\ WorkerSessions
  BY DEF RInv, SInv
<1>1. CASE TakeMessage(k)
  <2>1. wpc'[k] = "lookup" /\ ans'[k] = None
    BY <1>0, <1>1 DEF TakeMessage, TypeOK
  <2>. QED
    BY <2>1, NamesAssumption
<1>2. CASE Greeted(k)
  <2>1. ws[k] \in Websockets /\ conn[k] = ws[k] /\ PortOf[ws[k]] \in Ports
    BY <1>0, <1>2 DEF Greeted, TypeOK, Ownership, Busy, Ports
  <2>2. /\ connectionMap' = [connectionMap EXCEPT ![PortOf[ws[k]]] = ws[k]]
        /\ wpc'[k] = "answer" /\ ws' = ws
    BY <1>0, <1>2, <2>1 DEF Greeted, TypeOK
  <2>3. connectionMap'[PortOf[ws'[k]]] = ws[k]
    BY <1>0, <2>1, <2>2 DEF TypeOK
  <2>. QED
    BY <2>1, <2>2, <2>3, NamesAssumption
<1>3. CASE ~TakeMessage(k) /\ ~Greeted(k)
  <2>1. wpc[k] # "idle" /\ ws' = ws /\ connectionMap' = connectionMap
    BY <1>3 DEF WorkerStep, LookupConn, LookupThrows, PutThrows, ConnectDrive,
                ConnectFails, GreetingFails, CloseWebsocket, Send, Write,
                BeginRead, ReadPrompt, ReadFails, ReadLua, LuaFails, Answer
  <2>2. wpc'[k] \in {"init", "greet"} => connectionMap[PortOf[ws[k]]] = None
    <3>1. CASE LookupConn(k)
      <4>1. wpc' = [wpc EXCEPT ![k] = "init"]
              => connectionMap[PortOf[ws[k]]] = None
        BY <1>0, <3>1 DEF LookupConn, TypeOK
      <4>2. wpc' = [wpc EXCEPT ![k] = "init"]
            \/ wpc' = [wpc EXCEPT ![k] = "answer"]
            \/ wpc' = [wpc EXCEPT ![k] = "send"]
        BY <3>1 DEF LookupConn
      <4>. QED
        BY <1>0, <4>1, <4>2 DEF TypeOK
    <3>2. CASE ConnectDrive(k)
      BY <1>0, <3>2 DEF ConnectDrive, WorkerSessions
    <3>3. CASE ~LookupConn(k) /\ ~ConnectDrive(k)
      <4>1. \E l \in {"close", "answer", "write", "lua", "wait", "read",
                       "idle"} : wpc' = [wpc EXCEPT ![k] = l]
        BY <1>3, <3>3 DEF WorkerStep, LookupThrows, PutThrows, ConnectFails,
                          GreetingFails, CloseWebsocket, Send, Write,
                          BeginRead, ReadPrompt, ReadFails, ReadLua, LuaFails,
                          Answer
      <4>. QED
        BY <1>0, <4>1 DEF TypeOK
    <3>. QED
      BY <3>1, <3>2, <3>3
  <2>3. ans'[k] = Opened => ans[k] = Opened
    <3>1. ws[k] \in Websockets /\ Message(k) \in Websockets \X Nat
      BY <1>0, <2>1, MessageType
    <3>2. CASE ReadPrompt(k)
      <4>1. conn[k] \in Websockets
        BY <1>0, <3>2 DEF ReadPrompt, TypeOK
      <4>2. Head(in[conn[k]]) \in Websockets \X Nat
        BY <1>0, <3>2, <4>1 DEF ReadPrompt, Prompted, TypeOK
      <4>. QED
        BY <1>0, <3>2, <4>2, NamesAssumption DEF ReadPrompt, TypeOK
    <3>3. CASE ~ReadPrompt(k)
      <4>1. ans' = ans \/ \E a \in {NoReply, Failed, Message(k)} :
                            ans' = [ans EXCEPT ![k] = a]
        BY <1>3, <3>3 DEF WorkerStep, LookupConn, LookupThrows, PutThrows,
                          ConnectDrive, ConnectFails, GreetingFails,
                          CloseWebsocket, Send, Write, BeginRead, ReadFails,
                          ReadLua, LuaFails, Answer, workers
      <4>. QED
        BY <1>0, <3>1, <4>1, NamesAssumption DEF TypeOK
    <3>. QED
      BY <3>2, <3>3
  <2>. QED
    BY <1>0, <2>1, <2>2, <2>3 DEF WorkerSessions
<1>. QED
  BY <1>1, <1>2, <1>3

LEMMA WorkerSessionsStep ==
  ASSUME DistinctPorts, RInv, SInv, [Next]_vars
  PROVE  WorkerSessions'
<1>0. TypeOK /\ Ownership /\ WorkerSessions
  BY DEF RInv, SInv
<1>1. CASE UNCHANGED <<workers, connectionMap>>
  BY <1>0, <1>1 DEF workers, WorkerSessions
<1>2. ASSUME NEW k \in Workers, WorkerStep(k), NEW j \in Workers, j # k
      PROVE  /\ wpc'[j] \in {"init", "greet"}
                  => connectionMap'[PortOf[ws'[j]]] = None
             /\ wpc'[j] # "idle" /\ ans'[j] = Opened
                  => connectionMap'[PortOf[ws'[j]]] # None
  <2>1. wpc'[j] = wpc[j] /\ ws'[j] = ws[j] /\ ans'[j] = ans[j]
    <3>1. CASE TakeMessage(k)
      BY <1>0, <1>2, <3>1 DEF TakeMessage, Goto, Give, TypeOK
    <3>2. CASE ~TakeMessage(k)
      BY <1>2, <3>2, OthersStep DEF OthersKept
    <3>. QED
      BY <3>1, <3>2
  <2>2. wpc[j] # "idle" => connectionMap'[PortOf[ws[j]]]
                             = connectionMap[PortOf[ws[j]]]
    <3>. SUFFICES ASSUME wpc[j] # "idle", connectionMap' # connectionMap
                  PROVE  connectionMap'[PortOf[ws[j]]]
                           = connectionMap[PortOf[ws[j]]]
      OBVIOUS
    <3>1. Greeted(k) /\ ws[k] \in Websockets
      <4>1. wpc[k] = "greet" => ws[k] \in Websockets
        BY <1>0 DEF TypeOK
      <4>. QED
        BY <1>2, <4>1 DEF WorkerStep, TakeMessage, LookupConn, LookupThrows,
                          PutThrows, ConnectDrive, ConnectFails, Greeted,
                          GreetingFails, CloseWebsocket, Send, Write,
                          BeginRead, ReadPrompt, ReadFails, ReadLua, LuaFails,
                          Answer
    <3>2. ws[j] # ws[k] /\ ws[j] \in Websockets
      BY <1>0, <1>2, <3>1, OtherWebsocket DEF Greeted, TypeOK
    <3>3. PortOf[ws[j]] # PortOf[ws[k]]
      BY <3>1, <3>2 DEF DistinctPorts
    <3>4. connectionMap' = [connectionMap EXCEPT ![PortOf[ws[k]]] = conn[k]]
          /\ connectionMap \in [Ports -> Websockets \cup {None}]
          /\ PortOf[ws[j]] \in Ports
      BY <1>0, <3>1, <3>2 DEF Greeted, TypeOK, Ports
    <3>. QED
      BY <3>3, <3>4
  <2>. QED
    BY <1>0, <2>1, <2>2 DEF WorkerSessions
<1>3. ASSUME NEW k \in Workers, WorkerStep(k)
      PROVE  WorkerSessions'
  BY <1>2, <1>3, OwnSession DEF WorkerSessions
<1>4. CASE \/ \E v \in Websockets : CloseConnection(v)
           \/ SelectorStep
           \/ \E m \in Websockets :
                WatchdogStep(m) \/ DriveReplies(m) \/ DriveCloses(m)
  BY <1>1, <1>4 DEF CloseConnection, SelectorStep, SkipClose, LookupClose,
                    DisconnectClose, WatchdogStep, WatchdogLooks,
                    WatchdogFires, DriveReplies, DriveCloses
<1>5. CASE UNCHANGED vars
  BY <1>1, <1>5 DEF vars
<1>. QED
  BY <1>3, <1>4, <1>5 DEF Next

\* A client that was told its session is open leaves none behind when its
\* websocket is closed, even when the watchdog, the drive or a second set_ip
\* came in between, unless its remote address is gone by then.
THEOREM Release == Spec => []SessionReleased
<1>1. RInv /\ SInv => SessionReleased
  BY DEF SInv, Released, SessionReleased
<1>2. DistinctPorts /\ RInv /\ SInv /\ [Next]_vars => SInv'
  BY ToldSessionsStep, ClosingStep, ReleasedStep, WorkerSessionsStep DEF SInv
<1>3. CASE DistinctPorts
  BY <1>1, <1>2, <1>3, InitReplies, InitSessions, NextReplies, PTL DEF Spec
<1>4. CASE ~DistinctPorts
  <2>1. SessionReleased
    BY <1>4 DEF SessionReleased
  <2>. QED
    BY <2>1, PTL
<1>. QED
  BY <1>3, <1>4
=============================================================================
