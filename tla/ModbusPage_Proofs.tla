------------------------- MODULE ModbusPage_Proofs -------------------------
(***************************************************************************)
(* Proofs about ModbusPage, for any number of requests and connections:    *)
(* its types, and, until the page connects again, that an answer meets its *)
(* own callback and that a stopped request is silent.                      *)
(*                                                                         *)
(* The page starts its ids again with every ONERROR and ONCLOSE.  Until    *)
(* then ids are the numbers of requests; afterwards the one websocket of   *)
(* the page is closed and no answer is behind the message that said so.    *)
(***************************************************************************)
EXTENDS ModbusPage, TLAPS

\* What is on its way was made by the page.
Made == 1..sends

InboxMade ==
  /\ inbox \in Seq(Message)
  /\ \A i \in 1..Len(inbox) :
       inbox[i][1] \in {"stop", "send", "interval"} => inbox[i][2] \in Made

OutboxMade ==
  /\ outbox \in Seq(Report)
  /\ \A i \in 1..Len(outbox) : outbox[i][1] = "data" => outbox[i][2] \in Made

ServerMade ==
  /\ server \in SUBSET (Sockets \X Reqs)
  /\ \A p \in server : p[2] \in Made

TimersMade ==
  /\ timers \in [Reqs -> {"none", "kept", "lost"}]
  /\ \A r \in Reqs : timers[r] # "none" => r \in Made

IdsMade ==
  /\ idOf \in [Reqs -> 0..MaxSends]
  /\ \A r \in Made : idOf[r] \in Reqs

\* The websockets and the flags of the worker.
WorkerTypes ==
  /\ ws \in Sockets \cup {Null}
  /\ reset \in BOOLEAN
  /\ intervals \in SUBSET Reqs
  /\ opened \in SUBSET Sockets
  /\ watched \in SUBSET Sockets
  /\ sock \in [Sockets -> {"none", "connecting", "open", "closing", "closed"}]
  /\ stopped \in SUBSET Reqs

PageTypes ==
  /\ connected \in BOOLEAN
  /\ socketQueueId \in 0..sends
  /\ socketQueue \in [Reqs -> 0..MaxSends]
  /\ socketQueueIntervals \in SUBSET Reqs
  /\ sends \in 0..MaxSends
  /\ connects \in 0..MaxConnects
  /\ live \in BOOLEAN
  /\ asked \in SUBSET Reqs

TInv ==
  /\ InboxMade
  /\ OutboxMade
  /\ ServerMade
  /\ TimersMade
  /\ IdsMade
  /\ WorkerTypes
  /\ PageTypes

-----------------------------------------------------------------------------

LEMMA TailIndex ==
  ASSUME NEW S, NEW s \in Seq(S), s # << >>
  PROVE  /\ Head(s) = s[1] /\ s[1] \in S
         /\ Tail(s) \in Seq(S)
         /\ Len(Tail(s)) = Len(s) - 1
         /\ 1 \in 1..Len(s)
         /\ \A i \in 1..Len(Tail(s)) :
              i + 1 \in 1..Len(s) /\ Tail(s)[i] = s[i + 1]
OBVIOUS

LEMMA AppendIndex ==
  ASSUME NEW S, NEW s \in Seq(S), NEW e \in S
  PROVE  /\ Append(s, e) \in Seq(S)
         /\ Len(Append(s, e)) = Len(s) + 1
         /\ Len(s) \in Nat
         /\ \A i \in 1..(Len(s) + 1) :
              Append(s, e)[i] = IF i = Len(s) + 1 THEN e ELSE s[i]
OBVIOUS

LEMMA InitType == Init => TInv
<1>. SUFFICES ASSUME Init PROVE TInv
  OBVIOUS
<1>. USE MaxSendsAssumption, MaxConnectsAssumption DEF Init, WorkerInit
<1>1. sends = 0 /\ Made = {}
  BY DEF Made
<1>2. InboxMade
  BY DEF InboxMade
<1>3. OutboxMade
  BY DEF OutboxMade
<1>4. ServerMade
  BY DEF ServerMade
<1>5. TimersMade
  BY DEF TimersMade
<1>6. IdsMade
  BY <1>1 DEF IdsMade
<1>7. WorkerTypes
  BY DEF WorkerTypes, Null
<1>8. PageTypes
  <2>1. 0 \in 0..sends /\ 0 \in 0..MaxSends /\ 0 \in 0..MaxConnects
    BY <1>1
  <2>2. socketQueue \in [Reqs -> 0..MaxSends]
    BY <2>1
  <2>. QED
    BY <1>1, <2>1, <2>2 DEF PageTypes
<1>. QED
  BY <1>2, <1>3, <1>4, <1>5, <1>6, <1>7, <1>8 DEF TInv

\* The messages of the page and of the worker, read and posted.
LEMMA ReadInbox ==
  ASSUME TInv, NEW kind, Received(kind)
  PROVE  /\ inbox' \in Seq(Message)
         /\ Len(inbox') = Len(inbox) - 1
         /\ Len(inbox) \in Nat \ {0}
         /\ \A i \in 1..Len(inbox') :
              i + 1 \in 1..Len(inbox) /\ inbox'[i] = inbox[i + 1]
         /\ Head(inbox) = inbox[1]
         /\ inbox[1][1] = kind
         /\ inbox[1][2] \in 0..MaxSends
         /\ kind \in {"stop", "send", "interval"} => inbox[1][2] \in Made
         /\ sends' = sends => InboxMade'
<1>1. inbox \in Seq(Message) /\ inbox # << >>
  BY DEF TInv, InboxMade, Received
<1>2. inbox' = Tail(inbox) /\ Head(inbox)[1] = kind
  BY DEF Received
<1>3. 1 \in 1..Len(inbox) /\ inbox[1] \in Message /\ Head(inbox) = inbox[1]
  BY <1>1, TailIndex
<1>4. kind \in {"stop", "send", "interval"} => inbox[1][2] \in Made
  BY <1>2, <1>3 DEF TInv, InboxMade
<1>5. inbox[1][2] \in 0..MaxSends
  BY <1>3 DEF Message
<1>6. /\ inbox' \in Seq(Message)
      /\ Len(inbox') = Len(inbox) - 1
      /\ Len(inbox) \in Nat \ {0}
      /\ \A i \in 1..Len(inbox') :
           i + 1 \in 1..Len(inbox) /\ inbox'[i] = inbox[i + 1]
  BY <1>1, <1>2, TailIndex
<1>7. sends' = sends => InboxMade'
  BY <1>6 DEF TInv, InboxMade, Made
<1>. QED
  BY <1>2, <1>3, <1>4, <1>5, <1>6, <1>7

LEMMA ReadOutbox ==
  ASSUME TInv, NEW kinds, Told(kinds)
  PROVE  /\ outbox' \in Seq(Report)
         /\ Len(outbox') = Len(outbox) - 1
         /\ Len(outbox) \in Nat \ {0}
         /\ \A i \in 1..Len(outbox') :
              i + 1 \in 1..Len(outbox) /\ outbox'[i] = outbox[i + 1]
         /\ Head(outbox) = outbox[1]
         /\ outbox[1][1] \in kinds
         /\ outbox[1][1] = "data" => outbox[1][2] \in Made
         /\ OutboxMade'
<1>1. outbox \in Seq(Report) /\ outbox # << >>
  BY DEF TInv, OutboxMade, Told
<1>2. outbox' = Tail(outbox) /\ Head(outbox)[1] \in kinds /\ sends' = sends
  BY DEF Told
<1>3. 1 \in 1..Len(outbox) /\ outbox[1] \in Report /\ Head(outbox) = outbox[1]
  BY <1>1, TailIndex
<1>4. outbox[1][1] = "data" => outbox[1][2] \in Made
  BY <1>3 DEF TInv, OutboxMade
<1>5. /\ outbox' \in Seq(Report)
      /\ Len(outbox') = Len(outbox) - 1
      /\ Len(outbox) \in Nat \ {0}
      /\ \A i \in 1..Len(outbox') :
           i + 1 \in 1..Len(outbox) /\ outbox'[i] = outbox[i + 1]
  BY <1>1, <1>2, TailIndex
<1>6. OutboxMade'
  BY <1>2, <1>5 DEF TInv, OutboxMade, Made
<1>. QED
  BY <1>2, <1>3, <1>4, <1>5, <1>6

LEMMA AskInbox ==
  ASSUME TInv, Made \subseteq Made',
         NEW kind \in {"connect", "reset", "stop", "send", "interval"},
         NEW r \in 0..MaxSends, Ask(kind, r),
         kind \in {"stop", "send", "interval"} => r \in Made'
  PROVE  InboxMade'
<1>1. <<kind, r>> \in Message
  BY DEF Message
<1>2. inbox \in Seq(Message)
  BY DEF TInv, InboxMade
<1>3. inbox' = Append(inbox, <<kind, r>>)
  BY DEF Ask
<1>4. /\ inbox' \in Seq(Message)
      /\ Len(inbox') = Len(inbox) + 1
      /\ Len(inbox) \in Nat
      /\ \A i \in 1..(Len(inbox) + 1) :
           inbox'[i] = IF i = Len(inbox) + 1 THEN <<kind, r>> ELSE inbox[i]
  BY <1>1, <1>2, <1>3, AppendIndex
<1>5. ASSUME NEW i \in 1..Len(inbox'),
             inbox'[i][1] \in {"stop", "send", "interval"}
      PROVE  inbox'[i][2] \in Made'
  <2>1. CASE i = Len(inbox) + 1
    BY <1>4, <1>5, <2>1
  <2>2. CASE i # Len(inbox) + 1
    <3>1. i \in 1..Len(inbox) /\ inbox'[i] = inbox[i]
      BY <1>4, <2>2
    <3>. QED
      BY <1>5, <3>1 DEF TInv, InboxMade
  <2>. QED
    BY <2>1, <2>2
<1>. QED
  BY <1>4, <1>5 DEF InboxMade

LEMMA PostOutbox ==
  ASSUME NEW out \in Seq(Report), NEW n \in Nat, n <= MaxSends,
         \A i \in 1..Len(out) : out[i][1] = "data" => out[i][2] \in 1..n,
         NEW kind \in {"onopen", "onerror", "onclose", "timeout", "data"},
         NEW r \in 0..n, kind = "data" => r # 0
  PROVE  LET new == Append(out, <<kind, r>>) IN
           /\ new \in Seq(Report)
           /\ \A i \in 1..Len(new) :
                new[i][1] = "data" => new[i][2] \in 1..n
<1>. DEFINE new == Append(out, <<kind, r>>)
<1>1. <<kind, r>> \in Report
  BY MaxSendsAssumption DEF Report
<1>2. /\ new \in Seq(Report)
      /\ Len(new) = Len(out) + 1
      /\ Len(out) \in Nat
      /\ \A i \in 1..(Len(out) + 1) :
           new[i] = IF i = Len(out) + 1 THEN <<kind, r>> ELSE out[i]
  BY <1>1, AppendIndex
<1>. HIDE DEF new
<1>3. ASSUME NEW i \in 1..Len(new), new[i][1] = "data"
      PROVE  new[i][2] \in 1..n
  <2>1. CASE i = Len(out) + 1
    BY <1>2, <1>3, <2>1
  <2>2. CASE i # Len(out) + 1
    <3>1. i \in 1..Len(out) /\ new[i] = out[i]
      BY <1>2, <2>2
    <3>. QED
      BY <1>3, <3>1
  <2>. QED
    BY <2>1, <2>2
<1>4. /\ new \in Seq(Report)
      /\ \A i \in 1..Len(new) : new[i][1] = "data" => new[i][2] \in 1..n
  BY <1>2, <1>3
<1>. QED
  BY <1>4 DEF new

\* What is sent was made.
LEMMA SendMade ==
  ASSUME TInv, NEW r \in Made, sends' = sends, SendData(r)
  PROVE  ServerMade'
<1>1. r \in Reqs
  BY MaxSendsAssumption DEF TInv, PageTypes, Made, Reqs
<1>2. CASE WsOpen
  <2>1. ws \in Sockets
    BY <1>2 DEF WsOpen, TInv, WorkerTypes
  <2>2. server' = server \cup {<<ws, r>>}
    BY <1>2 DEF SendData
  <2>. QED
    BY <1>1, <2>1, <2>2 DEF TInv, ServerMade, Made
<1>3. CASE ~WsOpen
  BY <1>3 DEF SendData, TInv, ServerMade, Made
<1>. QED
  BY <1>2, <1>3

-----------------------------------------------------------------------------
(* Types *)

LEMMA HandleType ==
  ASSUME TInv, Handle, UNCHANGED pageVars
  PROVE  TInv'
<1>0. sends' = sends /\ Made' = Made /\ PageTypes' /\ IdsMade'
  BY DEF pageVars, queueVars, historyVars, Made, TInv, PageTypes, IdsMade
<1>1. CASE HandleConnect
  <2>1. InboxMade'
    BY <1>0, <1>1, ReadInbox DEF HandleConnect
  <2>2. OutboxMade' /\ ServerMade' /\ TimersMade'
    BY <1>0, <1>1 DEF HandleConnect, TInv, OutboxMade, ServerMade, TimersMade
  <2>3. WorkerTypes'
    <3>1. CASE UNCHANGED <<ws, sock, watched>>
      BY <1>1, <3>1 DEF HandleConnect, TInv, WorkerTypes
    <3>2. ASSUME NEW s \in Sockets,
                 ws' = s,
                 sock' = [sock EXCEPT ![s] = "connecting"],
                 watched' = watched \cup {s}
          PROVE  WorkerTypes'
      BY <1>1, <3>2 DEF HandleConnect, TInv, WorkerTypes
    <3>. QED
      BY <1>1, <3>1, <3>2 DEF HandleConnect
  <2>. QED
    BY <1>0, <2>1, <2>2, <2>3 DEF TInv
<1>2. CASE HandleReset
  <2>1. InboxMade'
    BY <1>0, <1>2, ReadInbox DEF HandleReset
  <2>2. OutboxMade' /\ ServerMade' /\ TimersMade'
    BY <1>0, <1>2 DEF HandleReset, TInv, OutboxMade, ServerMade, TimersMade
  <2>3. WorkerTypes'
    BY <1>2 DEF HandleReset, Closed, TInv, WorkerTypes
  <2>. QED
    BY <1>0, <2>1, <2>2, <2>3 DEF TInv
<1>3. CASE HandleStop
  <2>1. InboxMade' /\ Head(inbox)[2] \in Made
    BY <1>0, <1>3, ReadInbox DEF HandleStop
  <2>2. OutboxMade' /\ ServerMade' /\ TimersMade'
    BY <1>0, <1>3 DEF HandleStop, netVars, TInv, OutboxMade, ServerMade,
                      TimersMade
  <2>3. Head(inbox)[2] \in Reqs
    BY <2>1, MaxSendsAssumption DEF Made, Reqs, TInv, PageTypes
  <2>4. WorkerTypes'
    BY <1>3, <2>3 DEF HandleStop, netVars, TInv, WorkerTypes
  <2>. QED
    BY <1>0, <2>1, <2>2, <2>4 DEF TInv
<1>4. CASE HandleSend
  <2>1. InboxMade' /\ Head(inbox)[2] \in Made
    BY <1>0, <1>4, ReadInbox DEF HandleSend
  <2>2. OutboxMade' /\ TimersMade' /\ WorkerTypes'
    BY <1>0, <1>4 DEF HandleSend, connVars, TInv, OutboxMade, TimersMade,
                      WorkerTypes
  <2>3. ServerMade'
    BY <1>0, <1>4, <2>1, SendMade DEF HandleSend
  <2>. QED
    BY <1>0, <2>1, <2>2, <2>3 DEF TInv
<1>5. CASE HandleInterval
  <2>. DEFINE r == Head(inbox)[2]
  <2>1. InboxMade' /\ r \in Made
    BY <1>0, <1>5, ReadInbox DEF HandleInterval
  <2>2. r \in Reqs /\ idOf[r] \in Reqs
    BY <2>1, MaxSendsAssumption DEF Made, Reqs, TInv, PageTypes, IdsMade
  <2>3. OutboxMade' /\ WorkerTypes'
    BY <1>0, <1>5, <2>2 DEF HandleInterval, TInv, OutboxMade, WorkerTypes
  <2>4. ServerMade'
    BY <1>0, <1>5, <2>1, SendMade DEF HandleInterval
  <2>5. TimersMade'
    BY <1>0, <1>5, <2>1, <2>2 DEF HandleInterval, Rearm, TInv, TimersMade
  <2>. QED
    BY <1>0, <2>1, <2>3, <2>4, <2>5 DEF TInv
<1>. QED
  BY <1>1, <1>2, <1>3, <1>4, <1>5 DEF Handle

LEMMA TimerType ==
  ASSUME TInv, UNCHANGED pageVars, NEW r \in Reqs, TimerFires(r)
  PROVE  TInv'
<1>0. sends' = sends /\ Made' = Made /\ PageTypes' /\ IdsMade'
  BY DEF pageVars, queueVars, historyVars, Made, TInv, PageTypes, IdsMade
<1>1. InboxMade' /\ OutboxMade' /\ WorkerTypes'
  BY <1>0 DEF TimerFires, TInv, InboxMade, OutboxMade, WorkerTypes
<1>2. r \in Made
  BY DEF TimerFires, TInv, TimersMade
<1>3. ServerMade'
  <2>1. CASE SendData(r)
    BY <1>0, <1>2, <2>1, SendMade
  <2>2. CASE UNCHANGED server
    BY <1>0, <2>2 DEF TInv, ServerMade
  <2>. QED
    BY <2>1, <2>2 DEF TimerFires
<1>4. TimersMade'
  BY <1>0, <1>2 DEF TimerFires, Rearm, TInv, TimersMade
<1>. QED
  BY <1>0, <1>1, <1>3, <1>4 DEF TInv

LEMMA SocketType ==
  ASSUME TInv, UNCHANGED pageVars, NEW s \in Sockets,
         \/ PostOpen(s) \/ TimeIsUp(s) \/ OnOpen(s) \/ OnClose(s)
         \/ \E r \in Reqs : OnMessage(s, r)
  PROVE  TInv'
<1>0. sends' = sends /\ Made' = Made /\ PageTypes' /\ IdsMade'
  BY DEF pageVars, queueVars, historyVars, Made, TInv, PageTypes, IdsMade
<1>a. /\ sends \in Nat /\ sends <= MaxSends /\ outbox \in Seq(Report)
      /\ \A i \in 1..Len(outbox) :
           outbox[i][1] = "data" => outbox[i][2] \in 1..sends
  BY MaxSendsAssumption DEF TInv, PageTypes, OutboxMade, Made
<1>b. ASSUME NEW kind \in {"onopen", "onerror", "onclose", "timeout"},
             Post(kind, 0)
      PROVE  OutboxMade'
  <2>1. outbox' = Append(outbox, <<kind, 0>>)
    BY <1>b DEF Post
  <2>2. 0 \in 0..sends /\ kind # "data"
    BY <1>a
  <2>3. /\ outbox' \in Seq(Report)
        /\ \A i \in 1..Len(outbox') :
             outbox'[i][1] = "data" => outbox'[i][2] \in 1..sends
    BY <1>a, <2>1, <2>2, PostOutbox
  <2>. QED
    BY <1>0, <2>3 DEF OutboxMade, Made
<1>1. CASE PostOpen(s)
  <2>1. OutboxMade'
    BY <1>1, <1>b DEF PostOpen
  <2>. QED
    BY <1>0, <1>1, <2>1 DEF PostOpen, connVars, TInv, InboxMade, ServerMade,
                            TimersMade, WorkerTypes
<1>2. CASE TimeIsUp(s)
  <2>1. OutboxMade'
    BY <1>0, <1>2, <1>b DEF TimeIsUp, TInv, OutboxMade
  <2>2. sock' \in [Sockets -> {"none", "connecting", "open", "closing",
                               "closed"}]
    BY <1>2 DEF TimeIsUp, Closed, TInv, WorkerTypes
  <2>. QED
    BY <1>0, <1>2, <2>1, <2>2 DEF TimeIsUp, connVars, TInv, InboxMade,
                                  ServerMade, TimersMade, WorkerTypes
<1>3. CASE OnOpen(s)
  BY <1>0, <1>3 DEF OnOpen, TInv, InboxMade, OutboxMade, ServerMade,
                    TimersMade, WorkerTypes
<1>4. CASE OnClose(s)
  <2>1. OutboxMade'
    <3>1. CASE Post("onclose", 0)
      BY <1>b, <3>1
    <3>2. CASE outbox' = Append(Append(outbox, <<"onerror", 0>>),
                                <<"onclose", 0>>)
      <4>. DEFINE out == Append(outbox, <<"onerror", 0>>)
      <4>1. /\ out \in Seq(Report)
            /\ \A i \in 1..Len(out) :
                 out[i][1] = "data" => out[i][2] \in 1..sends
        BY <1>a, PostOutbox
      <4>2. outbox' = Append(out, <<"onclose", 0>>)
        BY <3>2
      <4>. HIDE DEF out
      <4>. QED
        BY <1>0, <1>a, <4>1, <4>2, PostOutbox DEF OutboxMade, Made
    <3>. QED
      BY <1>4, <3>1, <3>2 DEF OnClose
  <2>2. ServerMade'
    BY <1>0, <1>4 DEF OnClose, TInv, ServerMade
  <2>. QED
    BY <1>0, <1>4, <2>1, <2>2 DEF OnClose, connVars, TInv, InboxMade,
                                  TimersMade, WorkerTypes
<1>5. ASSUME NEW r \in Reqs, OnMessage(s, r)
      PROVE  TInv'
  <2>1. r \in 1..sends
    BY <1>5 DEF OnMessage, TInv, ServerMade, Made
  <2>2. OutboxMade'
    BY <1>0, <1>a, <1>5, <2>1, PostOutbox DEF OnMessage, Post, OutboxMade, Made
  <2>3. ServerMade'
    BY <1>0, <1>5 DEF OnMessage, TInv, ServerMade
  <2>. QED
    BY <1>0, <1>5, <2>2, <2>3 DEF OnMessage, connVars, TInv, InboxMade,
                                  TimersMade, WorkerTypes
<1>. QED
  BY <1>1, <1>2, <1>3, <1>4, <1>5

LEMMA ReadType ==
  ASSUME TInv, PageReads
  PROVE  TInv'
<1>1. ASSUME NEW kinds, Told(kinds)
      PROVE  /\ sends' = sends /\ Made' = Made
             /\ OutboxMade' /\ ServerMade' /\ TimersMade' /\ IdsMade'
             /\ WorkerTypes'
             /\ connects' = connects /\ asked' = asked
  <2>1. OutboxMade'
    BY <1>1, ReadOutbox
  <2>. QED
    BY <1>1, <2>1 DEF Told, connVars, netVars, Made, TInv, ServerMade,
                      TimersMade, IdsMade, WorkerTypes
<1>2. CASE OnOpened
  BY <1>1, <1>2 DEF OnOpened, queueVars, TInv, InboxMade, PageTypes
<1>3. CASE OnEnded
  <2>1. Told({"onerror", "onclose"})
    BY <1>3 DEF OnEnded
  <2>2. /\ sends' = sends /\ Made' = Made
        /\ OutboxMade' /\ ServerMade' /\ TimersMade' /\ IdsMade'
        /\ WorkerTypes'
        /\ connects' = connects /\ asked' = asked
    BY <1>1, <2>1
  <2>3. InboxMade'
    BY <1>3, <2>2, MaxSendsAssumption, AskInbox DEF OnEnded
  <2>4. PageTypes'
    <3>1. sends \in Nat /\ 0 \in 0..sends /\ 0 \in 0..MaxSends
      BY MaxSendsAssumption DEF TInv, PageTypes
    <3>2. socketQueueId' \in 0..sends /\ socketQueue' \in [Reqs -> 0..MaxSends]
      BY <1>3, <3>1 DEF OnEnded
    <3>3. /\ connected' = FALSE /\ live' \in BOOLEAN
          /\ socketQueueIntervals' = socketQueueIntervals
      BY <1>3 DEF OnEnded, TInv, PageTypes
    <3>. QED
      BY <2>2, <3>2, <3>3 DEF TInv, PageTypes
  <2>. QED
    BY <2>2, <2>3, <2>4 DEF TInv
<1>4. CASE OnTimeout
  BY <1>1, <1>4 DEF OnTimeout, queueVars, TInv, InboxMade, PageTypes
<1>5. CASE HandleMessage
  <2>1. Told({"data"})
    BY <1>5 DEF HandleMessage
  <2>2. /\ sends' = sends /\ Made' = Made
        /\ OutboxMade' /\ ServerMade' /\ TimersMade' /\ IdsMade'
        /\ WorkerTypes'
        /\ connects' = connects /\ asked' = asked
    BY <1>1, <2>1
  <2>3. InboxMade'
    BY <1>5, <2>2 DEF HandleMessage, TInv, InboxMade
  <2>4. socketQueue' \in [Reqs -> 0..MaxSends]
    <3>. DEFINE id == idOf[Head(outbox)[2]]
    <3>1. socketQueue' = socketQueue
          \/ socketQueue' = [socketQueue EXCEPT ![id] = 0]
      BY <1>5 DEF HandleMessage
    <3>2. 0 \in 0..MaxSends /\ socketQueue \in [Reqs -> 0..MaxSends]
      BY MaxSendsAssumption DEF TInv, PageTypes
    <3>. HIDE DEF id
    <3>. QED
      BY <3>1, <3>2
  <2>5. PageTypes'
    BY <1>5, <2>2, <2>4 DEF HandleMessage, TInv, PageTypes
  <2>. QED
    BY <2>2, <2>3, <2>5 DEF TInv
<1>. QED
  BY <1>2, <1>3, <1>4, <1>5 DEF PageReads

LEMMA AskType ==
  ASSUME TInv,
         \/ Connect
         \/ \E repeated \in BOOLEAN : Send(repeated)
         \/ \E r \in Reqs : ClearInterval(r)
  PROVE  TInv'
<1>1. CASE Connect
  <2>1. Made' = Made /\ sends' = sends
    BY <1>1 DEF Connect, Made
  <2>2. InboxMade'
    BY <1>1, <2>1, MaxSendsAssumption, AskInbox DEF Connect
  <2>3. PageTypes'
    BY <1>1, MaxConnectsAssumption DEF Connect, queueVars, TInv, PageTypes
  <2>. QED
    BY <1>1, <2>1, <2>2, <2>3
       DEF Connect, connVars, netVars, TInv, OutboxMade, ServerMade,
           TimersMade, IdsMade, WorkerTypes
<1>2. ASSUME NEW repeated \in BOOLEAN, Send(repeated)
      PROVE  TInv'
  <2>1. /\ sends \in Nat /\ sends' = sends + 1 /\ sends' \in Reqs
        /\ Made \subseteq Made' /\ Made' = Made \cup {sends'}
        /\ socketQueueId \in 0..sends
    BY <1>2, MaxSendsAssumption DEF Send, TInv, PageTypes, Made, Reqs
  <2>2. socketQueueId' \in 1..sends' /\ socketQueueId' \in Reqs
    <3>1. socketQueueId' = socketQueueId + 1
      BY <1>2 DEF Send, NextId
    <3>. QED
      BY <2>1, <3>1, MaxSendsAssumption DEF Reqs
  <2>3. InboxMade'
    <3>. DEFINE kind == IF repeated THEN "interval" ELSE "send"
    <3>1. Ask(kind, sends') /\ kind \in {"send", "interval"}
      BY <1>2 DEF Send
    <3>2. sends' \in 0..MaxSends /\ sends' \in Made'
      BY <2>1 DEF Reqs
    <3>. HIDE DEF kind
    <3>. QED
      BY <2>1, <3>1, <3>2, AskInbox
  <2>4. IdsMade'
    BY <1>2, <2>1, <2>2 DEF Send, TInv, IdsMade, Reqs
  <2>5. PageTypes'
    BY <1>2, <2>1, <2>2 DEF Send, TInv, PageTypes, Reqs
  <2>6. OutboxMade' /\ ServerMade' /\ TimersMade' /\ WorkerTypes'
    BY <1>2, <2>1 DEF Send, connVars, netVars, TInv, OutboxMade, ServerMade,
                      TimersMade, WorkerTypes
  <2>. QED
    BY <2>3, <2>4, <2>5, <2>6 DEF TInv
<1>3. ASSUME NEW r \in Reqs, ClearInterval(r)
      PROVE  TInv'
  <2>1. Made' = Made /\ r \in Made /\ r \in 0..MaxSends
    BY <1>3, MaxSendsAssumption
       DEF ClearInterval, pageVars, historyVars, Made, Reqs, TInv, PageTypes
  <2>2. InboxMade'
    BY <1>3, <2>1, AskInbox DEF ClearInterval
  <2>. QED
    BY <1>3, <2>1, <2>2
       DEF ClearInterval, pageVars, queueVars, historyVars, connVars, netVars,
           TInv, OutboxMade, ServerMade, TimersMade, IdsMade, WorkerTypes,
           PageTypes
<1>. QED
  BY <1>1, <1>2, <1>3

LEMMA NextType == TInv /\ [Next]_vars => TInv'
<1>. SUFFICES ASSUME TInv, [Next]_vars PROVE TInv'
  OBVIOUS
<1>1. CASE WorkerStep
  BY <1>1, HandleType, TimerType, SocketType DEF WorkerStep, WorkerNext
<1>2. CASE PageReads
  BY <1>2, ReadType
<1>3. CASE \/ Connect
           \/ \E repeated \in BOOLEAN : Send(repeated)
           \/ \E r \in Reqs : ClearInterval(r)
  BY <1>3, AskType
<1>4. CASE UNCHANGED vars
  BY <1>4 DEF vars, workerVars, connVars, netVars, pageVars, queueVars,
              historyVars, TInv, InboxMade, OutboxMade, ServerMade,
              TimersMade, IdsMade, WorkerTypes, PageTypes, Made
<1>. QED
  BY <1>1, <1>2, <1>3, <1>4 DEF Next

LEMMA Typed == Spec => []TInv
BY InitType, NextType, PTL DEF Spec

\* The page and its worker keep their types: what is sent, repeated or
\* answered is a request the page made, under an id it gave.
THEOREM TypeCorrect == Spec => []TypeOK
<1>1. TInv => TypeOK
  BY DEF TInv, InboxMade, OutboxMade, ServerMade, TimersMade, IdsMade,
         WorkerTypes, PageTypes, TypeOK
<1>. QED
  BY <1>1, Typed, PTL
-----------------------------------------------------------------------------
(* An answer meets its own callback *)

\* Until the page connects again it has one websocket.
OneConnect ==
  connects <= 1 =>
    /\ \A s, q \in Sockets : sock[s] # "none" /\ sock[q] # "none" => s = q
    /\ \A i, j \in 1..Len(inbox) :
         inbox[i][1] = "connect" /\ inbox[j][1] = "connect" => i = j
    /\ (\E i \in 1..Len(inbox) : inbox[i][1] = "connect")
         => connects = 1 /\ \A s \in Sockets : sock[s] = "none"
    /\ connects = 0 => \A s \in Sockets : sock[s] = "none"

ServerOpen == \A p \in server : sock[p[1]] \in {"open", "closing"}

Done == \E s \in Sockets : sock[s] = "closed"

Ends == {"onerror", "onclose"}

EndsLast(out) ==
  \A i, j \in 1..Len(out) :
    out[i][1] \in Ends /\ out[j][1] = "data" => j < i

NoData(out) == \A i \in 1..Len(out) : out[i][1] # "data"

EndsDone == \A i \in 1..Len(outbox) : outbox[i][1] \in Ends => Done

\* Ids are still the numbers of requests.
IdsOwn == \A r \in Made : idOf[r] = r

Fresh ==
  /\ socketQueueId = sends
  /\ IdsOwn
  /\ \A i \in Reqs : socketQueue[i] \in {0, i}

Answers ==
  connects <= 1 =>
    /\ EndsLast(outbox)
    /\ EndsDone
    /\ Fresh \/ (Done /\ NoData(outbox))

AInv == TInv /\ OneConnect /\ ServerOpen /\ Answers

\* What happens to the websockets, but for a connect.
SocksKept ==
  \A s \in Sockets :
    /\ sock'[s] = "none" <=> sock[s] = "none"
    /\ sock[s] = "closed" => sock'[s] = "closed"
    /\ sock[s] \in {"open", "closing"}
         => sock'[s] \in {"open", "closing", "closed"}

LEMMA ClosedKept ==
  ASSUME TInv, NEW s \in Sockets, sock' = Closed(s)
  PROVE  SocksKept /\ (ServerOpen /\ UNCHANGED server => ServerOpen')
<1>1. SocksKept
  BY DEF SocksKept, Closed, TInv, WorkerTypes
<1>2. \A q \in Sockets : sock[q] \in {"open", "closing"}
                           => sock'[q] \in {"open", "closing"}
  BY DEF Closed, TInv, WorkerTypes
<1>3. \A p \in server : p[1] \in Sockets
  BY DEF TInv, ServerMade
<1>. QED
  BY <1>1, <1>2, <1>3 DEF ServerOpen

LEMMA OneConnectKept ==
  ASSUME TInv, OneConnect, SocksKept, connects' = connects,
         NEW d \in {0, 1},
         \A i \in 1..Len(inbox') :
           inbox'[i][1] = "connect"
             => i + d \in 1..Len(inbox) /\ inbox[i + d][1] = "connect"
  PROVE  OneConnect'
<1>. SUFFICES ASSUME connects <= 1
              PROVE  /\ \A s, q \in Sockets :
                          sock'[s] # "none" /\ sock'[q] # "none" => s = q
                     /\ \A i, j \in 1..Len(inbox') :
                          inbox'[i][1] = "connect" /\ inbox'[j][1] = "connect"
                            => i = j
                     /\ (\E i \in 1..Len(inbox') : inbox'[i][1] = "connect")
                          => connects = 1
                             /\ \A s \in Sockets : sock'[s] = "none"
                     /\ connects = 0 => \A s \in Sockets : sock'[s] = "none"
  BY DEF OneConnect
<1>1. \A s \in Sockets : sock'[s] = "none" <=> sock[s] = "none"
  BY DEF SocksKept
<1>2. ASSUME NEW i \in 1..Len(inbox'), NEW j \in 1..Len(inbox'),
             inbox'[i][1] = "connect", inbox'[j][1] = "connect"
      PROVE  i = j
  <2>1. i + d = j + d
    BY <1>2 DEF OneConnect
  <2>. QED
    BY <2>1
<1>3. ASSUME NEW i \in 1..Len(inbox'), inbox'[i][1] = "connect"
      PROVE  connects = 1 /\ \A s \in Sockets : sock'[s] = "none"
  BY <1>1, <1>3 DEF OneConnect
<1>. QED
  BY <1>1, <1>2, <1>3 DEF OneConnect

\* A connect has no websocket before it.
LEMMA ConnectFirst ==
  ASSUME TInv, OneConnect, HandleConnect, UNCHANGED pageVars
  PROVE  OneConnect'
<1>. SUFFICES ASSUME connects <= 1
              PROVE  /\ \A s, q \in Sockets :
                          sock'[s] # "none" /\ sock'[q] # "none" => s = q
                     /\ \A i \in 1..Len(inbox') : inbox'[i][1] # "connect"
                     /\ connects # 0
  <2>1. connects' = connects
    BY DEF pageVars, historyVars
  <2>. QED
    BY <2>1 DEF OneConnect
<1>1. /\ Len(inbox) \in Nat \ {0} /\ inbox[1][1] = "connect"
      /\ \A i \in 1..Len(inbox') :
           i + 1 \in 1..Len(inbox) /\ inbox'[i] = inbox[i + 1]
  BY ReadInbox DEF HandleConnect
<1>2. 1 \in 1..Len(inbox)
  BY <1>1
<1>3. \A s \in Sockets : sock[s] = "none"
  BY <1>1, <1>2 DEF OneConnect
<1>4. connects # 0
  BY <1>1, <1>2 DEF OneConnect
<1>5. ASSUME NEW i \in 1..Len(inbox') PROVE inbox'[i][1] # "connect"
  <2>1. i + 1 \in 1..Len(inbox) /\ inbox'[i] = inbox[i + 1] /\ i + 1 # 1
    BY <1>1
  <2>2. inbox[i + 1][1] # "connect"
    BY <1>1, <1>2, <2>1 DEF OneConnect
  <2>. QED
    BY <2>1, <2>2
<1>6. ASSUME NEW s \in Sockets, NEW q \in Sockets,
             sock'[s] # "none", sock'[q] # "none"
      PROVE  s = q
  <2>1. sock' # sock
    BY <1>3, <1>6
  <2>2. PICK c \in Sockets : sock' = [sock EXCEPT ![c] = "connecting"]
    BY <2>1 DEF HandleConnect
  <2>3. sock'[s] = sock[s] \/ s = c
    BY <2>2 DEF TInv, WorkerTypes
  <2>4. sock'[q] = sock[q] \/ q = c
    BY <2>2 DEF TInv, WorkerTypes
  <2>. QED
    BY <1>3, <1>6, <2>3, <2>4
<1>. QED
  BY <1>4, <1>5, <1>6

LEMMA SentOpen ==
  ASSUME TInv, ServerOpen, NEW r, SendData(r), UNCHANGED sock
  PROVE  ServerOpen'
BY DEF SendData, WsOpen, ServerOpen, TInv, ServerMade

LEMMA ReportAppended ==
  ASSUME NEW out \in Seq(Report), EndsLast(out),
         NEW kind \in {"onopen", "onerror", "onclose", "timeout"}
  PROVE  /\ Append(out, <<kind, 0>>) \in Seq(Report)
         /\ EndsLast(Append(out, <<kind, 0>>))
         /\ NoData(out) => NoData(Append(out, <<kind, 0>>))
         /\ \A i \in 1..Len(Append(out, <<kind, 0>>)) :
              \/ i \in 1..Len(out) /\ Append(out, <<kind, 0>>)[i] = out[i]
              \/ Append(out, <<kind, 0>>)[i] = <<kind, 0>>
<1>. DEFINE new == Append(out, <<kind, 0>>)
<1>1. <<kind, 0>> \in Report
  BY MaxSendsAssumption DEF Report
<1>2. /\ new \in Seq(Report)
      /\ Len(new) = Len(out) + 1
      /\ Len(out) \in Nat
      /\ \A i \in 1..(Len(out) + 1) :
           new[i] = IF i = Len(out) + 1 THEN <<kind, 0>> ELSE out[i]
  BY <1>1, AppendIndex
<1>. HIDE DEF new
<1>3. \A i \in 1..Len(new) :
        \/ i \in 1..Len(out) /\ new[i] = out[i]
        \/ i = Len(out) + 1 /\ new[i] = <<kind, 0>>
  BY <1>2
<1>4. \A j \in 1..Len(new) : new[j][1] = "data"
                               => j \in 1..Len(out) /\ new[j] = out[j]
  BY <1>3
<1>5. ASSUME NEW i \in 1..Len(new), NEW j \in 1..Len(new),
             new[i][1] \in Ends, new[j][1] = "data"
      PROVE  j < i
  <2>1. j \in 1..Len(out) /\ out[j][1] = "data"
    BY <1>4, <1>5
  <2>2. CASE i = Len(out) + 1
    BY <1>2, <2>1, <2>2
  <2>3. CASE i \in 1..Len(out) /\ new[i] = out[i]
    BY <1>5, <2>1, <2>3 DEF EndsLast
  <2>. QED
    BY <1>3, <2>2, <2>3
<1>6. EndsLast(new)
  BY <1>5 DEF EndsLast
<1>7. NoData(out) => NoData(new)
  BY <1>4 DEF NoData
<1>8. \A i \in 1..Len(new) :
        \/ i \in 1..Len(out) /\ new[i] = out[i]
        \/ new[i] = <<kind, 0>>
  BY <1>3
<1>. QED
  BY <1>2, <1>6, <1>7, <1>8 DEF new

\* A step that reports nothing, or something else than an answer.
LEMMA AnswersKept ==
  ASSUME TInv, Answers, connects' <= 1 => connects <= 1, SocksKept,
         Fresh => Fresh',
         \/ UNCHANGED outbox
         \/ \E kind \in {"onopen", "timeout"} : Post(kind, 0)
  PROVE  Answers'
<1>. SUFFICES ASSUME connects <= 1
              PROVE  /\ EndsLast(outbox') /\ EndsDone'
                     /\ Fresh' \/ (Done' /\ NoData(outbox'))
  BY DEF Answers
<1>1. Done => Done'
  BY DEF Done, SocksKept
<1>2. CASE UNCHANGED outbox
  BY <1>1, <1>2 DEF Answers, EndsDone
<1>3. ASSUME NEW kind \in {"onopen", "timeout"}, Post(kind, 0)
      PROVE  /\ EndsLast(outbox') /\ EndsDone'
             /\ Fresh' \/ (Done' /\ NoData(outbox'))
  <2>1. outbox' = Append(outbox, <<kind, 0>>)
    BY <1>3 DEF Post
  <2>2. outbox \in Seq(Report) /\ EndsLast(outbox)
    BY DEF TInv, OutboxMade, Answers
  <2>3. EndsLast(outbox') /\ (NoData(outbox) => NoData(outbox'))
    BY <2>1, <2>2, ReportAppended
  <2>4. \A i \in 1..Len(outbox') :
          \/ i \in 1..Len(outbox) /\ outbox'[i] = outbox[i]
          \/ outbox'[i] = <<kind, 0>>
    BY <2>1, <2>2, ReportAppended
  <2>5. EndsDone'
    BY <1>1, <2>4 DEF EndsDone, Answers, Ends
  <2>. QED
    BY <1>1, <2>3, <2>5 DEF Answers
<1>. QED
  BY <1>2, <1>3

LEMMA HandleAnswers ==
  ASSUME AInv, Handle, UNCHANGED pageVars
  PROVE  OneConnect' /\ ServerOpen' /\ Answers'
<1>0. /\ TInv /\ OneConnect /\ ServerOpen /\ Answers
      /\ connects' = connects
      /\ Fresh => Fresh'
  BY DEF AInv, pageVars, queueVars, historyVars, Fresh, IdsOwn, Made
<1>a. ASSUME NEW kind, Received(kind), SocksKept, UNCHANGED outbox
      PROVE  OneConnect' /\ Answers'
  <2>1. \A i \in 1..Len(inbox') :
          i + 1 \in 1..Len(inbox) /\ inbox'[i] = inbox[i + 1]
    BY <1>0, <1>a, ReadInbox
  <2>2. OneConnect'
    BY <1>0, <1>a, <2>1, OneConnectKept
  <2>3. Answers'
    BY <1>0, <1>a, AnswersKept
  <2>. QED
    BY <2>2, <2>3
<1>b. UNCHANGED sock => SocksKept
  BY <1>0 DEF SocksKept, TInv, WorkerTypes
<1>1. CASE HandleConnect
  <2>1. OneConnect'
    BY <1>0, <1>1, ConnectFirst
  <2>2. UNCHANGED <<server, outbox>>
    BY <1>1 DEF HandleConnect
  <2>3. \A s \in Sockets : \/ sock'[s] = sock[s]
                           \/ sock[s] = "none" /\ sock'[s] = "connecting"
    <3>1. CASE UNCHANGED sock
      BY <3>1
    <3>2. ASSUME NEW c \in Sockets, sock[c] = "none",
                 sock' = [sock EXCEPT ![c] = "connecting"]
          PROVE  \A s \in Sockets :
                   \/ sock'[s] = sock[s]
                   \/ sock[s] = "none" /\ sock'[s] = "connecting"
      BY <1>0, <3>2 DEF TInv, WorkerTypes
    <3>. QED
      BY <1>1, <3>1, <3>2 DEF HandleConnect
  <2>4. ServerOpen'
    <3>1. \A p \in server : p[1] \in Sockets
      BY <1>0 DEF TInv, ServerMade
    <3>. QED
      BY <1>0, <2>2, <2>3, <3>1 DEF ServerOpen
  <2>5. Done => Done'
    BY <2>3 DEF Done
  <2>6. Answers'
    BY <1>0, <2>2, <2>5 DEF Answers, EndsDone
  <2>. QED
    BY <2>1, <2>4, <2>6
<1>2. CASE HandleReset
  <2>1. CASE UNCHANGED sock
    BY <1>0, <1>2, <1>a, <1>b, <2>1 DEF HandleReset, ServerOpen
  <2>2. CASE ws # Null /\ sock' = Closed(ws)
    <3>1. ws \in Sockets
      BY <1>0, <2>2 DEF TInv, WorkerTypes
    <3>2. SocksKept /\ ServerOpen'
      BY <1>0, <1>2, <2>2, <3>1, ClosedKept DEF HandleReset
    <3>. QED
      BY <1>2, <1>a, <3>2 DEF HandleReset
  <2>. QED
    BY <1>2, <2>1, <2>2 DEF HandleReset
<1>3. CASE HandleStop
  BY <1>0, <1>3, <1>a, <1>b DEF HandleStop, netVars, ServerOpen
<1>4. CASE HandleSend
  <2>1. ServerOpen'
    BY <1>0, <1>4, SentOpen DEF HandleSend
  <2>. QED
    BY <1>4, <1>a, <1>b, <2>1 DEF HandleSend
<1>5. CASE HandleInterval
  <2>1. ServerOpen'
    BY <1>0, <1>5, SentOpen DEF HandleInterval
  <2>. QED
    BY <1>5, <1>a, <1>b, <2>1 DEF HandleInterval
<1>. QED
  BY <1>1, <1>2, <1>3, <1>4, <1>5 DEF Handle

LEMMA TimerAnswers ==
  ASSUME AInv, UNCHANGED pageVars, NEW r \in Reqs, TimerFires(r)
  PROVE  OneConnect' /\ ServerOpen' /\ Answers'
<1>0. /\ TInv /\ OneConnect /\ ServerOpen /\ Answers
      /\ connects' = connects
      /\ Fresh => Fresh'
      /\ UNCHANGED <<sock, inbox, outbox>>
      /\ SendData(r) \/ UNCHANGED server
  BY DEF AInv, pageVars, queueVars, historyVars, Fresh, IdsOwn, Made,
         TimerFires
<1>1. SocksKept
  BY <1>0 DEF SocksKept, TInv, WorkerTypes
<1>2. OneConnect'
  BY <1>0 DEF OneConnect
<1>3. ServerOpen'
  BY <1>0, SentOpen DEF ServerOpen
<1>4. Answers'
  BY <1>0, <1>1, AnswersKept
<1>. QED
  BY <1>2, <1>3, <1>4

\* The websocket that answers is the only one, so none has ended.
LEMMA OpenNotDone ==
  ASSUME OneConnect, connects <= 1, NEW s \in Sockets, sock[s] = "open"
  PROVE  ~Done
<1>. SUFFICES ASSUME NEW q \in Sockets, sock[q] = "closed" PROVE FALSE
  BY DEF Done
<1>1. s = q
  BY DEF OneConnect
<1>. QED
  BY <1>1

LEMMA SocketAnswers ==
  ASSUME AInv, UNCHANGED pageVars, NEW s \in Sockets,
         \/ PostOpen(s) \/ TimeIsUp(s) \/ OnOpen(s) \/ OnClose(s)
         \/ \E r \in Reqs : OnMessage(s, r)
  PROVE  OneConnect' /\ ServerOpen' /\ Answers'
<1>0. /\ TInv /\ OneConnect /\ ServerOpen /\ Answers
      /\ connects' = connects
      /\ Fresh => Fresh'
  BY DEF AInv, pageVars, queueVars, historyVars, Fresh, IdsOwn, Made
<1>a. SocksKept /\ UNCHANGED inbox => OneConnect'
  <2>. SUFFICES ASSUME SocksKept, UNCHANGED inbox PROVE OneConnect'
    OBVIOUS
  <2>1. Len(inbox) \in Nat
    BY <1>0 DEF TInv, InboxMade
  <2>2. \A i \in 1..Len(inbox') :
          inbox'[i][1] = "connect"
            => i + 0 \in 1..Len(inbox) /\ inbox[i + 0][1] = "connect"
    BY <2>1
  <2>. QED
    BY <1>0, <2>2, OneConnectKept
<1>b. UNCHANGED sock => SocksKept
  BY <1>0 DEF SocksKept, TInv, WorkerTypes
<1>1. CASE PostOpen(s)
  BY <1>0, <1>1, <1>a, <1>b, AnswersKept DEF PostOpen, connVars, ServerOpen
<1>2. CASE TimeIsUp(s)
  <2>1. CASE ws # Null /\ sock' = Closed(ws) /\ Post("timeout", 0)
    <3>1. ws \in Sockets
      BY <1>0, <2>1 DEF TInv, WorkerTypes
    <3>2. SocksKept /\ ServerOpen'
      BY <1>0, <1>2, <2>1, <3>1, ClosedKept DEF TimeIsUp
    <3>. QED
      BY <1>0, <1>2, <1>a, <2>1, <3>2, AnswersKept DEF TimeIsUp
  <2>2. CASE UNCHANGED <<sock, outbox>>
    BY <1>0, <1>2, <1>a, <1>b, <2>2, AnswersKept DEF TimeIsUp, ServerOpen
  <2>. QED
    BY <1>2, <2>1, <2>2 DEF TimeIsUp
<1>3. CASE OnOpen(s)
  <2>1. SocksKept
    BY <1>0, <1>3 DEF OnOpen, SocksKept, TInv, WorkerTypes
  <2>2. ServerOpen'
    BY <1>0, <1>3 DEF OnOpen, ServerOpen, TInv, WorkerTypes, ServerMade
  <2>. QED
    BY <1>0, <1>3, <1>a, <2>1, <2>2, AnswersKept DEF OnOpen
<1>4. CASE OnClose(s)
  <2>1. SocksKept /\ Done'
    BY <1>0, <1>4 DEF OnClose, SocksKept, Done, TInv, WorkerTypes
  <2>2. ServerOpen'
    BY <1>0, <1>4 DEF OnClose, ServerOpen, TInv, WorkerTypes, ServerMade
  <2>3. OneConnect'
    BY <1>4, <1>a, <2>1 DEF OnClose
  <2>4. ASSUME connects <= 1
        PROVE  EndsLast(outbox') /\ (NoData(outbox) => NoData(outbox'))
    <3>1. outbox \in Seq(Report) /\ EndsLast(outbox)
      BY <1>0, <2>4 DEF TInv, OutboxMade, Answers
    <3>2. CASE Post("onclose", 0)
      BY <3>1, <3>2, ReportAppended DEF Post
    <3>3. CASE outbox' = Append(Append(outbox, <<"onerror", 0>>),
                                <<"onclose", 0>>)
      <4>. DEFINE out == Append(outbox, <<"onerror", 0>>)
      <4>1. /\ out \in Seq(Report) /\ EndsLast(out)
            /\ NoData(outbox) => NoData(out)
        BY <3>1, ReportAppended
      <4>2. outbox' = Append(out, <<"onclose", 0>>)
        BY <3>3
      <4>. HIDE DEF out
      <4>. QED
        BY <4>1, <4>2, ReportAppended
    <3>. QED
      BY <1>4, <3>2, <3>3 DEF OnClose
  <2>5. Answers'
    BY <1>0, <2>1, <2>4 DEF Answers, EndsDone
  <2>. QED
    BY <2>2, <2>3, <2>5
<1>5. ASSUME NEW r \in Reqs, OnMessage(s, r)
      PROVE  OneConnect' /\ ServerOpen' /\ Answers'
  <2>1. UNCHANGED <<sock, inbox>> /\ sock[s] = "open"
    BY <1>5 DEF OnMessage
  <2>2. OneConnect'
    BY <1>a, <1>b, <2>1
  <2>3. ServerOpen'
    BY <1>0, <1>5 DEF OnMessage, ServerOpen
  <2>4. ASSUME connects <= 1
        PROVE  EndsLast(outbox') /\ EndsDone' /\ Fresh'
    <3>1. ~Done
      BY <1>0, <2>1, <2>4, OpenNotDone
    <3>2. Fresh'
      BY <1>0, <2>4, <3>1 DEF Answers
    <3>3. \A i \in 1..Len(outbox) : outbox[i][1] \notin Ends
      BY <1>0, <2>4, <3>1 DEF Answers, EndsDone
    <3>4. outbox' = Append(outbox, <<"data", r>>)
      BY <1>5 DEF OnMessage, Post
    <3>5. outbox \in Seq(Report) /\ <<"data", r>> \in Report
      BY <1>0, MaxSendsAssumption DEF TInv, OutboxMade, Report, Reqs
    <3>6. /\ Len(outbox') = Len(outbox) + 1
          /\ Len(outbox) \in Nat
          /\ \A i \in 1..(Len(outbox) + 1) :
               outbox'[i] = IF i = Len(outbox) + 1 THEN <<"data", r>>
                            ELSE outbox[i]
      BY <3>4, <3>5, AppendIndex
    <3>7. \A i \in 1..Len(outbox') : outbox'[i][1] \notin Ends
      BY <3>3, <3>6 DEF Ends
    <3>. QED
      BY <3>2, <3>7 DEF EndsLast, EndsDone
  <2>5. Answers'
    BY <1>0, <2>4 DEF Answers
  <2>. QED
    BY <2>2, <2>3, <2>5
<1>. QED
  BY <1>1, <1>2, <1>3, <1>4, <1>5

LEMMA ReadAnswers ==
  ASSUME AInv, PageReads
  PROVE  OneConnect' /\ ServerOpen' /\ Answers'
<1>0. TInv /\ OneConnect /\ ServerOpen /\ Answers
  BY DEF AInv
<1>a. ASSUME NEW kinds, Told(kinds)
      PROVE  /\ connects' = connects /\ sends' = sends /\ idOf' = idOf
             /\ UNCHANGED <<sock, server>>
             /\ SocksKept /\ ServerOpen' /\ (Done' <=> Done)
             /\ Len(outbox) \in Nat \ {0}
             /\ \A i \in 1..Len(outbox') :
                  i + 1 \in 1..Len(outbox) /\ outbox'[i] = outbox[i + 1]
             /\ outbox[1][1] \in kinds /\ Head(outbox) = outbox[1]
  <2>1. /\ connects' = connects /\ sends' = sends /\ idOf' = idOf
        /\ UNCHANGED <<sock, server>>
    BY <1>a DEF Told, netVars
  <2>2. SocksKept /\ ServerOpen' /\ (Done' <=> Done)
    BY <1>0, <2>1 DEF SocksKept, ServerOpen, Done, TInv, WorkerTypes
  <2>. QED
    BY <1>0, <1>a, <2>1, <2>2, ReadOutbox
<1>b. ASSUME NEW kinds, Told(kinds), connects <= 1
      PROVE  /\ EndsLast(outbox') /\ EndsDone'
             /\ NoData(outbox) => NoData(outbox')
  <2>1. /\ Len(outbox) \in Nat \ {0}
        /\ \A i \in 1..Len(outbox') :
             i + 1 \in 1..Len(outbox) /\ outbox'[i] = outbox[i + 1]
        /\ Done' <=> Done
    BY <1>a, <1>b
  <2>2. EndsLast(outbox) /\ EndsDone
    BY <1>0, <1>b DEF Answers
  <2>3. ASSUME NEW i \in 1..Len(outbox'), NEW j \in 1..Len(outbox'),
               outbox'[i][1] \in Ends, outbox'[j][1] = "data"
        PROVE  j < i
    <3>1. j + 1 < i + 1
      BY <2>1, <2>2, <2>3 DEF EndsLast
    <3>. QED
      BY <3>1
  <2>4. EndsDone'
    BY <2>1, <2>2 DEF EndsDone
  <2>. QED
    BY <2>1, <2>3, <2>4 DEF EndsLast, NoData
<1>c. ASSUME SocksKept, connects' = connects, UNCHANGED inbox
      PROVE  OneConnect'
  <2>1. Len(inbox) \in Nat
    BY <1>0 DEF TInv, InboxMade
  <2>2. \A i \in 1..Len(inbox') :
          inbox'[i][1] = "connect"
            => i + 0 \in 1..Len(inbox) /\ inbox[i + 0][1] = "connect"
    BY <1>c, <2>1
  <2>. QED
    BY <1>0, <1>c, <2>2, OneConnectKept
<1>1. ASSUME NEW kinds, Told(kinds), UNCHANGED <<inbox, queueVars>>
      PROVE  OneConnect' /\ ServerOpen' /\ Answers'
  <2>1. Fresh => Fresh'
    BY <1>1, <1>a DEF queueVars, Fresh, IdsOwn, Made
  <2>2. /\ connects' = connects /\ SocksKept /\ ServerOpen'
        /\ Done' <=> Done
    BY <1>1, <1>a
  <2>3. OneConnect'
    BY <1>1, <1>c, <2>2
  <2>4. Answers'
    BY <1>0, <1>1, <1>b, <2>1, <2>2 DEF Answers
  <2>. QED
    BY <2>2, <2>3, <2>4
<1>2. CASE OnOpened
  BY <1>1, <1>2 DEF OnOpened
<1>3. CASE OnTimeout
  BY <1>1, <1>3 DEF OnTimeout
<1>4. CASE OnEnded
  <2>1. Told(Ends)
    BY <1>4 DEF OnEnded, Ends
  <2>2. /\ connects' = connects /\ SocksKept /\ ServerOpen'
        /\ Done' <=> Done
        /\ Len(outbox) \in Nat \ {0}
        /\ \A i \in 1..Len(outbox') :
             i + 1 \in 1..Len(outbox) /\ outbox'[i] = outbox[i + 1]
        /\ outbox[1][1] \in Ends
    BY <1>a, <2>1
  <2>3. OneConnect'
    <3>1. inbox' = Append(inbox, <<"reset", 0>>)
      BY <1>4 DEF OnEnded, Ask
    <3>2. inbox \in Seq(Message) /\ <<"reset", 0>> \in Message
      BY <1>0, MaxSendsAssumption DEF TInv, InboxMade, Message
    <3>3. /\ Len(inbox') = Len(inbox) + 1
          /\ Len(inbox) \in Nat
          /\ \A i \in 1..(Len(inbox) + 1) :
               inbox'[i] = IF i = Len(inbox) + 1 THEN <<"reset", 0>>
                           ELSE inbox[i]
      BY <3>1, <3>2, AppendIndex
    <3>4. \A i \in 1..Len(inbox') :
            inbox'[i][1] = "connect"
              => i + 0 \in 1..Len(inbox) /\ inbox[i + 0][1] = "connect"
      BY <3>3
    <3>. QED
      BY <1>0, <2>2, <3>4, OneConnectKept
  <2>4. ASSUME connects <= 1
        PROVE  Done' /\ NoData(outbox')
    <3>1. 1 \in 1..Len(outbox)
      BY <2>2
    <3>2. Done
      BY <1>0, <2>2, <2>4, <3>1 DEF Answers, EndsDone
    <3>3. ASSUME NEW i \in 1..Len(outbox'), outbox'[i][1] = "data"
          PROVE  FALSE
      <4>1. i + 1 < 1
        BY <1>0, <2>2, <2>4, <3>1, <3>3 DEF Answers, EndsLast
      <4>. QED
        BY <4>1
    <3>. QED
      BY <2>2, <3>2, <3>3 DEF NoData
  <2>5. Answers'
    BY <1>b, <2>1, <2>2, <2>4 DEF Answers
  <2>. QED
    BY <2>2, <2>3, <2>5
<1>5. CASE HandleMessage
  <2>1. Told({"data"})
    BY <1>5 DEF HandleMessage
  <2>2. /\ connects' = connects /\ sends' = sends /\ idOf' = idOf
        /\ SocksKept /\ ServerOpen' /\ (Done' <=> Done)
    BY <1>a, <2>1
  <2>3. OneConnect'
    BY <1>5, <1>c, <2>2 DEF HandleMessage
  <2>4. Fresh => Fresh'
    <3>. DEFINE id == idOf[Head(outbox)[2]]
    <3>1. \/ socketQueue' = socketQueue
          \/ socketQueue' = [socketQueue EXCEPT ![id] = 0]
      BY <1>5 DEF HandleMessage
    <3>2. \A i \in Reqs : socketQueue'[i] \in {socketQueue[i], 0}
      <4>. HIDE DEF id
      <4>. QED
        BY <1>0, <3>1 DEF TInv, PageTypes
    <3>3. socketQueueId' = socketQueueId
      BY <1>5 DEF HandleMessage
    <3>. QED
      BY <2>2, <3>2, <3>3 DEF Fresh, IdsOwn, Made
  <2>5. Answers'
    BY <1>0, <1>b, <2>1, <2>2, <2>4 DEF Answers
  <2>. QED
    BY <2>2, <2>3, <2>5
<1>. QED
  BY <1>2, <1>3, <1>4, <1>5 DEF PageReads

LEMMA AskAnswers ==
  ASSUME AInv,
         \/ Connect
         \/ \E repeated \in BOOLEAN : Send(repeated)
         \/ \E r \in Reqs : ClearInterval(r)
  PROVE  OneConnect' /\ ServerOpen' /\ Answers'
<1>0. TInv /\ OneConnect /\ ServerOpen /\ Answers
  BY DEF AInv
<1>a. ASSUME NEW kind \in {"connect", "stop", "send", "interval"},
             NEW r \in 0..MaxSends, Ask(kind, r)
      PROVE  /\ Len(inbox') = Len(inbox) + 1
             /\ Len(inbox) \in Nat
             /\ \A i \in 1..(Len(inbox) + 1) :
                  inbox'[i] = IF i = Len(inbox) + 1 THEN <<kind, r>>
                              ELSE inbox[i]
  <2>1. inbox' = Append(inbox, <<kind, r>>)
    BY <1>a DEF Ask
  <2>2. inbox \in Seq(Message) /\ <<kind, r>> \in Message
    BY <1>0 DEF TInv, InboxMade, Message
  <2>. QED
    BY <2>1, <2>2, AppendIndex
<1>b. ASSUME NEW kind \in {"stop", "send", "interval"},
             NEW r \in 0..MaxSends, Ask(kind, r),
             UNCHANGED <<sock, server, outbox, connects>>,
             Fresh => Fresh'
      PROVE  OneConnect' /\ ServerOpen' /\ Answers'
  <2>1. SocksKept
    BY <1>0, <1>b DEF SocksKept, TInv, WorkerTypes
  <2>2. \A i \in 1..Len(inbox') :
          inbox'[i][1] = "connect"
            => i + 0 \in 1..Len(inbox) /\ inbox[i + 0][1] = "connect"
    <3>1. /\ Len(inbox') = Len(inbox) + 1
          /\ Len(inbox) \in Nat
          /\ \A i \in 1..(Len(inbox) + 1) :
               inbox'[i] = IF i = Len(inbox) + 1 THEN <<kind, r>>
                           ELSE inbox[i]
      BY <1>a, <1>b
    <3>2. <<kind, r>>[1] # "connect"
      BY <1>b
    <3>. QED
      BY <3>1, <3>2
  <2>3. OneConnect'
    BY <1>0, <1>b, <2>1, <2>2, OneConnectKept
  <2>4. Answers'
    BY <1>0, <1>b, <2>1, AnswersKept
  <2>. QED
    BY <1>0, <1>b, <2>3, <2>4 DEF ServerOpen
<1>1. CASE Connect
  <2>1. /\ UNCHANGED <<sock, server, outbox>> /\ connects' = connects + 1
        /\ connects \in Nat
        /\ Fresh => Fresh'
    BY <1>0, <1>1, MaxConnectsAssumption
       DEF Connect, netVars, queueVars, TInv, PageTypes, Fresh, IdsOwn, Made
  <2>2. SocksKept
    BY <1>0, <2>1 DEF SocksKept, TInv, WorkerTypes
  <2>3. Answers'
    BY <1>0, <2>1, <2>2, AnswersKept
  <2>4. ASSUME connects' <= 1
        PROVE  /\ connects' = 1
               /\ \A s \in Sockets : sock'[s] = "none"
               /\ \A i \in 1..Len(inbox') :
                    inbox'[i][1] = "connect" => i = Len(inbox) + 1
    <3>1. connects = 0
      BY <2>1, <2>4
    <3>2. \A s \in Sockets : sock[s] = "none"
      BY <1>0, <3>1 DEF OneConnect
    <3>3. \A i \in 1..Len(inbox) : inbox[i][1] # "connect"
      BY <1>0, <3>1 DEF OneConnect
    <3>4. Ask("connect", 0) /\ 0 \in 0..MaxSends
      BY <1>1, MaxSendsAssumption DEF Connect
    <3>5. \A i \in 1..Len(inbox') :
            inbox'[i][1] = "connect" => i = Len(inbox) + 1
      <4>1. /\ Len(inbox') = Len(inbox) + 1
            /\ Len(inbox) \in Nat
            /\ \A i \in 1..(Len(inbox) + 1) :
                 inbox'[i] = IF i = Len(inbox) + 1 THEN <<"connect", 0>>
                             ELSE inbox[i]
        BY <1>a, <3>4
      <4>. QED
        BY <3>3, <4>1
    <3>. QED
      BY <2>1, <3>1, <3>2, <3>5
  <2>5. OneConnect'
    BY <2>4 DEF OneConnect
  <2>. QED
    BY <1>0, <2>1, <2>3, <2>5 DEF ServerOpen
<1>2. ASSUME NEW repeated \in BOOLEAN, Send(repeated)
      PROVE  OneConnect' /\ ServerOpen' /\ Answers'
  <2>1. /\ sends \in Nat /\ sends' = sends + 1 /\ sends' \in Reqs
        /\ Made' = Made \cup {sends'}
    BY <1>0, <1>2, MaxSendsAssumption DEF Send, TInv, PageTypes, Made, Reqs
  <2>2. Fresh => Fresh'
    <3>. SUFFICES ASSUME Fresh PROVE Fresh'
      OBVIOUS
    <3>1. socketQueueId' = sends'
      BY <1>2, <2>1 DEF Send, NextId, Fresh
    <3>2. /\ idOf' = [idOf EXCEPT ![sends'] = sends']
          /\ socketQueue' = [socketQueue EXCEPT ![sends'] = sends']
      BY <1>2, <3>1 DEF Send
    <3>3. idOf'[sends'] = sends' /\ \A r \in Made : idOf'[r] = r
      BY <1>0, <2>1, <3>2 DEF TInv, IdsMade, Fresh, IdsOwn, Made, Reqs
    <3>4. \A i \in Reqs : socketQueue'[i] \in {0, i}
      BY <1>0, <3>2 DEF TInv, PageTypes, Fresh
    <3>. QED
      BY <2>1, <3>1, <3>3, <3>4 DEF Fresh, IdsOwn
  <2>. DEFINE kind == IF repeated THEN "interval" ELSE "send"
  <2>3. Ask(kind, sends') /\ kind \in {"send", "interval"}
    BY <1>2 DEF Send
  <2>4. sends' \in 0..MaxSends
    BY <2>1 DEF Reqs
  <2>5. UNCHANGED <<sock, server, outbox, connects>>
    BY <1>2 DEF Send, netVars
  <2>. HIDE DEF kind
  <2>. QED
    BY <1>b, <2>2, <2>3, <2>4, <2>5
<1>3. ASSUME NEW r \in Reqs, ClearInterval(r)
      PROVE  OneConnect' /\ ServerOpen' /\ Answers'
  <2>1. /\ UNCHANGED <<sock, server, outbox, connects>>
        /\ Fresh => Fresh'
    BY <1>3 DEF ClearInterval, netVars, pageVars, queueVars, historyVars,
                Fresh, IdsOwn, Made
  <2>2. Ask("stop", r) /\ r \in 0..MaxSends
    BY <1>3, MaxSendsAssumption DEF ClearInterval, Reqs
  <2>. QED
    BY <1>b, <2>1, <2>2
<1>. QED
  BY <1>1, <1>2, <1>3

LEMMA NextAnswers == AInv /\ [Next]_vars => AInv'
<1>. SUFFICES ASSUME AInv, [Next]_vars PROVE AInv'
  OBVIOUS
<1>0. TInv'
  BY NextType DEF AInv
<1>1. CASE WorkerStep
  BY <1>0, <1>1, HandleAnswers, TimerAnswers, SocketAnswers
     DEF WorkerStep, WorkerNext, AInv
<1>2. CASE PageReads
  BY <1>0, <1>2, ReadAnswers DEF AInv
<1>3. CASE \/ Connect
           \/ \E repeated \in BOOLEAN : Send(repeated)
           \/ \E r \in Reqs : ClearInterval(r)
  BY <1>0, <1>3, AskAnswers DEF AInv
<1>4. CASE UNCHANGED vars
  BY <1>0, <1>4
     DEF vars, workerVars, netVars, pageVars, queueVars, historyVars, AInv,
         OneConnect, ServerOpen, Answers, EndsDone, Done, Fresh, IdsOwn, Made
<1>. QED
  BY <1>1, <1>2, <1>3, <1>4 DEF Next

LEMMA InitAnswers == Init => AInv
<1>. SUFFICES ASSUME Init PROVE AInv
  OBVIOUS
<1>1. TInv
  BY InitType
<1>2. OneConnect /\ ServerOpen
  BY DEF Init, WorkerInit, OneConnect, ServerOpen
<1>3. Fresh
  BY DEF Init, Fresh, IdsOwn, Made
<1>4. EndsLast(outbox) /\ EndsDone
  BY DEF Init, WorkerInit, EndsLast, EndsDone
<1>. QED
  BY <1>1, <1>2, <1>3, <1>4 DEF AInv, Answers

LEMMA Answered == Spec => []AInv
BY InitAnswers, NextAnswers, PTL DEF Spec

\* Until the page connects again, the callback an answer meets under its id
\* is that of its own request, or is gone.
THEOREM OwnAnswer == Spec => []AnswerIsOwn
<1>1. AInv => AnswerIsOwn
  <2>. SUFFICES ASSUME AInv, connects <= 1, outbox # << >>,
                       Head(outbox)[1] = "data"
                PROVE  LET r == Head(outbox)[2] IN
                         socketQueue[idOf[r]] \in {0, r}
    BY DEF AnswerIsOwn
  <2>1. outbox \in Seq(Report)
    BY DEF AInv, TInv, OutboxMade
  <2>2. 1 \in 1..Len(outbox) /\ Head(outbox) = outbox[1]
    BY <2>1, TailIndex
  <2>3. Head(outbox)[2] \in Made
    BY <2>2 DEF AInv, TInv, OutboxMade
  <2>4. Head(outbox)[2] \in Reqs
    BY <2>3, MaxSendsAssumption DEF AInv, TInv, PageTypes, Made, Reqs
  <2>5. Fresh
    BY <2>2 DEF AInv, Answers, NoData
  <2>. QED
    BY <2>3, <2>4, <2>5 DEF Fresh, IdsOwn
<1>. QED
  BY <1>1, Answered, PTL
-----------------------------------------------------------------------------
(* A stopped request is silent *)

Calls == {"send", "interval"}

\* The worker is told to stop a request after it was told to send it.
StopsLast ==
  \A i, j \in 1..Len(inbox) :
    inbox[i][1] = "stop" /\ inbox[j][1] \in Calls /\ inbox[i][2] = inbox[j][2]
      => j < i

StoppedNotCalled ==
  \A j \in 1..Len(inbox) : inbox[j][1] \in Calls => inbox[j][2] \notin stopped

StoppedMade ==
  /\ stopped \subseteq Made
  /\ IdsOwn => stopped \cap intervals = {}

SInv == AInv /\ StopsLast /\ StoppedNotCalled /\ StoppedMade

LEMMA InboxReadSilent ==
  ASSUME SInv, NEW kind, Received(kind)
  PROVE  /\ StopsLast'
         /\ \A j \in 1..Len(inbox') : inbox'[j][1] \in Calls
              => /\ inbox'[j][2] \notin stopped
                 /\ kind = "stop" => inbox'[j][2] # Head(inbox)[2]
<1>1. TInv
  BY DEF SInv, AInv
<1>2. /\ Len(inbox) \in Nat \ {0} /\ inbox[1][1] = kind
      /\ Head(inbox) = inbox[1]
      /\ \A i \in 1..Len(inbox') :
           i + 1 \in 1..Len(inbox) /\ inbox'[i] = inbox[i + 1]
  BY <1>1, ReadInbox
<1>3. ASSUME NEW i \in 1..Len(inbox'), NEW j \in 1..Len(inbox'),
             inbox'[i][1] = "stop", inbox'[j][1] \in Calls,
             inbox'[i][2] = inbox'[j][2]
      PROVE  j < i
  <2>1. j + 1 < i + 1
    BY <1>2, <1>3 DEF SInv, StopsLast
  <2>. QED
    BY <2>1
<1>4. ASSUME NEW j \in 1..Len(inbox'), inbox'[j][1] \in Calls
      PROVE  /\ inbox'[j][2] \notin stopped
             /\ kind = "stop" => inbox'[j][2] # Head(inbox)[2]
  <2>1. j + 1 \in 1..Len(inbox) /\ inbox'[j] = inbox[j + 1]
    BY <1>2
  <2>2. inbox'[j][2] \notin stopped
    BY <1>4, <2>1 DEF SInv, StoppedNotCalled
  <2>3. ASSUME kind = "stop", inbox'[j][2] = Head(inbox)[2] PROVE FALSE
    <3>1. 1 \in 1..Len(inbox)
      BY <1>2
    <3>2. j + 1 < 1
      BY <1>2, <1>4, <2>1, <2>3, <3>1 DEF SInv, StopsLast
    <3>. QED
      BY <3>2
  <2>. QED
    BY <2>2, <2>3
<1>. QED
  BY <1>3, <1>4 DEF StopsLast

LEMMA HandleSilent ==
  ASSUME SInv, Handle, UNCHANGED pageVars
  PROVE  StopsLast' /\ StoppedNotCalled' /\ StoppedMade'
<1>0. TInv /\ Made' = Made /\ (IdsOwn' <=> IdsOwn) /\ idOf' = idOf
  BY DEF SInv, AInv, pageVars, historyVars, IdsOwn, Made
<1>a. ASSUME NEW kind, Received(kind), UNCHANGED stopped
      PROVE  StopsLast' /\ StoppedNotCalled'
  BY <1>a, InboxReadSilent DEF StoppedNotCalled
<1>b. intervals' \subseteq intervals /\ UNCHANGED stopped => StoppedMade'
  BY <1>0 DEF SInv, StoppedMade
<1>1. CASE HandleConnect
  BY <1>1, <1>a, <1>b DEF HandleConnect
<1>2. CASE HandleReset
  BY <1>2, <1>a, <1>b DEF HandleReset
<1>3. CASE HandleStop
  <2>. DEFINE r == Head(inbox)[2]
  <2>1. Received("stop") /\ stopped' = stopped \cup {r}
        /\ intervals' = intervals \ {idOf[r]}
    BY <1>3 DEF HandleStop
  <2>2. r \in Made
    BY <1>0, <2>1, ReadInbox
  <2>3. StopsLast'
    BY <2>1, InboxReadSilent
  <2>4. \A j \in 1..Len(inbox') : inbox'[j][1] \in Calls
          => inbox'[j][2] \notin stopped /\ inbox'[j][2] # r
    BY <2>1, InboxReadSilent
  <2>5. StoppedNotCalled'
    BY <2>1, <2>4 DEF StoppedNotCalled
  <2>6. StoppedMade'
    <3>1. stopped' \subseteq Made'
      BY <1>0, <2>1, <2>2 DEF SInv, StoppedMade
    <3>2. ASSUME IdsOwn PROVE stopped' \cap intervals' = {}
      <4>1. idOf[r] = r
        BY <2>2, <3>2 DEF IdsOwn
      <4>2. stopped \cap intervals = {}
        BY <3>2 DEF SInv, StoppedMade
      <4>. HIDE DEF r
      <4>. QED
        BY <2>1, <4>1, <4>2
    <3>. QED
      BY <1>0, <3>1, <3>2 DEF StoppedMade
  <2>. QED
    BY <2>3, <2>5, <2>6
<1>4. CASE HandleSend
  BY <1>4, <1>a, <1>b DEF HandleSend, connVars
<1>5. CASE HandleInterval
  <2>. DEFINE r == Head(inbox)[2]
  <2>1. /\ Received("interval") /\ UNCHANGED stopped
        /\ intervals' = intervals \cup {idOf[r]}
    BY <1>5 DEF HandleInterval
  <2>2. r \in Made /\ 1 \in 1..Len(inbox) /\ inbox[1][1] = "interval"
        /\ Head(inbox) = inbox[1]
    BY <1>0, <2>1, ReadInbox
  <2>3. r \notin stopped
    BY <2>2 DEF SInv, StoppedNotCalled, Calls
  <2>4. StoppedMade'
    <3>1. stopped' \subseteq Made'
      BY <1>0, <2>1 DEF SInv, StoppedMade
    <3>2. ASSUME IdsOwn PROVE stopped' \cap intervals' = {}
      <4>1. idOf[r] = r
        BY <2>2, <3>2 DEF IdsOwn
      <4>2. stopped \cap intervals = {}
        BY <3>2 DEF SInv, StoppedMade
      <4>. HIDE DEF r
      <4>. QED
        BY <2>1, <2>3, <4>1, <4>2
    <3>. QED
      BY <1>0, <3>1, <3>2 DEF StoppedMade
  <2>. QED
    BY <1>a, <2>1, <2>4
<1>. QED
  BY <1>1, <1>2, <1>3, <1>4, <1>5 DEF Handle

LEMMA OtherSilent ==
  ASSUME SInv, UNCHANGED <<inbox, stopped, intervals, sends, idOf>>
  PROVE  StopsLast' /\ StoppedNotCalled' /\ StoppedMade'
BY DEF SInv, StopsLast, StoppedNotCalled, StoppedMade, IdsOwn, Made

\* A message the page posts; a request is new, or it is only stopped.
LEMMA AskSilent ==
  ASSUME SInv, UNCHANGED <<stopped, intervals>>, IdsOwn' => IdsOwn,
         Made \subseteq Made',
         NEW kind \in {"connect", "reset", "stop", "send", "interval"},
         NEW r \in 0..MaxSends, Ask(kind, r),
         kind \in Calls => r \notin Made
  PROVE  StopsLast' /\ StoppedNotCalled' /\ StoppedMade'
<1>1. inbox \in Seq(Message) /\ <<kind, r>> \in Message
  BY DEF SInv, AInv, TInv, InboxMade, Message
<1>2. inbox' = Append(inbox, <<kind, r>>)
  BY DEF Ask
<1>3. /\ Len(inbox') = Len(inbox) + 1
      /\ Len(inbox) \in Nat
      /\ \A i \in 1..(Len(inbox) + 1) :
           inbox'[i] = IF i = Len(inbox) + 1 THEN <<kind, r>> ELSE inbox[i]
  BY <1>1, <1>2, AppendIndex
<1>4. \A i \in 1..Len(inbox') :
        \/ i \in 1..Len(inbox) /\ inbox'[i] = inbox[i]
        \/ i = Len(inbox) + 1 /\ inbox'[i] = <<kind, r>>
  BY <1>3
<1>5. \A i \in 1..Len(inbox) : inbox[i][1] = "stop" => inbox[i][2] \in Made
  BY DEF SInv, AInv, TInv, InboxMade
<1>6. ASSUME NEW i \in 1..Len(inbox'), NEW j \in 1..Len(inbox'),
             inbox'[i][1] = "stop", inbox'[j][1] \in Calls,
             inbox'[i][2] = inbox'[j][2]
      PROVE  j < i
  <2>1. CASE i \in 1..Len(inbox) /\ inbox'[i] = inbox[i]
    <3>1. CASE j \in 1..Len(inbox) /\ inbox'[j] = inbox[j]
      BY <1>6, <2>1, <3>1 DEF SInv, StopsLast
    <3>2. CASE inbox'[j] = <<kind, r>>
      <4>1. r \in Made /\ kind \in Calls
        BY <1>5, <1>6, <2>1, <3>2
      <4>. QED
        BY <4>1
    <3>. QED
      BY <1>4, <3>1, <3>2
  <2>2. CASE i = Len(inbox) + 1 /\ inbox'[i] = <<kind, r>>
    <3>1. kind = "stop"
      BY <1>6, <2>2
    <3>2. j \in 1..Len(inbox)
      BY <1>4, <1>6, <3>1 DEF Calls
    <3>. QED
      BY <1>3, <2>2, <3>2
  <2>. QED
    BY <1>4, <2>1, <2>2
<1>7. ASSUME NEW j \in 1..Len(inbox'), inbox'[j][1] \in Calls
      PROVE  inbox'[j][2] \notin stopped'
  <2>1. CASE j \in 1..Len(inbox) /\ inbox'[j] = inbox[j]
    BY <1>7, <2>1 DEF SInv, StoppedNotCalled
  <2>2. CASE inbox'[j] = <<kind, r>>
    BY <1>7, <2>2 DEF SInv, StoppedMade
  <2>. QED
    BY <1>4, <2>1, <2>2
<1>. QED
  BY <1>6, <1>7 DEF StopsLast, StoppedNotCalled, SInv, StoppedMade

LEMMA NextSilent == SInv /\ [Next]_vars => SInv'
<1>. SUFFICES ASSUME SInv, [Next]_vars
              PROVE  StopsLast' /\ StoppedNotCalled' /\ StoppedMade'
  BY NextAnswers DEF SInv
<1>0. TInv
  BY DEF SInv, AInv
<1>1. CASE WorkerStep
  <2>1. CASE Handle
    BY <1>1, <2>1, HandleSilent DEF WorkerStep
  <2>2. CASE UNCHANGED <<inbox, stopped, intervals>>
    BY <1>1, <2>2, OtherSilent DEF WorkerStep, pageVars, historyVars
  <2>3. WorkerNext => Handle \/ UNCHANGED <<inbox, stopped, intervals>>
    BY DEF WorkerNext, TimerFires, PostOpen, TimeIsUp, OnOpen, OnClose,
           OnMessage, connVars
  <2>. QED
    BY <1>1, <2>1, <2>2, <2>3 DEF WorkerStep
<1>2. CASE PageReads
  <2>1. UNCHANGED <<stopped, intervals, sends, idOf>>
    BY <1>2 DEF PageReads, OnOpened, OnEnded, OnTimeout, HandleMessage, Told,
                connVars
  <2>2. UNCHANGED inbox \/ Ask("reset", 0)
    BY <1>2 DEF PageReads, OnOpened, OnEnded, OnTimeout, HandleMessage
  <2>3. CASE UNCHANGED inbox
    BY <2>1, <2>3, OtherSilent
  <2>4. CASE Ask("reset", 0)
    <3>1. 0 \in 0..MaxSends /\ "reset" \notin Calls
      BY MaxSendsAssumption DEF Calls
    <3>2. (IdsOwn' => IdsOwn) /\ Made \subseteq Made'
      BY <2>1 DEF IdsOwn, Made
    <3>. QED
      BY <2>1, <2>4, <3>1, <3>2, AskSilent
  <2>. QED
    BY <2>2, <2>3, <2>4
<1>3. CASE Connect
  <2>1. UNCHANGED <<stopped, intervals, sends, idOf>> /\ Ask("connect", 0)
    BY <1>3 DEF Connect, connVars
  <2>2. 0 \in 0..MaxSends /\ "connect" \notin Calls
    BY MaxSendsAssumption DEF Calls
  <2>3. (IdsOwn' => IdsOwn) /\ Made \subseteq Made'
    BY <2>1 DEF IdsOwn, Made
  <2>. QED
    BY <2>1, <2>2, <2>3, AskSilent
<1>4. ASSUME NEW repeated \in BOOLEAN, Send(repeated)
      PROVE  StopsLast' /\ StoppedNotCalled' /\ StoppedMade'
  <2>. DEFINE kind == IF repeated THEN "interval" ELSE "send"
  <2>1. /\ UNCHANGED <<stopped, intervals>>
        /\ Ask(kind, sends') /\ kind \in {"send", "interval"}
    BY <1>4 DEF Send, connVars
  <2>2. /\ sends' \in 0..MaxSends /\ sends' \notin Made
        /\ Made \subseteq Made'
    BY <1>0, <1>4, MaxSendsAssumption DEF Send, TInv, PageTypes, Made
  <2>3. \A r \in Made : idOf'[r] = idOf[r]
    BY <1>0, <1>4, <2>2 DEF Send, TInv, IdsMade
  <2>4. IdsOwn' => IdsOwn
    BY <2>2, <2>3 DEF IdsOwn
  <2>. HIDE DEF kind
  <2>. QED
    BY <2>1, <2>2, <2>4, AskSilent
<1>5. ASSUME NEW r \in Reqs, ClearInterval(r)
      PROVE  StopsLast' /\ StoppedNotCalled' /\ StoppedMade'
  <2>1. UNCHANGED <<stopped, intervals, sends, idOf>> /\ Ask("stop", r)
    BY <1>5 DEF ClearInterval, connVars, pageVars, historyVars
  <2>2. r \in 0..MaxSends /\ "stop" \notin Calls
    BY MaxSendsAssumption DEF Calls, Reqs
  <2>3. (IdsOwn' => IdsOwn) /\ Made \subseteq Made'
    BY <2>1 DEF IdsOwn, Made
  <2>. QED
    BY <2>1, <2>2, <2>3, AskSilent
<1>6. CASE UNCHANGED vars
  BY <1>6, OtherSilent
     DEF vars, workerVars, connVars, pageVars, historyVars
<1>. QED
  BY <1>1, <1>2, <1>3, <1>4, <1>5, <1>6 DEF Next

LEMMA InitSilent == Init => SInv
<1>. SUFFICES ASSUME Init PROVE SInv
  OBVIOUS
<1>1. inbox = << >> /\ stopped = {} /\ AInv
  BY InitAnswers DEF Init, WorkerInit
<1>. QED
  BY <1>1 DEF SInv, StopsLast, StoppedNotCalled, StoppedMade

\* Only an open websocket is sent to, while ids are the requests' own.
LEMMA SilentStep ==
  ASSUME SInv, [Next]_vars, connects <= 1
  PROVE  \A s \in Sockets, r \in stopped :
           <<s, r>> \in server' => <<s, r>> \in server
<1>0. TInv
  BY DEF SInv, AInv
<1>1. ASSUME WsOpen PROVE IdsOwn
  <2>1. ws \in Sockets /\ sock[ws] = "open"
    BY <1>0, <1>1 DEF WsOpen, TInv, WorkerTypes
  <2>2. ~Done
    BY <2>1, OpenNotDone DEF SInv, AInv
  <2>. QED
    BY <2>2 DEF SInv, AInv, Answers, Fresh
<1>2. ASSUME NEW q, SendData(q), IdsOwn => q \notin stopped
      PROVE  \A s \in Sockets, r \in stopped :
               <<s, r>> \in server' => <<s, r>> \in server
  BY <1>1, <1>2 DEF SendData
<1>3. CASE HandleSend \/ HandleInterval
  <2>1. PICK kind \in Calls : Received(kind)
    BY <1>3 DEF HandleSend, HandleInterval, Calls
  <2>2. /\ 1 \in 1..Len(inbox) /\ inbox[1][1] = kind
        /\ Head(inbox) = inbox[1]
    BY <1>0, <2>1, ReadInbox
  <2>3. Head(inbox)[2] \notin stopped
    BY <2>2 DEF SInv, StoppedNotCalled
  <2>4. SendData(Head(inbox)[2])
    BY <1>3 DEF HandleSend, HandleInterval
  <2>. QED
    BY <1>2, <2>3, <2>4
<1>4. ASSUME NEW q \in Reqs, TimerFires(q)
      PROVE  \A s \in Sockets, r \in stopped :
               <<s, r>> \in server' => <<s, r>> \in server
  <2>1. CASE UNCHANGED server
    BY <2>1
  <2>2. CASE idOf[q] \in intervals /\ SendData(q)
    <3>1. q \in Made
      BY <1>0, <1>4 DEF TimerFires, TInv, TimersMade
    <3>2. IdsOwn => q \notin stopped
      BY <2>2, <3>1 DEF IdsOwn, SInv, StoppedMade
    <3>. QED
      BY <1>2, <2>2, <3>2
  <2>. QED
    BY <1>4, <2>1, <2>2 DEF TimerFires
<1>5. CASE server' \subseteq server
  BY <1>5
<1>6. WorkerNext => \/ HandleSend \/ HandleInterval
                    \/ \E q \in Reqs : TimerFires(q)
                    \/ server' \subseteq server
  BY DEF WorkerNext, Handle, HandleConnect, HandleReset, HandleStop, PostOpen,
         TimeIsUp, OnOpen, OnClose, OnMessage, netVars
<1>7. Next \/ UNCHANGED vars => WorkerNext \/ server' \subseteq server
  BY DEF Next, WorkerStep, PageReads, OnOpened, OnEnded, OnTimeout,
         HandleMessage, Told, Connect, Send, ClearInterval, netVars, vars,
         workerVars
<1>. QED
  BY <1>3, <1>4, <1>5, <1>6, <1>7

\* Until the page connects again, nothing sends a repeated request once the
\* worker has handled its STOP INTERVAL: no timer, and no message behind it.
THEOREM Silence == Spec => StoppedIsSilent
<1>1. SInv /\ [Next]_vars =>
        [connects <= 1 => \A s \in Sockets, r \in stopped :
                            <<s, r>> \in server' => <<s, r>> \in server]_vars
  BY SilentStep
<1>. QED
  BY <1>1, InitSilent, NextSilent, PTL DEF Spec, StoppedIsSilent
=============================================================================
