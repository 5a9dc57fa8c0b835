--------------------- MODULE MCConnectionManager_Proofs ---------------------
(***************************************************************************)
(* Proofs about MCConnectionManager, for any number of websockets and      *)
(* entry stations: its types, and, when no two websockets have the same    *)
(* remote port, that it implements WebsocketSessions and disconnects no    *)
(* connection that works. With finitely many of them, a websocket is       *)
(* refused only while every entry station is taken.                        *)
(***************************************************************************)
EXTENDS MCConnectionManager, FiniteSetTheorems, TLAPS

LEMMA InitType == Init => TypeOK
BY NAssumption DEF Init, TypeOK, Owners, Codes

LEMMA OpenStepType ==
  ASSUME TypeOK, NEW o \in Owners, OpenStep(o)
  PROVE  TypeOK'
<1>. USE DEF TypeOK, Codes, wsVars, closeVars, esVars
<1>1. CASE GetMCConnection(o)
  BY <1>1 DEF GetMCConnection, OpenGoto
<1>2. CASE CloseExisting(o)
  BY <1>2 DEF CloseExisting, CloseWs, WsOpen, OpenGoto
<1>3. CASE InitMCConnection(o)
  BY <1>3 DEF InitMCConnection, OpenGoto, Opener
<1>4. CASE OpenFails(o)
  BY <1>4 DEF OpenFails, OpenGoto
<1>5. CASE TryStation(o)
  BY <1>5, NAssumption DEF TryStation, OpenGoto
<1>6. CASE NoStation(o)
  BY <1>6 DEF NoStation, OpenGoto
<1>7. CASE PutConnection(o)
  BY <1>7 DEF PutConnection, OpenGoto, SetMap, Keys
<1>8. CASE CloseFull(o)
  BY <1>8 DEF CloseFull, CloseWs, WsOpen, OpenGoto
<1>9. CASE BootDisconnect(o)
  BY <1>9 DEF BootDisconnect, OpenGoto
<1>10. CASE BootRemove(o)
  BY <1>10 DEF BootRemove, OpenGoto, SetMap, Without
<1>. QED
  BY <1>1, <1>2, <1>3, <1>4, <1>5, <1>6, <1>7, <1>8, <1>9, <1>10,
     OpenStep(o) DEF OpenStep

LEMMA CloseStepType ==
  ASSUME TypeOK, NEW w \in Clients, CloseStep(w)
  PROVE  TypeOK'
<1>. USE DEF TypeOK, Codes, wsVars, closeVars, esVars
<1>1. CASE CloseConnection(w)
  BY <1>1 DEF CloseConnection, CloseGoto
<1>2. CASE Lookup(w)
  BY <1>2 DEF Lookup, CloseGoto, StartDisconnect, Keys, Owners
<1>3. CASE LookupNoAddress(w)
  BY <1>3 DEF LookupNoAddress, CloseGoto, Closer
<1>4. CASE LookupFails(w)
  BY <1>4 DEF LookupFails, EndClose, CloseGoto
<1>5. CASE DisconnectClose(w)
  BY <1>5 DEF DisconnectClose, CloseGoto, CloseWs, WsOpen
<1>6. CASE DisconnectRemove(w)
  BY <1>6 DEF DisconnectRemove, SetMap, Without, EndClose, CloseGoto
<1>7. CASE CheckNext(w)
  BY <1>7 DEF CheckNext, StartDisconnect, CloseGoto
<1>8. CASE CheckClose(w)
  BY <1>8 DEF CheckClose, CloseGoto, CloseWs, WsOpen
<1>9. CASE CheckRemove(w)
  BY <1>9 DEF CheckRemove, SetMap, Without, CloseGoto, Closer
<1>10. CASE CheckEnd(w)
  BY <1>10 DEF CheckEnd, EndClose, CloseGoto
<1>. QED
  BY <1>1, <1>2, <1>3, <1>4, <1>5, <1>6, <1>7, <1>8, <1>9, <1>10,
     CloseStep(w) DEF CloseStep

LEMMA TypeStep == ASSUME TypeOK, [Next]_vars PROVE TypeOK'
<1>. USE DEF TypeOK, Codes, wsVars, closeVars, esVars
<1>1. ASSUME NEW w \in Clients, OnOpen(w) PROVE TypeOK'
  BY <1>1 DEF OnOpen, OpenGoto
<1>2. ASSUME NEW c \in Owners, DisconnectMngr(c) PROVE TypeOK'
  BY <1>2 DEF DisconnectMngr, WsOpen
<1>3. ASSUME NEW c \in Owners, QueueThreadEnds(c) PROVE TypeOK'
  BY <1>3 DEF QueueThreadEnds, WsOpen
<1>4. ASSUME NEW c \in Owners, CallbackClose(c) PROVE TypeOK'
  BY <1>4 DEF CallbackClose, CloseWs, WsOpen
<1>5. ASSUME NEW c \in Owners, CallbackRemove(c) PROVE TypeOK'
  BY <1>5 DEF CallbackRemove, SetMap, Without
<1>6. ASSUME NEW w \in Clients, ClientClose(w) PROVE TypeOK'
  BY <1>6 DEF ClientClose, CloseWs, WsOpen
<1>7. ASSUME NEW c \in Owners, MCFrees(c) PROVE TypeOK'
  BY <1>7, NAssumption DEF MCFrees
<1>8. ASSUME NEW c \in Owners, MCDrops(c) PROVE TypeOK'
  BY <1>8, NAssumption DEF MCDrops
<1>9. CASE UNCHANGED vars
  BY <1>9 DEF vars
<1>. QED
  BY <1>1, <1>2, <1>3, <1>4, <1>5, <1>6, <1>7, <1>8, <1>9,
     OpenStepType, CloseStepType DEF Next, CallbackStep

\* The fields, the map and the threads' locations keep their types.
THEOREM TypeCorrect == Spec => []TypeOK
<1>1. TypeOK /\ [Next]_vars => TypeOK'
  BY TypeStep
<1>. QED
  BY InitType, <1>1, PTL DEF Spec

-----------------------------------------------------------------------------
(* Strengthening, for distinct keys *)

\* An entry of the map is filed under its own key, by a finished open thread.
MapIsOwn ==
  \A k \in Keys : connectionMap[k] # None =>
    /\ KeyOf[connectionMap[k]] = k
    /\ connectionMap[k] \in Clients => opc[connectionMap[k]] = "done"

\* Only the start-up has its last two steps; an open thread starts with its
\* websocket.
OpenThreads ==
  \A w \in Clients : /\ opc[w] \notin {"queries", "remove"}
                     /\ wsState[w] = "none" <=> opc[w] = "idle"

\* onClose runs for a closing websocket.
CloseThreads ==
  \A w \in Clients : cpc[w] # "idle" => wsState[w] \in {"closing", "closed"}

\* A websocket that is about to leave the map is no longer open.
Gone(c) ==
  c \in Boots \/ (c \in Clients /\ wsState[c] \in {"closing", "closed"})
Known(c) == c \in Boots \/ (c \in Clients /\ wsState[c] # "none")

Removals ==
  /\ \A w \in Clients :
       /\ cpc[w] \in {"wsClose", "chkClose"} => Known(target[w])
       /\ cpc[w] \in {"remove", "chkRemove"} => Gone(target[w])
  /\ \A c \in Owners : /\ cb[c] = "wsClose" => Known(c)
                       /\ cb[c] = "remove" => Gone(c)

\* No limbo: a finished open thread has left a connection or a closing
\* websocket.
NoLimbo ==
  \A w \in Clients : opc[w] = "done" /\ WsOpen(w)
                       => connectionMap[KeyOf[w]] = w

\* A disconnect is begun after the open thread has finished, and not for a
\* websocket that works.
Endings ==
  \A c \in ending \cap Clients : /\ opc[c] = "done"
                                 /\ ~(WsOpen(c) /\ EsUp(c))

IInv == /\ TypeOK /\ MapIsOwn /\ OpenThreads /\ CloseThreads /\ Removals
        /\ NoLimbo /\ Endings

LEMMA InitIInv == Init => IInv
BY InitType, BootsAssumption, ClientsAssumption
   DEF Init, IInv, MapIsOwn, OpenThreads, CloseThreads, Removals, NoLimbo,
       Endings, Owners, Known, Gone, WsOpen

LEMMA OpenStepIInv ==
  ASSUME DistinctKeys, IInv, NEW o \in Owners, OpenStep(o)
  PROVE  IInv'
<1>. USE ClientsAssumption, NoneAssumption
       DEF IInv, MapIsOwn, OpenThreads, CloseThreads, Removals, NoLimbo,
           Endings, Gone, Known, WsOpen, EsUp, Owners, Keys, DistinctKeys,
           wsVars, closeVars, esVars
<1>0. TypeOK'
  BY OpenStepType
<1>1. CASE GetMCConnection(o)
  BY <1>0, <1>1 DEF GetMCConnection, OpenGoto, TypeOK
<1>2. CASE CloseExisting(o)
  BY <1>0, <1>2 DEF CloseExisting, CloseWs, OpenGoto, MonitorFree, TypeOK
<1>3. CASE InitMCConnection(o)
  BY <1>0, <1>3 DEF InitMCConnection, OpenGoto, Opener, TypeOK
<1>4. CASE OpenFails(o)
  BY <1>0, <1>4 DEF OpenFails, OpenGoto, MayLose, TypeOK
<1>5. CASE TryStation(o)
  BY <1>0, <1>5 DEF TryStation, OpenGoto, TypeOK
<1>6. CASE NoStation(o)
  <2>. USE <1>6 DEF NoStation, OpenGoto, TypeOK
  <2>1. MapIsOwn' /\ OpenThreads' /\ CloseThreads'
    OBVIOUS
  <2>2. Removals'
    OBVIOUS
  <2>3. NoLimbo'
    OBVIOUS
  <2>4. Endings'
    OBVIOUS
  <2>. QED
    BY <1>0, <2>1, <2>2, <2>3, <2>4
<1>7. CASE PutConnection(o)
  BY <1>0, <1>7 DEF PutConnection, OpenGoto, SetMap, TypeOK
<1>8. CASE CloseFull(o)
  <2>. USE <1>8 DEF CloseFull, CloseWs, OpenGoto, TypeOK
  <2>1. MapIsOwn' /\ OpenThreads' /\ CloseThreads'
    OBVIOUS
  <2>2. Removals'
    OBVIOUS
  <2>3. NoLimbo'
    OBVIOUS
  <2>4. Endings'
    OBVIOUS
  <2>. QED
    BY <1>0, <2>1, <2>2, <2>3, <2>4
<1>9. CASE BootDisconnect(o)
  BY <1>0, <1>9 DEF BootDisconnect, OpenGoto, TypeOK
<1>10. CASE BootRemove(o)
  <2>. USE <1>10 DEF BootRemove, OpenGoto, SetMap, Without, TypeOK
  <2>1. MapIsOwn' /\ OpenThreads' /\ CloseThreads'
    OBVIOUS
  <2>2. Removals'
    OBVIOUS
  <2>3. NoLimbo'
    OBVIOUS
  <2>4. Endings'
    OBVIOUS
  <2>. QED
    BY <1>0, <2>1, <2>2, <2>3, <2>4
<1>. QED
  BY <1>1, <1>2, <1>3, <1>4, <1>5, <1>6, <1>7, <1>8, <1>9, <1>10,
     OpenStep(o) DEF OpenStep

LEMMA CloseStepIInv ==
  ASSUME DistinctKeys, IInv, NEW w \in Clients, CloseStep(w)
  PROVE  IInv'
<1>. USE ClientsAssumption, NoneAssumption
       DEF IInv, MapIsOwn, OpenThreads, CloseThreads, Removals, NoLimbo,
           Endings, Gone, Known, WsOpen, EsUp, Owners, Keys, DistinctKeys,
           wsVars, closeVars, esVars
<1>0. TypeOK'
  BY CloseStepType
<1>1. CASE CloseConnection(w)
  BY <1>0, <1>1 DEF CloseConnection, CloseGoto, TypeOK
<1>2. CASE Lookup(w)
  BY <1>0, <1>2 DEF Lookup, CloseGoto, StartDisconnect, TypeOK
<1>3. CASE LookupNoAddress(w)
  BY <1>0, <1>3 DEF LookupNoAddress, CloseGoto, Closer, TypeOK
<1>4. CASE LookupFails(w)
  BY <1>0, <1>4 DEF LookupFails, EndClose, CloseGoto, TypeOK
<1>5. CASE DisconnectClose(w)
  <2>. USE <1>5 DEF DisconnectClose, CloseGoto, CloseWs, MonitorFree, TypeOK
  <2>1. MapIsOwn' /\ OpenThreads'
    OBVIOUS
  <2>2. CloseThreads'
    OBVIOUS
  <2>3. Removals'
    <3>1. \A c \in Owners : /\ Known(c) => Known(c)'
                          /\ Gone(c) => Gone(c)'
      OBVIOUS
    <3>2. target[w] \in Owners /\ Known(target[w])
      OBVIOUS
    <3>3. Gone(target[w])'
      BY <3>2
    <3>. QED
      BY <3>1, <3>2, <3>3
  <2>4. NoLimbo'
    OBVIOUS
  <2>5. Endings'
    OBVIOUS
  <2>. QED
    BY <1>0, <2>1, <2>2, <2>3, <2>4, <2>5
<1>6. CASE DisconnectRemove(w)
  BY <1>0, <1>6 DEF DisconnectRemove, SetMap, Without, EndClose, CloseGoto,
                    TypeOK
<1>7. CASE CheckNext(w)
  BY <1>0, <1>7 DEF CheckNext, StartDisconnect, CloseGoto, Test, TypeOK
<1>8. CASE CheckClose(w)
  <2>. USE <1>8 DEF CheckClose, CloseGoto, CloseWs, MonitorFree, TypeOK
  <2>1. MapIsOwn' /\ OpenThreads'
    OBVIOUS
  <2>2. CloseThreads'
    OBVIOUS
  <2>3. Removals'
    <3>1. \A c \in Owners : /\ Known(c) => Known(c)'
                          /\ Gone(c) => Gone(c)'
      OBVIOUS
    <3>2. target[w] \in Owners /\ Known(target[w])
      OBVIOUS
    <3>3. Gone(target[w])'
      BY <3>2
    <3>. QED
      BY <3>1, <3>2, <3>3
  <2>4. NoLimbo'
    OBVIOUS
  <2>5. Endings'
    OBVIOUS
  <2>. QED
    BY <1>0, <2>1, <2>2, <2>3, <2>4, <2>5
<1>9. CASE CheckRemove(w)
  <2>. USE <1>9 DEF CheckRemove, SetMap, Without, CloseGoto, Closer, TypeOK
  <2>1. MapIsOwn' /\ OpenThreads' /\ CloseThreads'
    OBVIOUS
  <2>2. Removals'
    <3>1. \A c \in Owners : Gone(c)' <=> Gone(c)
      OBVIOUS
    <3>2. \A c \in Owners : Known(c)' <=> Known(c)
      OBVIOUS
    <3>3. /\ cpc' = [cpc EXCEPT ![w] = "check"]
          /\ UNCHANGED <<target, cb>>
      OBVIOUS
    <3>4. target \in [Clients -> Owners \cup {None}]
      OBVIOUS
    <3>5. ASSUME NEW u \in Clients,
                 cpc'[u] \in {"wsClose", "chkClose", "remove", "chkRemove"}
          PROVE  target[u] \in Owners /\ cpc'[u] = cpc[u]
      BY <3>3, <3>4, <3>5
    <3>. HIDE <1>9 DEF CheckRemove, SetMap, Without, CloseGoto, Gone, Known
    <3>. QED
      BY <3>1, <3>2, <3>3, <3>5
  <2>3. NoLimbo'
    OBVIOUS
  <2>4. Endings'
    OBVIOUS
  <2>. QED
    BY <1>0, <2>1, <2>2, <2>3, <2>4
<1>10. CASE CheckEnd(w)
  BY <1>0, <1>10 DEF CheckEnd, EndClose, CloseGoto, TypeOK
<1>. QED
  BY <1>1, <1>2, <1>3, <1>4, <1>5, <1>6, <1>7, <1>8, <1>9, <1>10,
     CloseStep(w) DEF CloseStep

LEMMA StepIInv == ASSUME DistinctKeys, IInv, [Next]_vars PROVE IInv'
<1>. USE ClientsAssumption, NoneAssumption
       DEF IInv, MapIsOwn, OpenThreads, CloseThreads, Removals, NoLimbo,
           Endings, Gone, Known, WsOpen, EsUp, Owners, Keys, DistinctKeys,
           wsVars, closeVars, esVars
<1>0. TypeOK'
  BY TypeStep
<1>1. ASSUME NEW w \in Clients, OnOpen(w) PROVE IInv'
  <2>. USE <1>1 DEF OnOpen, OpenGoto, TypeOK
  <2>1. MapIsOwn' /\ OpenThreads' /\ CloseThreads'
    OBVIOUS
  <2>2. Removals'
    OBVIOUS
  <2>3. NoLimbo'
    OBVIOUS
  <2>4. Endings'
    OBVIOUS
  <2>. QED
    BY <1>0, <2>1, <2>2, <2>3, <2>4
<1>2. ASSUME NEW c \in Owners, DisconnectMngr(c) PROVE IInv'
  BY <1>0, <1>2 DEF DisconnectMngr, TypeOK
<1>3. ASSUME NEW c \in Owners, QueueThreadEnds(c) PROVE IInv'
  BY <1>0, <1>3 DEF QueueThreadEnds, TypeOK
<1>4. ASSUME NEW c \in Owners, CallbackClose(c) PROVE IInv'
  BY <1>0, <1>4 DEF CallbackClose, CloseWs, TypeOK
<1>5. ASSUME NEW c \in Owners, CallbackRemove(c) PROVE IInv'
  BY <1>0, <1>5 DEF CallbackRemove, SetMap, Without, TypeOK
<1>6. ASSUME NEW w \in Clients, ClientClose(w) PROVE IInv'
  BY <1>0, <1>6 DEF ClientClose, CloseWs, TypeOK
<1>7. ASSUME NEW c \in Owners, MCFrees(c) PROVE IInv'
  BY <1>0, <1>7 DEF MCFrees, TypeOK
<1>8. ASSUME NEW c \in Owners, MCDrops(c) PROVE IInv'
  BY <1>0, <1>8 DEF MCDrops, TypeOK
<1>9. CASE UNCHANGED vars
  BY <1>0, <1>9 DEF vars
<1>. QED
  BY <1>1, <1>2, <1>3, <1>4, <1>5, <1>6, <1>7, <1>8, <1>9, OpenStepIInv,
     CloseStepIInv DEF Next, CallbackStep

LEMMA IInvInvariant == ASSUME DistinctKeys PROVE Spec => []IInv
<1>1. IInv /\ [Next]_vars => IInv'
  BY StepIInv
<1>. QED
  BY InitIInv, <1>1, PTL DEF Spec

\* No check, no onClose and no callback disconnects a connection whose
\* websocket is open and whose entry station is up.
THEOREM HealthyKept == Spec => []HealthyIsKept
<1>1. CASE DistinctKeys
  <2>1. IInv => HealthyIsKept
    BY DEF IInv, Endings, HealthyIsKept
  <2>. QED
    BY <1>1, <2>1, IInvInvariant, PTL
<1>2. CASE ~DistinctKeys
  <2>1. HealthyIsKept
    BY <1>2 DEF HealthyIsKept
  <2>. QED
    BY <2>1, PTL
<1>. QED
  BY <1>1, <1>2

-----------------------------------------------------------------------------
(* Refinement: a step moves the session of at most one websocket *)

Keeps == \A u \in Clients : Session(u)' = Session(u)

Moves(w) ==
  /\ \A u \in Clients \ {w} : Session(u)' = Session(u)
  /\ \/ Session(w) = "none" /\ Session(w)' = "waiting"
     \/ Session(w) = "waiting" /\ Session(w)' = "served"
     \/ Session(w) \in {"waiting", "served"} /\ Session(w)' = "ended"

LEMMA KeepsIsStutter ==
  ASSUME Keeps
  PROVE  UNCHANGED [w \in Clients |-> Session(w)]
BY DEF Keeps

LEMMA MovesIsNext ==
  ASSUME NEW w \in Clients, Moves(w)
  PROVE  Sessions!Next
<1>. DEFINE S == [u \in Clients |-> Session(u)]
<1>1. /\ S[w] = Session(w)
      /\ S' = [S EXCEPT ![w] = Session(w)']
  BY DEF Moves
<1>. HIDE DEF S
<1>2. \/ S[w] = "none" /\ S' = [S EXCEPT ![w] = "waiting"]
      \/ S[w] = "waiting" /\ S' = [S EXCEPT ![w] = "served"]
      \/ S[w] \in {"waiting", "served"} /\ S' = [S EXCEPT ![w] = "ended"]
  BY <1>1 DEF Moves
<1>. QED
  BY <1>2 DEF Sessions!Next, Sessions!Open, Sessions!Serve, Sessions!End,
              Sessions!Move, S

LEMMA InitSessions == Init => Sessions!Init
BY DEF Init, Sessions!Init, Session

\* Taking a connection out of the map whose websocket is no longer open is
\* a stutter.
LEMMA GoneStutters ==
  ASSUME TypeOK, NEW c, Gone(c), connectionMap' = Without(c),
         UNCHANGED <<wsState, opc>>
  PROVE  Keeps
<1>1. \A u \in Clients : KeyOf[u] \in Keys
  BY DEF Keys, Owners
<1>2. \A u \in Clients : WsOpen(u)' <=> WsOpen(u)
  BY DEF WsOpen
<1>3. \A u \in Clients : WsOpen(u) => u # c
  BY ClientsAssumption DEF WsOpen, Gone
<1>4. ASSUME NEW u \in Clients, WsOpen(u)
      PROVE  connectionMap'[KeyOf[u]] = u <=> connectionMap[KeyOf[u]] = u
  BY <1>1, <1>3, <1>4, NoneAssumption DEF Without, Owners
<1>. QED
  BY <1>2, <1>4 DEF Keeps, Session

LEMMA OpenStepSessions ==
  ASSUME DistinctKeys, IInv, NEW o \in Owners, OpenStep(o)
  PROVE  Keeps \/ \E w \in Clients : Moves(w)
<1>. USE ClientsAssumption
       DEF IInv, MapIsOwn, OpenThreads, CloseThreads, NoLimbo, WsOpen, Owners,
           Keys, DistinctKeys, wsVars, closeVars, esVars, OpenGoto, TypeOK,
           Session
<1>1. CASE GetMCConnection(o)
  BY <1>1 DEF GetMCConnection, Keeps
<1>2. CASE CloseExisting(o)
  BY <1>2 DEF CloseExisting, CloseWs, Moves, Keeps
<1>3. CASE InitMCConnection(o)
  BY <1>3 DEF InitMCConnection, Keeps
<1>4. CASE OpenFails(o)
  BY <1>4 DEF OpenFails, MayLose, Keeps
<1>5. CASE TryStation(o)
  BY <1>5 DEF TryStation, Keeps
<1>6. CASE NoStation(o)
  BY <1>6 DEF NoStation, Keeps
<1>7. CASE PutConnection(o)
  BY <1>7 DEF PutConnection, SetMap, Moves, Keeps
<1>8. CASE CloseFull(o)
  BY <1>8 DEF CloseFull, CloseWs, Moves, Keeps
<1>9. CASE BootDisconnect(o)
  BY <1>9 DEF BootDisconnect, Keeps
<1>10. CASE BootRemove(o)
  BY <1>10 DEF BootRemove, SetMap, Without, Keeps
<1>. QED
  BY <1>1, <1>2, <1>3, <1>4, <1>5, <1>6, <1>7, <1>8, <1>9, <1>10,
     OpenStep(o) DEF OpenStep

LEMMA CloseStepSessions ==
  ASSUME DistinctKeys, IInv, NEW w \in Clients, CloseStep(w)
  PROVE  Keeps \/ \E u \in Clients : Moves(u)
<1>. USE ClientsAssumption
       DEF IInv, MapIsOwn, OpenThreads, CloseThreads, NoLimbo, WsOpen, Owners,
           Keys, DistinctKeys, wsVars, closeVars, esVars, CloseGoto, TypeOK,
           Session
<1>1. CASE CloseConnection(w)
  BY <1>1 DEF CloseConnection, Keeps
<1>2. CASE Lookup(w)
  BY <1>2 DEF Lookup, Keeps
<1>3. CASE LookupNoAddress(w)
  BY <1>3 DEF LookupNoAddress, Keeps
<1>4. CASE LookupFails(w)
  BY <1>4 DEF LookupFails, EndClose, Keeps
<1>5. CASE DisconnectClose(w)
  BY <1>5 DEF DisconnectClose, CloseWs, Moves, Keeps
<1>6. CASE DisconnectRemove(w)
  BY <1>6 DEF DisconnectRemove, SetMap, Without, EndClose, Removals, Gone,
              Keeps
<1>7. CASE CheckNext(w)
  BY <1>7 DEF CheckNext, Keeps
<1>8. CASE CheckClose(w)
  BY <1>8 DEF CheckClose, CloseWs, Moves, Keeps
<1>9. CASE CheckRemove(w)
  <2>1. Gone(target[w]) /\ connectionMap' = Without(target[w])
    BY <1>9 DEF CheckRemove, SetMap, Removals
  <2>2. UNCHANGED <<wsState, opc>>
    BY <1>9 DEF CheckRemove
  <2>. QED
    BY <2>1, <2>2, GoneStutters
<1>10. CASE CheckEnd(w)
  BY <1>10 DEF CheckEnd, EndClose, Keeps
<1>. QED
  BY <1>1, <1>2, <1>3, <1>4, <1>5, <1>6, <1>7, <1>8, <1>9, <1>10,
     CloseStep(w) DEF CloseStep

LEMMA StepSessions ==
  ASSUME DistinctKeys, IInv, [Next]_vars
  PROVE  Keeps \/ \E w \in Clients : Moves(w)
<1>. USE ClientsAssumption
       DEF IInv, MapIsOwn, OpenThreads, NoLimbo, WsOpen, Owners, Keys,
           DistinctKeys, wsVars, closeVars, esVars, TypeOK, Session
<1>1. ASSUME NEW w \in Clients, OnOpen(w) PROVE Moves(w)
  <2>. USE <1>1 DEF OnOpen, OpenGoto
  <2>1. connectionMap[KeyOf[w]] # w
    BY NoneAssumption
  <2>2. Session(w) = "none" /\ Session(w)' = "waiting"
    BY <2>1
  <2>3. \A u \in Clients \ {w} : Session(u)' = Session(u)
    OBVIOUS
  <2>. QED
    BY <2>2, <2>3 DEF Moves
<1>2. ASSUME NEW c \in Owners,
             DisconnectMngr(c) \/ QueueThreadEnds(c) \/ MCFrees(c)
               \/ MCDrops(c)
      PROVE  Keeps
  BY <1>2 DEF DisconnectMngr, QueueThreadEnds, MCFrees, MCDrops, Keeps
<1>3. ASSUME NEW c \in Owners, CallbackClose(c)
      PROVE  Keeps \/ \E w \in Clients : Moves(w)
  BY <1>3 DEF CallbackClose, CloseWs, Moves, Keeps
<1>4. ASSUME NEW c \in Owners, CallbackRemove(c) PROVE Keeps
  <2>1. Gone(c) /\ connectionMap' = Without(c)
    BY <1>4 DEF CallbackRemove, SetMap, Removals
  <2>2. UNCHANGED <<wsState, opc>>
    BY <1>4 DEF CallbackRemove
  <2>. QED
    BY <2>1, <2>2, GoneStutters
<1>5. ASSUME NEW w \in Clients, ClientClose(w) PROVE Moves(w)
  BY <1>5 DEF ClientClose, CloseWs, Moves
<1>6. CASE UNCHANGED vars
  BY <1>6 DEF vars, Keeps
<1>. QED
  BY <1>1, <1>2, <1>3, <1>4, <1>5, <1>6, OpenStepSessions, CloseStepSessions
     DEF Next, CallbackStep

\* With distinct remote ports the pool implements WebsocketSessions: an open
\* websocket that has been served keeps its connection until it is closing,
\* whatever the other websockets, the checks and the MC do.
THEOREM ImplementsSessions == ASSUME DistinctKeys PROVE Spec => ServesSessions
<1>1. IInv /\ [Next]_vars
        => [Sessions!Next]_([w \in Clients |-> Session(w)])
  BY StepSessions, KeepsIsStutter, MovesIsNext
<1>. QED
  BY InitSessions, IInvInvariant, <1>1, PTL DEF Spec, ServesSessions,
     Sessions!Spec

-----------------------------------------------------------------------------
(* Room for everybody *)

\* initMCConnection is synchronized.
ScanLocked ==
  \A o \in Owners : opc[o] \in {"scan", "put", "full"} => lock = Opener(o)

\* The station an owner has is the last one it tried.
TriedLast ==
  \A o \in Owners :
    /\ opc[o] \in {"idle", "get", "exists", "init"} => scan[o] = 1
    /\ opc[o] \in {"idle", "get", "exists", "init", "scan", "full"}
         => station[o] = 0
    /\ station[o] # 0 => station[o] = scan[o]
    /\ opc[o] = "full" => scan[o] > N

\* A station that was found busy is the last one of another owner, who has
\* scanned before: every owner accounts for one of them only.
Taken(o) ==
  \A s \in 1..(scan[o] - 1) : \E p \in Owners \ {o} : scan[p] = s

ScanSees == \A o \in Owners : opc[o] \in {"scan", "full"} => Taken(o)

\* An open thread starts with its websocket.
Started == \A w \in Clients : wsState[w] = "none" => opc[w] = "idle"

RoomInv == TypeOK /\ ScanLocked /\ TriedLast /\ ScanSees /\ NoRefusalWithRoom

LEMMA StepStarted ==
  ASSUME TypeOK, Started, [Next]_vars
  PROVE  Started'
<1>. USE DEF wsVars, closeVars, esVars, OpenGoto
<1>1. ASSUME NEW w \in Clients
      PROVE  /\ wsState'[w] = "none" => wsState[w] = "none"
             /\ wsState'[w] = "none" /\ opc[w] = "idle" => opc'[w] = "idle"
  <2>1. CASE \E v \in Clients : OnOpen(v)
    BY <2>1 DEF OnOpen, TypeOK
  <2>2. CASE UNCHANGED <<wsState, opc>>
    BY <2>2
  <2>3. ASSUME NEW c, NEW reason, CloseWs(c, reason), UNCHANGED opc
        PROVE  /\ wsState'[w] = "none" => wsState[w] = "none"
               /\ opc[w] = "idle" => opc'[w] = "idle"
    BY <2>3 DEF CloseWs, TypeOK
  <2>4. ASSUME NEW o \in Owners, OpenStep(o)
        PROVE  /\ wsState'[w] = "none" => wsState[w] = "none"
               /\ opc[w] = "idle" => opc'[w] = "idle"
    <3>1. wsState' = wsState \/ \E reason : CloseWs(o, reason)
      BY <2>4 DEF OpenStep, GetMCConnection, CloseExisting, InitMCConnection,
         OpenFails, TryStation, NoStation, PutConnection, CloseFull,
         BootDisconnect, BootRemove
    <3>2. opc[o] # "idle" /\ \/ opc' = opc
                             \/ \E l : opc' = [opc EXCEPT ![o] = l]
      BY <2>4 DEF OpenStep, GetMCConnection, CloseExisting, InitMCConnection,
         OpenFails, TryStation, NoStation, PutConnection, CloseFull,
         BootDisconnect, BootRemove
    <3>. QED
      BY <3>1, <3>2 DEF CloseWs, TypeOK, Owners
  <2>5. ASSUME NEW v \in Clients, CloseStep(v)
        PROVE  /\ wsState'[w] = "none" => wsState[w] = "none"
               /\ opc[w] = "idle" => opc'[w] = "idle"
    <3>1. /\ UNCHANGED opc
          /\ \/ wsState' = wsState
             \/ wsState' = [wsState EXCEPT ![v] = "closed"]
             \/ \E reason : CloseWs(target[v], reason)
      BY <2>5 DEF CloseStep, CloseConnection, Lookup, LookupNoAddress,
         LookupFails, DisconnectClose, DisconnectRemove, CheckNext,
         CheckClose, CheckRemove, CheckEnd, EndClose
    <3>. QED
      BY <3>1 DEF CloseWs, TypeOK
  <2>6. ASSUME NEW c \in Owners,
               \/ DisconnectMngr(c) \/ QueueThreadEnds(c)
               \/ CallbackStep(c) \/ MCFrees(c) \/ MCDrops(c)
        PROVE  /\ UNCHANGED opc
               /\ UNCHANGED wsState \/ CloseWs(c, "4002")
    BY <2>6 DEF DisconnectMngr, QueueThreadEnds, CallbackStep, CallbackClose,
                CallbackRemove, MCFrees, MCDrops
  <2>7. ASSUME NEW v \in Clients, ClientClose(v)
        PROVE  UNCHANGED opc /\ CloseWs(v, "client")
    BY <2>7 DEF ClientClose
  <2>8. CASE UNCHANGED vars
    BY <2>2, <2>8 DEF vars
  <2>. QED
    BY <2>1, <2>2, <2>3, <2>4, <2>5, <2>6, <2>7, <2>8 DEF Next
<1>. QED
  BY <1>1 DEF Started

LEMMA InitRoom == Init => RoomInv
BY InitType DEF Init, RoomInv, ScanLocked, TriedLast, ScanSees, Taken,
                NoRefusalWithRoom, Owners

\* With N stations taken there are more than N owners.
LEMMA Pigeons ==
  ASSUME TypeOK, IsFiniteSet(Owners), NEW o \in Owners, Taken(o), scan[o] > N
  PROVE  N < Cardinality(Owners)
<1>. DEFINE Others == Owners \ {o}
            Last == {scan[p] : p \in Others}
<1>1. /\ IsFiniteSet(Others) /\ Cardinality(Others) = Cardinality(Owners) - 1
      /\ Cardinality(Owners) \in Nat
  BY FS_RemoveElement, FS_CardinalityType
<1>2. IsFiniteSet(Last) /\ Cardinality(Last) <= Cardinality(Others)
  <2>. DEFINE f == [p \in Others |-> scan[p]]
  <2>1. f \in Surjection(Others, Last)
    BY DEF Surjection
  <2>. QED
    BY <1>1, <2>1, FS_Surjection
<1>3. 1..N \subseteq Last
  BY NAssumption DEF Taken, TypeOK
<1>4. IsFiniteSet(1..N) /\ Cardinality(1..N) = N
  BY NAssumption, FS_Interval
<1>5. Cardinality(1..N) <= Cardinality(Last)
  BY <1>2, <1>3, FS_Subset
<1>6. Cardinality(Last) \in Nat /\ Cardinality(Others) \in Nat
  BY <1>1, <1>2, FS_CardinalityType
<1>. QED
  BY <1>1, <1>2, <1>4, <1>5, <1>6, NAssumption

\* A step that is not part of initMCConnection.
LEMMA OutsideRoom ==
  ASSUME RoomInv, TypeOK', UNCHANGED scan,
         \A o \in Owners :
           /\ station'[o] \in {station[o], 0}
           /\ opc'[o] # opc[o]
                => /\ opc'[o] \notin {"scan", "put", "full"}
                   /\ opc'[o] \in {"idle", "get", "exists", "init"}
                        => opc[o] \in {"idle", "get", "exists", "init"}
           /\ lock = Opener(o) => lock' = lock \/ opc'[o] # opc[o],
         \A w \in Clients : code'[w] # code[w] => code'[w] # "4003"
  PROVE  RoomInv'
<1>. USE DEF RoomInv
<1>1. ScanLocked'
  BY DEF ScanLocked
<1>2. TriedLast'
  BY DEF TriedLast
<1>3. ScanSees'
  BY DEF ScanSees, Taken
<1>4. NoRefusalWithRoom'
  BY DEF NoRefusalWithRoom
<1>. QED
  BY <1>1, <1>2, <1>3, <1>4

LEMMA OpenStepRoom ==
  ASSUME IsFiniteSet(Owners), RoomInv, NEW o \in Owners, OpenStep(o)
  PROVE  RoomInv'
<1>. USE DEF OpenGoto, wsVars, closeVars, esVars
<1>0. TypeOK /\ TypeOK' /\ ScanLocked /\ TriedLast /\ ScanSees
      /\ NoRefusalWithRoom
  BY OpenStepType DEF RoomInv
<1>1. CASE \/ GetMCConnection(o) \/ CloseExisting(o) \/ BootDisconnect(o)
           \/ BootRemove(o)
  <2>1. UNCHANGED <<scan, station, lock>>
    BY <1>1 DEF GetMCConnection, CloseExisting, BootDisconnect, BootRemove
  <2>2. /\ \A p \in Owners \ {o} : opc'[p] = opc[p]
        /\ opc'[o] \notin {"scan", "put", "full"}
        /\ opc'[o] \in {"idle", "get", "exists", "init"}
             => opc[o] \in {"idle", "get", "exists", "init"}
    BY <1>0, <1>1 DEF GetMCConnection, CloseExisting, BootDisconnect,
                      BootRemove, TypeOK
  <2>3. \A w \in Clients : code'[w] # code[w] => code'[w] # "4003"
    BY <1>0, <1>1 DEF GetMCConnection, CloseExisting, BootDisconnect,
                      BootRemove, CloseWs, TypeOK
  <2>. QED
    BY <1>0, <2>1, <2>2, <2>3, OutsideRoom
<1>2. CASE OpenFails(o) \/ PutConnection(o)
  <2>1. /\ UNCHANGED <<scan, station, code>> /\ lock = Opener(o)
        /\ lock' = None
        /\ opc[o] \in {"scan", "put"}
    BY <1>0, <1>2 DEF OpenFails, PutConnection, ScanLocked
  <2>2. /\ \A p \in Owners \ {o} : opc'[p] = opc[p]
        /\ opc'[o] \in {"queries", "done"}
    BY <1>0, <1>2 DEF OpenFails, PutConnection, TypeOK
  <2>3. \A p \in Owners : lock = Opener(p) => p = o
    BY <2>1 DEF Opener
  <2>. QED
    BY <1>0, <2>1, <2>2, <2>3, OutsideRoom
<1>3. CASE InitMCConnection(o)
  <2>1. /\ UNCHANGED <<scan, station, code>> /\ lock = None
        /\ lock' = Opener(o)
        /\ opc[o] = "init" /\ opc' = [opc EXCEPT ![o] = "scan"]
    BY <1>3 DEF InitMCConnection
  <2>2. /\ opc'[o] = "scan" /\ \A p \in Owners \ {o} : opc'[p] = opc[p]
    BY <1>0, <2>1 DEF TypeOK
  <2>3. \A p \in Owners : opc[p] \notin {"scan", "put", "full"}
    BY <1>0, <2>1, ThreadsAssumption DEF ScanLocked, Opener
  <2>4. ScanLocked'
    BY <2>1, <2>2, <2>3 DEF ScanLocked
  <2>5. TriedLast'
    BY <1>0, <2>1, <2>2 DEF TriedLast
  <2>6. ScanSees'
    BY <1>0, <2>1, <2>2, <2>3 DEF TriedLast, ScanSees, Taken
  <2>7. NoRefusalWithRoom'
    BY <1>0, <2>1 DEF NoRefusalWithRoom
  <2>. QED
    BY <1>0, <2>4, <2>5, <2>6, <2>7 DEF RoomInv
<1>4. CASE TryStation(o)
  <2>1. /\ UNCHANGED <<lock, code>> /\ opc[o] = "scan" /\ scan[o] <= N
        /\ lock = Opener(o)
    BY <1>0, <1>4 DEF TryStation, ScanLocked
  <2>2. \A p \in Owners \ {o} : opc[p] \notin {"scan", "put", "full"}
    BY <1>0, <2>1 DEF ScanLocked, Opener
  <2>3. NoRefusalWithRoom'
    BY <1>0, <2>1 DEF NoRefusalWithRoom
  <2>4. scan[o] \in Nat /\ Taken(o)
    BY <1>0, <2>1, NAssumption DEF TypeOK, ScanSees
  <2>5. CASE Busy(scan[o])
    <3>1. /\ scan' = [scan EXCEPT ![o] = @ + 1] /\ UNCHANGED <<opc, station>>
      BY <1>4, <2>5 DEF TryStation
    <3>2. /\ scan'[o] = scan[o] + 1
          /\ \A p \in Owners \ {o} : scan'[p] = scan[p]
      BY <1>0, <3>1 DEF TypeOK
    <3>3. PICK p \in Owners : station[p] = scan[o]
      BY <2>5 DEF Busy
    <3>4. p # o /\ scan[p] = scan[o]
      BY <1>0, <2>1, <3>3 DEF TriedLast, TypeOK
    <3>5. Taken(o)'
      <4>. SUFFICES ASSUME NEW s \in 1..scan[o]
                    PROVE  \E q \in Owners \ {o} : scan'[q] = s
        BY <2>4, <3>2 DEF Taken
      <4>1. CASE s = scan[o]
        BY <3>2, <3>4, <4>1
      <4>2. CASE s # scan[o]
        BY <2>4, <3>2, <4>2 DEF Taken
      <4>. QED
        BY <4>1, <4>2
    <3>6. ScanLocked'
      BY <1>0, <2>1, <3>1 DEF ScanLocked
    <3>7. TriedLast'
      BY <1>0, <2>1, <3>1, <3>2 DEF TriedLast
    <3>8. ScanSees'
      BY <2>2, <3>1, <3>5 DEF ScanSees
    <3>. QED
      BY <1>0, <2>3, <3>6, <3>7, <3>8 DEF RoomInv
  <2>6. CASE ~Busy(scan[o])
    <3>1. /\ station' = [station EXCEPT ![o] = scan[o]]
          /\ opc' = [opc EXCEPT ![o] = "put"] /\ UNCHANGED scan
      BY <1>4, <2>6 DEF TryStation
    <3>2. /\ station'[o] = scan[o] /\ opc'[o] = "put"
          /\ \A p \in Owners \ {o} :
               station'[p] = station[p] /\ opc'[p] = opc[p]
      BY <1>0, <3>1 DEF TypeOK
    <3>3. ScanLocked'
      BY <1>0, <2>1, <3>2 DEF ScanLocked
    <3>4. TriedLast'
      BY <1>0, <3>1, <3>2 DEF TriedLast
    <3>5. ScanSees'
      BY <2>2, <3>2 DEF ScanSees
    <3>. QED
      BY <1>0, <2>3, <3>3, <3>4, <3>5 DEF RoomInv
  <2>. QED
    BY <2>5, <2>6
<1>5. CASE NoStation(o) /\ o \in Boots
  <2>1. /\ UNCHANGED <<scan, station, code>> /\ lock = Opener(o)
        /\ opc[o] = "scan"
    BY <1>0, <1>5 DEF NoStation, ScanLocked
  <2>2. /\ \A p \in Owners \ {o} : opc'[p] = opc[p]
        /\ opc'[o] = "done"
    BY <1>0, <1>5 DEF NoStation, TypeOK
  <2>3. \A p \in Owners : lock = Opener(p) => p = o
    BY <2>1 DEF Opener
  <2>. QED
    BY <1>0, <2>1, <2>2, <2>3, OutsideRoom
<1>6. CASE NoStation(o) /\ o \notin Boots
  <2>1. /\ UNCHANGED <<scan, station, lock, code>> /\ opc[o] = "scan"
        /\ scan[o] > N
        /\ opc' = [opc EXCEPT ![o] = "full"]
    BY <1>6 DEF NoStation
  <2>2. /\ opc'[o] = "full" /\ \A p \in Owners \ {o} : opc'[p] = opc[p]
    BY <1>0, <2>1 DEF TypeOK
  <2>3. ScanLocked'
    BY <1>0, <2>1, <2>2 DEF ScanLocked
  <2>4. TriedLast'
    BY <1>0, <2>1, <2>2 DEF TriedLast
  <2>5. ScanSees'
    BY <1>0, <2>1, <2>2 DEF ScanSees, Taken
  <2>6. NoRefusalWithRoom'
    BY <1>0, <2>1 DEF NoRefusalWithRoom
  <2>. QED
    BY <1>0, <2>3, <2>4, <2>5, <2>6 DEF RoomInv
<1>7. CASE CloseFull(o)
  <2>1. UNCHANGED <<scan, station>> /\ lock' = None /\ opc[o] = "full"
        /\ lock = Opener(o) /\ opc' = [opc EXCEPT ![o] = "done"]
    BY <1>0, <1>7 DEF CloseFull, ScanLocked
  <2>2. /\ opc'[o] = "done" /\ \A p \in Owners \ {o} : opc'[p] = opc[p]
        /\ \A p \in Owners \ {o} : opc[p] \notin {"scan", "put", "full"}
    BY <1>0, <2>1 DEF TypeOK, ScanLocked, Opener
  <2>3. ScanLocked'
    BY <2>2 DEF ScanLocked
  <2>4. TriedLast'
    BY <1>0, <2>1, <2>2 DEF TriedLast
  <2>5. ScanSees'
    BY <2>2 DEF ScanSees
  <2>6. N < Cardinality(Owners)
    BY <1>0, <2>1, Pigeons DEF TriedLast, ScanSees
  <2>7. NoRefusalWithRoom'
    <3>1. ~ (N >= Cardinality(Owners))
      BY <2>6, NAssumption, FS_CardinalityType
    <3>. QED
      BY <3>1 DEF NoRefusalWithRoom
  <2>. QED
    BY <1>0, <2>3, <2>4, <2>5, <2>7 DEF RoomInv
<1>. QED
  BY <1>1, <1>2, <1>3, <1>4, <1>5, <1>6, <1>7, OpenStep(o) DEF OpenStep

LEMMA CloseStepRoom ==
  ASSUME RoomInv, NEW w \in Clients, CloseStep(w)
  PROVE  RoomInv'
<1>. USE DEF wsVars, closeVars, esVars
<1>0. TypeOK /\ TypeOK'
  BY CloseStepType DEF RoomInv
<1>1. UNCHANGED <<opc, scan, station>>
  BY DEF CloseStep, CloseConnection, Lookup, LookupNoAddress, LookupFails,
         DisconnectClose, DisconnectRemove, CheckNext, CheckClose,
         CheckRemove, CheckEnd
<1>2. \A o \in Owners : lock = Opener(o) => lock' = lock
  BY ThreadsAssumption
     DEF CloseStep, CloseConnection, Lookup, LookupNoAddress, LookupFails,
         DisconnectClose, DisconnectRemove, CheckNext, CheckClose,
         CheckRemove, CheckEnd, EndClose, Opener, Closer
<1>3. \A u \in Clients : code'[u] # code[u] => code'[u] # "4003"
  <2>1. \/ code' = code
        \/ CloseWs(target[w], "1000")
        \/ CloseWs(target[w], "1006")
    BY DEF CloseStep, CloseConnection, Lookup, LookupNoAddress, LookupFails,
           DisconnectClose, DisconnectRemove, CheckNext, CheckClose,
           CheckRemove, CheckEnd, EndClose
  <2>. QED
    BY <1>0, <2>1 DEF CloseWs, TypeOK
<1>. QED
  BY <1>0, <1>1, <1>2, <1>3, OutsideRoom

LEMMA StepRoom ==
  ASSUME IsFiniteSet(Owners), RoomInv, Started, [Next]_vars
  PROVE  RoomInv'
<1>. USE DEF wsVars, closeVars, esVars
<1>0. TypeOK /\ TypeOK'
  BY TypeStep DEF RoomInv
<1>1. ASSUME NEW w \in Clients, OnOpen(w)
      PROVE  RoomInv'
  <2>1. UNCHANGED <<scan, station, lock, code>>
        /\ opc' = [opc EXCEPT ![w] = "get"] /\ w \in Owners
    BY <1>1 DEF OnOpen, OpenGoto, Owners
  <2>2. /\ opc[w] = "idle" /\ opc'[w] = "get"
        /\ \A p \in Owners \ {w} : opc'[p] = opc[p]
    BY <1>0, <1>1, <2>1 DEF OnOpen, Started, TypeOK
  <2>. QED
    BY <1>0, <2>1, <2>2, OutsideRoom
<1>2. ASSUME NEW c \in Owners,
             \/ DisconnectMngr(c) \/ QueueThreadEnds(c) \/ CallbackStep(c)
             \/ MCFrees(c) \/ MCDrops(c)
      PROVE  RoomInv'
  <2>1. UNCHANGED <<opc, scan, lock>>
    BY <1>2 DEF DisconnectMngr, QueueThreadEnds, CallbackStep, CallbackClose,
                CallbackRemove, MCFrees, MCDrops
  <2>2. \A o \in Owners : station'[o] \in {station[o], 0}
    BY <1>0, <1>2 DEF DisconnectMngr, QueueThreadEnds, CallbackStep,
                CallbackClose, CallbackRemove, MCFrees, MCDrops, TypeOK
  <2>3. \A u \in Clients : code'[u] # code[u] => code'[u] # "4003"
    BY <1>0, <1>2 DEF DisconnectMngr, QueueThreadEnds, CallbackStep,
                CallbackClose, CallbackRemove, MCFrees, MCDrops, CloseWs,
                TypeOK
  <2>. QED
    BY <1>0, <2>1, <2>2, <2>3, OutsideRoom
<1>3. ASSUME NEW w \in Clients, ClientClose(w)
      PROVE  RoomInv'
  <2>1. UNCHANGED <<opc, scan, lock, station>>
    BY <1>3 DEF ClientClose
  <2>2. \A u \in Clients : code'[u] # code[u] => code'[u] # "4003"
    BY <1>0, <1>3 DEF ClientClose, CloseWs, TypeOK
  <2>. QED
    BY <1>0, <2>1, <2>2, OutsideRoom
<1>4. CASE UNCHANGED vars
  <2>1. UNCHANGED <<opc, scan, lock, station, code>>
    BY <1>4 DEF vars
  <2>. QED
    BY <1>0, <2>1, OutsideRoom
<1>. QED
  BY <1>1, <1>2, <1>3, <1>4, OpenStepRoom, CloseStepRoom DEF Next

\* With a station for every websocket and the start-up, no websocket is
\* closed with WS_ENTRYSTATION_FULL: a station that initMCConnection finds
\* busy belongs to somebody who scanned before, and the lock keeps everybody
\* else from scanning meanwhile.
THEOREM RoomForAll ==
  ASSUME IsFiniteSet(Owners)
  PROVE  Spec => []NoRefusalWithRoom
<1>1. Init => RoomInv /\ Started
  BY InitRoom, ClientsAssumption DEF Init, Started, Owners
<1>2. RoomInv /\ Started /\ [Next]_vars => RoomInv' /\ Started'
  BY StepRoom, StepStarted DEF RoomInv
<1>3. RoomInv => NoRefusalWithRoom
  BY DEF RoomInv
<1>. QED
  BY <1>1, <1>2, <1>3, PTL DEF Spec
=============================================================================
