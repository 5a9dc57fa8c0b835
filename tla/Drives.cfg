CONSTANTS
  w1 = w1
  w2 = w2
  k1 = k1
  k2 = k2
  Websockets = {w1, w2}
  Workers = {k1, k2}
  WorkerOf <- OneWorkerEach
  PortOf <- OwnPorts
  AddressLost <- SecondLosesAddress
  Messages <- CommandsAndLua
  Opened = Opened
  Failed = Failed
  NoReply = NoReply
  None = None
SPECIFICATION FairSpec
\* Every websocket sends a few messages, then the system is done.
CHECK_DEADLOCK FALSE
INVARIANTS
  TypeOK
  AnswerIsOwn
  SessionReleased
PROPERTY CommandEnds
