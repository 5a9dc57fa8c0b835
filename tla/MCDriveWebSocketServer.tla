----------------------- MODULE MCDriveWebSocketServer -----------------------
(* A small instance of DriveWebSocketServer. *)
EXTENDS DriveWebSocketServer, TLC

CONSTANTS w1, w2,  \* websockets
          k1, k2   \* worker threads

OneWorkerEach == w1 :> k1 @@ w2 :> k2

\* The remote address of w2 may be lost.
SecondLosesAddress == {w2}

OwnPorts == [w \in Websockets |-> w]

CommandsAndLua ==
  w1 :> << "set_ip", "cmd", "lua" >> @@ w2 :> << "cmd", "set_ip" >>
=============================================================================
