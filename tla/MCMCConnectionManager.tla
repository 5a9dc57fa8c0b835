------------------------ MODULE MCMCConnectionManager ------------------------
(* Small instances of MCConnectionManager. *)
EXTENDS MCConnectionManager, TLC

CONSTANTS w1, w2, w3,  \* websockets
          boot         \* the thread that starts the server

\* Remote ports of their own; the start-up thread's key is -1.
OwnPorts == [o \in Owners |-> o]

\* Two hosts whose clients chose the same port.
SamePort == [o \in Owners |-> IF o \in Clients THEN w1 ELSE o]

\* The remote address of w1 may be lost.
FirstLosesAddress == {w1}

\* Bounds on what happens outside: the websockets open one after the other,
\* each when the open threads before have ended, the MC drops the entry
\* stations of w1 and w2 only, and of the clients only that of w2 leaves.
Before(w) == CASE w = w1 -> {} [] w = w2 -> {w1} [] OTHER -> {w1, w2}
FewEvents ==
  \A w \in Clients :
    /\ wsState[w] # wsState'[w] /\ wsState[w] = "none" =>
         \A v \in Before(w) : opc[v] = "done"
    /\ code[w] # code'[w] /\ code'[w] = "client" => w = w2
    /\ es[w] # es'[w] /\ es'[w] = "dropped" => w # w3

\* The MC drops no entry station.
NoDrops == \A o \in Owners : es[o] = "open" => es'[o] # "dropped"
=============================================================================
