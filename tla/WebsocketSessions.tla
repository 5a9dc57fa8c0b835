------------------------- MODULE WebsocketSessions -------------------------
(***************************************************************************)
(* What the pool of entry stations promises to each websocket: it waits    *)
(* until it is served by a connection of its own or is turned away, it is  *)
(* served at most once, and it never loses its connection while it is      *)
(* still open.  MCConnectionManager implements this specification.         *)
(***************************************************************************)
CONSTANT Clients   \* websockets

VARIABLE session

Init == session = [w \in Clients |-> "none"]

Move(w, from, to) ==
  /\ session[w] \in from
  /\ session' = [session EXCEPT ![w] = to]

Open(w)  == Move(w, {"none"}, "waiting")
Serve(w) == Move(w, {"waiting"}, "served")
End(w)   == Move(w, {"waiting", "served"}, "ended")

Next == \E w \in Clients : Open(w) \/ Serve(w) \/ End(w)

Spec == Init /\ [][Next]_session

\* Nobody waits for ever.
FairSpec ==
  Spec /\ \A w \in Clients :
            WF_session(session[w] = "waiting" /\ (Serve(w) \/ End(w)))
=============================================================================
