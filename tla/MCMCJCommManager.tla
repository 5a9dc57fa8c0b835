-------------------------- MODULE MCMCJCommManager --------------------------
(* Small instances of MCJCommManager. *)
EXTENDS MCJCommManager, TLC

CONSTANTS s1, s2,  \* message handlers of a websocket
          q1, q2,  \* queries of the thread that starts the server
          c1, c2,  \* threads that disconnect
          e1       \* a thread that queries tp_exit and disconnects

\* Every command has an id of its own.
OwnId == [t \in Threads |-> t]

\* The start-up and tp_exit use the id 0, a page may.
SharedId == [t \in Threads |-> IF t = s2 THEN 5 ELSE 0]

\* Bound: the queries of the start-up come in one order, c1 disconnects once
\* the second has begun or the queue thread has ended, the MC closes before
\* tp_exit, and no reply has an error frame, which is handled as a data frame
\* is.
InOrder ==
  /\ pc'[q2] # "idle" => pc[q1] \in {"returned", "npe"}
  /\ pc'[c1] # "idle" => pc[q2] # "idle" \/ qpc = "dead"
  /\ pc[e1] # "idle" => mcUp' = mcUp
  /\ \A i \in 1..Len(wire') : wire'[i].type # "ERROR"
=============================================================================
