------------------------ MODULE MCCyclicTaskHandler ------------------------
(* Small instances of CyclicTaskHandler. *)
EXTENDS CyclicTaskHandler, TLC

CONSTANTS a, b,  \* message handlers with a cyc command
          c      \* an onClose that counts no more clients

\* All clients ask for the same, as they do when they poll the state.
OneKind == [t \in Callers |-> Callers]
=============================================================================
