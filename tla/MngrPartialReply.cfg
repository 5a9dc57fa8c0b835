CONSTANTS
  s1 = s1
  s2 = s2
  q1 = q1
  q2 = q2
  c1 = c1
  c2 = c2
  e1 = e1
  Synced = {}
  Querying = {q1}
  Closers = {c1}
  Exiting = {}
  Parts = 2
  IdOf <- OwnId
  PromptQueueThread = TRUE
  NoCommand = NoCommand
SPECIFICATION FairSpec
\* Every thread makes one query or one disconnect, then the system is done.
CHECK_DEADLOCK FALSE
INVARIANT WholeOrNothing
