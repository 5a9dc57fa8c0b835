CONSTANTS
  s1 = s1
  s2 = s2
  q1 = q1
  q2 = q2
  c1 = c1
  c2 = c2
  e1 = e1
  Synced = {s1, s2}
  Querying = {}
  Closers = {}
  Exiting = {e1}
  Parts = 1
  IdOf <- SharedId
  PromptQueueThread = TRUE
  NoCommand = NoCommand
SPECIFICATION FairSpec
\* Every thread makes one query or one disconnect, then the system is done.
CHECK_DEADLOCK FALSE
INVARIANT ReplyToItsId
