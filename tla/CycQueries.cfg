CONSTANTS
  a = a
  b = b
  c = c
  None = None
  Callers = {a, b}
  Closers = {c}
  SameId <- OneKind
  Lines = 2
  MaxSockets = 3
  SlowAnswers = TRUE
SPECIFICATION FairSpec
\* Every thread makes one query or one disconnect, then the system is done.
CHECK_DEADLOCK FALSE
INVARIANTS
  TypeOK
  AnswerIsFree
  SentOnce
PROPERTY QueryEnds
