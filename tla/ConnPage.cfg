SPECIFICATION FairSpec
CONSTANTS
  MaxConnects = 1
  MaxSends = 2
INVARIANTS TypeOK AnswerIsOwn
PROPERTIES StoppedIsSilent OpenIsKnown ConnectingEnds QueryAnswered
CHECK_DEADLOCK FALSE
