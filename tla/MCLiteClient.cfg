SPECIFICATION FairSpec
CONSTANTS
  ServerCount = 3
  Queries = {q1}
  MaxAttempts = 2
  MaxErrors = 2
INVARIANTS
  TypeOK
  ReliableAnswers
PROPERTIES
  ClosedIsReplaced
  QueryReturns
CHECK_DEADLOCK FALSE
