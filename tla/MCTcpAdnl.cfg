SPECIFICATION FairSpec
CONSTANT Callers = {c1, c2}
INVARIANTS
  TypeOK
  WireInOrder
  AnswersOwn
  CacheIsExact
PROPERTY CloseIsSeen
CHECK_DEADLOCK FALSE
