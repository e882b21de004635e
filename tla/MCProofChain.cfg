SPECIFICATION ChainSpec
CONSTANT MaxSize = 25
INVARIANTS
  ReadsBack
  PacksWholeCells
CHECK_DEADLOCK FALSE
