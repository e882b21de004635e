SPECIFICATION ChainSpec
CONSTANT MaxSize = 25
INVARIANT NeverPanics
CHECK_DEADLOCK FALSE
