SPECIFICATION FairSpec
CONSTANTS
  Uploaders = {u1}
  Epoch <- MCEpochs
  MaxSeqno = 4
  MaxFaults = 1
  MaxErrors = 1
  Unfunded = {u1}
INVARIANTS
  TypeOK
  SentInOrder
  ReadsOwnWrites
  WasteIsExcused
  LibraryFirst
  AnswerOnItsWay
PROPERTIES
  NoRefetch
  BridgeCatchesUp
CHECK_DEADLOCK FALSE
