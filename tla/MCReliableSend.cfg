SPECIFICATION FairSpec
CONSTANTS
  BatchLen = 2
  MaxTime = 2
  MaxTxs = 5
  MaxFaults = 1
  Expiries <- MCExpiries
INVARIANTS
  TypeOK
  NothingSkipped
PROPERTIES
  DeliverySpec
  CallReturns
CHECK_DEADLOCK FALSE
