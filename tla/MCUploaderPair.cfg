SPECIFICATION Spec
CONSTANTS
  Uploaders = {u1, u2}
  Epoch <- MCEpochsPair
  MaxSeqno = 3
  MaxFaults = 0
  MaxErrors = 0
  Unfunded = {}
INVARIANTS
  WasteIsExcused
CHECK_DEADLOCK FALSE
