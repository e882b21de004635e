SPECIFICATION Spec
CONSTANTS
  v1 = v1
  v2 = v2
  v3 = v3
  v4 = v4
  McCount = 6
  KeyBlocks <- MCKeyBlocks
  PrevKey <- MCPrevKey
  Vset <- MCVset
  Validators <- MCValidators
  Weight <- MCWeight
  ShardBlocks = {1, 2, 3, 4, 5, 6, 7, 8, 9}
  Ref <- MCRef
  CommittedBy <- MCCommittedBy
  Top <- MCTop
INVARIANTS
  TypeOK
  ProofVerifies
  FailsForCause
CHECK_DEADLOCK FALSE
