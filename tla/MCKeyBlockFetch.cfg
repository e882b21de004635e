SPECIFICATION Spec
CONSTANTS
  v1 = v1
  v2 = v2
  v3 = v3
  v4 = v4
  v5 = v5
  Kinds = {"ton", "tycho", "legacy"}
  Chains <- MCChains
  Vset <- MCVset
  Quorums <- MCQuorums
INVARIANTS
  NextForBridge
  WalkFailsByNodes
