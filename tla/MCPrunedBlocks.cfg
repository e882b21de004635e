SPECIFICATION Spec
CONSTANTS
  Blocks <- MCBlocks
  Shards <- MCShards
  Accounts = {1, 2}
  Lts = {1, 2}
  Width = 4
INVARIANTS
  PruningIsTransparent
  ExactShard
