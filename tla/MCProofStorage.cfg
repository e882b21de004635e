SPECIFICATION Spec
CONSTANTS
  MaxMc = 6
  Shards = {"P", "L", "R"}
  ScBlocks <- MCScBlocks
  Ref <- MCRef
  Leaves <- MCLeaves
  Top <- MCTop
  McTime <- MCMcTime
  ScTime <- MCScTime
  KeyBlocks = {1, 3}
  TimingsStep = 2
  MinProofTtl = 2
  MaxTime = 4
  MaxCrashes = 1
INVARIANTS
  TypeOK
  ServedWithinTtl
  IndexIsBacked
  OrphansOfGoneShards
  SignedByCurrent
  TimingsLead
PROPERTY
  ServiceSpec
CHECK_DEADLOCK FALSE
