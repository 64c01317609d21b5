SPECIFICATION Spec
CONSTANTS
  g = g  a1 = a1  a2 = a2  a3 = a3  a4 = a4
  b1 = b1  b2 = b2  b3 = b3  b4 = b4  b5 = b5  b6 = b6
  Ht <- HeightMap
  NoBlock = NoBlock
  Failed = Failed
  Blocks <- ShortTree
  Parent <- ParentAtA1
  StartHeight = 1
  StartBuffer = 9
  Window = 2
  Pool = 2
  MaxRollbacks = 2
  MaxHeightRollbacks = 1
  MaxRewalks = 1
  MaxGapRefills = 1
  Faults = {"stop", "fetch", "store", "query"}
  CrashModes = {"run", "walk", "rollback"}
  MaxFlips = 2
  MaxStarts = 3
  MaxFails = 1
INVARIANTS OneVisiblePerHeight LinkedStore CleanFront
PROPERTIES RollbackSparesTheChain
CHECK_DEADLOCK FALSE
