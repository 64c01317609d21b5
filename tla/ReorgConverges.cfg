SPECIFICATION FairSpec
CONSTANTS
  g = g  a1 = a1  a2 = a2  a3 = a3  a4 = a4
  b1 = b1  b2 = b2  b3 = b3  b4 = b4  b5 = b5  b6 = b6
  Ht <- HeightMap
  NoBlock = NoBlock
  Failed = Failed
  Blocks <- LongTree
  Parent <- ParentAtA1
  StartHeight = 1
  StartBuffer = 9
  Window = 2
  Pool = 1
  MaxRollbacks = 2
  MaxHeightRollbacks = 1
  MaxRewalks = 2
  MaxGapRefills = 1
  Faults = {}
  CrashModes = {}
  MaxFlips = 2
  MaxStarts = 1
  MaxFails = 0
PROPERTIES OrphansAreRolledBack
CHECK_DEADLOCK FALSE
