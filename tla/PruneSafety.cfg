CONSTANTS
  MaxBlocks = 1
  MaxBlocksPerCycle = 1
  MaxHeight = 3
  MaxRolls = 1
  MaxProcs = 2
  MaxFails = 2
  Faults = {"query", "purge", "save", "load", "store", "late", "crash"}
SPECIFICATION FairSpec
INVARIANTS
  PresentIsQueued
PROPERTIES
  PurgesOnlyOld
  RetentionConverges
CHECK_DEADLOCK FALSE
