CONSTANTS
  MinHeight = 1
  MaxHeight = 5
  BlocksPerFile = {2}
  MaxSnapshots = 1
  MaxRolls = 1
  MaxProcs = 2
  MaxFails = 1
  Faults = {"query", "roots", "write", "sign", "remove", "unsign", "hole", "late", "crash"}
  Prunes = TRUE
SPECIFICATION ScenarioSpec
INVARIANTS
  SignsItsFile
  FilesDisjoint
PROPERTIES
  KeepsNewest
CHECK_DEADLOCK FALSE
