CONSTANTS
  Fetchers = {f1}
  Storers = {s1}
  Ahead = 1
  Start = 1
  MaxHeight = 2
  MaxRewalks = 1
  MaxGapRefills = 1
SPECIFICATION FairSpec
PROPERTIES
  ShutdownCompletes
  DrainCompletes
