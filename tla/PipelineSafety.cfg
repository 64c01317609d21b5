CONSTANTS
  Fetchers = {f1, f2}
  Storers = {s1, s2}
  Ahead = 1
  Start = 1
  MaxHeight = 3
  MaxRewalks = 0
  MaxGapRefills = 0
SYMMETRY Symmetry
SPECIFICATION Spec
INVARIANTS
  InFlightExact
  NoSendAfterClose
  QuiescentWalkBack
  DrainResolvesAll
  OrderedCallbacks
  BoundedLookahead
PROPERTIES
  HoldBack
  ImplementsSequential
