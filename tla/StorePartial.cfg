CONSTANTS
  TxRefs <- TwoTxs
  BatchSize <- OneByOne
  Malformed <- NoMalformed
  PeerDocs <- NoPeers
  MaxStoreTries = 2
  MaxBatchTries = 1
  MaxCIDTries = 1
  MaxCalls = 1
  Faults = {"conflict"}
SPECIFICATION Spec
INVARIANT IndexedIsComplete
CHECK_DEADLOCK FALSE
