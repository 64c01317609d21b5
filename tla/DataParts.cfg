CONSTANTS
  TxRefs <- StoreTxs
  BatchSize <- StoreBatches
  Malformed <- NoHash
  PeerDocs <- AnyDoc
  MaxStoreTries = 2
  MaxBatchTries = 2
  MaxCIDTries = 2
  MaxCalls = 2
  Faults = {"conflict", "error", "sign", "crash"}
SPECIFICATION PartsSpec
INVARIANTS
  ConvertedIsOneBlock
  AbortIsReported
  SignedIsComplete
  CollectorIsExact
  LinksAreRight
  WrittenIsTracked
  FixtureIsWhole
  
PROPERTIES
  OperationsEnd
