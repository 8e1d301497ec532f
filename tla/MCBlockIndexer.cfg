SPECIFICATION FairSpec
CONSTANTS
  MaxHeight = 4
  MaxDepth = 2
  MaxReorgs = 1
  CacheLen = 4
  Faults = {"filter", "lookup", "receipts", "crash"}
  MaxFaults = 1
  FromBlock = 1
  RequiredConfirmations = 2
  CommitBatchSize = 2
  NewHeadLimit = 1
INVARIANTS TypeOK ViewIsLinked IndexedIsCanonical
PROPERTIES AllIndexed
CHECK_DEADLOCK FALSE
