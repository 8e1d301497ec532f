SPECIFICATION Spec
CONSTANTS
  MaxBlock = 4
  Logs <- MCLogs
  Setups <- MCSetups
  CommitBatch = 2
  QueueLength = 1
  PageSize = 1
  Faults = {}
  MaxFaults = 0
INVARIANT CheckpointIsProcessed
CHECK_DEADLOCK FALSE
