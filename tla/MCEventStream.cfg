SPECIFICATION FairSpec
CONSTANTS
  MaxBlock = 4
  Logs <- MCLogs
  Setups <- MCSetups
  CommitBatch = 1
  QueueLength = 1
  PageSize = 1
  Faults = {"crash", "stop", "commit"}
  MaxFaults = 2
INVARIANTS TypeOK InOrder CheckpointCovers 
 
CHECK_DEADLOCK FALSE
