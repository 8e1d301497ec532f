SPECIFICATION FairSpec
CONSTANTS
  MaxTx = 2
  MaxVersion = 2
  Updatable = {2}
  MaxInFlight = 1
  Faults = {"action", "persist", "lostResponse", "drop", "swap", "restart"}
  MaxFaults = 1
INVARIANTS TypeOK RecordedBeforeSubmitted  UpdateNotLost StoppedIsQuiescent
CHECK_DEADLOCK FALSE
 
