CONSTANTS
  Keys <- MCKeys
  Vals <- MCVals
  Hash <- MCHash
  NumBuckets = 1
  RecHdr = 1
  Base = 7
  DbSize = 19
  db_file = TRUE
  InitFaults = TRUE
CHECK_DEADLOCK FALSE
SPECIFICATION Spec
INVARIANTS
  Inv
  
  InitialisedFileOpens
  CountersBoundLive
