CONSTANTS
  Keys <- MCKeys
  Vals <- MCVals
  Hash <- MCHash
  NumBuckets = 1
  RecHdr = 1
  Base = 7
  DbSize = 19
  db_file = TRUE
  InitFaults = FALSE
SPECIFICATION Spec
INVARIANTS
  MatchedRecordHasKey
