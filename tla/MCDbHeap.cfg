CONSTANTS
  Keys <- MCKeys
  Vals <- MCVals
  Hash <- MCHash
  NumBuckets = 2
  RecHdr = 1
  Base = 2
  DbSize = 5
  db_file = FALSE
  InitFaults = FALSE
SPECIFICATION Spec
INVARIANTS
  ChainsSound
  LinkedRecordsLive
  NoLeak
PROPERTIES
  ImplementsKVStore
