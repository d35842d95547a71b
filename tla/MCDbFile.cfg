CONSTANTS
  Keys <- MCKeys
  Vals <- MCVals
  Hash <- MCHash
  NumBuckets = 2
  RecHdr = 1
  Base = 2
  DbSize = 11
  db_file = TRUE
  InitFaults = FALSE
SPECIFICATION FairSpec
INVARIANTS
  TypeOK
  Inv
  KeysUnique
PROPERTIES
  LinkedRecordsConstant
  ImplementsKVStore
  OperationsReturn
