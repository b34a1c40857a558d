SPECIFICATION FairSpec
CONSTANTS
  Size = 3
  Chunk = 2
  Buffer = 2
  Window = 1
  Group = 2
  MaxAcks = 1
INVARIANTS TypeOK NothingForgotten ReportedOnce
PROPERTIES TransferSpec 
CHECK_DEADLOCK FALSE
