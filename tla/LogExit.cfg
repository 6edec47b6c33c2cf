SPECIFICATION FairSpec
CONSTANTS
  Buf <- Cells
  Null = Null
  Calloc <- LowestFree
  BufferCap = 3
  Lens = {1, 2}
  DropLimit = 3
  MaxRecords = 2
PROPERTIES
  EveryRecordSynced
