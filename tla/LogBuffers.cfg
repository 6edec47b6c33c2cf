SPECIFICATION FairSpec
CONSTANTS
  Buf <- Cells
  Null = Null
  Calloc <- LowestFree
  BufferCap = 3
  Lens = {1, 2}
  DropLimit = 3
  MaxRecords = 6
INVARIANTS
  AssertsHold
  PointersLive
  OneOwner
  NoLostWakeup
  NothingVanishes
  DropsAnnounced
PROPERTIES
  QueueOrder
  RecordsReachFile
  ExitReturns
