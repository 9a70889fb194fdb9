CONSTANTS
  SPI_RETRY_COUNT = 2
  SPI_RESP_RETRY_COUNT = 1
  MaxTransfer = 2
  DATA_PKT_SZ = 4
  MemSize = 10
  Ranges <- MCRanges
SPECIFICATION FairSpec
INVARIANTS
  TypeOK
  TransfersDone
  InitAgrees
PROPERTIES
  CallsReturn
