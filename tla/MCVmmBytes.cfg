CONSTANTS
  NULL = NULL
  Garbage = Garbage
  LRU_MARKING = 2
  PageCount = 2
  MCPageSize = 2
  PageSize = 2
  Byte <- MCByte
  Zero <- MCZero
  Data <- MCData
  ZeroPage <- MCZeroPage
  HimemBlocks = 1
  PageCacheCells = 2
  TlbCells = 2
  Frame = {f1}
  NumberOfPages = 1
SPECIFICATION Spec
PROPERTY ImplementsRam
