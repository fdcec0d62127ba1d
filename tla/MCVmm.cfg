CONSTANTS
  NULL = NULL
  Garbage = Garbage
  LRU_MARKING = 2
  PageCount = 3
  MCPageSize = 1
  PageSize = 1
  Byte <- MCByte
  Zero <- MCZero
  Data <- MCData
  ZeroPage <- MCZeroPage
  HimemBlocks = 1
  PageCacheCells = 2
  TlbCells = 2
  Frame = {f1, f2}
  NumberOfPages = 2
SYMMETRY FrameSymmetry
SPECIFICATION Spec
INVARIANT NoDanglingEntry
PROPERTY ImplementsRam
