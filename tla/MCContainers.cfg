CONSTANTS
  NULL = NULL
  Garbage = Garbage
  LRU_MARKING = 3
  Key = {a, b, c}
  Value = {v, w}
  IndexKey = {1, 2, 3, 4, 5, 6, 7, 8, 9, 10}
  IndexValue = {1}
  PageCount = 4
  Data = {zero, written}
  ZeroPage = zero
  HimemBlocks = 2
  PageCacheCells = 2
SYMMETRY KeySymmetry
SPECIFICATION MCSpec
INVARIANTS UsedItemsOutliveIdleOnes BalancedSearchTree AnswersLikeAMap
PROPERTY StoreIsRam
