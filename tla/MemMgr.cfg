CONSTANTS
  WORD = 2
  ALIGN = 2
  BINS = 2
  BIGBLOCK = 16
  SIZES = 64
  INT_MAX = 4
  PAGE = 8
  HEAP = 48
  Requests = {2, 3, 7, 61}
  MaxLive = 3
  MaxReq = 4
SPECIFICATION Spec
INVARIANTS
  BlocksApart
  FreeListsHold
  PreFillCounts
CHECK_DEADLOCK FALSE
