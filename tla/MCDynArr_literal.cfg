SPECIFICATION Spec
CONSTANTS
  a = a
  b = b
  x = x
  y = y
  Junk = Junk
  Arrays <- OneArray
  Elem <- TwoElems
  ElemSize = 2
  ExprSizes <- Mixed
  ReserveSizes = {2}
  ExtendLengths = {1}
  MaxCount = 3
  AvoidTightOne = TRUE
  AllocMayFail = FALSE
INVARIANT CapacityHonest
