SPECIFICATION Spec
CONSTANTS
  a = a
  b = b
  x = x
  y = y
  Junk = Junk
  Arrays <- OneArray
  Elem <- TwoElems
  ElemSize = 2
  ExprSizes <- Exact
  ReserveSizes = {1}
  ExtendLengths = {1}
  MaxCount = 3
  AvoidTightOne = FALSE
  AllocMayFail = FALSE
INVARIANT WritesInBounds
