SPECIFICATION Spec
CONSTANTS
  a = a
  b = b
  x = x
  y = y
  Junk = Junk
  Arrays <- TwoArrays
  Elem <- TwoElems
  ElemSize = 2
  ExprSizes <- Wider
  ReserveSizes = {2}
  ExtendLengths = {0, 2}
  MaxCount = 3
  AvoidTightOne = TRUE
  AllocMayFail = TRUE
INVARIANTS TypeOK WritesInBounds CapacityHonest ReserveHonoured
PROPERTIES ImplementsSequences DoesAsNamed
SYMMETRY Symmetry
