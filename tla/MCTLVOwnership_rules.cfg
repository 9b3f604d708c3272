SPECIFICATION Spec
CONSTANTS
  NULL = NULL
  Vars = {v, w}
  Block = {b1, b2, b3, b4, b5, b6, b7}
  MaxMessages = 2
INVARIANTS TypeOK NoMisuse OwnedOnce
SYMMETRY Symmetry
