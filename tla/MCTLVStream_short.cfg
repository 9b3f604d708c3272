SPECIFICATION Spec
CONSTANTS
  LengthLimit = 3
  Hosts <- SameOrder
  Outgoing <- Narrow
  Foreign <- NoPeers
  MaxMessages = 2
  ShortReads = TRUE
  Residues <- SomeTail
  AllocMayFail = FALSE
INVARIANT ReadThenDeserialize
