SPECIFICATION BoundedSpec
CONSTANTS
  LengthLimit = 3
  Hosts <- SameOrder
  Outgoing <- EveryWidth
  Foreign <- Peers
  MaxMessages = 13
  ShortReads = FALSE
  Residues <- EmptyTail
  AllocMayFail = TRUE
INVARIANTS ArrayHasRoom HeaderPerMessage
PROPERTY ImplementsChannel
