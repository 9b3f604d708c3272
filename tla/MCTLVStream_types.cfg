SPECIFICATION Spec
CONSTANTS
  LengthLimit = 3
  Hosts <- AnyOrder
  Outgoing <- EveryType
  Foreign <- Peers
  MaxMessages = 2
  ShortReads = TRUE
  Residues <- SomeTail
  AllocMayFail = FALSE
INVARIANTS TypeOK WireLayout DecodesSent RefusesOnlyUnknown OverrunIffCut OneMessagePerFrame
