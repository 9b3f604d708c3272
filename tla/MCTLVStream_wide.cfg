SPECIFICATION Spec
CONSTANTS
  LengthLimit = 3
  Hosts <- OnlyBig
  Outgoing <- Wide64
  Foreign <- NoPeers
  MaxMessages = 2
  ShortReads = FALSE
  Residues <- EmptyTail
  AllocMayFail = FALSE
INVARIANT BigEndianWire
