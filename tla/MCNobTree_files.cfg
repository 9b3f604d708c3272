SPECIFICATION Spec
CONSTANTS
  Tree <- Paths
  Sources <- AnySource
  Targets <- SomeTarget
  TempLimit = 5
INVARIANTS TypeOK CopiedAll NothingLeft AbortsForCause VisitsInOrder VisitsAll
CONSTRAINT FreshWalks
