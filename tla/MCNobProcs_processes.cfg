SPECIFICATION Spec
CONSTANTS
  MaxPid = 3
  MaxProcs = 2
  Files = {"f"}
  Roles = {"quits", "drains", "floods"}
INVARIANTS TypeOK ListHonest NoFdLeft
PROPERTIES FlushTellsAll NoBrokenPipe CallsReturn ChildrenEnd
CHECK_DEADLOCK FALSE
