SPECIFICATION ToolSpec
CONSTANTS
  MaxTime = 3
  MaxVersion = 2
  Srcs = {"tlv", "buffer"}
  Tests = {"test_tlv", "test_more"}
  Versions <- Shapes
  MaxEdits = 1
INVARIANTS TypeOK SomeBinary QuietEditsAreBuilt BuildTypeOK LibsAreCurrent FailsForCause AllTestsTried PackedWhole
PROPERTIES RunsEnd
