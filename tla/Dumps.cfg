SPECIFICATION DumpSpec
CONSTANTS
  Families <- AllFamilies
  MaxNodes = 7
  MaxMany = 2
  Lang = {}
INVARIANTS ParentsReadBack ChildrenReadBack WellDrawn
CHECK_DEADLOCK FALSE
