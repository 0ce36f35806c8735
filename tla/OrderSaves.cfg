SPECIFICATION Spec
CONSTANTS
  Savers = {"c1", "c2"}
  SavedOrders = {"o1", "o2", "anonymous"}
  Unidentified = {"anonymous"}
  MaxSaves = 5
INVARIANTS
  CopiesBounded
  AnsweredAreListed
CHECK_DEADLOCK FALSE
