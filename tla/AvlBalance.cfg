CONSTANTS
  MaxKey = 12
  Null = Null
  Calls = {"insert", "delete"}
  Thorough = FALSE
SPECIFICATION Spec
INVARIANTS SearchTree AvlShape
