CONSTANTS
  MaxKey = 6
  Null = Null
  Calls = {"insert", "delete", "lookup", "first", "enumerate"}
  Thorough = TRUE
SPECIFICATION FairSpec
INVARIANTS TypeOK RestartKeyAlive
PROPERTIES ImplementsTable CallsReturn
