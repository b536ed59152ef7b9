CONSTANTS
  t1 = t1  t2 = t2  k0 = k0  k1 = k1
  Thread = {t1, t2}
  Unit = {k0, k1}
  NoUnit = NoUnit
  SyncEvent = {k1}
  Calls = {"read", "waitany", "waitone"}
  Arrays <- AllUnits
  StdinIsTty = TRUE
  MaxKeys = 2
SPECIFICATION Spec
SYMMETRY Threads2
INVARIANTS OneCompletion NoWriteAfterRelease SlotIsOpen
\* A thread may wait for a key that nobody presses.
CHECK_DEADLOCK FALSE
