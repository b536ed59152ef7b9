CONSTANTS
  t1 = t1  t2 = t2  k0 = k0  k1 = k1
  Thread = {t1}
  Unit = {k0, k1}
  NoUnit = NoUnit
  SyncEvent = {k1}
  Calls = {"read", "waitany"}
  Arrays <- BothUnits
  StdinIsTty = TRUE
  MaxKeys = 2
SPECIFICATION Spec
INVARIANTS PendingIsParked
\* A thread may wait for a key that nobody presses.
CHECK_DEADLOCK FALSE
