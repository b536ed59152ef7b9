CONSTANTS
  t1 = t1  t2 = t2  k0 = k0  k1 = k1
  Thread = {t1, t2}
  Unit = {k0}
  NoUnit = NoUnit
  SyncEvent = {k0}
  Calls = {"read", "waitany"}
  Arrays <- OneUnit
  StdinIsTty = TRUE
  MaxKeys = 2
SPECIFICATION Spec
INVARIANTS EventMeansDone
\* A thread may wait for a key that nobody presses.
CHECK_DEADLOCK FALSE
