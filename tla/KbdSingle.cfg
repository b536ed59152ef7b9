CONSTANTS
  t1 = t1  t2 = t2  k0 = k0  k1 = k1
  Thread = {t1}
  Unit = {k0, k1}
  NoUnit = NoUnit
  SyncEvent = {k1}
  Calls = {"read", "waitany", "cancel"}
  Arrays <- AllUnits
  StdinIsTty = FALSE
  MaxKeys = 3
SPECIFICATION FairSpec
INVARIANTS TypeOK EventMeansDone NoWriteAfterRelease 
PROPERTIES KeyEndsWait
\* A thread may wait for a key that nobody presses.
CHECK_DEADLOCK FALSE
