CONSTANTS
  t1 = t1  t2 = t2  t3 = t3  en = en  es = es
  Thread = {t1, t2, t3}
  NoThread = NoThread
  Event = {en, es}
  SyncEvent = {es}
  FileHandle = FileHandle
  NullHandle = NullHandle
  Arrays <- EventArrays
  Timeouts = {"null", "time"}
  TimeoutTakesSignal = FALSE
SPECIFICATION Spec
SYMMETRY Threads3
INVARIANTS TypeOK MutexHeld NoLostWakeup
\* Every thread may exit, or wait for an event nobody sets.
CHECK_DEADLOCK FALSE
