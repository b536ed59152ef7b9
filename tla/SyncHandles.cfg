CONSTANTS
  t1 = t1  t2 = t2  t3 = t3  en = en  es = es
  Thread = {t1, t3}
  NoThread = NoThread
  Event = {es}
  SyncEvent = {es}
  FileHandle = FileHandle
  NullHandle = NullHandle
  Arrays <- MixedArrays
  Timeouts = {"null", "zero", "time"}
  TimeoutTakesSignal = TRUE
SPECIFICATION Spec
PROPERTIES WaitAllComplete TimeoutIsDue ImplementsNtEventSafely
\* Every thread may exit, or wait for an event nobody sets.
CHECK_DEADLOCK FALSE
