CONSTANTS
  CatchesSignals = TRUE
  MayFail = FALSE
  Slow = TRUE
  BusyStart = FALSE
  MaxSignals = 0
  SignalPoints = {}
SPECIFICATION Spec
INVARIANTS HandedBackOnFailure
CHECK_DEADLOCK FALSE
