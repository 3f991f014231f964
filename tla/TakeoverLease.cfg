CONSTANTS
  CatchesSignals = TRUE
  MayFail = FALSE
  Slow = FALSE
  BusyStart = TRUE
  MaxSignals = 2
  SignalPoints = {"run", "stop"}
SPECIFICATION FairSpec
PROPERTIES LeaseKept
CHECK_DEADLOCK FALSE
