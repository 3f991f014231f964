CONSTANTS
  CatchesSignals = TRUE
  MayFail = TRUE
  Slow = TRUE
  BusyStart = TRUE
  MaxSignals = 2
  SignalPoints = {"open_ctrl", "power_off", "await_off", "backoff", "open_user", "reset", "notify", "run", "stop", "close_adv", "close_user", "power_on", "await_on", "close_ctrl"}
SPECIFICATION HungSpec
INVARIANTS Exclusive RestoredIsTrue
PROPERTIES NeverBlocked
CHECK_DEADLOCK FALSE
