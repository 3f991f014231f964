CONSTANTS
  CatchesSignals = TRUE
  MayFail = FALSE
  Slow = FALSE
  BusyStart = FALSE
  MaxSignals = 1
  SignalPoints = {"open_ctrl", "power_off", "await_off", "backoff", "open_user", "reset", "notify", "run", "stop", "close_adv", "close_user", "power_on", "await_on", "close_ctrl"}
SPECIFICATION Spec
INVARIANTS HandedBack
CHECK_DEADLOCK FALSE
