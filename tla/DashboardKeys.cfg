CONSTANTS
  Viewports = {2}
  MaxRows = 0
  Typed = {"up", "pgdn", "space", "tab", "help", "esc", "q"}
  MaxKeys = 2
  Switches <- PauseOnly
SPECIFICATION FairSpec
INVARIANTS KeysUnderstood TerminalRestored
PROPERTIES KeysServed DashboardEnds
CHECK_DEADLOCK FALSE
