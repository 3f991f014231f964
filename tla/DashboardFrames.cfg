CONSTANTS
  Viewports = {2, 3}
  MaxRows = 3
  Typed = {"up", "a", "end", "tab"}
  MaxKeys = 2
  Switches <- AppleOnly
SPECIFICATION Spec
INVARIANTS ScrollMatches FrameFresh
CHECK_DEADLOCK FALSE
