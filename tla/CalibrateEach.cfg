CONSTANTS
  Supported = {20, 30, 50}
  Strict = TRUE
  MayFail = FALSE
  Dense = TRUE
  MaxCycles = 2
  Candidates <- Aggressive
SPECIFICATION Spec
INVARIANTS EachProbed
CHECK_DEADLOCK FALSE
