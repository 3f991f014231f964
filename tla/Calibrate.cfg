CONSTANTS
  Supported = {20, 30, 50}
  Strict = FALSE
  MayFail = TRUE
  Dense = TRUE
  MaxCycles = 3
  Candidates <- Unordered
SPECIFICATION Spec
INVARIANTS LowestClean LowestRate Sustained
CHECK_DEADLOCK FALSE
