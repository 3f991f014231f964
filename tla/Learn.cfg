CONSTANTS
  Noise = {18}
  Vendors <- SmallTable
  Ambient <- Air
  MACs = {m1, m2}
  RSSIs <- Signals
  Counts = {1, 20}
  MaxReports = 2
SPECIFICATION Spec
INVARIANTS ClosestFirst NothingForgotten SummaryHonest CrowdDiverse AiredParses AiredHarmless
CHECK_DEADLOCK FALSE
