CONSTANTS
  MaxCycles = 2
  MaxScans = 2
  MaxLag = 1
SPECIFICATION FairSpec
INVARIANTS OnAirCoherent ReportedIsOnAir ListenedIsScanning StallBounded
PROPERTIES OneLateHarmless IterationEnds
CHECK_DEADLOCK FALSE
