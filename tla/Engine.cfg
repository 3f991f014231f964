CONSTANTS
  Addr = {a1, a2}
  Mix = {m1}
  NoAddr = NoAddr
  NoData = NoData
  NoMix = NoMix
  ScanError = ScanError
  AppleMode = "naive"
  TrackersOn = FALSE
  Benchmark = FALSE
  MayFail = TRUE
  Keys = {"space", "a", "s", "l"}
  MaxPerTick = 1
SPECIFICATION FairSpec
INVARIANTS OnAirCoherent AtMostOneStaleMint RateHonest LearnedTogether
PROPERTIES AiredByRadio ShutdownCompletes LearnServed PauseSilences RotationContinues ScanRecovers
