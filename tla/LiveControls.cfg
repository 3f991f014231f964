CONSTANTS
  AdvMsFlags = {20, 100, 2500, 10210, 10211, 40958, 40980}
  RotateMsFlags = {0, 30, 250, 5000}
  Candidates = {30, 75}
  AdvertsPerIDs = {1, 40}
  MaxKeys = 3
SPECIFICATION FairSpec
INVARIANTS IntervalAsAsked DwellVisible LogKept
PROPERTIES ShownSettles
