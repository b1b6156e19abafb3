SPECIFICATION SafetySpec
CONSTANTS
  None = None
  Viewers = {v1, v2}
  After = 2
  PollEvery = 1
  ReadTimeout = 2
  Faults = {"crash", "exit", "refuse", "stray"}
  MaxTime = 5
  MaxInstances = 2
  MaxStray = 1
INVARIANTS TypeOK CountWithinStrays ReportIsHonest
PROPERTIES DiscoverFindsLive
SYMMETRY ViewerSymmetry
