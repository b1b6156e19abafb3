SPECIFICATION SafetySpec
CONSTANTS
  None = None
  Viewers = {v1}
  After = 2
  PollEvery = 1
  ReadTimeout = 2
  Faults = {}
  MaxTime = 4
  MaxInstances = 1
  MaxStray = 0
PROPERTIES LockOnlyUnwatched
