SPECIFICATION Spec
CONSTANTS
  None = None
  Viewers = {v1, v2}
  After = 2
  PollEvery = 1
  ReadTimeout = 2
  Faults = {"crash", "exit", "refuse"}
  MaxTime = 5
  MaxInstances = 2
  MaxStray = 0
PROPERTIES RefinesPolicy PollReturns IdleGetsLocked
