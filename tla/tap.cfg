SPECIFICATION Spec
CONSTANTS
  QueueLimit = 3
  Rate = 3
  MaxFiles = 2
  MaxFrames = 12
CHECK_DEADLOCK FALSE
INVARIANTS TypeOK NothingLost TapIsFresh
PROPERTIES StallIsAbsorbed
