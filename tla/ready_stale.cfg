SPECIFICATION PageSpec
CONSTANTS
  None = None
  NoAudio = NoAudio
  s1 = s1
  probe = probe
  Instances = {s1}
  Hosts <- OnlyGood
  Setups <- OneService
  MaxStarts = 1
  Kills = TRUE
  Gateways <- AnyFlags
CHECK_DEADLOCK FALSE
PROPERTIES ReadyIsGenuine
