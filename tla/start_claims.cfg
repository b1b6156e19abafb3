SPECIFICATION PageSpec
CONSTANTS
  None = None
  NoAudio = NoAudio
  s1 = s1
  probe = probe
  Instances = {s1}
  Hosts <- EncoderHosts
  Setups <- PolicyOrLock
  MaxStarts = 1
  Kills = FALSE
  Gateways <- AnyFlags
CHECK_DEADLOCK FALSE
INVARIANTS TypeOK ProbeIsTruthful CarriedAsClaimed ViewersAreCounted ReadyMeansHosted
