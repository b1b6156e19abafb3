SPECIFICATION SafetySpec
CONSTANTS
  None = None
  NoAudio = NoAudio
  s1 = s1
  probe = probe
  Instances = {s1}
  Hosts <- EncoderHosts
  Setups <- AnyPolicy
  MaxStarts = 1
  Kills = FALSE
CHECK_DEADLOCK FALSE
INVARIANTS PolicyIsKept
