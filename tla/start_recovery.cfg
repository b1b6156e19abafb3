SPECIFICATION Spec
CONSTANTS
  None = None
  NoAudio = NoAudio
  s1 = s1
  probe = probe
  Instances = {s1, probe}
  Hosts <- TroubledHosts
  Setups <- AnyRequest
  MaxStarts = 3
  Kills = TRUE
CHECK_DEADLOCK FALSE
INVARIANTS ServingIsReachable
PROPERTIES StartEnds MissingAudioEnds WideOnlyByDeath
