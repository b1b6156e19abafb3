SPECIFICATION Spec
CONSTANTS
  None = None
  Ids = {0, 1, 2}
  Requests <- AnyRequest
CHECK_DEADLOCK FALSE
INVARIANTS TypeOK SessionIsPermitted ExitIsTruthful SecretArrives RunsAsUser RootCanDrop
