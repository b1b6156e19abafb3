SPECIFICATION SafetySpec
CONSTANTS
  None = None
  Clients = {c1}
  Commands <- AllForms
  MinInterval = 2
  MaxLines = 1
  MaxTime = 0
CHECK_DEADLOCK FALSE
INVARIANTS ErrorsAreReported
