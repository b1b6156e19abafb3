SPECIFICATION Spec
CONSTANTS
  None = None
  Clients = {c1, c2}
  Commands <- AllForms
  MinInterval = 2
  MaxLines = 2
  MaxTime = 2
CHECK_DEADLOCK FALSE
INVARIANTS TypeOK AnswersInOrder ReplyIsApplied DroppedForGarbage
PROPERTIES RefinesRegister RefusalJustified LinesAreRead
