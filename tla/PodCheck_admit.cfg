SPECIFICATION FairSpec
CONSTANTS
  Slots = {s, t}
  MaxScale = 1
CHECK_DEADLOCK FALSE
INVARIANTS AdmittedIsChecked AnswerIsComplete
PROPERTIES Answered
