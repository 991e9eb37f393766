CONSTANTS
  Anchor = anchor
  Viewers = {v1}
  MaxQuestions = 2
  MaxAsr = 1
  MaxMsgCount = 1
SPECIFICATION Spec
INVARIANTS NoMoreAnswersThanViewers
CHECK_DEADLOCK FALSE
