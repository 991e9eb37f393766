CONSTANTS
  Anchor = anchor
  Viewers = {v1, v2}
  MaxQuestions = 1
  MaxAsr = 1
  MaxMsgCount = 2
SPECIFICATION Spec
INVARIANTS TypeInvariant TallyIsExact OneAnswerPerQuestion BallotIsSecret
SYMMETRY Symmetry
CHECK_DEADLOCK FALSE
