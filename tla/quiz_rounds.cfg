CONSTANTS
  Anchor = anchor
  Viewers = {v1}
  MaxQuestions = 2
  MaxAsr = 1
  MaxMsgCount = 1
SPECIFICATION FairSpec
INVARIANTS WaitingHasTimer OneQuestionAtATime
PROPERTIES ImplementsBallots ImplementsRounds QuestionIsAnnounced
CHECK_DEADLOCK FALSE
