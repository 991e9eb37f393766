CONSTANTS
  Viewers = {v1}
  MaxQuestions = 2
  MaxSpeech = 1
  MaxVisits = 2
SPECIFICATION FairSpec
INVARIANTS TypeInvariant LockHasTimer LabelIsLastQuiz OneAnswerEach
PROPERTIES QuizAlertEnds ImplementsBallots
CHECK_DEADLOCK FALSE
