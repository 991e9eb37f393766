CONSTANTS
  Viewers = {v1}
  MaxQuestions = 2
  MaxSpeech = 1
  MaxVisits = 1
SPECIFICATION Spec
PROPERTIES ButtonWaits
CHECK_DEADLOCK FALSE
