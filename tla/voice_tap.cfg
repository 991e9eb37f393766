CONSTANTS
  MaxRecognitions = 1
  MaxActivities = 1
SPECIFICATION Spec
PROPERTIES ReleaseEndsRecording
CHECK_DEADLOCK FALSE
