CONSTANTS
  MaxRecognitions = 2
  MaxActivities = 2
SPECIFICATION FairSpec
INVARIANTS TypeInvariant OneTicker MutedOnlyByPress OneResultEach ReleaseIsPending
PROPERTIES ImplementsDictation ReleaseIsAnswered
CHECK_DEADLOCK FALSE
