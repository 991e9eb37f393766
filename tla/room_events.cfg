CONSTANTS
  ANCHOR_UID = anchorUid
  Users = {u1}
  MaxActivities = 2
  MaxOpen = 1
  MaxReports = 4
  MaxTexts = 1
  MaxMsgCount = 2
SPECIFICATION FairSpec
INVARIANTS TypeInvariant SurfaceFollowsAnchor NoticeIsTrue PresenceLinesAreTrue CrashOffScreen
PROPERTIES FrameIsShown
CHECK_DEADLOCK FALSE
