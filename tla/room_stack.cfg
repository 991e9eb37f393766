CONSTANTS
  ANCHOR_UID = anchorUid
  Users = {u1}
  MaxActivities = 2
  MaxOpen = 2
  MaxReports = 4
  MaxTexts = 1
  MaxMsgCount = 2
SPECIFICATION Spec
INVARIANTS SurfaceFollowsAnchor
CHECK_DEADLOCK FALSE
