CONSTANTS
  MaxActivities = 2
  MaxOpen = 2
  MaxChanges = 3
  Uids = {anchorUid, viewerUid}
  ANCHOR_UID = anchorUid
SPECIFICATION Spec
INVARIANTS RoomKnowsRole
CHECK_DEADLOCK FALSE
