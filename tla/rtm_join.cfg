CONSTANTS
  MaxActivities = 3
  MaxOpen = 2
  MaxChanges = 5
  Uids = {anchorUid}
  ANCHOR_UID = anchorUid
SPECIFICATION FairSpec
INVARIANTS TypeInvariant NoLostConnect EnabledIsJoined 
PROPERTIES ConnectedJoins
CHECK_DEADLOCK FALSE
