SPECIFICATION FairSpec
CONSTANTS
  None = None
  o1 = o1
  o2 = o2
  u1 = u1
  Org = {o1, o2}
  User = {u1}
  Message <- MCMessages
  MaxAttempts = 2
  Batch = 1
  Preference <- MCPreferences
  Patch <- MCPatches
  MaxJobs = 3
  MaxLost = 1
INVARIANTS QueueAgrees
PROPERTIES NotificationsEnd
CHECK_DEADLOCK FALSE
