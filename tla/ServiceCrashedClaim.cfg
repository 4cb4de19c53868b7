CONSTANTS
  t1 = t1
  t2 = t2
  legacy = legacy
  none = none
  Target <- MCOneTarget
  Backoff <- MCShortBackoff
  Legacy <- legacy
  None <- none
  MaxItems = 1
  Lease = 2
  Poll = 1
  QuietUntil = 0
  MaxDead = 0
  MaxCrashes = 1
  MaxFaults = 0
SPECIFICATION FairSpec

PROPERTIES CrashedClaimRecovers
CHECK_DEADLOCK FALSE
