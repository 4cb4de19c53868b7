CONSTANTS
  t1 = t1
  legacy = legacy
  none = none
  Target <- MCTargets
  Backoff <- MCShortBackoff
  Legacy <- legacy
  None <- none
  MaxItems = 2
  Lease = 1
  Poll = 1
  QuietUntil = 2
  MaxDead = 1
  MaxCrashes = 1
  MaxFaults = 0
  MaxTrouble = 2
SPECIFICATION RetrySpec
INVARIANTS RetryKeepsItem
PROPERTIES RetryNoResend RepairComplete EventuallySettled
CHECK_DEADLOCK FALSE
