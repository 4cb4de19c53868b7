CONSTANTS
  t1 = t1
  t2 = t2
  legacy = legacy
  none = none
  Target <- MCTargets
  Backoff <- MCLongBackoff
  Legacy <- legacy
  None <- none
  MaxItems = 1
  Lease = 1
  Poll = 1
  QuietUntil = 3
  MaxDead = 0
  MaxCrashes = 1
  MaxFaults = 1
SPECIFICATION Spec
INVARIANTS TypeOK NoLostItem RecordedSuccessDurable BoundedSends SettledItems
PROPERTIES NoResend SendsAreDue
SYMMETRY TargetSymmetry
CHECK_DEADLOCK FALSE
