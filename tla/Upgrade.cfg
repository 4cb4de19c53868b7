SPECIFICATION UpgradeSpec
CONSTANTS
  Version = {v1, v2, v3}
  PreM2 = {v1, v2}
  Command = {c1, c2}
  None = None
  Windows = TRUE
  MaxFaults = 2
  MaxKills = 1
SYMMETRY Symmetry
CONSTRAINT Undisturbed
CHECK_DEADLOCK FALSE
INVARIANTS  CommittedIsComplete 
PROPERTIES NoPartialDowngrade
