SPECIFICATION BindingSpec
CONSTANTS
  Code = {k1}
  Chat = {c1, c2}
  Feishu = Feishu
  Process = {p1, p2, p3}
  None = None
  NoLock = NoLock
  MaxFaults = 1
  MaxKills = 1
SYMMETRY Symmetry
CHECK_DEADLOCK FALSE
INVARIANTS OneUse BoundIsConfigured 
