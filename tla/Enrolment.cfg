SPECIFICATION EnrolmentSpec
CONSTANTS
  Code = {k1}
  Device = {d1, d2}
  Request = {r1, r2, r3}
  None = None
  NoLock = NoLock
  MaxFaults = 1
  MaxKills = 1
SYMMETRY Symmetry
CONSTRAINT ConnectorsMatter
CHECK_DEADLOCK FALSE
INVARIANTS OnePeerPerCode  PairedIsServed
