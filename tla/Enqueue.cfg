CONSTANTS
  e1 = e1
  e2 = e2
  e3 = e3
  Emitter <- MCEmitters
  NoMarker = NoMarker
  MaxKills = 1
  MaxCleanups = 1
SPECIFICATION FairSpec
INVARIANTS ReportedIsDurable NoOrphanMarker OneItemPerKey
PROPERTIES EmitReturns
CHECK_DEADLOCK FALSE
