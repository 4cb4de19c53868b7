CONSTANTS
  p1 = p1
  p2 = p2
  k1 = k1
  k2 = k2
  f1 = f1
  none = none
  nolock = nolock
  Producer <- MCProducers
  Key <- MCKeys
  Forwarder <- MCOneForwarder
  None <- none
  NoLock <- nolock
  Backoff <- MCBackoff
  Lease = 1
  Capacity = 1
  Drains = TRUE
  MaxKills = 1
SPECIFICATION OutboxSpec
SYMMETRY MCSymmetry
INVARIANTS NoLostDelivery OneEnvelope SendBudget CapacityKept TestReport
CHECK_DEADLOCK FALSE
