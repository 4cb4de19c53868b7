CONSTANTS
  p1 = p1
  k1 = k1
  f1 = f1
  h1 = h1
  h2 = h2
  none = none
  nolock = nolock
  Producer <- MCOneProducer
  Body <- MCOneProducer
  Key <- MCKeys
  DeliveryKey <- MCKeys
  Forwarder <- MCForwarders
  Handler <- MCHandlers
  None <- none
  NoBody <- none
  NoLock <- nolock
  Backoff <- MCBackoff
  Lease = 1
  Capacity = 1
  Drains = FALSE
  MaxKills = 1
  MaxSkew = 1
  Retention = 2
  MaxFailures = 1
SPECIFICATION RelaySpec
INVARIANTS AcknowledgedIsDurable EnqueuedOnce
PROPERTIES KeepsPromise
CHECK_DEADLOCK FALSE
