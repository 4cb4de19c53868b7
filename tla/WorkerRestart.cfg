CONSTANTS
  Process = {p1}
  NoLock = NoLock
  Dead = Dead
  Overlaps = FALSE
  Stalls = FALSE
  MaxKills = 1
  Faults = FALSE
SPECIFICATION SchedulerSpec
PROPERTIES WorkerComesBack
