CONSTANTS
  Process = {p1, p2, p3}
  NoLock = NoLock
  Dead = Dead
  Overlaps = FALSE
  Stalls = FALSE
  MaxKills = 2
  Faults = TRUE
SPECIFICATION SchedulerSpec
INVARIANTS  WorkerStarts 
PROPERTIES ServiceComesBack
