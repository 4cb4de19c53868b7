SPECIFICATION HooksSpec
CONSTANTS
  Core = {v1, v2}
  Bridge = Bridge
  Entry = {e1}
  Process = {p1, p2}
  Pair = 1
  None = None
  Gone = Gone
  MaxFaults = 1
  MaxEdits = 2
SYMMETRY Symmetry
CONSTRAINT Undisturbed
CHECK_DEADLOCK FALSE
INVARIANTS HookOnce HooksGone 
