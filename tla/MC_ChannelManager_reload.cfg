SPECIFICATION Spec
CONSTANTS
  t = t
  w = w
  None = None
  Names <- MC_Names
  Last = 2
  Dest <- MC_Dest
  QueueCap = 1
  MaxReloads = 2
  MaxBuilt = 3
INVARIANT ReloadedHaveWorkers
CHECK_DEADLOCK FALSE
