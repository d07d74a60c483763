SPECIFICATION Spec
CONSTANTS
  r1 = r1 a = a b = b c = c d = d
  None = None
  Roots = {r1}
  Subs = {a, b, c, d}
  MaxDepth = 2
  MaxConcurrent = 1
  MaxGlobal = 1
  ChanCap = 1
  MaxFaults = 1
INVARIANTS
  TypeOK
  SlotsMatchRuns
PROPERTY SpawnsProceed
CHECK_DEADLOCK FALSE
