SPECIFICATION Spec
CONSTANTS
  p = p
  o = o
  g1 = g1
  g2 = g2
  cli = cli
  Jobs <- MC_Jobs
  Periodic <- MC_Periodic
  Gens <- MC_Gens
  Cli = cli
  None = None
  Every = 1
  At = 1
  Retry = 1
  MaxFails = 2
  MaxJobs = 1
  MaxNow = 2
  MaxOps = 2
  MaxFaults = 1
INVARIANTS TypeOK CommandsKept EnabledIsScheduled
PROPERTIES OneShotOnce AutoDisableEarned DueIsCollected
