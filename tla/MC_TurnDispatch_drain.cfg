SPECIFICATION Spec
CONSTANTS
  m1 = m1 m2 = m2 m3 = m3 m4 = m4 s1 = s1 s2 = s2
  None = None
  Msgs <- ThreeMsgs
  Sessions = {s1}
  SessionOf <- ThreeOfOne
  StopMsgs = {}
  MaxWorkers = 2
  MaxQueueSize = 1
  DrainAll = FALSE
  HasDeadline = FALSE
  ReloadFaults = FALSE
  MayPanic = FALSE
PROPERTY QueuedBehindWorkerDrains
