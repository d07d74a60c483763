SPECIFICATION Spec
CONSTANTS
  m1 = m1 m2 = m2 m3 = m3 m4 = m4 s1 = s1 s2 = s2
  None = None
  Msgs <- MsgsDef
  Sessions = {s1}
  SessionOf <- OneSession
  StopMsgs = {m4}
  MaxWorkers = 2
  MaxQueueSize = 1
  DrainAll = FALSE
  HasDeadline = TRUE
  ReloadFaults = TRUE
  MayPanic = TRUE
INVARIANTS
  TypeOK
  OneTurnUnlessStolen
  TokensMatchWorkers
  EntryHasLiveOwner
  EveryMessageAccounted
PROPERTY WorkersReturn
