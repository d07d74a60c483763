SPECIFICATION Spec
CONSTANTS
  old1 = old1
  old2 = old2
  opaque = opaque
  c1 = c1
  c2 = c2
  m1 = m1
  m2 = m2
  Keys <- MC_Keys
  Rank <- MC_Rank
  Shard <- MC_Shard
  Aliases <- MC_Aliases
  Callers <- MC_Callers
  Msgs = {m1, m2}
  Torn = Torn
  None = None
  MaxCalls = 4
  MaxFaults = 1
SYMMETRY Symmetry
INVARIANTS TypeOK MethodsAtomic NothingLost RingsCollide
CHECK_DEADLOCK FALSE
