SPECIFICATION Spec
CONSTANTS
  c1 = c1 c2 = c2 e1 = e1 z1 = z1 p1 = p1
  None = None
  Clients = {c1, c2}
  BitOf <- TwoCalls
  Evolvers = {e1}
  Sleepers = {z1}
  Listeners = {}
  MaxTimers = 1
INVARIANTS
  TypeOK
  CountsMatchHolders
  InferencePreempts
PROPERTY SuspendedVetoes
