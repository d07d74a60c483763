SPECIFICATION Spec
CONSTANTS
  c1 = c1 c2 = c2 e1 = e1 z1 = z1 p1 = p1
  None = None
  Clients = {c1, c2}
  BitOf <- CallAndReflex
  Evolvers = {e1}
  Sleepers = {}
  Listeners = {p1}
  MaxTimers = 1
INVARIANT NoStaleListener
PROPERTIES
  WaiterWakes
  DreamYields
  TriggerNotLost
