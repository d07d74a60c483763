SPECIFICATION Spec
CONSTANTS
  a = a b = b c = c d = d in = in out = out x = x y = y
  None = None
  Streams = {in, out}
  Msgs = {a, b, c, d}
  StreamOf <- StreamOfDef
  Capacity = 1
  Closers = {x, y}
INVARIANTS
  TypeOK
  NoSendOnClosed
  AcceptedOnce
PROPERTIES
  CloseTerminates
  MailSpec
CHECK_DEADLOCK FALSE
