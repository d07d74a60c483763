SPECIFICATION Spec
CONSTANTS
  Sustain = 2
  MaxThrottled = 2
INVARIANTS
  TypeOK
  ThrottleHeldOnce
PROPERTIES
  MovesAreSustained
  GuardResumes
