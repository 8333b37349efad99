SPECIFICATION Spec
CONSTANTS
  Waiters = {w1, w2, w3}
  Signalers = {s1}
  MaxWaits = 5
  MaxCalls = 4
  MaxInterrupts = 0
  Kinds = {FALSE}
  Interrupts = {}
  MAX_GROUP_SIZE = 4
CONSTRAINT OneAtATime
SYMMETRY Symmetry
CHECK_DEADLOCK FALSE
INVARIANT NoLostWakeup
