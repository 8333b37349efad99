SPECIFICATION Spec
CONSTANTS
  Waiters = {w1, w2}
  Signalers = {s1}
  MaxWaits = 3
  MaxCalls = 3
  MaxInterrupts = 2
  Kinds = {TRUE, FALSE}
  Interrupts = {"not_unlocked", "spurious", "timed_out", "cancelled"}
  MAX_GROUP_SIZE = 1
SYMMETRY Symmetry
CHECK_DEADLOCK FALSE
INVARIANTS
  LockMovesOn
  WakeupsArrive
  SleepersAreCurrent
  SizesAgree
  DestroyedAfterUse
