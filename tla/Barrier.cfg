\* Three threads at a barrier for two: a third round begins, beyond the threshold of
\* four positions.  No symmetry: the properties are temporal.
SPECIFICATION FairSpec
CONSTANTS
  Threads = {t1, t2, t3}
  count = 2
  BARRIER_IN_THRESHOLD = 5
  DestroyAtThreshold = FALSE
INVARIANTS
  NoUseAfterDestruction
  EnteredMinusLeft
PROPERTIES
  ImplementsRounds
  DestroyReturns
  ResetWakes
