\* Three threads, so that two wait for the third; children that fork again,
\* and a cancelled initialization that is cancelled again.
SPECIFICATION FairSpec
CONSTANTS
  Threads = {t1, t2, t3}
  MaxForks = 3
  MaxCancels = 2
  ForkInInit = FALSE
INVARIANTS
  OneInitializer
  ReturnsInitialized
PROPERTY CallsReturn
