\* Two waiters and a poster in any roles, one of whom may be cancelled.  No symmetry:
\* TokensAreTaken is temporal.
SPECIFICATION FairSpec
CONSTANTS
  Threads = {t1, t2, t3}
  Cancellable = {t1}
  SEM_VALUE_MAX = 2
INVARIANTS
  WaitersAreCounted
  TokensHaveTakers
  NoUseAfterDestruction
PROPERTIES
  ImplementsTokens
  TokensAreTaken
