SPECIFICATION FairSpec
CONSTANTS
  Episodes = {e1, e2}
  Files = {f1, f2}
  Dir = dir
  KeepLocal = FALSE
INVARIANTS
  EpisodeKept
PROPERTIES
  ImplementsMove
  RetrySucceeds
CHECK_DEADLOCK FALSE
