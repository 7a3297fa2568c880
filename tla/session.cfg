SPECIFICATION FairSpec
CONSTANTS
  Episodes = {e1, e2}
  NoEpisode = none
  MaxSessions = 2
  MaxQueued = 2
  Targets = {0, 1}
INVARIANTS
  Settled
  OneAtATime
  CountIsKept
PROPERTIES
  NeverFiledBehind
  MovedAsFiled
  ImplementsFiling
  QuitEnds
CHECK_DEADLOCK FALSE
