SPECIFICATION Spec
CONSTANTS
  Episodes = {e1}
  NoEpisode = none
  MaxSessions = 2
  MaxQueued = 2
  Targets = {0, 1}
INVARIANTS
  NeverStranded
CHECK_DEADLOCK FALSE
