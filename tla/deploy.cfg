SPECIFICATION FairSpec
CONSTANTS
  NumEpisodes = 3
  MaxTakes = 4
INVARIANTS
  Settled
  OneTakePerIndex
  OneLateTake
  RebuiltFirst
PROPERTIES
  ImplementsFiling
  CampaignEnds
CHECK_DEADLOCK FALSE
