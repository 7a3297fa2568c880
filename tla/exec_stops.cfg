SPECIFICATION FairSpec
CONSTANTS
  MaxGrip = 0
  OpenAperture = 0
  OpenMax = 0
  Controllers = {"native", "release"}
PROPERTIES
  StopEndsEpisode
CHECK_DEADLOCK FALSE
