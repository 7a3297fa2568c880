SPECIFICATION Spec
CONSTANTS
  MaxGrip = 1
  OpenAperture = 0
  OpenMax = 0
  Controllers = {"native", "finish"}
INVARIANTS
  CleanHandover
  LetGoHonoured
  OneLateTick
  DeathSurfaces
  LatchFloorsMailbox
PROPERTIES
  ImplementsGrip
CHECK_DEADLOCK FALSE
