SPECIFICATION Spec
CONSTANT
  Setups <- AllSetups
INVARIANTS
  LatchedMeansHeld
  LatchedGripperOpens
  OneLateServo
  GlideIsFresh
PROPERTIES
  MovesUnderTrip
