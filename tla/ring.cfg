SPECIFICATION Spec
CONSTANTS
  Readers = {r1}
  Capacity = 2
  NumFields = 1
  MaxPush = 6
INVARIANTS
  CopiedRowsWhole
  DamageIsLater
PROPERTIES
  ImplementsRowLog
