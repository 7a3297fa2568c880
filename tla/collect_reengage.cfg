SPECIFICATION Spec
CONSTANT
  Setups <- StopSetups
INVARIANTS
  NothingAutoResumes
