SPECIFICATION Spec
CONSTANTS
  a1 = a1
  a2 = a2
  b1 = b1
  p = p
  q = q
  Arms <- MCArms
  Processes = {p, q}
  ProcessOf <- MCProcessOf
  NoArm = noarm
  Stray = stray
INVARIANTS
  SlotIsUsed
