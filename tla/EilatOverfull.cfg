SPECIFICATION Spec
CONSTANTS
  Vessels = {v1, v2, v3, v4}
  NumOfCranes = 2
  NoVessel = NoVessel
SYMMETRY Symmetry
CHECK_DEADLOCK FALSE
INVARIANTS NeverOverfull
