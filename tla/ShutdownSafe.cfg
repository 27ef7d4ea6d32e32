SPECIFICATION Spec
CONSTANTS
  Generators = {g1, g2}
  NoGenerator = NoGenerator
  MaxCars = 3
SYMMETRY Symmetry
CHECK_DEADLOCK FALSE
INVARIANTS UniqueIds RegistryIsLive OneLateCar
