SPECIFICATION Spec
CONSTANTS
  N = 3
  Cars = {c1, c2, c3}
  NoCar = NoCar
SYMMETRY Symmetry
INVARIANTS IndInv OneCarPerSquare
PROPERTIES NoOverwrite ImplementsCircle
