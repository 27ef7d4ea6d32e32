SPECIFICATION FairSpec
CONSTANTS
  N = 2
  Cars = {c1, c2, c3, c4}
  NoCar = NoCar
INVARIANTS NoCircularWait
PROPERTIES CarsKeepMoving CircleKeepsTurning
CHECK_DEADLOCK FALSE
