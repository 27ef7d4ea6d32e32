SPECIFICATION FairSpec
CONSTANTS
  Vessels = {v1, v2, v3, v4}
  NumOfCranes = 2
  NoVessel = NoVessel
CHECK_DEADLOCK FALSE
PROPERTIES ReleasedVesselsSettle
