SPECIFICATION CanalSpec
CONSTANTS
  Vessels = {v1, v2, v3, v4}
  NumOfCranes = 2
  NoVessel = NoVessel
SYMMETRY Symmetry
CHECK_DEADLOCK FALSE
INVARIANTS TypeOK FifoBarrier CraneExclusive JobHandover SoundUnlessOvertaken CanalGoesOn OnePlace HaifaCount
PROPERTIES ImplementsJourney
